------------------------------ MODULE JavaDates ------------------------------
(***************************************************************************)
(* The Java port's Date, CalendarDistribution and DateDimRowGenerator.     *)
(* They are written anew, over dates without a Julian number, and copy     *)
(* what is odd in date.c on purpose; the port is of use only if its rows   *)
(* are those of dsdgen.                                                    *)
(***************************************************************************)
EXTENDS DateTable

getDaysInMonth(month, year) ==
  CASE month \in {1, 3, 5, 7, 8, 10, 12} -> 31
    [] month \in {4, 6, 9, 11} -> 30
    [] OTHER -> IF isLeapYear(year) THEN 29 ELSE 28

(* The constructor refuses a day its month does not have.                  *)
Accepted(d) == /\ d.year > 0 /\ d.month \in 1 .. 12
               /\ d.day \in 1 .. getDaysInMonth(d.month, d.year)

(* fromJulianDays() and toJulianDays() are jtodt() and dttoj() again.      *)
fromJulianDays(n) == jtodt(n)

toJulianDays(d) ==
  LET early == IF d.month <= 2 THEN 1 ELSE 0
      m == d.month + 12 * early
      y == d.year - early
  IN d.day + (153 * m - 457) \div 5
     + 365 * y + y \div 4 - y \div 100 + y \div 400 + 1721118 + 1

getDaysThroughFirstOfMonth(d) ==
  m_days[IF isLeapYear(d.year) THEN 2 ELSE 1][d.month]

getDayIndex(d) == getDaysThroughFirstOfMonth(d) + d.day

(* Mutant: the days of the month, as the name says.                        *)
computeLastDateOfMonthTrue(d) ==
  fromJulianDays(toJulianDays(d) - d.day + getDaysInMonth(d.month, d.year))

computeLastDateOfMonth(d) ==
  fromJulianDays(toJulianDays(d) - d.day + getDaysThroughFirstOfMonth(d))

computeSameDayLastYear(d) ==
  LET leapDay == isLeapYear(d.year) /\ d.month = 2 /\ d.day = 29
  IN Date(d.year - 1, d.month, IF leapDay THEN 28 ELSE d.day)

(* Quarters count from 0.                                                  *)
computeSameDayLastQuarter(d) ==
  LET quarter == (d.month - 1) \div 3
      since == toJulianDays(d) - toJulianDays(Date(d.year, quarter * 3 + 1, 1))
      last  == IF quarter > 0 THEN Date(d.year, (quarter - 1) * 3 + 1, 1)
                              ELSE Date(d.year - 1, 10, 1)
  IN fromJulianDays(toJulianDays(last) + since)

computeDayOfWeek(d) ==
  LET known == IF isLeapYear(d.year)
               THEN <<4, 1, 0, 4, 9, 6, 11, 8, 5, 10, 7, 12>>
               ELSE <<3, 0, 0, 4, 9, 6, 11, 8, 5, 10, 7, 12>>
      anchor == <<3, 2, 0, 5>>[1 + ((d.year \div 100 - 15) % 4)]
      q == (d.year % 100) \div 12
      r == (d.year % 100) % 12
      s == r \div 4
  IN (((d.day - known[d.month]) % 7) + ((anchor + q + r + s) % 7)) % 7

(* The flags of the current month, quarter and week are worked out for     *)
(* each row from nothing.                                                  *)
DateDimRow(rowNumber) ==
  LET sk == rowNumber + toJulianDays(Date(1900, 1, 1))
      d  == fromJulianDays(sk)
      day == getDayIndex(d)
      weekSeq == (rowNumber + 6) \div 7
      thisYear == d.year = CURRENT_YEAR
  IN [sk |-> sk, year |-> d.year, moy |-> d.month, dom |-> d.day,
      dow |-> computeDayOfWeek(d),
      week_seq |-> weekSeq,
      month_seq |-> (d.year - 1900) * 12 + d.month - 1,
      quarter_seq |-> (d.year - 1900) * 4 + d.month \div 3 + 1,
      qoy |-> EntryQuarter(day),
      holiday |-> EntryHoliday(day),
      weekend |-> Flag(computeDayOfWeek(d) \in {5, 6}),
      following_holiday |->
        EntryHoliday(IF day = 1 THEN 365 + Flag(isLeapYear(d.year - 1)) ELSE day - 1),
      first_dom |-> toJulianDays(Date(d.year, d.month, 1)),
      last_dom |-> toJulianDays(computeLastDateOfMonth(d)),
      same_day_ly |-> toJulianDays(computeSameDayLastYear(d)),
      same_day_lq |-> toJulianDays(computeSameDayLastQuarter(d)),
      current_day |-> Flag(sk = 8), current_year |-> Flag(thisYear),
      current |-> [month   |-> Flag(thisYear /\ d.month = 1),
                   quarter |-> Flag(thisYear /\ EntryQuarter(day) = 1),
                   week    |-> Flag(thisYear /\ weekSeq = 2)]]

(* The port's row is the row dsdgen writes, in all its columns, and no     *)
(* date on the way to it is one the port's constructor refuses.            *)
PortBuildsSameDate ==
  LET d == fromJulianDays(w_date.sk)
  IN index > 0 =>
       /\ DateDimRow(index) = w_date
       /\ Accepted(d) /\ Accepted(computeSameDayLastYear(d))
       /\ Accepted(computeLastDateOfMonth(d))
       /\ Accepted(computeSameDayLastQuarter(d))
==============================================================================
