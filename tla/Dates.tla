-------------------------------- MODULE Dates --------------------------------
(***************************************************************************)
(* date.c: the arithmetic of dates, which the date dimension, the update   *)
(* sets and the Java port rely on.  Days are Julian numbers; a date is the *)
(* record the code keeps of one.                                           *)
(***************************************************************************)
EXTENDS Integers, Sequences

(* Days in the year before each month, of a common and a leap year.        *)
m_days ==
  <<<<0, 31, 59, 90, 120, 151, 181, 212, 243, 273, 304, 334>>,
    <<0, 31, 60, 91, 121, 152, 182, 213, 244, 274, 305, 335>>>>

(* Century years are tested for an even remainder, so all of them leap.    *)
is_leap(year) ==
  IF year % 100 = 0 THEN (year % 400) % 2 = 0 ELSE year % 4 = 0

jtodt(src) ==
  LET l1 == src + 68569
      n  == (4 * l1) \div 146097
      l2 == l1 - (146097 * n + 3) \div 4
      i  == (4000 * (l2 + 1)) \div 1461001
      l3 == l2 - (1461 * i) \div 4 + 31
      j  == (80 * l3) \div 2447
      l4 == j \div 11
  IN [year |-> 100 * (n - 49) + i + l4, month |-> j + 2 - 12 * l4,
      day |-> l3 - (2447 * j) \div 80]

Date(y, m, d) == [year |-> y, month |-> m, day |-> d]

(* Mutant: the centuries are taken for leap years.                         *)
dttojCenturies(dt) ==
  LET m == IF dt.month <= 2 THEN dt.month + 12 ELSE dt.month
      y == IF dt.month <= 2 THEN dt.year - 1 ELSE dt.year
  IN dt.day + (153 * m - 457) \div 5 + 365 * y + y \div 4 + 1721118 + 1

(* January and February count to the year before.                          *)
dttoj(dt) ==
  LET m == IF dt.month <= 2 THEN dt.month + 12 ELSE dt.month
      y == IF dt.month <= 2 THEN dt.year - 1 ELSE dt.year
  IN dt.day + (153 * m - 457) \div 5
     + 365 * y + y \div 4 - y \div 100 + y \div 400 + 1721118 + 1

MonthStart(dt) == m_days[IF is_leap(dt.year) THEN 2 ELSE 1][dt.month]

(* The entry of the calendar distribution for a day: its place in the year.*)
day_number(dt) == MonthStart(dt) + dt.day

(* date_t_op()                                                             *)
OP_FIRST_DOM(dt) == dttoj(dt) - dt.day + 1
OP_LAST_DOM(dt)  == dttoj(dt) - dt.day + MonthStart(dt)

(* Mutant: the leap day is looked up in the year before.                   *)
OP_SAME_LYLeap(dt) == dttoj([dt EXCEPT !.year = @ - 1])

OP_SAME_LY(dt) ==
  LET leapDay == is_leap(dt.year) /\ dt.month = 2 /\ dt.day = 29
  IN dttoj(IF leapDay THEN Date(dt.year - 1, 2, 28)
                      ELSE [dt EXCEPT !.year = @ - 1])

(* qtr_start: the months the quarters begin with.                          *)
qtr_start == <<1, 4, 7, 10>>

OP_SAME_LQ(dt) ==
  LET q     == (dt.month - 1) \div 3 + 1
      since == dttoj(dt) - dttoj(Date(dt.year, qtr_start[q], 1))
  IN since + IF q = 1 THEN dttoj(Date(dt.year - 1, qtr_start[4], 1))
                      ELSE dttoj(Date(dt.year, qtr_start[q - 1], 1))

(* A day of each month, the same of the week in all of them.               *)
knownDay(dt) ==
  LET known == <<3, 0, 0, 4, 9, 6, 11, 8, 5, 10, 7, 12>>
  IN IF is_leap(dt.year) /\ dt.month <= 2
     THEN known[dt.month] + 1 ELSE known[dt.month]

doomsday(year) ==
  LET century == <<3, 2, 0, 5>>[1 + ((year \div 100 - 15) % 4)]
      q == (year % 100) \div 12
      r == (year % 100) % 12
  IN (century + q + r + r \div 4) % 7

set_dow(dt) == (((dt.day - knownDay(dt)) % 7) + doomsday(dt.year)) % 7

-----------------------------------------------------------------------------
(***************************************************************************)
(* Date.isLeapYear() of the Java port.                                     *)
(***************************************************************************)
isLeapYear(year) == year % 4 = 0

-----------------------------------------------------------------------------
(***************************************************************************)
(* The calendar all of them are to follow.                                 *)
(***************************************************************************)
(* The Gregorian calendar.                                                 *)
LeapYear(y) == y % 4 = 0 /\ (y % 100 # 0 \/ y % 400 = 0)
MonthDays(y, m) ==
  IF m = 2 THEN IF LeapYear(y) THEN 29 ELSE 28
           ELSE IF m \in {4, 6, 9, 11} THEN 30 ELSE 31
DayAfter(dt) ==
  IF dt.day < MonthDays(dt.year, dt.month)
  THEN Date(dt.year, dt.month, dt.day + 1)
  ELSE IF dt.month < 12 THEN Date(dt.year, dt.month + 1, 1)
                        ELSE Date(dt.year + 1, 1, 1)
==============================================================================
