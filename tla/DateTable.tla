------------------------------ MODULE DateTable ------------------------------
(***************************************************************************)
(* The date dimension: mk_w_date() builds a row per day from the second of *)
(* January 1900 on, with the arithmetic of date.c.  The keys of the rows   *)
(* are the days other tables refer to.                                     *)
(***************************************************************************)
EXTENDS Dates

CONSTANT Rows  (* the rows of the table *)

ASSUME RowsAssumption == Rows \in Nat \ {0}

VARIABLES
  index,   (* the last row that was built; 0: none yet                     *)
  w_date   (* g_w_date: the row, which keeps its values until the next     *)

dateVars == <<index, w_date>>

-----------------------------------------------------------------------------
(***************************************************************************)
(* The entries of the calendar distribution, those of a leap year.         *)
(***************************************************************************)
EntryQuarter(i) == IF i < 92 THEN 1 ELSE IF i < 183 THEN 2 ELSE IF i < 275 THEN 3 ELSE 4
EntryHoliday(i) == IF i \in {1, 186, 360, 366} THEN 1 ELSE 0

-----------------------------------------------------------------------------
(***************************************************************************)
(* w_datetbl.c                                                             *)
(***************************************************************************)
Flag(cond) == IF cond THEN 1 ELSE 0

CURRENT_YEAR == 2003

BaseDate == dttoj(Date(1900, 1, 1))

NotCurrent == [month |-> 0, quarter |-> 0, week |-> 0]

quarter_seq(dt) == (dt.year - 1900) * 4 + dt.month \div 3 + 1

(* Mutant: the flags are set and never cleared.                            *)
currentSet(before, dt, row) ==
  IF dt.year = CURRENT_YEAR
  THEN [month   |-> IF dt.month = 1 THEN 1 ELSE before.month,
        quarter |-> IF EntryQuarter(day_number(dt)) = 1 THEN 1 ELSE before.quarter,
        week    |-> IF (row + 6) \div 7 = 2 THEN 1 ELSE before.week]
  ELSE before

(* The flags of CURRENT_MONTH, CURRENT_QUARTER and CURRENT_WEEK, which the *)
(* rows of other years leave as they are.                                  *)
current(before, dt, row) ==
  IF dt.year = CURRENT_YEAR
  THEN [month   |-> Flag(dt.month = 1),
        quarter |-> Flag(EntryQuarter(day_number(dt)) = 1),
        week    |-> Flag((row + 6) \div 7 = 2)]
  ELSE before

following_holiday(dt) ==
  LET day == day_number(dt)
  IN EntryHoliday(IF day = 1 THEN 365 + Flag(is_leap(dt.year - 1)) ELSE day - 1)

(* The columns of row k; the flags build on those of the row before.       *)
DateRow(k, before) ==
  LET sk == BaseDate + k
      dt == jtodt(sk)
  IN [sk |-> sk, year |-> dt.year, moy |-> dt.month, dom |-> dt.day,
      dow |-> set_dow(dt),
      week_seq |-> (k + 6) \div 7,
      month_seq |-> (dt.year - 1900) * 12 + dt.month - 1,
      quarter_seq |-> quarter_seq(dt),
      qoy |-> EntryQuarter(day_number(dt)),
      holiday |-> EntryHoliday(day_number(dt)),
      weekend |-> Flag(set_dow(dt) \in {5, 6}),
      following_holiday |-> following_holiday(dt),
      first_dom |-> OP_FIRST_DOM(dt), last_dom |-> OP_LAST_DOM(dt),
      same_day_ly |-> OP_SAME_LY(dt), same_day_lq |-> OP_SAME_LQ(dt),
      current_day |-> Flag(sk = 8), current_year |-> Flag(dt.year = CURRENT_YEAR),
      current |-> current(before, dt, k)]

mk_w_date ==
  /\ index < Rows
  /\ index' = index + 1
  /\ w_date' = DateRow(index + 1, w_date.current)

(* A row built by -validate, which clears the flags first.                 *)
vld_w_date(k) == DateRow(k, NotCurrent)

Finished == index = Rows /\ UNCHANGED dateVars

(* The first call clears the flags and no row is printed before it.        *)
DateInit == index = 0 /\ w_date = DateRow(0, NotCurrent)

DateNext == mk_w_date \/ Finished

DateSpec == DateInit /\ [][DateNext]_dateVars

-----------------------------------------------------------------------------
(***************************************************************************)
(* Properties.                                                             *)
(***************************************************************************)

RowDate == Date(w_date.year, w_date.moy, w_date.dom)

(* jtodt() follows the calendar through all its leap years, the two        *)
(* centuries among them; and dttoj() takes a row's date back to its key,   *)
(* so that the operations on dates, which go through both, agree with the  *)
(* keys other tables hold.                                                 *)
DayFollows ==
  /\ RowDate' = DayAfter(RowDate)
  /\ dttoj(RowDate') = w_date'.sk

(* Weekdays follow each other, although all century years are taken for    *)
(* leap years: only the first two months of 1900 and 2100 are a day off.   *)
WeekdayFollows ==
  \/ w_date'.dow = (w_date.dow + 1) % 7
  \/ /\ w_date'.dom = 1 /\ w_date'.moy \in {1, 3}
     /\ is_leap(w_date'.year) # LeapYear(w_date'.year)

(* The sequence numbers of weeks, months and quarters never fall or leave  *)
(* one out; the month sequence turns with the date.                        *)
SequencesClimb ==
  /\ w_date'.week_seq - w_date.week_seq \in {0, 1}
  /\ w_date'.month_seq - w_date.month_seq = Flag(w_date'.dom = 1)
  /\ w_date'.quarter_seq - w_date.quarter_seq
       = Flag(w_date'.dom = 1 /\ w_date'.moy % 3 = 0)

(* Each row is dated the day after the row before, and its weekday and     *)
(* sequence numbers, each computed from its date alone, go on from those.  *)
RowsFollow ==
  [][index' # index => DayFollows /\ WeekdayFollows /\ SequencesClimb]_dateVars

(* The days a row refers back to are days of the calendar: the same date   *)
(* of last year, the last of February for a leap day; and as far into the  *)
(* last quarter, at most a day beyond its end.  The row's own quarter is   *)
(* looked up by a place in a leap year: it is that of the month, save for  *)
(* the day a later quarter of a common year begins with, which still       *)
(* counts to the one before.                                               *)
EarlierDays ==
  LET ly == jtodt(w_date.same_day_ly)
      quarter == (w_date.moy - 1) \div 3 + 1
      late == /\ ~is_leap(w_date.year)
              /\ w_date.dom = 1 /\ w_date.moy \in {4, 7, 10}
  IN /\ ly.year = w_date.year - 1 /\ ly.month = w_date.moy
     /\ ly.day = IF w_date.moy = 2 /\ w_date.dom = 29 THEN 28 ELSE w_date.dom
     /\ w_date.same_day_lq \in w_date.sk - 92 .. w_date.sk - 90
     /\ w_date.same_day_lq <= dttoj(Date(w_date.year, 3 * quarter - 2, 1))
     /\ jtodt(w_date.first_dom) = [RowDate EXCEPT !.day = 1]
     /\ w_date.qoy = IF late THEN quarter - 1 ELSE quarter

(* The flags of the current month, quarter and week, which outlast the row *)
(* they were set by, never show in a row they do not belong to: each row   *)
(* is the one -validate builds from scratch.                               *)
FlagsDoNotLinger == index > 0 => w_date = vld_w_date(index)
==============================================================================
