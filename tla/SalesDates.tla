----------------------------- MODULE SalesDates -----------------------------
(***************************************************************************)
(* How the orders of catalog_sales get their dates.  Orders are numbered   *)
(* through the sales calendar: each day takes the number of orders that    *)
(* dateScaling() gives it.  mk_master() walks from day to day as its order *)
(* numbers grow; a child of a parallel build first finds the day of its    *)
(* first order with skipDays().  The day is kept in static variables and   *)
(* printed as cs_sold_date_sk, so a wrong start is wrong for all that      *)
(* follows.  (store_sales and web_sales walk the same way, but what they   *)
(* print is a date drawn at random.)                                       *)
(*                                                                         *)
(* Children share nothing, so one child of one build is modelled; which    *)
(* one is chosen at the start.  Days are counted from DATA_START_DATE.     *)
(***************************************************************************)
EXTENDS SplitWork

CONSTANTS
  Total,        (* get_rowcount() of the table                             *)
  RowsOn(_),    (* dateScaling(): the orders of a day                      *)
  DayEnd(_),    (* the last order of the days before day k, in a serial    *)
                (* build, whose first day takes one order more             *)
  LastDay,      (* the orders, and as many more as a day may take, fit on  *)
                (* the days before this one (dateScaling() takes any day)  *)
  Parallels     (* the -parallel settings of the checked builds            *)

ASSUME CalendarAssumption ==
  /\ Total \in Nat
  /\ LastDay \in Nat \ {0}
  /\ Parallels \subseteq {Unset} \cup 2 .. SmallTable
  /\ DayEnd(0) = 1
  /\ \A k \in 0 .. LastDay :
       /\ RowsOn(k) \in Nat
       /\ DayEnd(k) \in Nat
       /\ DayEnd(k + 1) = DayEnd(k) + RowsOn(k)
  /\ \A j, k \in 0 .. LastDay : j <= k => DayEnd(j) <= DayEnd(k)
  /\ \A k \in 0 .. LastDay : Total + RowsOn(k) <= DayEnd(LastDay)

VARIABLES
  parallel, child,   (* the command line                                   *)
  pc,                (* "skip": in skipDays(), "row": in gen_tbl(), "done" *)
  index,             (* index of skipDays()                                *)
  day,               (* jDate                                              *)
  end,               (* *pRemainder of skipDays(), then kNewDateIndex      *)
  row,               (* i of gen_tbl()                                     *)
  left,              (* kRowCount of gen_tbl()                             *)
  sold               (* the date each order got; Undated: not built here   *)

vars == <<parallel, child, pc, index, day, end, row, left, sold>>

Undated == -1

First == FirstRow(Total, parallel, child)
Count == RowCount(Total, parallel, child)

(* The end of the first day as skipDays() sets it before it looks whether  *)
(* there are days to skip.                                                 *)
Init ==
  /\ parallel \in Parallels
  /\ child \in Kids(parallel)
  /\ pc = IF Count > 0 THEN "skip" ELSE "done"
  /\ index = 1
  /\ day = 0
  /\ end = RowsOn(0) + 1
  /\ row = First
  /\ left = Count
  /\ sold = [r \in 1 .. Total |-> Undated]

(* skipDays(): one turn of its loop.                                       *)
SkipDay ==
  /\ pc = "skip"
  /\ index < First
  /\ index' = index + RowsOn(day)
  /\ day' = day + 1
  /\ end' = index'
  /\ UNCHANGED <<parallel, child, pc, row, left, sold>>

(* Mutant: the day is taken back when no day was skipped.                  *)
StartDayBefore(i, d) == d - 1

(* Mutant: the day is never taken back.                                    *)
StartDayAfter(i, d) == d

(* The day skipDays() returns when its loop has ended at index i, day d.   *)
StartDay(i, d) == IF i > First THEN d - 1 ELSE d

FoundDay ==
  /\ pc = "skip"
  /\ index >= First
  /\ day' = StartDay(index, day)
  /\ pc' = "row"
  /\ UNCHANGED <<parallel, child, index, end, row, left, sold>>

(* kNewDateIndex once mk_master() has moved to day d.                      *)
EndAfter(d) == end + RowsOn(d)

(* Mutant: the last order of a day is not on it.                           *)
InDayBeforeEnd == row < end

(* The order is on the day of the moment.                                  *)
InDay == row <= end

(* mk_master(): one turn of its loop.                                      *)
MoveDay ==
  /\ pc = "row"
  /\ left > 0
  /\ row > end
  /\ day' = day + 1
  /\ end' = EndAfter(day')
  /\ UNCHANGED <<parallel, child, pc, index, row, left, sold>>

(* The rest of mk_master() and of the row.                                 *)
BuildOrder ==
  /\ pc = "row"
  /\ left > 0
  /\ InDay
  /\ sold' = [sold EXCEPT ![row] = day]
  /\ row' = row + 1
  /\ left' = left - 1
  /\ UNCHANGED <<parallel, child, pc, index, day, end>>

Finish ==
  /\ pc = "row"
  /\ left = 0
  /\ pc' = "done"
  /\ UNCHANGED <<parallel, child, index, day, end, row, left, sold>>

Over == pc = "done" /\ UNCHANGED vars

Step == SkipDay \/ FoundDay \/ MoveDay \/ BuildOrder \/ Finish

Next == Step \/ Over

Spec     == Init /\ [][Next]_vars
FairSpec == Spec /\ WF_vars(Step)

-----------------------------------------------------------------------------
(***************************************************************************)
(* The Java port's walk over the same calendar.                            *)
(***************************************************************************)
(* The turns of its loop: after d of them index is DayEnd(d).              *)
DaysSkipped ==
  CHOOSE d \in 0 .. LastDay :
    DayEnd(d) >= First /\ \A e \in 0 .. d - 1 : DayEnd(e) < First

(* Mutant: the day after the last one skipped is never taken back.         *)
JulianDateAfter == DaysSkipped

JulianDate == IF DayEnd(DaysSkipped) > First THEN DaysSkipped - 1 ELSE DaysSkipped

skipDaysUntilFirstRowOfChunk ==
  [julianDate    |-> JulianDate,
   nextDateIndex |-> IF DaysSkipped = 0 THEN 1 + RowsOn(0) ELSE DayEnd(DaysSkipped)]

(* The day generateRowAndChildRows() has moved to by order r.              *)
DateOfOrder(r) ==
  LET pair == skipDaysUntilFirstRowOfChunk
      IsBy(d) == r <= pair.nextDateIndex + DayEnd(d + 1) - DayEnd(pair.julianDate + 1)
  IN CHOOSE d \in pair.julianDate .. LastDay :
       IsBy(d) /\ \A e \in pair.julianDate .. d - 1 : ~IsBy(e)

-----------------------------------------------------------------------------
(***************************************************************************)
(* Properties.                                                             *)
(***************************************************************************)

(* Day k is the day a serial build gives to order r.                       *)
OnDay(r, k) == (k = 0 \/ DayEnd(k) < r) /\ r <= DayEnd(k + 1)

(* The variables keep their types; no walk leaves the calendar.            *)
TypeOK ==
  /\ parallel \in Parallels
  /\ child \in Nat \ {0}
  /\ pc \in {"skip", "row", "done"}
  /\ index \in Nat
  /\ day \in 0 .. LastDay
  /\ end \in Nat
  /\ row \in Nat
  /\ left \in Nat
  /\ sold \in [1 .. Total -> {Undated} \cup 0 .. LastDay]

(* The first order of the chunk is the last order of a day.                *)
Aligned == \E k \in 1 .. LastDay : DayEnd(k) = First

(* Every order is dated as in a serial build, and the chunk is dated       *)
(* whole, provided the chunk does not begin with the last order of a day.  *)
DatedAsSerial ==
  ~Aligned =>
    /\ \A r \in 1 .. Total : sold[r] # Undated => OnDay(r, sold[r])
    /\ pc = "done" => \A r \in Chunk(Total, parallel, child) : sold[r] # Undated

(* Both walks over the calendar end.                                       *)
Finishes == <>(pc = "done")

(* The Java port dates every order of a chunk as dsdgen does, where dsdgen *)
(* is a day off too.                                                       *)
PortDatesSame == \A r \in 1 .. Total : sold[r] # Undated => sold[r] = DateOfOrder(r)

(* What tools/parallel.sh expects: however a table is divided, an order    *)
(* comes out with the same date.  It fails for a chunk that begins with    *)
(* the last order of a day: skipDays() stops at index = first row with the *)
(* day after, and takes back the day only when index > first row.          *)
DatesAsSerial == \A r \in 1 .. Total : sold[r] # Undated => OnDay(r, sold[r])
=============================================================================
