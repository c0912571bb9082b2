---------------------------- MODULE MCSalesDates ----------------------------
(***************************************************************************)
(* Twenty-two orders over days of unequal numbers of orders, an empty day  *)
(* among them, in builds of up to nine children.                           *)
(***************************************************************************)
EXTENDS SalesDates, Functions

PerDay      == <<3, 1, 4, 0, 5, 2, 3, 1, 6, 4>>
MCRowsOn(d) == PerDay[1 + (d % 10)]
MCDayEnd(k) == FoldFunctionOnSet(+, 1, [d \in 0 .. 11 |-> MCRowsOn(d)], 0 .. k - 1)
Divisions   == {Unset} \cup 2 .. 9
=============================================================================
