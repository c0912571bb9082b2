----------------------------- MODULE MCUpdateSets -----------------------------
(***************************************************************************)
(* UpdateSets for TLC: every day that can be drawn, one season at a time;  *)
(* and, of a few days, what the processes of a directory do to each other. *)
(***************************************************************************)
EXTENDS UpdateSets

(* Two items of three rows in two warehouses; a few orders on each day.    *)
SmallRows == [ITEM |-> 3, WAREHOUSE |-> 2, STORE_SALES |-> 5400,
              CATALOG_SALES |-> 1800, WEB_SALES |-> 1800]

Years == 1998 .. 2002
Entries == {i \in 1 .. 366 : SeasonOf(i) # "none"}
At(i, y) == [entry |-> i, year |-> y]
SomeDay == [low |-> At(59, 2000), medium |-> At(305, 2001), high |-> At(366, 2002)]
AnotherDay == [low |-> At(213, 2001), medium |-> At(214, 2002), high |-> At(366, 2000)]

Alone(u) == [update |-> u, parallel |-> Unset, child |-> Unset,
             force |-> FALSE, filter |-> FALSE]
ChildOf(u, n) == [Alone(u) EXCEPT !.parallel = 2, !.child = n]
Forced(c) == [c EXCEPT !.force = TRUE]
Filtered(c) == [c EXCEPT !.filter = TRUE]

EveryDay ==
  [commands : {<<Alone(1)>>}, kills : {0}, beyond : BOOLEAN,
   drawn : {<<[SomeDay EXCEPT ![SeasonOf(i)] = At(i, y)]>> : i \in Entries, y \in Years}]

Crowds ==
  {<<ChildOf(1, 1), ChildOf(1, 2)>>, <<Forced(ChildOf(1, 1)), Forced(ChildOf(1, 2))>>,
   <<Forced(ChildOf(1, 1)), Forced(ChildOf(2, 1))>>, <<Alone(1), Alone(2)>>,
   <<Forced(ChildOf(1, 1)), Forced(ChildOf(1, 2)), Forced(ChildOf(2, 2))>>,
   <<Forced(Filtered(ChildOf(1, 1))), Forced(ChildOf(1, 2))>>}
Directories ==
  [commands : Crowds, kills : {0, 1}, beyond : {FALSE}, drawn : {<<SomeDay, AnotherDay>>}]

AllSessions == EveryDay \cup Directories
===============================================================================
