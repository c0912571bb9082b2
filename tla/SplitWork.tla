----------------------------- MODULE SplitWork -----------------------------
(***************************************************************************)
(* How dsdgen divides the rows of one table over the children of a         *)
(* parallel build: split_work() in parallel.c.  Every child is a process   *)
(* of its own that evaluates this on its own command line, so nothing but  *)
(* this arithmetic makes the chunks meet without a gap or an overlap.      *)
(***************************************************************************)
EXTENDS Integers

CONSTANT
  SmallTable     \* a table below this many rows is never divided (1000000)

ASSUME SmallTableAssumption == SmallTable \in Nat \ {0}

(* The value that stands for a command line without -parallel.             *)
Unset == 0

(* The children of a build.  Without -parallel, CHILD keeps its default 1. *)
Kids(par) == IF par = Unset THEN {1} ELSE 1 .. par

Extra(total, par) == total % par

Rowset(total, par) == (total - Extra(total, par)) \div par

LeastOf(a, b) == IF a < b THEN a ELSE b

Undivided(total, par) == total < SmallTable \/ par = Unset

(* The first row child c builds of a table of `total' rows.                *)
FirstRow(total, par, c) ==
  IF Undivided(total, par)
  THEN 1
  ELSE 1 + (c - 1) * Rowset(total, par) + LeastOf(c - 1, Extra(total, par))

(* Mutant: the extra rows go to the children 0..extra-1.                   *)
RowCountExtraFromZero(total, par, c) ==
  CASE total < SmallTable -> IF c > 1 THEN 0 ELSE total
    [] total >= SmallTable /\ par = Unset -> total
    [] OTHER -> Rowset(total, par) + IF c < Extra(total, par) THEN 1 ELSE 0

(* How many rows it builds.  A small table is built by the first child     *)
(* alone.                                                                  *)
RowCount(total, par, c) ==
  CASE total < SmallTable -> IF c > 1 THEN 0 ELSE total
    [] total >= SmallTable /\ par = Unset -> total
    [] OTHER -> Rowset(total, par) + IF c <= Extra(total, par) THEN 1 ELSE 0

(* The rows of child c.                                                    *)
Chunk(total, par, c) ==
  FirstRow(total, par, c) ..
    FirstRow(total, par, c) + RowCount(total, par, c) - 1
=============================================================================
