---------------------------- MODULE MCVersionJoins ----------------------------
(***************************************************************************)
(* The period of the data; the days on both sides of every change of a     *)
(* version, as dated by each table and by the joins, and its ends.         *)
(***************************************************************************)
EXTENDS VersionJoins

Changes == {MinimumDate, H1DataDate, T1DataDate, T2DataDate, MaximumDate}

MCDays ==
  LET near == UNION {{c - 1, c, c + 1} : c \in Changes}
      dated == UNION {{d + Stagger(t) : d \in near} : t \in Tables}
  IN {d \in near \cup dated : d >= MinimumDate}
==============================================================================
