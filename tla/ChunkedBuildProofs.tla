------------------------- MODULE ChunkedBuildProofs -------------------------
(***************************************************************************)
(* A child of a parallel build finds every stream where a serial build has *)
(* it, for every set of tables and streams, every number of rows that fits *)
(* an int, every number of children and any number of kills; and what the  *)
(* children leave on disk is the serial build's data set.                  *)
(***************************************************************************)
EXTENDS ChunkedBuild, ArithmeticProofs, FiniteSetTheorems, TLAPS

(***************************************************************************)
(* The operators.                                                          *)
(***************************************************************************)

(* A number brought into an interval is in it.                             *)
LEMMA GenrandType ==
  ASSUME NEW s \in Stream, NEW p \in Nat, NEW min \in Nat, NEW max \in Nat,
         min <= max
  PROVE  GenrandInteger(s, p, min, max) \in min .. max
<1>1. p % Period \in 0 .. Period - 1
  BY LineAssumption
<1>2. Random[s][p % Period] \in Nat
  BY <1>1, LineAssumption
<1> DEFINE x == Random[s][p % Period]
           n == max - min + 1
<1>3. n \in Nat \ {0}
  OBVIOUS
<1>4. x \in Nat
  BY <1>2
<1> HIDE DEF x, n
<1>5. x % n \in 0 .. n - 1
  BY <1>3, <1>4
<1> QED
  BY <1>5 DEF GenrandInteger, x, n

(* An order has between MinLines and MaxLines line items.                  *)
LEMMA LineCountType ==
  ASSUME NEW t \in Table, NEW p \in Nat
  PROVE  LineCount(t, p) \in MinLines .. MaxLines
BY GenrandType, LineAssumption DEF LineCount

(* A row leaves in each stream room for the draws of its line items, and   *)
(* draws nothing itself from the streams of a returns table.               *)
LEMMA RowDrawsType ==
  ASSUME NEW s \in Stream, NEW p \in Nat
  PROVE  /\ RowDraws(s, p) \in Nat
         /\ RowDraws(s, p) + MaxLines * PerLine[s] <= Budget[s]
         /\ IsChild(TableOf[s]) => RowDraws(s, p) = 0
<1>1. p % Period \in 0 .. Period - 1
  BY LineAssumption
<1> QED
  BY <1>1, StreamAssumption, BudgetAssumption DEF RowDraws

(* The children of the checked builds are positive numbers.                *)
LEMMA ChildType == Child \subseteq Nat \ {0}
BY BuildAssumption DEF Child, Kids, Unset

(* A table's family is the table and the one table of its returns.         *)
LEMMA FamilyType ==
  ASSUME NEW t \in Table
  PROVE  /\ Family(t) \subseteq Table
         /\ t \in Family(t)
         /\ IsParent(t) => ReturnsOf[t] \in Table /\ IsChild(ReturnsOf[t])
BY TableAssumption DEF Family, IsParent, IsChild, Table

(* Two tables that are built by themselves have no stream in common.       *)
LEMMA FamiliesApart ==
  ASSUME NEW t \in Table, NEW u \in Table, ~IsChild(t), ~IsChild(u), t # u
  PROVE  Streams(Family(t)) \cap Streams(Family(u)) = {}
<1>1. Family(t) \cap Family(u) = {}
  BY TableAssumption DEF Family, IsParent, IsChild
<1> QED
  BY <1>1 DEF Streams

(* What split_work() gives a child: a first row that an int can hold when  *)
(* the table's rows can be counted in one, and, of a table whose first row *)
(* it does not skip, rows only for the first child.                        *)
LEMMA ShareType ==
  ASSUME NEW par \in Parallels, NEW c \in Kids(par), NEW total \in Nat
  PROVE  /\ FirstRow(total, par, c) \in Nat \ {0}
         /\ RowCount(total, par, c) \in Nat
         /\ RowCount(total, par, c) > 0 => FirstRow(total, par, c) <= total
         /\ c = 1 => FirstRow(total, par, c) = 1
         /\ FirstRow(total, par, c) = 1 /\ RowCount(total, par, c) > 0 => c = 1
<1>1. par \in Nat /\ (par = Unset \/ par \in 2 .. SmallTable)
  BY BuildAssumption, SmallTableAssumption DEF Unset
<1>2. c \in Nat \ {0} /\ (par = Unset => c = 1)
  BY <1>1 DEF Kids, Unset
<1>3. CASE Undivided(total, par)
  <2>1. FirstRow(total, par, c) = 1
    BY <1>3 DEF FirstRow
  <2>2. RowCount(total, par, c) = IF total < SmallTable /\ c > 1 THEN 0 ELSE total
    BY <1>3, SmallTableAssumption DEF RowCount, Undivided
  <2>3. RowCount(total, par, c) > 0 => c = 1
    BY <1>2, <1>3, <2>2 DEF Undivided
  <2> QED
    BY <2>1, <2>2, <2>3
<1>4. CASE ~Undivided(total, par)
  <2> DEFINE q == Rowset(total, par)
             e == Extra(total, par)
  <2>1. /\ par \in Nat \ {0}
        /\ c \in 1 .. par
        /\ total >= SmallTable
        /\ total >= par
    BY <1>1, <1>4, SmallTableAssumption DEF Undivided, Kids, Unset
  <2>2. /\ FirstRow(total, par, c) \in Nat \ {0}
        /\ RowCount(total, par, c) \in Nat
        /\ FirstRow(total, par, c) + RowCount(total, par, c) <= total + 1
    BY <2>1, ChunkWithinTable
  <2>3. FirstRow(total, par, c) = 1 + (c - 1) * q + LeastOf(c - 1, e)
    BY <2>1, DividedChunk
  <2>4. q \in Nat /\ e \in 0 .. par - 1 /\ total = par * q + e
    BY <2>1, DivisionLaw
  <2> HIDE DEF q, e
  <2>5. q # 0
    BY <2>1, <2>4
  <2>6. c = 1 => FirstRow(total, par, c) = 1
    BY <2>3, <2>4 DEF LeastOf
  <2>7. ASSUME c # 1 PROVE FirstRow(total, par, c) # 1
    <3>1. 1 * q <= (c - 1) * q /\ (c - 1) * q \in Nat
      BY <2>1, <2>4, <2>7, TimesMonotone
    <3>2. LeastOf(c - 1, e) \in Nat
      BY <2>1, <2>4 DEF LeastOf
    <3> QED
      BY <2>3, <2>4, <2>5, <3>1, <3>2
  <2> QED
    BY <2>2, <2>6, <2>7
<1> QED
  BY <1>3, <1>4

(* A number of rows that an int can hold comes through the cast unchanged. *)
LEMMA AsIntKeeps ==
  ASSUME NEW n \in Nat, n <= IntMax
  PROVE  AsInt(n) = n
<1>1. IntMax \in Int /\ IntMax < IntRange /\ IntRange \in Nat \ {0}
  BY BuildAssumption DEF IntMax
<1>2. n % IntRange = n
  BY <1>1
<1> QED
  BY <1>1, <1>2 DEF AsInt

(***************************************************************************)
(* Types.  What keeps the counters from going below zero and the table     *)
(* number inside the tables is where each process is in its loops.         *)
(***************************************************************************)

InTable(c) == pc[c] \in {"row", "line", "sale", "stop"}

Control ==
  \A c \in Child :
    /\ pc[c] # "idle" => c \in Kids(parallel)
    /\ InTable(c) => tab[c] \in Table /\ ~IsChild(tab[c])
    /\ pc[c] \in {"line", "sale", "stop"} => left[c] > 0
    /\ pc[c] \in {"line", "sale"} => IsParent(tab[c]) /\ lines[c] > 0

TInv == TypeOK /\ Control

LEMMA InitTypes == Init => TInv
<1> SUFFICES ASSUME Init PROVE TInv
  OBVIOUS
<1>1. 1 \in 1 .. NTable + 1
  BY TableAssumption
<1>2. file \in [Child -> [Table -> Seq(Lines)]]
  <2>1. [t \in Table |-> <<>>] \in [Table -> Seq(Lines)]
    OBVIOUS
  <2> QED
    BY <2>1 DEF Init
<1>3. crashes \in 0 .. MaxCrashes
  BY BuildAssumption DEF Init
<1>4. TypeOK
  BY <1>1, <1>2, <1>3, LineAssumption DEF Init, TypeOK, Places
<1>5. Control
  BY DEF Init, Control, InTable
<1> QED
  BY <1>4, <1>5 DEF TInv

(* The memory of a process that has ended.                                 *)
LEMMA StopTypes ==
  ASSUME TInv, NEW c \in Child, NEW status \in {"idle", "done", "failed"},
         status # "idle" => pc[c] # "idle",
         Stop(c, status), UNCHANGED options
  PROVE  /\ pc' \in [Child -> {"idle", "table", "row", "line", "sale", "stop",
                               "done", "failed"}]
         /\ tab' \in [Child -> 1 .. NTable + 1]
         /\ row' \in [Child -> Nat]
         /\ left' \in [Child -> Nat]
         /\ lines' \in [Child -> 0 .. MaxLines]
         /\ at' \in [Child -> Places]
         /\ used' \in [Child -> Places]
         /\ open' \in [Child -> SUBSET Table]
         /\ \A d \in Child : open'[d] \subseteq open[d]
         /\ Control'
<1>1. 1 \in 1 .. NTable + 1 /\ 0 \in 0 .. MaxLines
  BY TableAssumption, LineAssumption
<1>2. [s \in Stream |-> 0] \in Places
  BY DEF Places
<1>3. Control'
  BY DEF TInv, TypeOK, Control, InTable, Stop, options
<1> QED
  BY <1>1, <1>2, <1>3 DEF TInv, TypeOK, Stop

(* A printed line.                                                         *)
LEMMA EmitTypes ==
  ASSUME TInv, NEW c \in Child, NEW t \in Table, NEW r \in Nat, NEW k \in Nat,
         NEW places \in Places, Emit(c, t, Line(t, r, k, places))
  PROVE  /\ open' \in [Child -> SUBSET Table]
         /\ created' \in [Child -> SUBSET Table]
         /\ file' \in [Child -> [Table -> Seq(Lines)]]
         /\ \A d \in Child : open'[d] \subseteq created'[d]
<1> DEFINE x == Line(t, r, k, places)
<1>1. x \in Lines
  BY DEF Line, Lines, Places
<1> HIDE DEF x
<1>2. <<x>> \in Seq(Lines) /\ \A f \in Seq(Lines) : Append(f, x) \in Seq(Lines)
  BY <1>1
<1>3. file' \in [Child -> [Table -> Seq(Lines)]]
  BY <1>2 DEF TInv, TypeOK, Emit, x
<1>4. open' \in [Child -> SUBSET Table] /\ created' \in [Child -> SUBSET Table]
  BY DEF TInv, TypeOK, Emit
<1>5. \A d \in Child : open'[d] \subseteq created'[d]
  BY DEF TInv, TypeOK, Emit
<1> QED
  BY <1>3, <1>4, <1>5

(* Draws.                                                                  *)
LEMMA DrawTypes ==
  ASSUME TInv, NEW c \in Child, NEW n \in Places, Draw(c, n)
  PROVE  at' \in [Child -> Places] /\ used' \in [Child -> Places]
BY DEF TInv, TypeOK, Draw, Places

LEMMA DrawsAreCounts ==
  ASSUME TInv, NEW c \in Child
  PROVE  /\ \A t \in Table : MasterDraws(c, t) \in Places
         /\ \A T \in SUBSET Table : LineDraws(T) \in Places
<1>1. \A t \in Table : MasterDraws(c, t) \in Places
  <2> SUFFICES ASSUME NEW t \in Table, NEW s \in Stream
               PROVE  RowDraws(s, at[c][s]) \in Nat
    BY DEF MasterDraws, Places
  <2>1. at[c][s] \in Nat
    BY DEF TInv, TypeOK, Places
  <2> QED
    BY <2>1, RowDrawsType
<1>2. \A T \in SUBSET Table : LineDraws(T) \in Places
  BY StreamAssumption DEF LineDraws, Places
<1> QED
  BY <1>1, <1>2

(* Every step keeps the types.                                             *)
LEMMA StepTypes ==
  ASSUME TInv, [Next]_vars
  PROVE  TInv'
<1> USE DEF TInv
<1>1. ASSUME NEW c \in Child, Launch(c) PROVE TInv'
  BY <1>1 DEF TypeOK, Control, InTable, Launch, options, memory, disk
<1>2. ASSUME NEW c \in Child, SkipTable(c) PROVE TInv'
  <2>1. tab[c] + 1 \in 1 .. NTable + 1
    BY <1>2, TableAssumption DEF SkipTable, Table
  <2> QED
    BY <1>2, <2>1 DEF TypeOK, Control, InTable, SkipTable, options, disk
<1>3. ASSUME NEW c \in Child, BeginTable(c) PROVE TInv'
  <2> DEFINE t == tab[c]
             first == FirstRow(Rows[t], parallel, c)
             moved == IF first # 1 THEN Skipped(t) ELSE {}
  <2>1. t \in Table /\ ~IsChild(t) /\ Rows[t] \in Nat
    BY <1>3, TableAssumption DEF BeginTable
  <2>2. parallel \in Parallels /\ c \in Kids(parallel)
    BY <1>3 DEF TypeOK, Control, BeginTable
  <2>3. first \in Nat \ {0} /\ RowCount(Rows[t], parallel, c) \in Nat
    BY <2>1, <2>2, ShareType
  <2>4. \A s \in Stream : Jump(AsInt(first - 1) * Budget[s]) \in Nat
    <3>1. AsInt(first - 1) \in Int
      BY <2>3, BuildAssumption DEF AsInt, IntMax
    <3>2. \A s \in Stream : AsInt(first - 1) * Budget[s] \in Int
      BY <3>1, StreamAssumption
    <3> QED
      BY <3>2 DEF Jump
  <2>5. at' \in [Child -> Places]
    <3>1. at' = [at EXCEPT ![c] = [s \in Stream |->
                   IF s \in moved THEN Jump(AsInt(first - 1) * Budget[s])
                                  ELSE at[c][s]]]
      BY <1>3 DEF BeginTable
    <3> HIDE DEF first, moved
    <3>2. [s \in Stream |-> IF s \in moved THEN Jump(AsInt(first - 1) * Budget[s])
                                           ELSE at[c][s]] \in Places
      BY <2>4 DEF TypeOK, Places
    <3> QED
      BY <3>1, <3>2 DEF TypeOK
  <2>6. used' \in [Child -> Places]
    BY <1>3 DEF TypeOK, BeginTable, Places
  <2>7. row' \in [Child -> Nat] /\ left' \in [Child -> Nat]
    BY <1>3, <2>3 DEF TypeOK, BeginTable
  <2>8. TypeOK'
    BY <1>3, <2>5, <2>6, <2>7 DEF TypeOK, BeginTable, options, disk
  <2>9. Control'
    BY <1>3, <2>1 DEF TypeOK, Control, InTable, BeginTable, options
  <2> QED
    BY <2>8, <2>9
<1>4. ASSUME NEW c \in Child, EndTable(c) PROVE TInv'
  <2>1. tab[c] + 1 \in 1 .. NTable + 1
    BY <1>4, TableAssumption DEF EndTable, Control, InTable, Table
  <2> QED
    BY <1>4, <2>1 DEF TypeOK, Control, InTable, EndTable, options, disk
<1>5. ASSUME NEW c \in Child, Exit(c) PROVE TInv'
  <2>1. pc[c] # "idle" /\ Stop(c, "done") /\ UNCHANGED options
    BY <1>5 DEF Exit
  <2> QED
    BY <1>5, <2>1, StopTypes DEF TypeOK, Exit, options, disk
<1>6. ASSUME NEW c \in Child, BuildRow(c) PROVE TInv'
  <2>1. tab[c] \in Table /\ ~IsChild(tab[c])
    BY <1>6 DEF BuildRow, Control, InTable
  <2>2. at' \in [Child -> Places] /\ used' \in [Child -> Places]
    BY <1>6, <2>1, DrawsAreCounts, DrawTypes DEF BuildRow
  <2>3. row[c] \in Nat /\ 0 \in Nat /\ at[c] \in Places
    BY DEF TypeOK
  <2>4. Emit(c, tab[c], Line(tab[c], row[c], 0, at[c]))
    BY <1>6 DEF BuildRow
  <2>5. /\ open' \in [Child -> SUBSET Table]
        /\ created' \in [Child -> SUBSET Table]
        /\ file' \in [Child -> [Table -> Seq(Lines)]]
        /\ \A d \in Child : open'[d] \subseteq created'[d]
    BY <2>1, <2>3, <2>4, EmitTypes
  <2> QED
    BY <1>6, <2>1, <2>2, <2>5 DEF TypeOK, Control, InTable, BuildRow, options
<1>7. ASSUME NEW c \in Child, BuildOrder(c) PROVE TInv'
  <2>1. tab[c] \in Table /\ IsParent(tab[c]) /\ ~IsChild(tab[c])
    BY <1>7 DEF BuildOrder, Control, InTable
  <2>2. at' \in [Child -> Places] /\ used' \in [Child -> Places]
    BY <1>7, <2>1, DrawsAreCounts, DrawTypes DEF BuildOrder
  <2>3. at[c][CountStream[tab[c]]] \in Nat
    BY <2>1, LineAssumption DEF TypeOK, Places
  <2>4. LineCount(tab[c], at[c][CountStream[tab[c]]]) \in MinLines .. MaxLines
    BY <2>1, <2>3, LineCountType
  <2>5. lines' \in [Child -> 0 .. MaxLines] /\ lines'[c] > 0
    BY <1>7, <2>4, LineAssumption DEF TypeOK, BuildOrder
  <2> QED
    BY <1>7, <2>1, <2>2, <2>5
       DEF TypeOK, Control, InTable, BuildOrder, options, disk
<1>8. ASSUME NEW c \in Child, BuildLine(c) PROVE TInv'
  <2> DEFINE t    == tab[c]
             back == Returned(t, at[c][ReturnStream[t]])
             u    == ReturnsOf[t]
             T    == IF back THEN {t, u} ELSE {t}
  <2>1. t \in Table /\ IsParent(t) /\ ~IsChild(t) /\ u \in Table
    BY <1>8, FamilyType DEF BuildLine, Control, InTable
  <2>2. T \in SUBSET Table
    BY <2>1
  <2>3. Draw(c, LineDraws(T))
    BY <1>8 DEF BuildLine
  <2>4. at' \in [Child -> Places] /\ used' \in [Child -> Places]
    BY <2>2, <2>3, DrawsAreCounts, DrawTypes
  <2>5. row[c] \in Nat /\ lines[c] \in Nat /\ at[c] \in Places
    BY LineAssumption DEF TypeOK
  <2>6. CASE back
    <3>1. Emit(c, u, Line(u, row[c], lines[c], at[c]))
      BY <1>8, <2>6 DEF BuildLine
    <3>2. /\ open' \in [Child -> SUBSET Table]
          /\ created' \in [Child -> SUBSET Table]
          /\ file' \in [Child -> [Table -> Seq(Lines)]]
          /\ \A d \in Child : open'[d] \subseteq created'[d]
      BY <2>1, <2>5, <3>1, EmitTypes
    <3> QED
      BY <1>8, <2>4, <3>2 DEF TypeOK, Control, InTable, BuildLine, options
  <2>7. CASE ~back
    <3>1. UNCHANGED <<open, disk>>
      BY <1>8, <2>7 DEF BuildLine
    <3> QED
      BY <1>8, <2>4, <3>1 DEF TypeOK, Control, InTable, BuildLine, options, disk
  <2> QED
    BY <2>6, <2>7
<1>9. ASSUME NEW c \in Child, PrintSale(c) PROVE TInv'
  <2>1. tab[c] \in Table /\ ~IsChild(tab[c]) /\ IsParent(tab[c]) /\ lines[c] > 0
    BY <1>9 DEF PrintSale, Control, InTable
  <2>2. row[c] \in Nat /\ lines[c] \in Nat /\ at[c] \in Places
    BY LineAssumption DEF TypeOK
  <2>3. Emit(c, tab[c], Line(tab[c], row[c], lines[c], at[c]))
    BY <1>9 DEF PrintSale
  <2>4. /\ open' \in [Child -> SUBSET Table]
        /\ created' \in [Child -> SUBSET Table]
        /\ file' \in [Child -> [Table -> Seq(Lines)]]
        /\ \A d \in Child : open'[d] \subseteq created'[d]
    BY <2>1, <2>2, <2>3, EmitTypes
  <2>5. lines' \in [Child -> 0 .. MaxLines] /\ (lines[c] # 1 => lines'[c] > 0)
    BY <1>9, <2>1, LineAssumption DEF TypeOK, PrintSale
  <2> QED
    BY <1>9, <2>1, <2>4, <2>5 DEF TypeOK, Control, InTable, PrintSale, options
<1>10. ASSUME NEW c \in Child, RowStop(c) PROVE TInv'
  <2> DEFINE unused(s) == IF used[c][s] < Budget[s] THEN Budget[s] - used[c][s] ELSE 0
  <2>1. \A s \in Stream : unused(s) \in Nat
    BY StreamAssumption DEF TypeOK, Places
  <2>2. at' = [at EXCEPT ![c] = [s \in Stream |->
                 at[c][s] + IF s \in Padded(tab[c]) THEN unused(s) ELSE 0]]
    BY <1>10 DEF RowStop
  <2>3. at' \in [Child -> Places]
    <3> HIDE DEF unused
    <3>1. [s \in Stream |-> at[c][s] + IF s \in Padded(tab[c]) THEN unused(s) ELSE 0]
            \in Places
      BY <2>1 DEF TypeOK, Places
    <3> QED
      BY <2>2, <3>1 DEF TypeOK
  <2>4. used' \in [Child -> Places]
    BY <1>10 DEF TypeOK, RowStop, Places
  <2>5. row' \in [Child -> Nat] /\ left' \in [Child -> Nat]
    BY <1>10 DEF TypeOK, Control, RowStop
  <2> QED
    BY <1>10, <2>3, <2>4, <2>5 DEF TypeOK, Control, InTable, RowStop, options, disk
<1>11. ASSUME NEW c \in Child, Refuse(c) PROVE TInv'
  <2>1. pc[c] # "idle" /\ Stop(c, "failed") /\ UNCHANGED options
    BY <1>11 DEF Refuse, NextPrinted
  <2> QED
    BY <1>11, <2>1, StopTypes DEF TypeOK, Refuse, options, disk
<1>12. ASSUME NEW c \in Child, Kill(c) PROVE TInv'
  <2>1. Stop(c, "idle") /\ UNCHANGED <<options, created>>
    BY <1>12 DEF Kill
  <2>2. crashes' \in 0 .. MaxCrashes
    BY <1>12, BuildAssumption DEF TypeOK, Kill
  <2>3. file' = file
    BY <1>12 DEF TypeOK, Kill, Unflushed
  <2> QED
    BY <2>1, <2>2, <2>3, StopTypes DEF TypeOK, options
<1>13. ASSUME NEW c \in Child, KillAtOpen(c) PROVE TInv'
  <2>1. Stop(c, "idle") /\ UNCHANGED options
    BY <1>13 DEF KillAtOpen
  <2>2. crashes' \in 0 .. MaxCrashes
    BY <1>13, BuildAssumption DEF TypeOK, KillAtOpen
  <2>3. PICK t \in Table : /\ created' = [created EXCEPT ![c] = @ \cup {t}]
                           /\ file'    = [file EXCEPT ![c][t] = <<>>]
    BY <1>13 DEF KillAtOpen, NextPrinted
  <2>4. created' \in [Child -> SUBSET Table] /\ file' \in [Child -> [Table -> Seq(Lines)]]
    <3>1. <<>> \in Seq(Lines)
      OBVIOUS
    <3> QED
      BY <2>3, <3>1 DEF TypeOK
  <2>5. \A d \in Child : created[d] \subseteq created'[d]
    BY <2>3 DEF TypeOK
  <2>6. \A d \in Child : open'[d] \subseteq open[d]
    BY <2>1, StopTypes
  <2>7. \A d \in Child : open'[d] \subseteq created'[d]
    BY <2>5, <2>6 DEF TypeOK
  <2> QED
    BY <2>1, <2>2, <2>4, <2>7, StopTypes DEF TypeOK, options
<1>14. CASE UNCHANGED vars
  BY <1>14 DEF TypeOK, Control, InTable, vars, options, memory, disk
<1> QED
  BY <1>1, <1>2, <1>3, <1>4, <1>5, <1>6, <1>7, <1>8, <1>9, <1>10, <1>11, <1>12,
     <1>13, <1>14 DEF Next, Step, Over

(* The variables keep their types in every build.                          *)
THEOREM TypeCorrect == Spec => []TypeOK
<1>1. Init => TInv
  BY InitTypes
<1>2. TInv /\ [Next]_vars => TInv'
  BY StepTypes
<1>3. TInv => TypeOK
  BY DEF TInv
<1> QED
  BY <1>1, <1>2, <1>3, PTL DEF Spec

(***************************************************************************)
(* Streams.  The invariant says, besides where the streams of the table    *)
(* under way stand before a row, that within a row they have gone on by    *)
(* what nUsed counts, that the budget still holds the draws of the line    *)
(* items to come, and that the first child, which skips nothing, has not   *)
(* touched the streams of the tables ahead.                                *)
(***************************************************************************)

Fits == \A t \in Table : Rows[t] <= IntMax

InRow(c) == pc[c] \in {"line", "sale", "stop"}

(* The draws of the line items that the row under way has yet to make.     *)
ToDraw(c, s) ==
  IF pc[c] = "line" THEN lines[c] * PerLine[s]
  ELSE IF pc[c] = "sale" THEN (lines[c] - 1) * PerLine[s] ELSE 0

OnCourse(c) ==
  /\ pc[c] = "row" /\ left[c] > 0 => InSync(c, Family(tab[c]))
  /\ InRow(c) =>
       \A s \in Streams(Family(tab[c])) :
         /\ at[c][s] = RowStart(s, row[c]) + used[c][s]
         /\ used[c][s] + ToDraw(c, s) <= Budget[s]

(* Table t is still to come for the process of c.                          *)
IsAhead(c, t) ==
  /\ ~IsChild(t)
  /\ t > tab[c] \/ (t = tab[c] /\ ~InTable(c))

Untouched(c, t) ==
  \A s \in Streams(Family(t)) : at[c][s] = 0 /\ used[c][s] = 0

InitialAhead(c) ==
  c = 1 => \A t \in Table : IsAhead(c, t) => Untouched(c, t)

SyncInv == \A c \in Child : OnCourse(c) /\ InitialAhead(c)

(* What the two conjuncts read of a process.                               *)
Progress(c) == <<pc[c], tab[c], row[c], left[c], lines[c], at[c], used[c]>>

(* A process that does not move stays on course, and it is enough to look  *)
(* at the one that does.                                                   *)
LEMMA OthersStay ==
  ASSUME SyncInv, NEW c \in Child,
         \A d \in Child \ {c} : UNCHANGED Progress(d),
         OnCourse(c)', InitialAhead(c)'
  PROVE  SyncInv'
<1> SUFFICES ASSUME NEW d \in Child, d # c
             PROVE  OnCourse(d)' /\ InitialAhead(d)'
  BY DEF SyncInv
<1>1. /\ pc'[d] = pc[d] /\ tab'[d] = tab[d] /\ row'[d] = row[d]
      /\ left'[d] = left[d] /\ lines'[d] = lines[d]
      /\ at'[d] = at[d] /\ used'[d] = used[d]
  BY DEF Progress
<1>2. OnCourse(d) /\ InitialAhead(d)
  BY DEF SyncInv
<1>3. OnCourse(d)'
  BY <1>1, <1>2 DEF OnCourse, InSync, InRow, ToDraw
<1>4. InitialAhead(d)'
  BY <1>1, <1>2 DEF InitialAhead, IsAhead, Untouched, InTable
<1> QED
  BY <1>3, <1>4

(* A process that starts anew, or waits to, has touched no stream.         *)
LEMMA StoppedOnCourse ==
  ASSUME TInv, SyncInv, NEW c \in Child, NEW status \in {"idle", "done", "failed"},
         Stop(c, status)
  PROVE  SyncInv'
<1>1. pc'[c] = status /\ at'[c] = [s \in Stream |-> 0] /\ used'[c] = [s \in Stream |-> 0]
  BY DEF TInv, TypeOK, Stop
<1>2. OnCourse(c)'
  BY <1>1 DEF OnCourse, InRow
<1>3. InitialAhead(c)'
  BY <1>1 DEF InitialAhead, Untouched, Streams
<1>4. \A d \in Child \ {c} : UNCHANGED Progress(d)
  BY DEF TInv, TypeOK, Stop, Progress
<1> QED
  BY <1>2, <1>3, <1>4, OthersStay

(* What a draw does to one stream.                                         *)
LEMMA DrawPlaces ==
  ASSUME TInv, NEW c \in Child, NEW n \in Places, Draw(c, n)
  PROVE  /\ \A s \in Stream : /\ at'[c][s] = at[c][s] + n[s]
                              /\ used'[c][s] = used[c][s] + n[s]
         /\ \A d \in Child \ {c} : at'[d] = at[d] /\ used'[d] = used[d]
BY DEF TInv, TypeOK, Draw, Places

(* A step inside a table that changes only streams of the table's family   *)
(* leaves the streams of the tables ahead alone.                           *)
LEMMA AheadStays ==
  ASSUME TInv, NEW c \in Child, InTable(c), InTable(c)', InitialAhead(c),
         tab'[c] = tab[c],
         \A s \in Stream \ Streams(Family(tab[c])) :
           at'[c][s] = at[c][s] /\ used'[c][s] = used[c][s]
  PROVE  InitialAhead(c)'
<1> SUFFICES ASSUME c = 1, NEW t \in Table, IsAhead(c, t)'
             PROVE  Untouched(c, t)'
  BY DEF InitialAhead
<1>1. tab[c] \in Table /\ ~IsChild(tab[c])
  BY DEF TInv, Control
<1>2. ~IsChild(t) /\ t > tab[c]
  BY DEF IsAhead
<1>3. t # tab[c]
  BY <1>1, <1>2 DEF Table
<1>4. Streams(Family(t)) \cap Streams(Family(tab[c])) = {}
  BY <1>1, <1>2, <1>3, FamiliesApart
<1>5. Untouched(c, t)
  BY <1>2 DEF InitialAhead, IsAhead
<1> QED
  BY <1>4, <1>5 DEF Untouched, Streams

(* The rows of a chunk begin in sync: row_skip() brings every stream of    *)
(* the family to the first row, or there is nothing to skip.               *)
LEMMA BeginsInSync ==
  ASSUME Fits, TInv, SyncInv, NEW c \in Child, BeginTable(c)
  PROVE  SyncInv'
<1> DEFINE t == tab[c]
           first == FirstRow(Rows[t], parallel, c)
           count == RowCount(Rows[t], parallel, c)
           moved == IF first # 1 THEN Skipped(t) ELSE {}
<1>1. /\ pc[c] = "table" /\ t \in Table /\ ~IsChild(t)
      /\ Rows[t] \in Nat /\ Rows[t] <= IntMax
  BY TableAssumption DEF BeginTable, Fits
<1>2. parallel \in Parallels /\ c \in Kids(parallel)
  BY <1>1 DEF TInv, TypeOK, Control
<1>3. /\ first \in Nat \ {0}
      /\ count > 0 => first <= Rows[t]
      /\ c = 1 => first = 1
      /\ first = 1 /\ count > 0 => c = 1
  BY <1>1, <1>2, ShareType
<1>4. /\ pc'[c] = "row" /\ tab' = tab /\ row'[c] = first /\ left'[c] = count
      /\ \A d \in Child \ {c} : UNCHANGED Progress(d)
  BY DEF TInv, TypeOK, BeginTable, Progress
<1>5. \A s \in Stream :
        /\ at'[c][s] = IF s \in moved THEN Jump(AsInt(first - 1) * Budget[s])
                                      ELSE at[c][s]
        /\ used'[c][s] = IF s \in moved THEN 0 ELSE used[c][s]
  BY DEF TInv, TypeOK, BeginTable
<1> HIDE DEF t, first, count, moved
<1>6. OnCourse(c)'
  <2> SUFFICES ASSUME count > 0, NEW s \in Streams(Family(t))
               PROVE  at'[c][s] = RowStart(s, first) /\ used'[c][s] = 0
    BY <1>4 DEF OnCourse, InSync, InRow, RowStart, t
  <2>1. s \in Stream /\ Budget[s] \in Nat
    BY StreamAssumption DEF Streams
  <2>2. CASE first = 1
    <3>1. c = 1 /\ s \notin moved
      BY <1>3, <2>2 DEF moved, t, first
    <3>2. Untouched(c, t)
      BY <1>1, <3>1 DEF SyncInv, InitialAhead, IsAhead, InTable, t
    <3>3. RowStart(s, first) = 0
      BY <2>1, <2>2 DEF RowStart
    <3> QED
      BY <1>5, <2>1, <3>1, <3>2, <3>3 DEF Untouched
  <2>3. CASE first # 1
    <3>1. s \in moved
      BY <2>3 DEF moved, Skipped
    <3>2. AsInt(first - 1) = first - 1
      <4>1. first - 1 \in Nat /\ first - 1 <= IntMax
        BY <1>1, <1>3, BuildAssumption DEF IntMax
      <4> QED
        BY <4>1, AsIntKeeps
    <3>3. (first - 1) * Budget[s] \in Nat
      BY <1>3, <2>1
    <3>4. Jump((first - 1) * Budget[s]) = (first - 1) * Budget[s]
      BY <3>3 DEF Jump
    <3> QED
      BY <1>5, <2>1, <3>1, <3>2, <3>4 DEF RowStart
  <2> QED
    BY <2>2, <2>3
<1>7. InitialAhead(c)'
  <2> SUFFICES ASSUME c = 1, NEW u \in Table, IsAhead(c, u)'
               PROVE  Untouched(c, u)'
    BY DEF InitialAhead
  <2>1. IsAhead(c, u)
    BY <1>1, <1>4 DEF IsAhead, InTable
  <2>2. Untouched(c, u)
    BY <2>1 DEF SyncInv, InitialAhead
  <2>3. moved = {}
    BY <1>3 DEF moved, t, first
  <2> QED
    BY <1>5, <2>2, <2>3 DEF Untouched, Streams
<1> QED
  BY <1>4, <1>6, <1>7, OthersStay

(* The budget of a stream covers a row's own draws and those of up to      *)
(* MaxLines line items.                                                    *)
LEMMA BudgetCovers ==
  ASSUME NEW s \in Stream, NEW p \in Nat, NEW n \in 0 .. MaxLines
  PROVE  /\ n * PerLine[s] \in Nat
         /\ RowDraws(s, p) + n * PerLine[s] <= Budget[s]
<1>1. n \in Nat /\ MaxLines \in Nat /\ n <= MaxLines /\ PerLine[s] \in Nat
  BY LineAssumption, StreamAssumption
<1>2. /\ n * PerLine[s] \in Nat
      /\ MaxLines * PerLine[s] \in Nat
      /\ n * PerLine[s] <= MaxLines * PerLine[s]
  BY <1>1, TimesMonotone
<1>3. /\ RowDraws(s, p) \in Nat
      /\ RowDraws(s, p) + MaxLines * PerLine[s] <= Budget[s]
  BY RowDrawsType
<1>4. Budget[s] \in Nat
  BY StreamAssumption
<1> QED
  BY <1>2, <1>3, <1>4

(* The draws of a row that is about to be built, in each stream of the     *)
(* family: they start from the place of the row, and n line items fit on   *)
(* top of them.                                                            *)
LEMMA MasterOnCourse ==
  ASSUME TInv, NEW c \in Child, pc[c] = "row", left[c] > 0,
         Draw(c, MasterDraws(c, tab[c])), NEW n \in 0 .. MaxLines,
         NEW s \in Streams(Family(tab[c])), InSync(c, Family(tab[c]))
  PROVE  /\ at'[c][s] = RowStart(s, row[c]) + used'[c][s]
         /\ used'[c][s] + n * PerLine[s] <= Budget[s]
<1> DEFINE m == MasterDraws(c, tab[c])
<1>1. tab[c] \in Table /\ s \in Stream
  BY DEF TInv, Control, InTable, Streams
<1>2. m \in Places
  BY <1>1, DrawsAreCounts
<1>3. at'[c][s] = at[c][s] + m[s] /\ used'[c][s] = used[c][s] + m[s]
  BY <1>1, <1>2, DrawPlaces
<1>4. at[c][s] = RowStart(s, row[c]) /\ used[c][s] = 0 /\ at[c][s] \in Nat
  BY <1>1 DEF InSync, TInv, TypeOK, Places
<1>5. m[s] \in Nat /\ (m[s] = RowDraws(s, at[c][s]) \/ m[s] = 0)
  BY <1>1, <1>2 DEF MasterDraws, Places
<1>6. m[s] + n * PerLine[s] <= Budget[s]
  <2>1. n * PerLine[s] \in Nat /\ RowDraws(s, at[c][s]) + n * PerLine[s] <= Budget[s]
    BY <1>1, <1>4, BudgetCovers
  <2>2. RowDraws(s, at[c][s]) \in Nat /\ Budget[s] \in Nat
    BY <1>1, <1>4, RowDrawsType, StreamAssumption
  <2> HIDE DEF m
  <2> QED
    BY <1>5, <2>1, <2>2
<1> HIDE DEF m
<1> QED
  BY <1>3, <1>4, <1>5, <1>6

(* A draw for a row or a line item of the table under way touches only     *)
(* streams of its family.                                                  *)
LEMMA DrawsInFamily ==
  ASSUME TInv, NEW c \in Child, InTable(c), NEW n \in Places, Draw(c, n),
         \A s \in Stream \ Streams(Family(tab[c])) : n[s] = 0
  PROVE  \A s \in Stream \ Streams(Family(tab[c])) :
           at'[c][s] = at[c][s] /\ used'[c][s] = used[c][s]
<1>1. \A s \in Stream : at[c][s] \in Nat /\ used[c][s] \in Nat
  BY DEF TInv, TypeOK, Places
<1> QED
  BY <1>1, DrawPlaces

LEMMA MastersInFamily ==
  ASSUME NEW t \in Table, NEW c \in Child
  PROVE  \A s \in Stream \ Streams(Family(t)) : MasterDraws(c, t)[s] = 0
BY FamilyType DEF MasterDraws, Streams

LEMMA BuildRowSync ==
  ASSUME TInv, TInv', SyncInv, NEW c \in Child, BuildRow(c)
  PROVE  SyncInv'
<1>1. /\ pc[c] = "row" /\ left[c] > 0 /\ tab[c] \in Table
      /\ Draw(c, MasterDraws(c, tab[c]))
  BY DEF BuildRow, TInv, Control, InTable
<1>2. pc'[c] = "stop" /\ tab' = tab /\ row' = row /\ UNCHANGED <<left, lines>>
  BY DEF BuildRow, TInv, TypeOK
<1>3. MasterDraws(c, tab[c]) \in Places
  BY <1>1, DrawsAreCounts
<1>4. \A d \in Child \ {c} : UNCHANGED Progress(d)
  BY <1>1, <1>2, <1>3, DrawPlaces DEF Progress, BuildRow, TInv, TypeOK
<1>5. OnCourse(c)'
  <2> SUFFICES ASSUME NEW s \in Streams(Family(tab[c]))
               PROVE  /\ at'[c][s] = RowStart(s, row[c]) + used'[c][s]
                      /\ used'[c][s] + 0 <= Budget[s]
    BY <1>2 DEF OnCourse, InRow, ToDraw, RowStart
  <2>1. 0 \in 0 .. MaxLines /\ InSync(c, Family(tab[c]))
    BY <1>1, LineAssumption DEF SyncInv, OnCourse
  <2>2. s \in Stream /\ 0 * PerLine[s] = 0
    BY StreamAssumption DEF Streams
  <2> QED
    BY <1>1, <2>1, <2>2, MasterOnCourse
<1>6. InitialAhead(c)'
  <2>1. \A s \in Stream \ Streams(Family(tab[c])) :
          at'[c][s] = at[c][s] /\ used'[c][s] = used[c][s]
    BY <1>1, <1>3, MastersInFamily, DrawsInFamily DEF InTable
  <2> QED
    BY <1>1, <1>2, <2>1, AheadStays DEF SyncInv, InTable
<1> QED
  BY <1>4, <1>5, <1>6, OthersStay

LEMMA BuildOrderSync ==
  ASSUME TInv, TInv', SyncInv, NEW c \in Child, BuildOrder(c)
  PROVE  SyncInv'
<1>1. /\ pc[c] = "row" /\ left[c] > 0 /\ tab[c] \in Table
      /\ Draw(c, MasterDraws(c, tab[c]))
  BY DEF BuildOrder, TInv, Control, InTable
<1>2. pc'[c] = "line" /\ tab' = tab /\ row' = row /\ left' = left
  BY DEF BuildOrder, TInv, TypeOK
<1>3. MasterDraws(c, tab[c]) \in Places
  BY <1>1, DrawsAreCounts
<1>4. \A d \in Child \ {c} : UNCHANGED Progress(d)
  BY <1>1, <1>2, <1>3, DrawPlaces DEF Progress, BuildOrder, TInv, TypeOK
<1>5. OnCourse(c)'
  <2> SUFFICES ASSUME NEW s \in Streams(Family(tab[c]))
               PROVE  /\ at'[c][s] = RowStart(s, row[c]) + used'[c][s]
                      /\ used'[c][s] + lines'[c] * PerLine[s] <= Budget[s]
    BY <1>2 DEF OnCourse, InRow, ToDraw, RowStart
  <2>1. lines'[c] \in 0 .. MaxLines /\ InSync(c, Family(tab[c]))
    BY <1>1 DEF SyncInv, OnCourse, TInv, TypeOK
  <2> QED
    BY <1>1, <2>1, MasterOnCourse
<1>6. InitialAhead(c)'
  <2>1. \A s \in Stream \ Streams(Family(tab[c])) :
          at'[c][s] = at[c][s] /\ used'[c][s] = used[c][s]
    BY <1>1, <1>3, MastersInFamily, DrawsInFamily DEF InTable
  <2> QED
    BY <1>1, <1>2, <2>1, AheadStays DEF SyncInv, InTable
<1> QED
  BY <1>4, <1>5, <1>6, OthersStay

(* A line item draws at most its part of the budget, returned or not.      *)
LEMMA BuildLineSync ==
  ASSUME TInv, TInv', SyncInv, NEW c \in Child, BuildLine(c)
  PROVE  SyncInv'
<1> DEFINE t    == tab[c]
           back == Returned(t, at[c][ReturnStream[t]])
           T    == IF back THEN {t, ReturnsOf[t]} ELSE {t}
           n    == LineDraws(T)
<1>1. pc[c] = "line" /\ t \in Table /\ IsParent(t) /\ lines[c] > 0 /\ Draw(c, n)
  BY DEF BuildLine, TInv, Control, InTable
<1>2. pc'[c] = "sale" /\ tab' = tab /\ row' = row /\ left' = left /\ lines' = lines
  BY DEF BuildLine, TInv, TypeOK
<1>3. T \subseteq Family(t) /\ T \in SUBSET Table
  BY <1>1, FamilyType DEF Family
<1>4. n \in Places
  BY <1>3, DrawsAreCounts
<1>5. \A s \in Stream : n[s] = 0 \/ n[s] = PerLine[s]
  BY DEF LineDraws
<1>6. \A s \in Stream \ Streams(Family(t)) : n[s] = 0
  BY <1>3 DEF LineDraws, Streams
<1> HIDE DEF n
<1>7. \A d \in Child \ {c} : UNCHANGED Progress(d)
  BY <1>1, <1>2, <1>4, DrawPlaces DEF Progress, BuildLine, TInv, TypeOK
<1>8. OnCourse(c)'
  <2> SUFFICES ASSUME NEW s \in Streams(Family(t))
               PROVE  /\ at'[c][s] = RowStart(s, row[c]) + used'[c][s]
                      /\ used'[c][s] + (lines[c] - 1) * PerLine[s] <= Budget[s]
    BY <1>2 DEF OnCourse, InRow, ToDraw, RowStart
  <2>1. s \in Stream /\ PerLine[s] \in Nat /\ Budget[s] \in Nat
    BY StreamAssumption DEF Streams
  <2>2. /\ at[c][s] = RowStart(s, row[c]) + used[c][s]
        /\ used[c][s] + lines[c] * PerLine[s] <= Budget[s]
    BY <1>1 DEF SyncInv, OnCourse, InRow, ToDraw
  <2>3. /\ at[c][s] \in Nat /\ used[c][s] \in Nat
        /\ lines[c] \in Nat /\ row[c] \in Nat
    BY <2>1, LineAssumption DEF TInv, TypeOK, Places
  <2>4. at'[c][s] = at[c][s] + n[s] /\ used'[c][s] = used[c][s] + n[s]
    BY <1>1, <1>4, <2>1, DrawPlaces
  <2>5. n[s] \in Nat /\ n[s] <= PerLine[s]
    BY <1>5, <2>1
  <2>6. /\ lines[c] * PerLine[s] = (lines[c] - 1) * PerLine[s] + PerLine[s]
        /\ (lines[c] - 1) * PerLine[s] \in Nat
    BY <1>1, <2>1, <2>3
  <2>7. RowStart(s, row[c]) \in Int
    BY <2>1, <2>3 DEF RowStart
  <2> QED
    BY <2>1, <2>2, <2>3, <2>4, <2>5, <2>6, <2>7
<1>9. InitialAhead(c)'
  <2>1. \A s \in Stream \ Streams(Family(t)) :
          at'[c][s] = at[c][s] /\ used'[c][s] = used[c][s]
    BY <1>1, <1>4, <1>6, DrawsInFamily DEF InTable
  <2> QED
    BY <1>1, <1>2, <2>1, AheadStays DEF SyncInv, InTable
<1> QED
  BY <1>7, <1>8, <1>9, OthersStay

LEMMA PrintSaleSync ==
  ASSUME TInv, TInv', SyncInv, NEW c \in Child, PrintSale(c)
  PROVE  SyncInv'
<1>1. /\ pc[c] = "sale" /\ InTable(c) /\ lines[c] > 0
      /\ pc'[c] = IF lines[c] = 1 THEN "stop" ELSE "line"
      /\ lines'[c] = lines[c] - 1
      /\ UNCHANGED <<tab, row, left, at, used>>
  BY DEF PrintSale, TInv, TypeOK, Control, InTable
<1>2. \A d \in Child \ {c} : UNCHANGED Progress(d)
  BY DEF PrintSale, Progress, TInv, TypeOK
<1>3. OnCourse(c)'
  <2> SUFFICES ASSUME NEW s \in Streams(Family(tab[c]))
               PROVE  /\ at[c][s] = RowStart(s, row[c]) + used[c][s]
                      /\ used[c][s] + ToDraw(c, s)' <= Budget[s]
    BY <1>1 DEF OnCourse, InRow, RowStart
  <2>1. /\ at[c][s] = RowStart(s, row[c]) + used[c][s]
        /\ used[c][s] + (lines[c] - 1) * PerLine[s] <= Budget[s]
    BY <1>1 DEF SyncInv, OnCourse, InRow, ToDraw
  <2>2. s \in Stream /\ PerLine[s] \in Nat
    BY StreamAssumption DEF Streams
  <2>3. lines[c] = 1 => (lines[c] - 1) * PerLine[s] = 0
    BY <2>2
  <2>4. ToDraw(c, s)' = (lines[c] - 1) * PerLine[s]
    BY <1>1, <2>3 DEF ToDraw
  <2> QED
    BY <2>1, <2>4
<1>4. InitialAhead(c)'
  BY <1>1, AheadStays DEF SyncInv, InTable
<1> QED
  BY <1>2, <1>3, <1>4, OthersStay

(* row_stop(): what the row used and what was left of the budget together  *)
(* are one budget.                                                         *)
LEMMA RowStopSync ==
  ASSUME TInv, TInv', SyncInv, NEW c \in Child, RowStop(c)
  PROVE  SyncInv'
<1> DEFINE unused(s) == IF used[c][s] < Budget[s] THEN Budget[s] - used[c][s] ELSE 0
           t == tab[c]
<1>1. /\ pc[c] = "stop" /\ InTable(c) /\ pc'[c] = "row" /\ tab' = tab
      /\ row'[c] = row[c] + 1
      /\ \A s \in Stream :
           /\ at'[c][s] = at[c][s] + IF s \in Padded(t) THEN unused(s) ELSE 0
           /\ used'[c][s] = IF s \in Padded(t) THEN 0 ELSE used[c][s]
  BY DEF RowStop, TInv, TypeOK, InTable
<1>2. \A d \in Child \ {c} : UNCHANGED Progress(d)
  BY DEF RowStop, Progress, TInv, TypeOK
<1>3. OnCourse(c)'
  <2> SUFFICES ASSUME NEW s \in Streams(Family(t))
               PROVE  at'[c][s] = RowStart(s, row[c] + 1) /\ used'[c][s] = 0
    BY <1>1 DEF OnCourse, InRow, InSync, RowStart
  <2>1. s \in Stream /\ s \in Padded(t) /\ Budget[s] \in Nat
    BY StreamAssumption DEF Streams, Padded
  <2>2. /\ at[c][s] = RowStart(s, row[c]) + used[c][s]
        /\ used[c][s] + 0 <= Budget[s]
    BY <1>1 DEF SyncInv, OnCourse, InRow, ToDraw
  <2>3. at[c][s] \in Nat /\ used[c][s] \in Nat /\ row[c] \in Nat
    BY <2>1 DEF TInv, TypeOK, Places
  <2>4. used[c][s] + unused(s) = Budget[s]
    BY <2>1, <2>2, <2>3
  <2>5. RowStart(s, row[c] + 1) = RowStart(s, row[c]) + Budget[s]
    BY <2>1, <2>3 DEF RowStart
  <2>6. RowStart(s, row[c]) \in Int
    BY <2>1, <2>3 DEF RowStart
  <2>7. at'[c][s] = at[c][s] + unused(s) /\ used'[c][s] = 0
    BY <1>1, <2>1
  <2>8. unused(s) \in Nat
    BY <2>1, <2>3
  <2> HIDE DEF unused
  <2> QED
    BY <2>1, <2>2, <2>3, <2>4, <2>5, <2>6, <2>7, <2>8
<1>4. InitialAhead(c)'
  <2>1. \A s \in Stream \ Streams(Family(t)) :
          at'[c][s] = at[c][s] /\ used'[c][s] = used[c][s]
    <3>1. \A s \in Stream : at[c][s] \in Nat
      BY DEF TInv, TypeOK, Places
    <3> QED
      BY <1>1, <3>1 DEF Padded
  <2> QED
    BY <1>1, <2>1, AheadStays DEF SyncInv, InTable
<1> QED
  BY <1>2, <1>3, <1>4, OthersStay

(* Every step keeps the processes on course.                               *)
LEMMA StepSync ==
  ASSUME Fits, TInv, TInv', SyncInv, [Next]_vars
  PROVE  SyncInv'
<1>1. ASSUME NEW c \in Child, Launch(c) PROVE SyncInv'
  BY <1>1 DEF Launch, memory, SyncInv, OnCourse, InSync, InRow, ToDraw,
              InitialAhead, IsAhead, Untouched, InTable, TInv, TypeOK
<1>2. ASSUME NEW c \in Child, SkipTable(c) PROVE SyncInv'
  <2>1. \A d \in Child \ {c} : UNCHANGED Progress(d)
    BY <1>2 DEF SkipTable, Progress, TInv, TypeOK
  <2>2. OnCourse(c)'
    BY <1>2 DEF SkipTable, OnCourse, InRow
  <2>3. InitialAhead(c)'
    <3>1. tab'[c] = tab[c] + 1 /\ tab[c] \in Nat /\ ~InTable(c)
      BY <1>2 DEF SkipTable, InTable, TInv, TypeOK
    <3>2. \A t \in Table : IsAhead(c, t)' => IsAhead(c, t)
      BY <3>1 DEF IsAhead, Table
    <3>3. UNCHANGED <<at, used>>
      BY <1>2 DEF SkipTable
    <3> QED
      BY <3>2, <3>3 DEF SyncInv, InitialAhead, Untouched
  <2> QED
    BY <2>1, <2>2, <2>3, OthersStay
<1>3. ASSUME NEW c \in Child, EndTable(c) PROVE SyncInv'
  <2>1. \A d \in Child \ {c} : UNCHANGED Progress(d)
    BY <1>3 DEF EndTable, Progress, TInv, TypeOK
  <2>2. OnCourse(c)'
    BY <1>3 DEF EndTable, OnCourse, InRow, TInv, TypeOK
  <2>3. InitialAhead(c)'
    BY <1>3 DEF EndTable, SyncInv, InitialAhead, IsAhead, Untouched, InTable,
                TInv, TypeOK, Table
  <2> QED
    BY <2>1, <2>2, <2>3, OthersStay
<1>4. ASSUME NEW c \in Child,
             Exit(c) \/ Refuse(c) \/ Kill(c) \/ KillAtOpen(c)
      PROVE  SyncInv'
  <2>1. PICK status \in {"idle", "done", "failed"} : Stop(c, status)
    BY <1>4 DEF Exit, Refuse, Kill, KillAtOpen
  <2> QED
    BY <2>1, StoppedOnCourse
<1>5. CASE UNCHANGED vars
  BY <1>5 DEF vars, memory, SyncInv, OnCourse, InSync, InRow, ToDraw,
              InitialAhead, IsAhead, Untouched, InTable
<1> QED
  BY <1>1, <1>2, <1>3, <1>4, <1>5, BeginsInSync, BuildRowSync, BuildOrderSync,
     BuildLineSync, PrintSaleSync, RowStopSync DEF Next, Step, Over

LEMMA InitSync == Init => SyncInv
BY DEF Init, SyncInv, OnCourse, InRow, InitialAhead, Untouched, Streams

(* In every build whose tables have no more rows than an int can count,    *)
(* every child comes to each of its rows with the streams where a serial   *)
(* build has them, and no row overruns a stream's budget.                  *)
THEOREM RowsStartInSync == Fits => (Spec => []StreamsInSync)
<1> SUFFICES ASSUME Fits PROVE Spec => []StreamsInSync
  OBVIOUS
<1>1. Init => TInv /\ SyncInv
  BY InitTypes, InitSync
<1>2. TInv /\ SyncInv /\ [Next]_vars => (TInv /\ SyncInv)'
  BY StepTypes, StepSync
<1>3. TInv /\ SyncInv => StreamsInSync
  <2> SUFFICES ASSUME TInv, SyncInv, NEW c \in Child, InRow(c),
                      NEW s \in Streams(Family(tab[c]))
               PROVE  used[c][s] <= Budget[s]
    BY DEF StreamsInSync, SyncInv, OnCourse, InRow
  <2>1. s \in Stream /\ PerLine[s] \in Nat /\ Budget[s] \in Nat
    BY StreamAssumption DEF Streams
  <2>2. used[c][s] \in Nat /\ lines[c] \in Nat
    BY <2>1, LineAssumption DEF TInv, TypeOK, Places
  <2>3. used[c][s] + ToDraw(c, s) <= Budget[s]
    BY DEF SyncInv, OnCourse
  <2>4. ToDraw(c, s) \in Nat
    <3>1. pc[c] \in {"line", "sale"} => lines[c] > 0
      BY DEF TInv, Control
    <3>2. lines[c] * PerLine[s] \in Nat
      BY <2>1, <2>2
    <3>3. lines[c] > 0 => (lines[c] - 1) * PerLine[s] \in Nat
      BY <2>1, <2>2
    <3> QED
      BY <3>1, <3>2, <3>3 DEF ToDraw
  <2> QED
    BY <2>1, <2>2, <2>3, <2>4
<1> QED
  BY <1>1, <1>2, <1>3, PTL DEF Spec

-----------------------------------------------------------------------------
(***************************************************************************)
(* The files: what the children of a parallel build leave on disk.         *)
(***************************************************************************)

(***************************************************************************)
(* The invariant.                                                          *)
(***************************************************************************)

(* The tables that are built by themselves.  Every other is the returns    *)
(* table of one of them.                                                   *)
Mains == {p \in Table : ~IsChild(p)}

(* The line items of row r of table p that give a line in table t of its   *)
(* family, numbered as `lines' counts, and the places in the streams from  *)
(* which a serial build makes the line of item l.                          *)
ItemsOf(p, t, r) ==
  IF IsParent(p)
  THEN {l \in 1 .. SerialLineCount(p, r) :
          t = p \/ SerialReturned(p, r, SerialLineCount(p, r) - l + 1)}
  ELSE {0}

PlaceOf(p, t, r, l, s) ==
  IF IsParent(p)
  THEN LineStart(s, r, LET k == SerialLineCount(p, r) - l + 1
                       IN  IF t = p THEN k ELSE ReturnsBefore(p, r, k))
  ELSE RowStart(s, r)

LineOf(p, t, r, l) == Line(t, r, l, [s \in Stream |-> PlaceOf(p, t, r, l, s)])

(* The rows of main table p that child c is to build.                      *)
RowsFor(c, p) == Chunk(Rows[p], parallel, c)

(* The line items the order under way has drawn.                           *)
Drawn(c) ==
  SerialLineCount(tab[c], row[c]) - lines[c] + IF pc[c] = "sale" THEN 1 ELSE 0

(* A process starts with the first table.  The row under way is one of the *)
(* chunk and the rows left are the rest of it.  Within an order the number *)
(* of its line items is the serial build's, and each stream is where the   *)
(* line items drawn so far, or those of them that were returned, have      *)
(* brought it.                                                             *)
InPlace(c) ==
  /\ pc[c] = "idle" => tab[c] = 1
  /\ InTable(c) =>
       /\ tab[c] \in Selected
       /\ FirstRow(Rows[tab[c]], parallel, c) <= row[c]
       /\ row[c] + left[c] = FirstRow(Rows[tab[c]], parallel, c)
                               + RowCount(Rows[tab[c]], parallel, c)
  /\ pc[c] \in {"line", "sale"} =>
       /\ lines[c] <= SerialLineCount(tab[c], row[c])
       /\ \A s \in Streams({tab[c]}) : at[c][s] = LineStart(s, row[c], Drawn(c))
       /\ \A s \in Streams({ReturnsOf[tab[c]]}) :
            at[c][s] = LineStart(s, row[c],
                                 ReturnsBefore(tab[c], row[c], Drawn(c) + 1))

(* The process of c has come past line x of table t: it is of an earlier   *)
(* row, or its item is not among those still pending.                      *)
Pending(c, t) ==
  IF pc[c] = "line" THEN lines[c]
  ELSE IF pc[c] = "sale" THEN IF t = tab[c] THEN lines[c] ELSE lines[c] - 1
  ELSE -1
Passed(c, t, x) ==
  \/ x.row < row[c]
  \/ x.row = row[c] /\ InRow(c) /\ x.line > Pending(c, t)

(* The process of c has ended table p and not yet started anew.            *)
Behind(c, p) ==
  \/ pc[c] = "done"
  \/ pc[c] \in {"table", "row", "line", "sale", "stop"} /\ p < tab[c]

(* In the order of a file rows go up and line items go down.               *)
Follows(y, x) == x.row < y.row \/ (x.row = y.row /\ x.line > y.line)
Sorted(f)     == \A i, j \in DOMAIN f : i < j => Follows(f[j], f[i])

(* A file that is open holds the lines the process has passed, one that is *)
(* not open yet has none to hold, one the process is done with holds its   *)
(* share, and one of an earlier run a part of it.                          *)
FileRight(c, p, t) ==
  /\ LinesOf(c, t) \subseteq Share(parallel, c, t)
  /\ Sorted(file[c][t])
  /\ t \in open[c] =>
       /\ InTable(c) /\ tab[c] = p
       /\ \A x \in LinesOf(c, t) : Passed(c, t, x)
  /\ InTable(c) /\ tab[c] = p =>
       \A x \in Share(parallel, c, t) :
         Passed(c, t, x) => t \in open[c] /\ x \in LinesOf(c, t)
  /\ Behind(c, p) => Share(parallel, c, t) \subseteq LinesOf(c, t)
  /\ t \in created[c] => RowsFor(c, p) # {}

FilesRight(c) == \A p \in Mains : \A t \in Family(p) : FileRight(c, p, t)

(* A number that is no child of this build writes nothing.                 *)
NoFiles(c) == created[c] = {} /\ \A t \in Table : file[c][t] = <<>>

FilesInv ==
  \A c \in Child : IF c \in Kids(parallel) THEN InPlace(c) /\ FilesRight(c)
                                           ELSE NoFiles(c)

(***************************************************************************)
(* What a serial build makes, table by table and line by line.             *)
(***************************************************************************)

(* The returns table of a main table is no main table and belongs to no    *)
(* other.                                                                  *)
LEMMA Families ==
  ASSUME NEW p \in Mains, NEW t \in Family(p)
  PROVE  /\ p \in Table /\ t \in Table
         /\ t # p => IsParent(p) /\ t = ReturnsOf[p] /\ IsChild(t) /\ ~IsParent(t)
         /\ t # p => \A q \in Table : ReturnsOf[q] = t => q = p
         /\ \A q \in Mains : t \in Family(q) => q = p
<1>1. p \in Table /\ ~IsChild(p) /\ t \in Table
  BY FamilyType DEF Mains
<1>2. t # p => IsParent(p) /\ t = ReturnsOf[p] /\ IsChild(t) /\ ~IsParent(t)
  BY <1>1, TableAssumption DEF Family, IsParent, IsChild
<1>3. t # p => \A q \in Table : ReturnsOf[q] = t => q = p
  BY <1>1, <1>2, TableAssumption DEF IsParent
<1>4. \A q \in Mains : t \in Family(q) => q = p
  BY <1>1, <1>2, <1>3 DEF Mains, Family, IsChild
<1> QED
  BY <1>1, <1>2, <1>3, <1>4

LEMMA EveryTableHasMain ==
  ASSUME NEW t \in Table
  PROVE  \E p \in Mains : t \in Family(p)
<1>1. CASE ~IsChild(t)
  BY <1>1, FamilyType DEF Mains
<1>2. CASE IsChild(t)
  <2>1. PICK p \in Table : ReturnsOf[p] = t
    BY <1>2 DEF IsChild
  <2>2. IsParent(p) /\ t \in Family(p)
    BY <2>1 DEF IsParent, Family, Table
  <2>3. ~IsChild(p)
    BY <2>2, TableAssumption DEF IsChild, IsParent, Table
  <2> QED
    BY <2>2, <2>3 DEF Mains
<1> QED
  BY <1>1, <1>2

(* A line shows its row and its item.                                      *)
LEMMA LineShows ==
  ASSUME NEW p, NEW t, NEW r, NEW l
  PROVE  LineOf(p, t, r, l).row = r /\ LineOf(p, t, r, l).line = l
BY DEF LineOf, Line

LEMMA OwedRows ==
  ASSUME NEW p \in Mains, NEW t \in Family(p)
  PROVE  /\ RowsOf(t) = Rows[p]
         /\ Built(t) <=> p \in Selected
<1>1. CASE t = p
  BY <1>1 DEF Mains, RowsOf, Built
<1>2. CASE t # p
  <2>1. /\ p \in Table /\ ReturnsOf[p] = t /\ IsChild(t)
        /\ \A q \in Table : ReturnsOf[q] = t => q = p
    BY <1>2, Families
  <2>2. (CHOOSE q \in Table : ReturnsOf[q] = t) = p
    BY <2>1
  <2>3. Selected \subseteq Table
    BY TableAssumption
  <2> QED
    BY <2>1, <2>2, <2>3 DEF RowsOf, Built
<1> QED
  BY <1>1, <1>2

(* A row begins at a place, and an order has at least one line item.       *)
LEMMA RowStartType ==
  ASSUME NEW s \in Stream, NEW r \in Nat \ {0}
  PROVE  RowStart(s, r) \in Nat
<1>1. r - 1 \in Nat /\ Budget[s] \in Nat
  BY StreamAssumption
<1> QED
  BY <1>1 DEF RowStart

LEMMA CountType ==
  ASSUME NEW p \in Table, NEW r \in Nat \ {0}
  PROVE  SerialLineCount(p, r) \in Nat \ {0} /\ SerialLineCount(p, r) <= MaxLines
<1>1. CountStream[p] \in Stream
  BY LineAssumption
<1>2. SerialLineCount(p, r) \in MinLines .. MaxLines
  BY <1>1, RowStartType, LineCountType DEF SerialLineCount
<1> QED
  BY <1>2, LineAssumption

(* The lines that rows R of a main table owe to a table of its family.     *)
LEMMA SerialLinesOf ==
  ASSUME NEW p \in Mains, NEW t \in Family(p), NEW R \in SUBSET (Nat \ {0}),
         NEW x
  PROVE  x \in SerialLines(t, R) <=>
           \E r \in R : \E l \in ItemsOf(p, t, r) : x = LineOf(p, t, r, l)
<1>1. CASE ~IsParent(p)
  <2>1. t = p /\ ~IsParent(t) /\ ~IsChild(t)
    BY <1>1, Families DEF Mains
  <2>2. SerialLines(t, R) = UNION {SerialRow(t, r) : r \in R}
    BY <2>1 DEF SerialLines
  <2>3. \A r \in R : SerialRow(t, r) = {LineOf(p, t, r, 0)}
    BY <1>1 DEF SerialRow, LineOf, PlaceOf
  <2>4. \A r \in R : ItemsOf(p, t, r) = {0}
    BY <1>1 DEF ItemsOf
  <2> QED
    BY <2>2, <2>3, <2>4
<1>2. CASE IsParent(p) /\ t = p
  <2>1. IsParent(t) /\ ~IsChild(t)
    BY <1>2 DEF Mains
  <2>2. SerialLines(t, R) = UNION {SerialSales(p, r) : r \in R}
    BY <1>2, <2>1 DEF SerialLines
  <2>3. ASSUME NEW r \in R
        PROVE  x \in SerialSales(p, r) <=>
                 \E l \in ItemsOf(p, t, r) : x = LineOf(p, t, r, l)
    <3> DEFINE n == SerialLineCount(p, r)
               M(k, l) == Line(p, r, l, [s \in Stream |-> LineStart(s, r, k)])
    <3>1. ItemsOf(p, t, r) = 1 .. n
      BY <1>2 DEF ItemsOf
    <3>2. x \in SerialSales(p, r) <=> \E k \in 1 .. n : x = M(k, n - k + 1)
      BY <1>2 DEF SerialSales
    <3>3. \A l \in 1 .. n : LineOf(p, t, r, l) = M(n - l + 1, l)
      BY <1>2 DEF LineOf, PlaceOf
    <3>4. n \in Nat
      BY CountType, Families
    <3> HIDE DEF n, M
    <3>5. \A k \in 1 .. n : n - k + 1 \in 1 .. n /\ n - (n - k + 1) + 1 = k
      BY <3>4
    <3> QED
      BY <3>1, <3>2, <3>3, <3>5
  <2> QED
    BY <2>2, <2>3, <1>2
<1>3. CASE IsParent(p) /\ t # p
  <2>1. /\ p \in Table /\ t = ReturnsOf[p] /\ IsChild(t) /\ ~IsParent(t)
        /\ \A q \in Table : ReturnsOf[q] = t => q = p
    BY <1>3, Families
  <2>2. {q \in Table : ReturnsOf[q] = t} = {p}
    BY <2>1
  <2>3. SerialLines(t, R) =
          UNION {SerialReturns(q, r) : q \in {q \in Table : ReturnsOf[q] = t}, r \in R}
    BY <2>1 DEF SerialLines
  <2>4. SerialLines(t, R) = UNION {SerialReturns(p, r) : r \in R}
    BY <2>2, <2>3
  <2>5. ASSUME NEW r \in R
        PROVE  x \in SerialReturns(p, r) <=>
                 \E l \in ItemsOf(p, t, r) : x = LineOf(p, t, r, l)
    <3> DEFINE n == SerialLineCount(p, r)
               B(k) == SerialReturned(p, r, k)
               M(k, l) == Line(t, r, l, [s \in Stream |->
                                LineStart(s, r, ReturnsBefore(p, r, k))])
    <3>1. ItemsOf(p, t, r) = {l \in 1 .. n : B(n - l + 1)}
      BY <1>3 DEF ItemsOf
    <3>2. x \in SerialReturns(p, r) <=>
            \E k \in {j \in 1 .. n : B(j)} : x = M(k, n - k + 1)
      BY <2>1 DEF SerialReturns
    <3>3. \A l \in 1 .. n : LineOf(p, t, r, l) = M(n - l + 1, l)
      BY <1>3 DEF LineOf, PlaceOf
    <3>4. n \in Nat
      BY <2>1, CountType
    <3> HIDE DEF n, M, B
    <3>5. \A k \in 1 .. n : n - k + 1 \in 1 .. n /\ n - (n - k + 1) + 1 = k
      BY <3>4
    <3> QED
      BY <3>1, <3>2, <3>3, <3>5
  <2> QED
    BY <2>4, <2>5
<1> QED
  BY <1>1, <1>2, <1>3

(* A child of the build has a chunk of rows of every main table.           *)
LEMMA RowsForType ==
  ASSUME NEW par \in Parallels, NEW c \in Kids(par), NEW p \in Mains
  PROVE  /\ FirstRow(Rows[p], par, c) \in Nat \ {0}
         /\ RowCount(Rows[p], par, c) \in Nat
         /\ Chunk(Rows[p], par, c) \in SUBSET (Nat \ {0})
         /\ Rows[p] \in Nat
<1>1. Rows[p] \in Nat
  BY TableAssumption DEF Mains
<1>2. FirstRow(Rows[p], par, c) \in Nat \ {0} /\ RowCount(Rows[p], par, c) \in Nat
  BY <1>1, ShareType
<1> QED
  BY <1>1, <1>2 DEF Chunk

(* What a child owes to a table: the serial build's lines of its rows, and *)
(* each of them is known by its row and its item.                          *)
LEMMA ShareOf ==
  ASSUME NEW par \in Parallels, NEW c \in Kids(par),
         NEW p \in Mains, NEW t \in Family(p), NEW x
  PROVE  x \in Share(par, c, t) <=>
           /\ p \in Selected
           /\ \E r \in Chunk(Rows[p], par, c) :
                \E l \in ItemsOf(p, t, r) : x = LineOf(p, t, r, l)
BY OwedRows, RowsForType, SerialLinesOf DEF Share

LEMMA ShareLine ==
  ASSUME NEW par \in Parallels, NEW c \in Kids(par),
         NEW p \in Mains, NEW t \in Family(p), NEW x \in Share(par, c, t)
  PROVE  /\ p \in Selected
         /\ x.row \in Chunk(Rows[p], par, c) /\ x.row \in Nat \ {0}
         /\ x.line \in ItemsOf(p, t, x.row) /\ x.line \in Nat
         /\ IsParent(p) => x.line \in 1 .. SerialLineCount(p, x.row)
         /\ ~IsParent(p) => x.line = 0
         /\ x = LineOf(p, t, x.row, x.line)
<1>1. PICK r \in Chunk(Rows[p], par, c) :
        \E l \in ItemsOf(p, t, r) : x = LineOf(p, t, r, l)
  BY ShareOf
<1> PICK l \in ItemsOf(p, t, r) : x = LineOf(p, t, r, l)
  BY <1>1
<1>2. p \in Selected
  BY ShareOf
<1>3. x.row = r /\ x.line = l
  BY LineShows
<1>4. r \in Nat \ {0} /\ p \in Table
  BY RowsForType DEF Mains
<1>5. IsParent(p) => l \in 1 .. SerialLineCount(p, r)
  BY DEF ItemsOf
<1>6. ~IsParent(p) => l = 0
  BY DEF ItemsOf
<1>7. l \in Nat
  BY <1>4, <1>5, <1>6, CountType
<1> QED
  BY <1>2, <1>3, <1>4, <1>5, <1>6, <1>7

(***************************************************************************)
(* Files.                                                                  *)
(***************************************************************************)

(* A line that follows all lines of a sorted file keeps it sorted.         *)
LEMMA AppendSorted ==
  ASSUME NEW f \in Seq(Lines), NEW y \in Lines, Sorted(f),
         \A x \in {f[i] : i \in DOMAIN f} : Follows(y, x)
  PROVE  /\ Sorted(Append(f, y))
         /\ LET g == Append(f, y)
            IN  {g[i] : i \in DOMAIN g} = {f[i] : i \in DOMAIN f} \cup {y}
<1> DEFINE g == Append(f, y)
<1>1. /\ DOMAIN f = 1 .. Len(f) /\ Len(f) \in Nat
      /\ DOMAIN g = 1 .. Len(f) + 1
      /\ \A i \in 1 .. Len(f) : g[i] = f[i]
      /\ g[Len(f) + 1] = y
  OBVIOUS
<1> HIDE DEF g
<1>2. ASSUME NEW i \in DOMAIN g, NEW j \in DOMAIN g, i < j
      PROVE  Follows(g[j], g[i])
  <2>1. i \in 1 .. Len(f) /\ (j \in 1 .. Len(f) \/ j = Len(f) + 1)
    BY <1>1, <1>2
  <2>2. CASE j \in 1 .. Len(f)
    BY <1>1, <1>2, <2>1, <2>2 DEF Sorted
  <2>3. CASE j = Len(f) + 1
    BY <1>1, <2>1, <2>3
  <2> QED
    BY <2>1, <2>2, <2>3
<1>3. \A i \in DOMAIN g : i \in DOMAIN f \/ i = Len(f) + 1
  BY <1>1
<1>4. {g[i] : i \in DOMAIN g} = {f[i] : i \in DOMAIN f} \cup {y}
  <2>1. ASSUME NEW i \in DOMAIN f PROVE i \in DOMAIN g /\ g[i] = f[i]
    BY <1>1
  <2>2. Len(f) + 1 \in DOMAIN g
    BY <1>1
  <2> QED
    BY <1>1, <1>3, <2>1, <2>2
<1> QED
  BY <1>2, <1>4 DEF Sorted, g

(* A file of one line.                                                     *)
LEMMA OneLine ==
  ASSUME NEW y
  PROVE  /\ Sorted(<<y>>)
         /\ {<<y>>[i] : i \in DOMAIN <<y>>} = {y}
<1>1. DOMAIN <<y>> = {1} /\ <<y>>[1] = y
  OBVIOUS
<1> QED
  BY <1>1 DEF Sorted

(* A sorted file has no line twice.                                        *)
LEMMA SortedOnce ==
  ASSUME NEW f \in Seq(Lines), Sorted(f)
  PROVE  Cardinality({f[i] : i \in DOMAIN f}) = Len(f)
<1> DEFINE S == {f[i] : i \in DOMAIN f}
<1>1. DOMAIN f = 1 .. Len(f) /\ Len(f) \in Nat /\ \A i \in DOMAIN f : f[i] \in Lines
  OBVIOUS
<1>2. \A x, y \in Lines : Follows(y, x) => x # y
  BY DEF Follows, Lines
<1>3. \A i, j \in DOMAIN f : i # j => f[i] # f[j]
  <2> SUFFICES ASSUME NEW i \in DOMAIN f, NEW j \in DOMAIN f, i # j
               PROVE  f[i] # f[j]
    OBVIOUS
  <2>1. i < j \/ j < i
    BY <1>1
  <2> QED
    BY <1>1, <1>2, <2>1 DEF Sorted
<1>4. f \in Bijection(1 .. Len(f), S)
  <2>1. f \in [1 .. Len(f) -> S]
    BY <1>1
  <2>2. f \in Injection(1 .. Len(f), S)
    BY <1>1, <1>3, <2>1 DEF Injection, IsInjective
  <2>3. f \in Surjection(1 .. Len(f), S)
    BY <1>1, <2>1 DEF Surjection
  <2> QED
    BY <2>2, <2>3 DEF Bijection
<1>5. ExistsBijection(1 .. Len(f), S)
  BY <1>4 DEF ExistsBijection
<1> QED
  BY <1>1, <1>5, FS_CountingElements

(***************************************************************************)
(* Steps.                                                                  *)
(***************************************************************************)

(* What the invariant reads of a process and its files.                    *)
Work(c) == <<pc[c], tab[c], row[c], left[c], lines[c], at[c], open[c],
             created[c], file[c]>>

(* It is enough to look at the child that moves.                           *)
LEMMA OthersRight ==
  ASSUME FilesInv, NEW c \in Child, c \in Kids(parallel), UNCHANGED parallel,
         \A d \in Child \ {c} : UNCHANGED Work(d),
         InPlace(c)', FilesRight(c)'
  PROVE  FilesInv'
<1> SUFFICES ASSUME NEW d \in Child, d # c
             PROVE  IF d \in Kids(parallel) THEN InPlace(d)' /\ FilesRight(d)'
                                            ELSE NoFiles(d)'
  BY DEF FilesInv
<1>1. /\ pc'[d] = pc[d] /\ tab'[d] = tab[d] /\ row'[d] = row[d]
      /\ left'[d] = left[d] /\ lines'[d] = lines[d] /\ at'[d] = at[d]
      /\ open'[d] = open[d] /\ created'[d] = created[d] /\ file'[d] = file[d]
  BY DEF Work
<1>2. InPlace(d) => InPlace(d)'
  BY <1>1 DEF InPlace, InTable, Drawn
<1>3. FilesRight(d) => FilesRight(d)'
  <2> SUFFICES ASSUME NEW p \in Mains, NEW t \in Family(p), FileRight(d, p, t)
               PROVE  FileRight(d, p, t)'
    BY DEF FilesRight
  <2>1. LinesOf(d, t)' = LinesOf(d, t)
    BY <1>1 DEF LinesOf
  <2>2. \A x : Passed(d, t, x)' <=> Passed(d, t, x)
    BY <1>1 DEF Passed, Pending, InRow
  <2>3. Behind(d, p)' <=> Behind(d, p)
    BY <1>1 DEF Behind
  <2> QED
    BY <1>1, <2>1, <2>2, <2>3 DEF FileRight, InTable, RowsFor
<1>4. NoFiles(d) => NoFiles(d)'
  BY <1>1 DEF NoFiles
<1> QED
  BY <1>2, <1>3, <1>4 DEF FilesInv

(* A step within a table that prints nothing, and passes no line.          *)
LEMMA NothingPrinted ==
  ASSUME FilesInv, NEW c \in Child, c \in Kids(parallel), UNCHANGED parallel,
         InTable(c), InTable(c)', tab'[c] = tab[c],
         open'[c] = open[c], created'[c] = created[c], file'[c] = file[c],
         \A t \in Family(tab[c]) : \A x \in Share(parallel, c, t) :
           Passed(c, t, x)' <=> Passed(c, t, x)
  PROVE  FilesRight(c)'
<1> SUFFICES ASSUME NEW p \in Mains, NEW t \in Family(p)
             PROVE  FileRight(c, p, t)'
  BY DEF FilesRight
<1>1. FileRight(c, p, t)
  BY DEF FilesInv, FilesRight
<1>2. LinesOf(c, t)' = LinesOf(c, t)
  BY DEF LinesOf
<1>3. Behind(c, p)' <=> Behind(c, p)
  BY DEF Behind, InTable
<1>4. CASE tab[c] = p
  BY <1>1, <1>2, <1>3, <1>4 DEF FileRight, RowsFor
<1>5. CASE tab[c] # p
  BY <1>1, <1>2, <1>3, <1>5 DEF FileRight, RowsFor
<1> QED
  BY <1>4, <1>5

(* A process that ends, with its files as they are, has put its share in   *)
(* them if it ends after the last table.                                   *)
LEMMA StoppedRight ==
  ASSUME TInv, FilesInv, NEW c \in Child, c \in Kids(parallel), UNCHANGED parallel,
         NEW status \in {"idle", "done", "failed"}, Stop(c, status),
         status = "done" => pc[c] = "table" /\ tab[c] = NTable + 1,
         UNCHANGED disk
  PROVE  FilesInv'
<1>1. /\ pc'[c] = status /\ tab'[c] = 1 /\ open'[c] = {}
      /\ file' = file /\ created' = created
      /\ \A d \in Child \ {c} : UNCHANGED Work(d)
  BY DEF TInv, TypeOK, Stop, Work, disk
<1>2. InPlace(c)'
  BY <1>1 DEF InPlace, InTable
<1>3. FilesRight(c)'
  <2> SUFFICES ASSUME NEW p \in Mains, NEW t \in Family(p)
               PROVE  FileRight(c, p, t)'
    BY DEF FilesRight
  <2>1. FileRight(c, p, t)
    BY DEF FilesInv, FilesRight
  <2>2. LinesOf(c, t)' = LinesOf(c, t)
    BY <1>1 DEF LinesOf
  <2>3. Behind(c, p)' => Behind(c, p)
    BY <1>1, TableAssumption DEF Behind, Mains, Table
  <2> QED
    BY <1>1, <2>1, <2>2, <2>3 DEF FileRight, InTable, RowsFor
<1> QED
  BY <1>1, <1>2, <1>3, OthersRight

(* The line of an item of the row under way is printed.  Of the lines the  *)
(* child owes, it is the one the process comes past with this step.        *)
LEMMA LinePrinted ==
  ASSUME TInv, TInv', FilesInv, NEW c \in Child, c \in Kids(parallel),
         UNCHANGED parallel, InTable(c), InTable(c)', tab'[c] = tab[c],
         NEW t \in Family(tab[c]), NEW l \in ItemsOf(tab[c], t, row[c]),
         Emit(c, t, LineOf(tab[c], t, row[c], l)),
         \A x \in Share(parallel, c, t) :
           /\ Passed(c, t, x)' <=> Passed(c, t, x) \/ (x.row = row[c] /\ x.line = l)
           /\ Passed(c, t, x) => x.row < row[c] \/ (x.row = row[c] /\ x.line > l),
         \A u \in Family(tab[c]) \ {t} : \A x \in Share(parallel, c, u) :
           Passed(c, u, x)' <=> Passed(c, u, x),
         row[c] \in RowsFor(c, tab[c]), tab[c] \in Selected
  PROVE  FilesRight(c)'
<1> PICK p \in Mains : p = tab[c]
  BY DEF TInv, TypeOK, Control, Mains
<1> PICK y : y = LineOf(p, t, row[c], l)
  OBVIOUS
<1>1. p \in Mains /\ parallel \in Parallels
  BY DEF TInv, TypeOK
<1>2. p \in Table /\ t \in Table
  BY <1>1, Families
<1>3. /\ open'[c] = open[c] \cup {t} /\ created'[c] = created[c] \cup {t}
      /\ file'[c][t] = IF t \in open[c] THEN Append(file[c][t], y) ELSE <<y>>
      /\ \A u \in Table \ {t} : file'[c][u] = file[c][u]
  BY <1>2 DEF Emit, TInv, TypeOK
<1>4. y.row = row[c] /\ y.line = l
  BY LineShows
<1>5. y \in Share(parallel, c, t)
  BY <1>1, ShareOf DEF RowsFor
<1>6. y \in Lines
  <2>1. file'[c][t] \in Seq(Lines) /\ file[c][t] \in Seq(Lines)
    BY <1>2 DEF TInv, TypeOK
  <2> QED
    BY <1>3, <2>1
<1>7. FileRight(c, p, t)
  BY <1>1 DEF FilesInv, FilesRight
<1>8. FileRight(c, p, t)'
  <2>1. file[c][t] \in Seq(Lines)
    BY <1>2 DEF TInv, TypeOK
  <2>2. LinesOf(c, t)' = (IF t \in open[c] THEN LinesOf(c, t) ELSE {}) \cup {y}
        /\ Sorted(file[c][t])'
    <3>1. CASE t \in open[c]
      <4>1. \A x \in LinesOf(c, t) : Follows(y, x)
        BY <1>4, <1>7, <3>1 DEF FileRight, Follows
      <4>2. Sorted(file[c][t])
        BY <1>7 DEF FileRight
      <4> QED
        BY <1>3, <1>6, <2>1, <3>1, <4>1, <4>2, AppendSorted DEF LinesOf
    <3>2. CASE t \notin open[c]
      BY <1>3, <3>2, OneLine DEF LinesOf
    <3> QED
      BY <3>1, <3>2
  <2>3. \A x \in Share(parallel, c, t) : x.row = row[c] /\ x.line = l => x = y
    BY <1>1, ShareLine
  <2>4. Passed(c, t, y)'
    BY <1>4, <1>5
  <2>5. LinesOf(c, t)' \subseteq Share(parallel, c, t)'
    BY <1>5, <1>7, <2>2 DEF FileRight
  <2>6. \A x \in LinesOf(c, t)' : Passed(c, t, x)'
    BY <1>7, <2>2, <2>4 DEF FileRight
  <2>7. \A x \in Share(parallel, c, t) : Passed(c, t, x)' => x \in LinesOf(c, t)'
    BY <1>7, <2>2, <2>3 DEF FileRight
  <2>8. ~Behind(c, p)'
    BY <1>2 DEF Behind, InTable, Table
  <2>9. RowsFor(c, p)' # {}
    BY DEF RowsFor
  <2> QED
    BY <1>3, <2>2, <2>5, <2>6, <2>7, <2>8, <2>9 DEF FileRight
<1>9. ASSUME NEW q \in Mains, NEW u \in Family(q), u # t PROVE FileRight(c, q, u)'
  <2>1. u \in Table /\ q \in Table
    BY <1>9, Families
  <2>2. LinesOf(c, u)' = LinesOf(c, u) /\ file'[c][u] = file[c][u]
    BY <1>3, <1>9, <2>1 DEF LinesOf
  <2>3. (u \in open'[c] <=> u \in open[c]) /\ (u \in created'[c] <=> u \in created[c])
    BY <1>3, <1>9
  <2>4. FileRight(c, q, u)
    BY <1>9 DEF FilesInv, FilesRight
  <2>5. Behind(c, q)' <=> Behind(c, q)
    BY DEF Behind, InTable
  <2>6. q = p => \A x \in Share(parallel, c, u) : Passed(c, u, x)' <=> Passed(c, u, x)
    BY <1>9
  <2>7. InTable(c)' /\ (tab'[c] = q <=> p = q) /\ (tab[c] = q <=> p = q)
    OBVIOUS
  <2>8. CASE q = p
    BY <2>2, <2>3, <2>4, <2>5, <2>6, <2>7, <2>8 DEF FileRight, RowsFor
  <2>9. CASE q # p
    BY <2>2, <2>3, <2>4, <2>5, <2>7, <2>9 DEF FileRight, RowsFor
  <2> QED
    BY <2>8, <2>9
<1>10. \A q \in Mains : t \in Family(q) => q = p
  BY <1>1, Families
<1> QED
  BY <1>8, <1>9, <1>10 DEF FilesRight

(* The draws of a line item move a stream by its part of the budget.       *)
LEMMA LineStartNext ==
  ASSUME NEW s \in Stream, NEW r \in Nat \ {0}, NEW k \in Nat
  PROVE  /\ LineStart(s, r, k) \in Nat
         /\ LineStart(s, r, k + 1) = LineStart(s, r, k) + PerLine[s]
         /\ LineStart(s, r, 0) = RowStart(s, r) + RowDraws(s, RowStart(s, r))
<1>1. RowStart(s, r) \in Nat /\ RowDraws(s, RowStart(s, r)) \in Nat
  BY RowStartType, RowDrawsType
<1>2. PerLine[s] \in Nat
  BY StreamAssumption
<1>3. /\ k * PerLine[s] \in Nat
      /\ (k + 1) * PerLine[s] = k * PerLine[s] + PerLine[s]
      /\ 0 * PerLine[s] = 0
  BY <1>2
<1> QED
  BY <1>1, <1>2, <1>3 DEF LineStart

(* And so does a returned one in the streams of the returns table.         *)
LEMMA ReturnsNext ==
  ASSUME NEW p, NEW r, NEW k \in Nat \ {0}
  PROVE  /\ ReturnsBefore(p, r, k) \in Nat
         /\ ReturnsBefore(p, r, 1) = 0
         /\ ReturnsBefore(p, r, k + 1) =
              ReturnsBefore(p, r, k) + IF SerialReturned(p, r, k) THEN 1 ELSE 0
<1> DEFINE S(m) == {j \in 1 .. m - 1 : SerialReturned(p, r, j)}
<1>1. IsFiniteSet(S(k)) /\ Cardinality(S(k)) \in Nat
  <2>1. IsFiniteSet(1 .. k - 1)
    BY FS_Interval
  <2>2. S(k) \subseteq 1 .. k - 1
    OBVIOUS
  <2> QED
    BY <2>1, <2>2, FS_Subset, FS_CardinalityType
<1>2. S(1) = {} /\ Cardinality(S(1)) = 0
  BY FS_EmptySet
<1>3. k \notin S(k)
  OBVIOUS
<1>4. \A m : ReturnsBefore(p, r, m) = Cardinality(S(m))
  BY DEF ReturnsBefore
<1>5. CASE SerialReturned(p, r, k)
  <2>1. S(k + 1) = S(k) \cup {k}
    BY <1>5
  <2>2. Cardinality(S(k) \cup {k}) = Cardinality(S(k)) + 1
    BY <1>1, <1>3, FS_AddElement
  <2> HIDE DEF S
  <2> QED
    BY <1>4, <1>1, <1>2, <1>5, <2>1, <2>2
<1>6. CASE ~SerialReturned(p, r, k)
  <2>1. S(k + 1) = S(k)
    BY <1>6
  <2> HIDE DEF S
  <2> QED
    BY <1>4, <1>1, <1>2, <1>6, <2>1
<1> QED
  BY <1>5, <1>6

(* A line is what its own table's streams make it.                         *)
LEMMA SamePlacesSameLine ==
  ASSUME NEW p, NEW t, NEW r, NEW l, NEW places,
         \A s \in Streams({t}) : places[s] = PlaceOf(p, t, r, l, s)
  PROVE  Line(t, r, l, places) = LineOf(p, t, r, l)
<1>1. \A s \in Stream :
        (IF s \in Streams({t}) THEN places[s] ELSE 0)
          = (IF s \in Streams({t}) THEN [z \in Stream |-> PlaceOf(p, t, r, l, z)][s]
             ELSE 0)
  OBVIOUS
<1> QED
  BY <1>1 DEF Line, LineOf

(* Where the process is in a table, the row under way is one of its own.   *)
LEMMA RowUnderWay ==
  ASSUME TInv, FilesInv, NEW c \in Child, InTable(c)
  PROVE  /\ c \in Kids(parallel) /\ parallel \in Parallels
         /\ tab[c] \in Mains /\ tab[c] \in Selected
         /\ row[c] \in Nat \ {0}
         /\ left[c] > 0 => row[c] \in RowsFor(c, tab[c])
         /\ left[c] = 0 => \A r \in RowsFor(c, tab[c]) : r < row[c]
         /\ \A t \in Family(tab[c]) : \A x \in Share(parallel, c, t) :
              x.row \in RowsFor(c, tab[c]) /\ x.row \in Nat
<1>1. /\ c \in Kids(parallel) /\ parallel \in Parallels
      /\ tab[c] \in Mains
      /\ row[c] \in Nat /\ left[c] \in Nat
  BY DEF TInv, TypeOK, Control, InTable, Mains
<1> DEFINE first == FirstRow(Rows[tab[c]], parallel, c)
           count == RowCount(Rows[tab[c]], parallel, c)
<1>2. /\ tab[c] \in Selected
      /\ first <= row[c]
      /\ row[c] + left[c] = first + count
  BY <1>1 DEF FilesInv, InPlace
<1>3. first \in Nat \ {0} /\ count \in Nat
  BY <1>1, RowsForType
<1>4. RowsFor(c, tab[c]) = first .. first + count - 1
  BY DEF RowsFor, Chunk
<1>5. \A t \in Family(tab[c]) : \A x \in Share(parallel, c, t) :
        x.row \in RowsFor(c, tab[c]) /\ x.row \in Nat
  BY <1>1, ShareLine DEF RowsFor
<1> HIDE DEF first, count
<1> QED
  BY <1>1, <1>2, <1>3, <1>4, <1>5

(* Steps between tables, and the end of a process.                         *)
LEMMA LaunchRight ==
  ASSUME TInv, FilesInv, NEW c \in Child, Launch(c)
  PROVE  FilesInv'
<1>1. /\ c \in Kids(parallel) /\ pc[c] = "idle" /\ pc'[c] = "table"
      /\ UNCHANGED <<parallel, memory, disk>>
      /\ \A d \in Child \ {c} : UNCHANGED Work(d)
  BY DEF Launch, options, memory, disk, Work, TInv, TypeOK
<1>2. InPlace(c) /\ FilesRight(c)
  BY <1>1 DEF FilesInv
<1>3. InPlace(c)'
  BY <1>1 DEF InPlace, InTable
<1>4. FilesRight(c)'
  <2> SUFFICES ASSUME NEW p \in Mains, NEW t \in Family(p)
               PROVE  FileRight(c, p, t)'
    BY DEF FilesRight
  <2>1. FileRight(c, p, t) /\ LinesOf(c, t)' = LinesOf(c, t)
    BY <1>1, <1>2 DEF FilesRight, LinesOf, disk
  <2>2. ~Behind(c, p)'
    BY <1>1, <1>2 DEF Behind, InPlace, Mains, Table, memory
  <2> QED
    BY <1>1, <2>1, <2>2 DEF FileRight, InTable, RowsFor, memory, disk
<1> QED
  BY <1>1, <1>3, <1>4, OthersRight

(* A table that is skipped owes nothing, or is not built by itself.        *)
LEMMA SkipTableRight ==
  ASSUME TInv, FilesInv, NEW c \in Child, SkipTable(c)
  PROVE  FilesInv'
<1>1. /\ pc[c] = "table" /\ pc'[c] = "table" /\ tab'[c] = tab[c] + 1
      /\ tab[c] \in Table /\ (IsChild(tab[c]) \/ tab[c] \notin Selected)
      /\ UNCHANGED <<parallel, open, disk>>
      /\ \A d \in Child \ {c} : UNCHANGED Work(d)
  BY DEF SkipTable, options, disk, Work, TInv, TypeOK
<1>2. c \in Kids(parallel) /\ parallel \in Parallels
  BY <1>1 DEF TInv, TypeOK, Control
<1>3. InPlace(c)'
  BY <1>1 DEF InPlace, InTable
<1>4. FilesRight(c)'
  <2> SUFFICES ASSUME NEW p \in Mains, NEW t \in Family(p)
               PROVE  FileRight(c, p, t)'
    BY DEF FilesRight
  <2>1. FileRight(c, p, t) /\ LinesOf(c, t)' = LinesOf(c, t)
    BY <1>1, <1>2 DEF FilesInv, FilesRight, LinesOf, disk
  <2>2. Behind(c, p)' => Behind(c, p) \/ p = tab[c]
    BY <1>1 DEF Behind, Mains, Table
  <2>3. p = tab[c] => Share(parallel, c, t) = {}
    BY <1>1, <1>2, ShareOf DEF Mains
  <2> QED
    BY <1>1, <2>1, <2>2, <2>3 DEF FileRight, InTable, RowsFor, disk
<1> QED
  BY <1>1, <1>2, <1>3, <1>4, OthersRight

LEMMA BeginTableRight ==
  ASSUME TInv, TInv', FilesInv, NEW c \in Child, BeginTable(c)
  PROVE  FilesInv'
<1>1. PICK q \in Mains : q = tab[c]
  BY DEF BeginTable, Mains
<1>2. /\ pc[c] = "table" /\ pc'[c] = "row" /\ tab'[c] = q /\ q \in Selected
      /\ row'[c] = FirstRow(Rows[q], parallel, c)
      /\ left'[c] = RowCount(Rows[q], parallel, c)
      /\ UNCHANGED <<parallel, open, disk>>
      /\ \A d \in Child \ {c} : UNCHANGED Work(d)
  BY <1>1 DEF BeginTable, options, disk, Work, TInv, TypeOK
<1>3. c \in Kids(parallel) /\ parallel \in Parallels
  BY <1>2 DEF TInv, TypeOK, Control
<1>4. row'[c] \in Nat /\ left'[c] \in Nat
  BY <1>1, <1>2, <1>3, RowsForType
<1>5. InPlace(c)'
  BY <1>2, <1>4 DEF InPlace, InTable
<1>6. FilesRight(c)'
  <2> SUFFICES ASSUME NEW p \in Mains, NEW t \in Family(p)
               PROVE  FileRight(c, p, t)'
    BY DEF FilesRight
  <2>1. FileRight(c, p, t) /\ LinesOf(c, t)' = LinesOf(c, t)
    BY <1>2, <1>3 DEF FilesInv, FilesRight, LinesOf, disk
  <2>2. Behind(c, p)' <=> Behind(c, p)
    BY <1>1, <1>2 DEF Behind
  <2>3. t \notin open[c]
    BY <1>2, <2>1 DEF FileRight, InTable
  <2>4. q = p => \A x \in Share(parallel, c, t) : ~Passed(c, t, x)'
    <3> SUFFICES ASSUME q = p, NEW x \in Share(parallel, c, t)
                 PROVE  ~Passed(c, t, x)'
      OBVIOUS
    <3>1. x.row \in Chunk(Rows[q], parallel, c) /\ x.row \in Nat
      BY <1>3, ShareLine
    <3>2. x.row >= row'[c]
      BY <1>1, <1>2, <1>3, <3>1, RowsForType DEF Chunk
    <3> QED
      BY <1>2, <1>4, <3>1, <3>2 DEF Passed, InRow
  <2> QED
    BY <1>2, <2>1, <2>2, <2>3, <2>4 DEF FileRight, InTable, RowsFor, disk
<1> QED
  BY <1>2, <1>3, <1>5, <1>6, OthersRight

(* After the last row all lines of the chunk are in the file.              *)
LEMMA EndTableRight ==
  ASSUME TInv, FilesInv, NEW c \in Child, EndTable(c)
  PROVE  FilesInv'
<1>1. PICK q \in Mains : q = tab[c]
  BY DEF EndTable, TInv, Control, InTable, Mains
<1>2. /\ pc[c] = "row" /\ pc'[c] = "table" /\ tab'[c] = q + 1 /\ left[c] = 0
      /\ open'[c] = open[c] \ Family(q)
      /\ UNCHANGED <<parallel, disk>>
      /\ \A d \in Child \ {c} : UNCHANGED Work(d)
  BY <1>1 DEF EndTable, options, disk, Work, TInv, TypeOK
<1>3. /\ InTable(c) /\ c \in Kids(parallel)
      /\ \A r \in RowsFor(c, q) : r < row[c]
      /\ \A t \in Family(q) : \A x \in Share(parallel, c, t) : x.row \in RowsFor(c, q)
  BY <1>1, <1>2, RowUnderWay DEF InTable
<1>4. InPlace(c)'
  BY <1>2 DEF InPlace, InTable
<1>5. FilesRight(c)'
  <2> SUFFICES ASSUME NEW p \in Mains, NEW t \in Family(p)
               PROVE  FileRight(c, p, t)'
    BY DEF FilesRight
  <2>1. FileRight(c, p, t) /\ LinesOf(c, t)' = LinesOf(c, t)
    BY <1>2, <1>3 DEF FilesInv, FilesRight, LinesOf, disk
  <2>2. Behind(c, p)' => Behind(c, p) \/ p = q
    BY <1>1, <1>2 DEF Behind, Mains, Table
  <2>3. p = q => Share(parallel, c, t) \subseteq LinesOf(c, t)
    BY <1>1, <1>3, <2>1 DEF FileRight, Passed
  <2>4. t \notin open'[c]
    BY <1>1, <1>2, <2>1 DEF FileRight
  <2> QED
    BY <1>2, <2>1, <2>2, <2>3, <2>4 DEF FileRight, InTable, RowsFor, disk
<1> QED
  BY <1>2, <1>3, <1>4, <1>5, OthersRight

(* A process that ends otherwise leaves its files as they are, but for a   *)
(* kill that finds it opening one.                                         *)
LEMMA EndsRight ==
  ASSUME TInv, FilesInv, NEW c \in Child, Exit(c) \/ Refuse(c) \/ Kill(c)
  PROVE  FilesInv'
<1>1. pc[c] # "idle" /\ UNCHANGED parallel
  BY DEF Exit, Refuse, Kill, NextPrinted, options
<1>2. c \in Kids(parallel)
  BY <1>1 DEF TInv, Control
<1>3. UNCHANGED disk
  BY DEF Exit, Refuse, Kill, Unflushed, TInv, TypeOK, disk
<1>4. PICK status \in {"idle", "done", "failed"} :
        /\ Stop(c, status)
        /\ status = "done" => pc[c] = "table" /\ tab[c] = NTable + 1
  BY DEF Exit, Refuse, Kill
<1> QED
  BY <1>1, <1>2, <1>3, <1>4, StoppedRight

LEMMA KillAtOpenRight ==
  ASSUME TInv, FilesInv, NEW c \in Child, KillAtOpen(c)
  PROVE  FilesInv'
<1>1. PICK t \in NextPrinted(c) :
        /\ created' = [created EXCEPT ![c] = @ \cup {t}]
        /\ file'    = [file EXCEPT ![c][t] = <<>>]
  BY DEF KillAtOpen
<1>2. InTable(c) /\ t \in Table /\ left[c] > 0 /\ t \in Family(tab[c])
  <2>1. InTable(c) /\ t \in Table
    BY DEF NextPrinted, InTable
  <2>2. left[c] > 0
    BY DEF NextPrinted, TInv, Control
  <2>3. pc[c] = "line" => IsParent(tab[c])
    BY DEF TInv, Control
  <2> QED
    BY <2>1, <2>2, <2>3 DEF NextPrinted, Family
<1>3. /\ pc'[c] = "idle" /\ tab'[c] = 1 /\ open'[c] = {} /\ UNCHANGED parallel
      /\ created'[c] = created[c] \cup {t}
      /\ file'[c][t] = <<>> /\ \A u \in Table \ {t} : file'[c][u] = file[c][u]
      /\ \A d \in Child \ {c} : UNCHANGED Work(d)
  BY <1>1, <1>2 DEF KillAtOpen, Stop, options, Work, TInv, TypeOK
<1>4. c \in Kids(parallel) /\ tab[c] \in Mains /\ RowsFor(c, tab[c]) # {}
  BY <1>2, RowUnderWay
<1>5. InPlace(c)'
  BY <1>3 DEF InPlace, InTable
<1>6. FilesRight(c)'
  <2> SUFFICES ASSUME NEW p \in Mains, NEW u \in Family(p)
               PROVE  FileRight(c, p, u)'
    BY DEF FilesRight
  <2>1. FileRight(c, p, u) /\ u \in Table
    BY <1>4, Families DEF FilesInv, FilesRight
  <2>2. LinesOf(c, u)' \subseteq LinesOf(c, u) /\ Sorted(file[c][u])'
    <3>1. CASE u = t
      BY <1>3, <3>1 DEF LinesOf, Sorted
    <3>2. CASE u # t
      BY <1>3, <2>1, <3>2 DEF LinesOf, FileRight
    <3> QED
      BY <3>1, <3>2
  <2>3. u = t => p = tab[c]
    BY <1>2, <1>4, Families
  <2>4. ~Behind(c, p)'
    BY <1>3 DEF Behind
  <2> QED
    BY <1>3, <1>4, <2>1, <2>2, <2>3, <2>4 DEF FileRight, InTable, RowsFor
<1> QED
  BY <1>3, <1>4, <1>5, <1>6, OthersRight

(* Steps within a row.  The streams are where SyncInv has them when the    *)
(* row begins, and from then on where InPlace has them.                    *)
LEMMA BuildRowRight ==
  ASSUME TInv, TInv', SyncInv, FilesInv, NEW c \in Child, BuildRow(c)
  PROVE  FilesInv'
<1>1. /\ pc[c] = "row" /\ left[c] > 0 /\ ~IsParent(tab[c])
      /\ Emit(c, tab[c], Line(tab[c], row[c], 0, at[c]))
      /\ pc'[c] = "stop"
      /\ UNCHANGED <<parallel, tab, row, left>>
      /\ \A d \in Child \ {c} : UNCHANGED Work(d)
  BY DEF BuildRow, Draw, Emit, options, Work, TInv, TypeOK
<1>2. /\ InTable(c) /\ InTable(c)'
      /\ c \in Kids(parallel) /\ parallel \in Parallels
      /\ tab[c] \in Mains /\ tab[c] \in Selected /\ tab[c] \in Table
      /\ row[c] \in RowsFor(c, tab[c])
  BY <1>1, RowUnderWay DEF InTable, Mains
<1>3. tab[c] \in Family(tab[c]) /\ Family(tab[c]) = {tab[c]}
  BY <1>1 DEF Family
<1>4. Line(tab[c], row[c], 0, at[c]) = LineOf(tab[c], tab[c], row[c], 0)
  <2>1. InSync(c, Family(tab[c]))
    BY <1>1 DEF SyncInv, OnCourse
  <2>2. \A s \in Streams({tab[c]}) :
          at[c][s] = PlaceOf(tab[c], tab[c], row[c], 0, s)
    BY <1>1, <1>3, <2>1 DEF InSync, PlaceOf
  <2> QED
    BY <2>2, SamePlacesSameLine
<1>5. 0 \in ItemsOf(tab[c], tab[c], row[c])
  BY <1>1 DEF ItemsOf
<1>6. \A x \in Share(parallel, c, tab[c]) :
        /\ Passed(c, tab[c], x)' <=>
             Passed(c, tab[c], x) \/ (x.row = row[c] /\ x.line = 0)
        /\ Passed(c, tab[c], x) =>
             x.row < row[c] \/ (x.row = row[c] /\ x.line > 0)
  <2>1. \A x \in Share(parallel, c, tab[c]) : x.line = 0
    BY <1>1, <1>2, <1>3, ShareLine
  <2> QED
    BY <1>1, <2>1 DEF Passed, Pending, InRow
<1>7. FilesRight(c)'
  BY <1>1, <1>2, <1>3, <1>4, <1>5, <1>6, LinePrinted
<1>8. InPlace(c)'
  BY <1>1, <1>2 DEF FilesInv, InPlace, InTable
<1> QED
  BY <1>1, <1>2, <1>7, <1>8, OthersRight

LEMMA BuildOrderRight ==
  ASSUME TInv, TInv', SyncInv, FilesInv, NEW c \in Child, BuildOrder(c)
  PROVE  FilesInv'
<1>1. PICK p \in Mains : p = tab[c] /\ IsParent(p) /\ p \in Table
  BY DEF BuildOrder, TInv, Control, InTable, Mains
<1>2. PICK r \in Nat \ {0} : r = row[c]
  BY RowUnderWay DEF BuildOrder, InTable
<1> DEFINE n == SerialLineCount(p, r)
           u == ReturnsOf[p]
<1>3. /\ pc[c] = "row" /\ left[c] > 0 /\ pc'[c] = "line"
      /\ Draw(c, MasterDraws(c, p))
      /\ lines'[c] = LineCount(p, at[c][CountStream[p]])
      /\ UNCHANGED <<parallel, tab, row, left, open, disk>>
      /\ \A d \in Child \ {c} : UNCHANGED Work(d)
  BY <1>1 DEF BuildOrder, Draw, options, disk, Work, TInv, TypeOK
<1>4. /\ InTable(c) /\ InTable(c)'
      /\ c \in Kids(parallel) /\ parallel \in Parallels
  BY <1>3, RowUnderWay DEF InTable
<1>5. \A s \in Streams(Family(p)) : at[c][s] = RowStart(s, r)
  BY <1>1, <1>2, <1>3 DEF SyncInv, OnCourse, InSync
<1>6. p \in Family(p) /\ u \in Family(p) /\ u \in Table /\ u # p /\ IsChild(u)
  BY <1>1, FamilyType DEF Family, Mains
<1>7. lines'[c] = n /\ n \in Nat
  <2>1. CountStream[p] \in Streams(Family(p))
    BY <1>1, <1>6, LineAssumption DEF Streams
  <2>2. n \in Nat
    BY <1>1, CountType
  <2> QED
    BY <1>3, <1>5, <2>1, <2>2 DEF SerialLineCount
<1>8. \A t \in Family(p) : \A x \in Share(parallel, c, t) :
        Passed(c, t, x)' <=> Passed(c, t, x)
  <2> SUFFICES ASSUME NEW t \in Family(p), NEW x \in Share(parallel, c, t)
               PROVE  Passed(c, t, x)' <=> Passed(c, t, x)
    OBVIOUS
  <2>1. x.row = r => x.line \in 1 .. n
    BY <1>1, <1>4, ShareLine
  <2> HIDE DEF n
  <2> QED
    BY <1>2, <1>3, <1>7, <2>1 DEF Passed, Pending, InRow
<1>9. FilesRight(c)'
  BY <1>1, <1>3, <1>4, <1>8, NothingPrinted DEF disk
<1>10. InPlace(c)'
  <2>1. Drawn(c)' = 0
    BY <1>1, <1>2, <1>3, <1>7 DEF Drawn
  <2>2. ASSUME NEW s \in Streams({p})
        PROVE  at'[c][s] = LineStart(s, r, 0)
    <3>1. s \in Stream /\ s \in Streams(Family(p))
      BY <1>6 DEF Streams
    <3>2. at'[c][s] = at[c][s] + RowDraws(s, at[c][s])
      BY <1>3, <3>1, <2>2 DEF Draw, MasterDraws, TInv, TypeOK
    <3> QED
      BY <1>5, <3>1, <3>2, LineStartNext
  <2>3. ASSUME NEW s \in Streams({u})
        PROVE  at'[c][s] = LineStart(s, r, ReturnsBefore(p, r, 1))
    <3>1. /\ s \in Stream /\ s \in Streams(Family(p)) /\ s \notin Streams({p})
          /\ IsChild(TableOf[s])
      BY <1>6 DEF Streams
    <3>2. at'[c][s] = at[c][s] + 0
      BY <1>3, <3>1 DEF Draw, MasterDraws, TInv, TypeOK
    <3>3. RowStart(s, r) \in Nat
      BY <3>1, RowStartType
    <3>4. RowDraws(s, RowStart(s, r)) = 0
      BY <3>1, <3>3, RowDrawsType
    <3>5. ReturnsBefore(p, r, 1) = 0
      BY ReturnsNext
    <3> QED
      BY <1>5, <3>1, <3>2, <3>3, <3>4, <3>5, LineStartNext
  <2>4. InPlace(c)
    BY <1>4 DEF FilesInv
  <2> HIDE DEF n, u
  <2>5. /\ tab'[c] \in Selected
        /\ FirstRow(Rows[tab'[c]], parallel', c) <= row'[c]
        /\ row'[c] + left'[c] = FirstRow(Rows[tab'[c]], parallel', c)
                                  + RowCount(Rows[tab'[c]], parallel', c)
    BY <1>3, <1>4, <2>4 DEF InPlace
  <2>6. lines'[c] <= SerialLineCount(tab'[c], row'[c])
    BY <1>1, <1>2, <1>3, <1>7 DEF n
  <2>7. 0 + 1 = 1
    OBVIOUS
  <2> QED
    BY <1>1, <1>2, <1>3, <2>1, <2>2, <2>3, <2>5, <2>6, <2>7 DEF InPlace, u
<1> QED
  BY <1>3, <1>4, <1>9, <1>10, OthersRight

(* The line item drawn is returned when it is in the serial build, and its *)
(* return is the serial build's.                                           *)
LEMMA BuildLineRight ==
  ASSUME TInv, TInv', FilesInv, NEW c \in Child, BuildLine(c)
  PROVE  FilesInv'
<1>1. PICK p \in Mains : p = tab[c] /\ IsParent(p) /\ p \in Table
  BY DEF BuildLine, TInv, Control, InTable, Mains
<1>2. PICK r \in Nat \ {0} : r = row[c]
  BY RowUnderWay DEF BuildLine, InTable
<1>3. PICK l \in Nat \ {0} : l = lines[c]
  BY LineAssumption DEF BuildLine, TInv, TypeOK, Control
<1>4. PICK n \in Nat \ {0} : n = SerialLineCount(p, r)
  BY <1>1, CountType
<1>5. PICK u \in Table : u = ReturnsOf[p]
  BY <1>1, FamilyType
<1> DEFINE k    == n - l + 1
           back == Returned(p, at[c][ReturnStream[p]])
<1>6. /\ pc[c] = "line" /\ pc'[c] = "sale"
      /\ Draw(c, LineDraws(IF back THEN {p, u} ELSE {p}))
      /\ IF back THEN Emit(c, u, Line(u, r, l, at[c])) ELSE UNCHANGED <<open, disk>>
      /\ UNCHANGED <<parallel, tab, row, left, lines>>
      /\ \A d \in Child \ {c} : UNCHANGED Work(d)
  BY <1>1, <1>2, <1>3, <1>5
     DEF BuildLine, Draw, Emit, options, disk, Work, TInv, TypeOK
<1>7. /\ InTable(c) /\ InTable(c)' /\ left[c] > 0
      /\ c \in Kids(parallel) /\ parallel \in Parallels
      /\ p \in Selected /\ r \in RowsFor(c, p)
  BY <1>1, <1>2, <1>6, RowUnderWay DEF InTable, TInv, Control
<1>8. p \in Family(p) /\ u \in Family(p) /\ u # p /\ Family(p) = {p, u}
  BY <1>1, <1>5, FamilyType DEF Family, Mains
<1>9. /\ l <= n
      /\ \A s \in Streams({p}) : at[c][s] = LineStart(s, r, n - l)
      /\ \A s \in Streams({u}) : at[c][s] = LineStart(s, r, ReturnsBefore(p, r, k))
  <2>1. InPlace(c) /\ Drawn(c) = n - l
    BY <1>1, <1>2, <1>3, <1>4, <1>6, <1>7 DEF FilesInv, Drawn
  <2> QED
    BY <1>1, <1>2, <1>3, <1>4, <1>5, <1>6, <2>1 DEF InPlace
<1>10. k \in Nat \ {0} /\ k - 1 \in Nat /\ n - l = k - 1 /\ l \in 1 .. n
  BY <1>9
<1>11. back <=> SerialReturned(p, r, k)
  <2>1. ReturnStream[p] \in Streams({p})
    BY <1>1, LineAssumption DEF Streams
  <2> QED
    BY <1>9, <1>10, <2>1 DEF SerialReturned
<1> HIDE DEF back
<1>12. l \in ItemsOf(p, u, r) <=> back
  BY <1>1, <1>4, <1>8, <1>10, <1>11 DEF ItemsOf
<1>13. \A x \in Share(parallel, c, p) : Passed(c, p, x)' <=> Passed(c, p, x)
  BY <1>1, <1>6 DEF Passed, Pending, InRow
<1>14. \A x \in Share(parallel, c, u) :
         /\ x.line \in Nat /\ x.line \in ItemsOf(p, u, x.row)
         /\ Passed(c, u, x)' <=> Passed(c, u, x) \/ (x.row = r /\ x.line = l)
         /\ Passed(c, u, x) => x.row < r \/ (x.row = r /\ x.line > l)
  <2> SUFFICES ASSUME NEW x \in Share(parallel, c, u)
               PROVE  /\ x.line \in Nat /\ x.line \in ItemsOf(p, u, x.row)
                      /\ Passed(c, u, x)' <=> Passed(c, u, x) \/ (x.row = r /\ x.line = l)
                      /\ Passed(c, u, x) => x.row < r \/ (x.row = r /\ x.line > l)
    OBVIOUS
  <2>1. x.line \in Nat /\ x.line \in ItemsOf(p, u, x.row)
    BY <1>7, <1>8, ShareLine
  <2>2. Passed(c, u, x) <=> x.row < r \/ (x.row = r /\ x.line > l)
    BY <1>2, <1>3, <1>6 DEF Passed, Pending, InRow
  <2>3. Passed(c, u, x)' <=> x.row < r \/ (x.row = r /\ x.line > l - 1)
    BY <1>1, <1>2, <1>3, <1>6, <1>8 DEF Passed, Pending, InRow
  <2> QED
    BY <2>1, <2>2, <2>3
<1>15. FilesRight(c)'
  <2>1. CASE back
    <3>1. Line(u, r, l, at[c]) = LineOf(p, u, r, l)
      <4>1. \A s \in Streams({u}) : at[c][s] = PlaceOf(p, u, r, l, s)
        BY <1>1, <1>4, <1>8, <1>9 DEF PlaceOf
      <4> QED
        BY <4>1, SamePlacesSameLine
    <3>2. Emit(c, u, LineOf(p, u, r, l)) /\ l \in ItemsOf(p, u, r)
      BY <1>6, <1>12, <2>1, <3>1
    <3>3. \A t \in Family(p) \ {u} : \A x \in Share(parallel, c, t) :
            Passed(c, t, x)' <=> Passed(c, t, x)
      BY <1>8, <1>13
    <3> QED
      BY <1>1, <1>2, <1>6, <1>7, <1>8, <1>14, <3>2, <3>3, LinePrinted
  <2>2. CASE ~back
    <3>1. \A t \in Family(p) : \A x \in Share(parallel, c, t) :
            Passed(c, t, x)' <=> Passed(c, t, x)
      BY <1>8, <1>12, <1>13, <1>14, <2>2
    <3> QED
      BY <1>1, <1>6, <1>7, <2>2, <3>1, NothingPrinted DEF disk
  <2> QED
    BY <2>1, <2>2
<1>16. InPlace(c)'
  <2>1. Drawn(c)' = k
    BY <1>1, <1>2, <1>3, <1>4, <1>6, <1>9 DEF Drawn
  <2>2. ASSUME NEW s \in Streams({p})
        PROVE  at'[c][s] = LineStart(s, r, k)
    <3>1. s \in Stream /\ s \in Streams({p, u})
      BY <2>2 DEF Streams
    <3>2. at'[c][s] = at[c][s] + PerLine[s]
      BY <1>6, <3>1, <2>2 DEF Draw, LineDraws, TInv, TypeOK
    <3>3. (k - 1) + 1 = k
      BY <1>10
    <3>4. LineStart(s, r, (k - 1) + 1) = LineStart(s, r, k - 1) + PerLine[s]
      BY <1>10, <3>1, LineStartNext
    <3> QED
      BY <1>9, <1>10, <3>2, <3>3, <3>4
  <2>3. ASSUME NEW s \in Streams({u})
        PROVE  at'[c][s] = LineStart(s, r, ReturnsBefore(p, r, k + 1))
    <3>1. s \in Stream /\ s \in Streams({p, u}) /\ s \notin Streams({p})
      BY <1>8, <2>3 DEF Streams
    <3>2. at'[c][s] = at[c][s] + IF back THEN PerLine[s] ELSE 0
      BY <1>6, <3>1 DEF Draw, LineDraws, TInv, TypeOK
    <3>3. /\ ReturnsBefore(p, r, k) \in Nat
          /\ ReturnsBefore(p, r, k + 1) =
               ReturnsBefore(p, r, k) + IF back THEN 1 ELSE 0
      BY <1>10, <1>11, ReturnsNext
    <3>4. /\ LineStart(s, r, ReturnsBefore(p, r, k)) \in Nat
          /\ LineStart(s, r, ReturnsBefore(p, r, k) + 1) =
               LineStart(s, r, ReturnsBefore(p, r, k)) + PerLine[s]
      BY <3>1, <3>3, LineStartNext
    <3>5. at[c][s] = LineStart(s, r, ReturnsBefore(p, r, k))
      BY <1>9, <2>3
    <3> HIDE DEF k
    <3>6. CASE back
      BY <3>2, <3>3, <3>4, <3>5, <3>6
    <3>7. CASE ~back
      BY <3>2, <3>3, <3>4, <3>5, <3>7
    <3> QED
      BY <3>6, <3>7
  <2>4. InPlace(c)
    BY <1>7 DEF FilesInv
  <2> HIDE DEF k
  <2> QED
    BY <1>1, <1>2, <1>3, <1>4, <1>5, <1>6, <1>7, <1>9, <2>1, <2>2, <2>3, <2>4
       DEF InPlace
<1> QED
  BY <1>6, <1>7, <1>15, <1>16, OthersRight

LEMMA PrintSaleRight ==
  ASSUME TInv, TInv', FilesInv, NEW c \in Child, PrintSale(c)
  PROVE  FilesInv'
<1>1. PICK p \in Mains : p = tab[c] /\ IsParent(p) /\ p \in Table
  BY DEF PrintSale, TInv, Control, InTable, Mains
<1>2. PICK r \in Nat \ {0} : r = row[c]
  BY RowUnderWay DEF PrintSale, InTable
<1>3. PICK l \in Nat \ {0} : l = lines[c]
  BY LineAssumption DEF PrintSale, TInv, TypeOK, Control
<1>4. PICK n \in Nat \ {0} : n = SerialLineCount(p, r)
  BY <1>1, CountType
<1>5. PICK u \in Table : u = ReturnsOf[p]
  BY <1>1, FamilyType
<1>6. /\ pc[c] = "sale" /\ pc'[c] = IF l = 1 THEN "stop" ELSE "line"
      /\ lines'[c] = l - 1
      /\ Emit(c, p, Line(p, r, l, at[c]))
      /\ UNCHANGED <<parallel, tab, row, left, at>>
      /\ \A d \in Child \ {c} : UNCHANGED Work(d)
  BY <1>1, <1>2, <1>3 DEF PrintSale, Emit, options, Work, TInv, TypeOK
<1>7. /\ InTable(c) /\ InTable(c)' /\ left[c] > 0
      /\ c \in Kids(parallel) /\ parallel \in Parallels
      /\ p \in Selected /\ r \in RowsFor(c, p)
  BY <1>1, <1>2, <1>6, RowUnderWay DEF InTable, TInv, Control
<1>8. p \in Family(p) /\ u \in Family(p) /\ u # p /\ Family(p) = {p, u}
  BY <1>1, <1>5, FamilyType DEF Family, Mains
<1>9. /\ l <= n
      /\ \A s \in Streams({p}) : at[c][s] = LineStart(s, r, n - l + 1)
      /\ \A s \in Streams({u}) :
           at[c][s] = LineStart(s, r, ReturnsBefore(p, r, n - l + 2))
  <2>1. InPlace(c) /\ Drawn(c) = n - l + 1 /\ n - l + 1 + 1 = n - l + 2
    BY <1>1, <1>2, <1>3, <1>4, <1>6, <1>7 DEF FilesInv, Drawn
  <2> QED
    BY <1>1, <1>2, <1>3, <1>4, <1>5, <1>6, <2>1 DEF InPlace
<1>10. l \in ItemsOf(p, p, r)
  BY <1>1, <1>4, <1>9 DEF ItemsOf
<1>11. Line(p, r, l, at[c]) = LineOf(p, p, r, l)
  <2>1. \A s \in Streams({p}) : at[c][s] = PlaceOf(p, p, r, l, s)
    BY <1>1, <1>4, <1>9 DEF PlaceOf
  <2> QED
    BY <2>1, SamePlacesSameLine
<1>12. \A t \in Family(p) : \A x \in Share(parallel, c, t) :
         /\ x.row = r => x.line \in 1 .. n
         /\ Passed(c, t, x)' <=>
              Passed(c, t, x) \/ (t = p /\ x.row = r /\ x.line = l)
         /\ t = p /\ Passed(c, t, x) => x.row < r \/ (x.row = r /\ x.line > l)
  <2> SUFFICES ASSUME NEW t \in Family(p), NEW x \in Share(parallel, c, t)
               PROVE  /\ x.row = r => x.line \in 1 .. n
                      /\ Passed(c, t, x)' <=>
                           Passed(c, t, x) \/ (t = p /\ x.row = r /\ x.line = l)
                      /\ t = p /\ Passed(c, t, x) =>
                           x.row < r \/ (x.row = r /\ x.line > l)
    OBVIOUS
  <2>1. x.row = r => x.line \in 1 .. n
    BY <1>1, <1>4, <1>7, ShareLine
  <2>2. Passed(c, t, x) <=>
          x.row < r \/ (x.row = r /\ x.line > IF t = p THEN l ELSE l - 1)
    BY <1>1, <1>2, <1>3, <1>6 DEF Passed, Pending, InRow
  <2>3. Passed(c, t, x)' <=>
          x.row < r \/ (x.row = r /\ x.line > IF l = 1 THEN -1 ELSE l - 1)
    BY <1>1, <1>2, <1>3, <1>6 DEF Passed, Pending, InRow
  <2> QED
    BY <2>1, <2>2, <2>3
<1>13. FilesRight(c)'
  <2>1. Emit(c, p, LineOf(p, p, r, l))
    BY <1>6, <1>11
  <2>2. \A t \in Family(p) \ {p} : \A x \in Share(parallel, c, t) :
          Passed(c, t, x)' <=> Passed(c, t, x)
    BY <1>12
  <2>3. \A x \in Share(parallel, c, p) :
          /\ Passed(c, p, x)' <=> Passed(c, p, x) \/ (x.row = r /\ x.line = l)
          /\ Passed(c, p, x) => x.row < r \/ (x.row = r /\ x.line > l)
    BY <1>8, <1>12
  <2> QED
    BY <1>1, <1>2, <1>6, <1>7, <1>8, <1>10, <2>1, <2>2, <2>3, LinePrinted
<1>14. InPlace(c)'
  <2>1. InPlace(c)
    BY <1>7 DEF FilesInv
  <2>2. pc'[c] = "line" => Drawn(c)' = n - l + 1
    BY <1>1, <1>2, <1>3, <1>4, <1>6 DEF Drawn
  <2>3. n - l + 1 + 1 = n - l + 2
    BY <1>9
  <2>4. l - 1 <= n
    BY <1>9
  <2> QED
    BY <1>1, <1>2, <1>3, <1>4, <1>5, <1>6, <1>7, <1>9, <2>1, <2>2, <2>3, <2>4
       DEF InPlace
<1> QED
  BY <1>6, <1>7, <1>13, <1>14, OthersRight

LEMMA RowStopRight ==
  ASSUME TInv, TInv', FilesInv, NEW c \in Child, RowStop(c)
  PROVE  FilesInv'
<1>1. PICK p \in Mains : p = tab[c]
  BY DEF RowStop, TInv, Control, InTable, Mains
<1>2. /\ pc[c] = "stop" /\ pc'[c] = "row"
      /\ row'[c] = row[c] + 1 /\ left'[c] = left[c] - 1
      /\ UNCHANGED <<parallel, tab, lines, open, disk>>
      /\ \A d \in Child \ {c} : UNCHANGED Work(d)
  BY DEF RowStop, options, disk, Work, TInv, TypeOK
<1>3. /\ InTable(c) /\ InTable(c)' /\ left[c] \in Nat
      /\ c \in Kids(parallel) /\ parallel \in Parallels
      /\ row[c] \in Nat \ {0}
  BY <1>2, RowUnderWay DEF InTable, TInv, TypeOK
<1>4. \A t \in Family(p) : \A x \in Share(parallel, c, t) :
        Passed(c, t, x)' <=> Passed(c, t, x)
  <2> SUFFICES ASSUME NEW t \in Family(p), NEW x \in Share(parallel, c, t)
               PROVE  Passed(c, t, x)' <=> Passed(c, t, x)
    OBVIOUS
  <2>1. x.line \in Nat /\ x.row \in Nat
    BY <1>3, ShareLine
  <2> QED
    BY <1>2, <1>3, <2>1 DEF Passed, Pending, InRow
<1>5. FilesRight(c)'
  BY <1>1, <1>2, <1>3, <1>4, NothingPrinted DEF disk
<1>6. InPlace(c)'
  <2>1. InPlace(c)
    BY <1>3 DEF FilesInv
  <2>2. /\ FirstRow(Rows[p], parallel, c) \in Nat
        /\ RowCount(Rows[p], parallel, c) \in Nat
    BY <1>3, RowsForType
  <2> QED
    BY <1>1, <1>2, <1>3, <2>1, <2>2 DEF InPlace
<1> QED
  BY <1>2, <1>3, <1>5, <1>6, OthersRight

(* Every step keeps the files right.                                       *)
LEMMA StepRight ==
  ASSUME TInv, TInv', SyncInv, FilesInv, [Next]_vars
  PROVE  FilesInv'
<1>1. CASE UNCHANGED vars
  <2>1. UNCHANGED <<parallel, pc, tab, row, left, lines, at, open, created, file>>
    BY <1>1 DEF vars, options, memory, disk
  <2>2. \A c \in Child : InPlace(c) => InPlace(c)'
    BY <2>1 DEF InPlace, InTable, Drawn
  <2>3. \A c \in Child : FilesRight(c) => FilesRight(c)'
    BY <2>1 DEF FilesRight, FileRight, LinesOf, Passed, Pending, InRow, InTable,
                Behind, RowsFor
  <2> QED
    BY <2>1, <2>2, <2>3 DEF FilesInv, NoFiles
<1> QED
  BY <1>1, LaunchRight, SkipTableRight, BeginTableRight, EndTableRight, EndsRight,
     KillAtOpenRight, BuildRowRight, BuildOrderRight, BuildLineRight,
     PrintSaleRight, RowStopRight DEF Next, Step, Over

LEMMA InitRight == Init => FilesInv
<1> SUFFICES ASSUME Init, NEW c \in Child
             PROVE  InPlace(c) /\ FilesRight(c) /\ NoFiles(c)
  BY DEF FilesInv
<1>1. InPlace(c)
  BY DEF Init, InPlace, InTable
<1>2. NoFiles(c)
  BY DEF Init, NoFiles
<1>3. FilesRight(c)
  <2> SUFFICES ASSUME NEW p \in Mains, NEW t \in Family(p)
               PROVE  FileRight(c, p, t)
    BY DEF FilesRight
  <2>1. t \in Table
    BY Families
  <2> QED
    BY <2>1 DEF Init, FileRight, LinesOf, Sorted, InTable, Behind
<1> QED
  BY <1>1, <1>2, <1>3

(***************************************************************************)
(* Theorems.                                                               *)
(***************************************************************************)

BuildInv == TInv /\ SyncInv /\ FilesInv

LEMMA BuildInvariant == Fits => (Spec => []BuildInv)
<1> SUFFICES ASSUME Fits PROVE Spec => []BuildInv
  OBVIOUS
<1>1. Init => BuildInv
  BY InitTypes, InitSync, InitRight DEF BuildInv
<1>2. BuildInv /\ [Next]_vars => BuildInv'
  BY StepTypes, StepSync, StepRight DEF BuildInv
<1> QED
  BY <1>1, <1>2, PTL DEF Spec

(* In every build whose tables have no more rows than an int can count,    *)
(* whatever the kills, a file holds only lines that a serial build makes   *)
(* of the rows of its child, and none of them twice.                       *)
THEOREM FilesHoldSerialLines == Fits => (Spec => []FilesAreSerial)
<1> SUFFICES ASSUME Fits PROVE Spec => []FilesAreSerial
  OBVIOUS
<1>1. BuildInv => FilesAreSerial
  <2> SUFFICES ASSUME BuildInv, NEW c \in Child, NEW t \in Table
               PROVE  /\ LinesOf(c, t) \subseteq Share(parallel, c, t)
                      /\ Cardinality(LinesOf(c, t)) = Len(file[c][t])
    BY DEF FilesAreSerial
  <2>1. file[c][t] \in Seq(Lines)
    BY DEF BuildInv, TInv, TypeOK
  <2>2. CASE c \in Kids(parallel)
    <3>1. PICK p \in Mains : t \in Family(p)
      BY EveryTableHasMain
    <3>2. FileRight(c, p, t)
      BY <2>2, <3>1 DEF BuildInv, FilesInv, FilesRight
    <3> QED
      BY <2>1, <3>2, SortedOnce DEF FileRight, LinesOf
  <2>3. CASE c \notin Kids(parallel)
    <3>1. file[c][t] = <<>>
      BY <2>3 DEF BuildInv, FilesInv, NoFiles
    <3>2. Sorted(<<>>) /\ LinesOf(c, t) = {}
      BY <3>1 DEF Sorted, LinesOf
    <3> QED
      BY <2>1, <3>1, <3>2, SortedOnce DEF LinesOf
  <2> QED
    BY <2>2, <2>3
<1> QED
  BY <1>1, BuildInvariant, PTL

(* What a child that has ended with exit(0), or is about to, has written   *)
(* is its share.                                                           *)
LEMMA DoneHasShare ==
  ASSUME BuildInv, NEW c \in Child, NEW t \in Table,
         pc[c] = "done" \/ (pc[c] = "table" /\ tab[c] = NTable + 1)
  PROVE  LinesOf(c, t) = Share(parallel, c, t)
<1>1. c \in Kids(parallel)
  BY DEF BuildInv, TInv, Control
<1>2. PICK p \in Mains : t \in Family(p)
  BY EveryTableHasMain
<1>3. FileRight(c, p, t)
  BY <1>1, <1>2 DEF BuildInv, FilesInv, FilesRight
<1>4. Behind(c, p)
  BY TableAssumption DEF Behind, Mains, Table
<1> QED
  BY <1>3, <1>4 DEF FileRight

(* When every child has ended with exit(0), the files hold the serial      *)
(* build, no line of it is in two of them, and a table that is not divided *)
(* is in one file.                                                         *)
THEOREM FilesHoldSerialBuild == Fits => (Spec => []CompleteBuild)
<1> SUFFICES ASSUME Fits PROVE Spec => []CompleteBuild
  OBVIOUS
<1>1. BuildInv => CompleteBuild
  <2> SUFFICES ASSUME BuildInv, \A c \in Kids(parallel) : pc[c] = "done",
                      NEW t \in Table, Built(t)
               PROVE
                 /\ UNION {LinesOf(c, t) : c \in Child} = SerialLines(t, 1 .. RowsOf(t))
                 /\ \A c, d \in Child : c # d => LinesOf(c, t) \cap LinesOf(d, t) = {}
                 /\ Undivided(RowsOf(t), parallel) =>
                      Cardinality({c \in Child : t \in created[c]}) <= 1
    BY DEF CompleteBuild
  <2>1. PICK p \in Mains : t \in Family(p)
    BY EveryTableHasMain
  <2>2. /\ parallel \in Parallels /\ parallel \in Nat
        /\ Rows[p] \in Nat /\ RowsOf(t) = Rows[p] /\ p \in Selected
        /\ Kids(parallel) \subseteq Child
    BY <2>1, OwedRows, BuildAssumption, TableAssumption
       DEF BuildInv, TInv, TypeOK, Mains, Child, Unset
  <2>3. \A c \in Kids(parallel) : LinesOf(c, t) = Share(parallel, c, t)
    BY <2>2, DoneHasShare
  <2>4. \A c \in Child \ Kids(parallel) : LinesOf(c, t) = {} /\ t \notin created[c]
    BY DEF BuildInv, FilesInv, NoFiles, LinesOf
  <2>5. /\ \A r \in 1 .. Rows[p] :
             \E c \in Kids(parallel) :
               /\ r \in Chunk(Rows[p], parallel, c)
               /\ \A d \in Kids(parallel) : r \in Chunk(Rows[p], parallel, d) => d = c
        /\ \A c \in Kids(parallel) : Chunk(Rows[p], parallel, c) \subseteq 1 .. Rows[p]
    BY <2>2, EveryRowOnce
  <2>6. UNION {LinesOf(c, t) : c \in Child} = SerialLines(t, 1 .. RowsOf(t))
    <3>1. ASSUME NEW x
          PROVE  (\E c \in Child : x \in LinesOf(c, t)) <=>
                   x \in SerialLines(t, 1 .. Rows[p])
      <4>1. PICK R \in SUBSET (Nat \ {0}) : R = 1 .. Rows[p]
        BY <2>2
      <4>2. x \in SerialLines(t, R) <=>
              \E r \in R : \E l \in ItemsOf(p, t, r) : x = LineOf(p, t, r, l)
        BY <2>1, SerialLinesOf
      <4>3. (\E c \in Child : x \in LinesOf(c, t)) <=>
              \E c \in Kids(parallel) : x \in Share(parallel, c, t)
        BY <2>2, <2>3, <2>4
      <4>4. \A c \in Kids(parallel) :
              x \in Share(parallel, c, t) <=>
                \E r \in Chunk(Rows[p], parallel, c) :
                  \E l \in ItemsOf(p, t, r) : x = LineOf(p, t, r, l)
        BY <2>1, <2>2, ShareOf
      <4> QED
        BY <2>5, <4>1, <4>2, <4>3, <4>4
    <3> QED
      BY <2>2, <3>1
  <2>7. \A c, d \in Child : c # d => LinesOf(c, t) \cap LinesOf(d, t) = {}
    <3> SUFFICES ASSUME NEW c \in Child, NEW d \in Child, c # d,
                        NEW x \in LinesOf(c, t), x \in LinesOf(d, t)
                 PROVE  FALSE
      OBVIOUS
    <3>1. /\ c \in Kids(parallel) /\ x \in Share(parallel, c, t)
          /\ d \in Kids(parallel) /\ x \in Share(parallel, d, t)
      BY <2>3, <2>4
    <3>2. x.row \in Chunk(Rows[p], parallel, c) /\ x.row \in Chunk(Rows[p], parallel, d)
      BY <2>1, <2>2, <3>1, ShareLine
    <3> QED
      BY <2>5, <3>1, <3>2
  <2>8. ASSUME Undivided(RowsOf(t), parallel)
        PROVE  Cardinality({c \in Child : t \in created[c]}) <= 1
    <3>1. \A c \in Child : t \in created[c] => c \in Kids(parallel) /\ RowsFor(c, p) # {}
      BY <2>1, <2>4 DEF BuildInv, FilesInv, FilesRight, FileRight
    <3>2. \A c \in Kids(parallel) : RowsFor(c, p) # {} => c = 1
      <4> SUFFICES ASSUME NEW c \in Kids(parallel), RowsFor(c, p) # {}
                   PROVE  c = 1
        OBVIOUS
      <4>1. FirstRow(Rows[p], parallel, c) = 1
        BY <2>2, <2>8 DEF FirstRow
      <4>2. RowCount(Rows[p], parallel, c) > 0
        BY <2>1, <2>2, <4>1, RowsForType DEF RowsFor, Chunk
      <4> QED
        BY <2>2, <4>1, <4>2, ShareType
    <3>3. {c \in Child : t \in created[c]} \subseteq {1}
      BY <3>1, <3>2
    <3>4. IsFiniteSet({1}) /\ Cardinality({1}) = 1
      BY FS_Singleton
    <3> QED
      BY <3>3, <3>4, FS_Subset
  <2> QED
    BY <2>6, <2>7, <2>8
<1> QED
  BY <1>1, BuildInvariant, PTL

(* The builds are an implementation of Delivery: seen through the children *)
(* that have ended with exit(0), the data set grows by whole chunks, each  *)
(* once and for good, whatever the children write, and are killed at, in   *)
(* between.                                                                *)
THEOREM BuildsDeliverChunks == Fits => (Spec => WholeChunks)
<1> SUFFICES ASSUME Fits PROVE Spec => WholeChunks
  OBVIOUS
<1> DEFINE seen == [t \in Table |-> UNION {LinesOf(c, t) : c \in Finished}]
<1>1. Init => Handed!Init
  <2> SUFFICES ASSUME Init PROVE Handed!Init
    OBVIOUS
  <2>1. Finished = {}
    BY DEF Init, Finished
  <2>2. seen = [t \in Table |-> {}]
    BY <2>1
  <2> QED
    BY <2>1, <2>2 DEF Init, Handed!Init
<1>2. BuildInv /\ BuildInv' /\ [Next]_vars =>
        [Handed!Next]_<<parallel, Finished, seen>>
  <2> SUFFICES ASSUME BuildInv, BuildInv', [Next]_vars
               PROVE  Handed!Next \/ UNCHANGED <<parallel, Finished, seen>>
    OBVIOUS
  <2>1. ASSUME NEW c \in Child, Exit(c)
        PROVE  Handed!Deliver(c)
    <3>1. /\ c \notin Finished /\ Finished' = Finished \cup {c}
          /\ UNCHANGED <<parallel, file>>
      BY <2>1 DEF Exit, Stop, Finished, options, disk, BuildInv, TInv, TypeOK
    <3>2. \A t \in Table : LinesOf(c, t) = Share(parallel, c, t)
      BY <2>1, DoneHasShare DEF Exit
    <3>3. seen' = [t \in Table |-> UNION {LinesOf(d, t) : d \in Finished \cup {c}}]
      BY <3>1 DEF LinesOf
    <3>4. seen' = [t \in Table |-> seen[t] \cup Share(parallel, c, t)]
      BY <3>2, <3>3
    <3> QED
      BY <3>1, <3>4 DEF Handed!Deliver
  <2>2. ASSUME NEW c \in Child, Step(c) \/ Kill(c) \/ KillAtOpen(c), ~Exit(c)
        PROVE  UNCHANGED <<parallel, Finished, seen>>
    <3> DEFINE Elsewhere == /\ parallel' = parallel
                            /\ pc[c] # "done" /\ pc'[c] # "done"
                            /\ \A d \in Child \ {c} : pc'[d] = pc[d] /\ file'[d] = file[d]
    <3> USE DEF BuildInv, TInv, TypeOK, options
    <3>1. Launch(c) \/ SkipTable(c) \/ BeginTable(c) \/ EndTable(c) \/ RowStop(c)
            \/ BuildOrder(c) => Elsewhere
      BY DEF Launch, SkipTable, BeginTable, EndTable, RowStop, BuildOrder, disk
    <3>2. /\ BuildRow(c) => Elsewhere
          /\ BuildLine(c) => Elsewhere
          /\ PrintSale(c) => Elsewhere
      <4>1. ASSUME BuildRow(c) PROVE Elsewhere
        BY <4>1 DEF BuildRow, Emit
      <4>2. ASSUME BuildLine(c) PROVE Elsewhere
        BY <4>2 DEF BuildLine, Emit, disk
      <4>3. ASSUME PrintSale(c) PROVE Elsewhere
        BY <4>3 DEF PrintSale, Emit
      <4> QED
        BY <4>1, <4>2, <4>3
    <3>3. Refuse(c) \/ Kill(c) \/ KillAtOpen(c) => Elsewhere
      BY DEF Refuse, Kill, KillAtOpen, Stop, NextPrinted, disk
    <3>4. Elsewhere
      <4> HIDE DEF Elsewhere
      <4> QED
        BY <2>2, <3>1, <3>2, <3>3 DEF Step
    <3>5. Finished' = Finished /\ \A d \in Finished : file'[d] = file[d]
      BY <3>4 DEF Finished
    <3>6. \A d \in Finished : \A t \in Table : LinesOf(d, t)' = LinesOf(d, t)
      BY <3>5 DEF LinesOf
    <3> QED
      BY <3>4, <3>5, <3>6
  <2>3. CASE UNCHANGED vars
    BY <2>3 DEF vars, options, disk, Finished, LinesOf
  <2> QED
    BY <2>1, <2>2, <2>3 DEF Next, Over, Step, Handed!Next
<1> QED
  BY <1>1, <1>2, BuildInvariant, PTL DEF Spec, WholeChunks, Handed!Spec

-----------------------------------------------------------------------------
(***************************************************************************)
(* What a kill leaves of an order: the files of a child lack the sale of   *)
(* at most one return.                                                     *)
(***************************************************************************)

AtMostOne(S) == \A a, b \in S : a = b

(* The returns of p's orders whose sales are not in the file of p.         *)
Lack(c, p) == Items(c, ReturnsOf[p]) \ Items(c, p)

Parents == {p \in Mains : IsParent(p)}

(* The process has printed sales of table p over those of an earlier run,  *)
(* and no return yet over those.                                           *)
Exposed(c, p) ==
  InTable(c) /\ tab[c] = p /\ p \in open[c] /\ ReturnsOf[p] \notin open[c] /\ force

(* A file that does not exist holds nothing.                               *)
AbsentEmpty(c) == \A t \in Table : t \notin created[c] => file[c][t] = <<>>

(* Without a kill a file is of the only run there was, which has it open   *)
(* or has ended its table.                                                 *)
FirstRun(c) ==
  crashes = 0 =>
    /\ pc[c] = "idle" => created[c] = {}
    /\ pc[c] \in {"table", "row", "line", "sale", "stop"} =>
         \A p \in Mains : \A t \in Family(p) :
           t \in created[c] => t \in open[c] \/ p < tab[c]

OneShort(c) ==
  crashes <= 1 => \A p \in Parents : AtMostOne(Lack(c, p)) \/ Exposed(c, p)

ReturnsInv == \A c \in Child : AbsentEmpty(c) /\ FirstRun(c) /\ OneShort(c)

(* What FilesInv says of a table under way and of one that has ended.      *)
WithinTable ==
  \A c \in Child, p \in Parents :
    /\ InTable(c) /\ tab[c] = p /\ ReturnsOf[p] \in open[c] => AtMostOne(Lack(c, p))
    /\ Behind(c, p) => Lack(c, p) = {}

-----------------------------------------------------------------------------
(* A parent and its returns table are a family.                            *)
LEMMA ParentTable ==
  ASSUME NEW p \in Parents
  PROVE  /\ p \in Mains /\ p \in Table /\ IsParent(p) /\ ReturnsOf[p] \in Table
         /\ ReturnsOf[p] # p /\ Family(p) = {p, ReturnsOf[p]}
BY TableAssumption DEF Parents, Mains, IsParent, Family, Table

(* The sale of a return is in the child's share.                           *)
LEMMA SaleOwed ==
  ASSUME NEW par \in Parallels, NEW c \in Kids(par), NEW p \in Parents,
         NEW x \in Share(par, c, ReturnsOf[p])
  PROVE  \E y \in Share(par, c, p) : y.row = x.row /\ y.line = x.line
<1> DEFINE y == LineOf(p, p, x.row, x.line)
<1>1. /\ p \in Selected /\ x.row \in Chunk(Rows[p], par, c)
      /\ x.line \in 1 .. SerialLineCount(p, x.row)
  BY ParentTable, ShareLine
<1>2. x.line \in ItemsOf(p, p, x.row)
  BY <1>1, ParentTable DEF ItemsOf
<1>3. y \in Share(par, c, p)
  BY <1>1, <1>2, ParentTable, ShareOf
<1> QED
  BY <1>3, LineShows

(* The return printed last may still be without its sale; no other can be, *)
(* as both files hold just what the process has passed.                    *)
LEMMA FilesWithinTable ==
  ASSUME BuildInv
  PROVE  WithinTable
<1> SUFFICES ASSUME NEW c \in Child, NEW p \in Parents,
                    (InTable(c) /\ tab[c] = p /\ ReturnsOf[p] \in open[c]) \/ Behind(c, p)
             PROVE  IF Behind(c, p) THEN Lack(c, p) = {} ELSE AtMostOne(Lack(c, p))
  BY DEF WithinTable, AtMostOne
<1> DEFINE u == ReturnsOf[p]
<1>1. c \in Kids(parallel) /\ parallel \in Parallels
  BY DEF BuildInv, TInv, TypeOK, Control, InTable, Behind
<1>2. FileRight(c, p, p) /\ FileRight(c, p, u)
  BY <1>1, ParentTable DEF BuildInv, FilesInv, FilesRight
<1>3. ASSUME NEW a \in Lack(c, p)
      PROVE  /\ ~Behind(c, p)
             /\ a = <<row[c], lines[c]>>
  <2>1. PICK x \in LinesOf(c, u) : a = <<x.row, x.line>>
    BY DEF Lack, Items, Item
  <2>2. x \in Share(parallel, c, u)
    BY <1>2, <2>1 DEF FileRight
  <2>3. PICK y \in Share(parallel, c, p) : y.row = x.row /\ y.line = x.line
    BY <1>1, <2>2, SaleOwed
  <2>4. y \notin LinesOf(c, p)
    BY <2>1, <2>3 DEF Lack, Items, Item
  <2>5. ~Behind(c, p)
    BY <1>2, <2>3, <2>4 DEF FileRight
  <2>6. Passed(c, u, x) /\ ~Passed(c, p, y)
    BY <1>2, <2>1, <2>3, <2>4, <2>5 DEF FileRight
  <2>7. x.row \in Nat /\ x.line \in Nat /\ row[c] \in Nat /\ lines[c] \in Nat
    <3>1. p \in Mains /\ u \in Family(p)
      BY ParentTable
    <3>2. x.row \in Nat /\ x.line \in Nat
      BY <1>1, <2>2, <3>1, ShareLine
    <3>3. row[c] \in Nat /\ lines[c] \in Nat
      BY LineAssumption DEF BuildInv, TInv, TypeOK
    <3> QED
      BY <3>2, <3>3
  <2>8. tab[c] = p /\ u # p
    BY <2>5, ParentTable
  <2> QED
    BY <2>1, <2>3, <2>5, <2>6, <2>7, <2>8 DEF Passed, Pending
<1> QED
  BY <1>3 DEF AtMostOne

(* It is enough to look at the child that moves.                           *)
LEMMA OthersKept ==
  ASSUME TInv, ReturnsInv, NEW c \in Child, UNCHANGED force,
         crashes' = crashes \/ crashes' = crashes + 1,
         \A d \in Child \ {c} : UNCHANGED Work(d),
         AbsentEmpty(c)', FirstRun(c)', OneShort(c)'
  PROVE  ReturnsInv'
<1> SUFFICES ASSUME NEW d \in Child, d # c
             PROVE  AbsentEmpty(d)' /\ FirstRun(d)' /\ OneShort(d)'
  BY DEF ReturnsInv
<1>1. /\ pc'[d] = pc[d] /\ tab'[d] = tab[d] /\ open'[d] = open[d]
      /\ created'[d] = created[d] /\ file'[d] = file[d]
  BY DEF Work
<1>2. crashes \in Nat
  BY BuildAssumption DEF TInv, TypeOK
<1>3. AbsentEmpty(d) /\ FirstRun(d) /\ OneShort(d)
  BY DEF ReturnsInv
<1>4. AbsentEmpty(d)'
  BY <1>1, <1>3 DEF AbsentEmpty
<1>5. FirstRun(d)'
  BY <1>1, <1>2, <1>3 DEF FirstRun
<1>6. \A p \in Parents : /\ Lack(d, p)' = Lack(d, p)
                         /\ Exposed(d, p)' <=> Exposed(d, p)
  BY <1>1 DEF Lack, Items, LinesOf, Exposed, InTable
<1>7. OneShort(d)'
  <2> SUFFICES ASSUME crashes' <= 1, NEW p \in Parents
               PROVE  AtMostOne(Lack(d, p))' \/ Exposed(d, p)'
    BY DEF OneShort
  <2>1. AtMostOne(Lack(d, p)) \/ Exposed(d, p)
    BY <1>2, <1>3 DEF OneShort
  <2> QED
    BY <1>6, <2>1 DEF AtMostOne
<1> QED
  BY <1>4, <1>5, <1>7

(* A step that leaves the files of c alone.                                *)
LEMMA FilesKept ==
  ASSUME TInv, ReturnsInv, NEW c \in Child, UNCHANGED force,
         crashes' = crashes \/ crashes' = crashes + 1,
         \A d \in Child \ {c} : UNCHANGED Work(d),
         created'[c] = created[c], file'[c] = file[c], FirstRun(c)',
         \A p \in Parents : Exposed(c, p) => Exposed(c, p)' \/ AtMostOne(Lack(c, p)) \/ crashes' > 1
  PROVE  ReturnsInv'
<1>1. AbsentEmpty(c) /\ OneShort(c)
  BY DEF ReturnsInv
<1>2. AbsentEmpty(c)'
  BY <1>1 DEF AbsentEmpty
<1>3. \A p \in Parents : Lack(c, p)' = Lack(c, p)
  BY DEF Lack, Items, LinesOf
<1>4. crashes \in Nat
  BY BuildAssumption DEF TInv, TypeOK
<1>5. OneShort(c)'
  <2> SUFFICES ASSUME crashes' <= 1, NEW p \in Parents
               PROVE  AtMostOne(Lack(c, p))' \/ Exposed(c, p)'
    BY DEF OneShort
  <2>1. AtMostOne(Lack(c, p)) \/ Exposed(c, p)
    BY <1>1, <1>4 DEF OneShort
  <2>2. AtMostOne(Lack(c, p)) \/ Exposed(c, p)'
    BY <1>4, <2>1
  <2> QED
    BY <1>3, <2>2 DEF AtMostOne
<1> QED
  BY <1>2, <1>5, OthersKept

(* Steps between rows and tables.  A table that ends has its whole share.  *)
LEMMA LoopsKeep ==
  ASSUME BuildInv, ReturnsInv, WithinTable', NEW c \in Child,
         Launch(c) \/ SkipTable(c) \/ BeginTable(c) \/ EndTable(c) \/ Exit(c)
  PROVE  ReturnsInv'
<1>1. /\ UNCHANGED <<force, crashes, created, file>>
      /\ \A d \in Child \ {c} : UNCHANGED Work(d)
      /\ InTable(c) => EndTable(c)
  BY DEF Launch, SkipTable, BeginTable, EndTable, Exit, Stop, options, memory, disk, Work,
         BuildInv, TInv, TypeOK, InTable
<1>2. FirstRun(c)'
  <2> SUFFICES ASSUME crashes = 0,
                      pc'[c] \in {"idle", "table", "row", "line", "sale", "stop"}
               PROVE  /\ pc'[c] # "idle"
                      /\ \A p \in Mains : \A t \in Family(p) :
                           t \in created[c] => t \in open'[c] \/ p < tab'[c]
    BY <1>1 DEF FirstRun
  <2>1. FirstRun(c)
    BY DEF ReturnsInv
  <2>2. CASE Launch(c)
    BY <2>1, <2>2 DEF Launch, FirstRun, BuildInv, TInv, TypeOK
  <2>3. CASE SkipTable(c)
    <3>1. /\ pc[c] = "table" /\ pc'[c] = "table" /\ open'[c] = open[c]
          /\ tab'[c] = tab[c] + 1 /\ tab[c] \in Nat
      BY <2>3 DEF SkipTable, BuildInv, TInv, TypeOK, Table
    <3> QED
      BY <2>1, <3>1 DEF FirstRun, Mains, Table
  <2>4. CASE BeginTable(c)
    BY <2>1, <2>4 DEF BeginTable, FirstRun, BuildInv, TInv, TypeOK
  <2>5. CASE EndTable(c)
    <3>1. /\ pc[c] = "row" /\ pc'[c] = "table" /\ open'[c] = open[c] \ Family(tab[c])
          /\ tab'[c] = tab[c] + 1 /\ tab[c] \in Mains /\ tab[c] \in Nat
      BY <2>5 DEF EndTable, BuildInv, TInv, TypeOK, Control, InTable, Mains, Table
    <3>2. \A p \in Mains : \A t \in Family(p) : t \in Family(tab[c]) => p = tab[c]
      BY <3>1, Families
    <3> QED
      BY <2>1, <3>1, <3>2 DEF FirstRun, Mains, Table
  <2>6. CASE Exit(c)
    BY <2>6 DEF Exit, Stop, BuildInv, TInv, TypeOK
  <2> QED
    BY <2>2, <2>3, <2>4, <2>5, <2>6
<1>3. ASSUME NEW p \in Parents, Exposed(c, p) PROVE AtMostOne(Lack(c, p))
  <2>1. EndTable(c) /\ tab[c] = p
    BY <1>1, <1>3 DEF Exposed
  <2>2. Behind(c, p)'
    BY <2>1 DEF EndTable, Behind, BuildInv, TInv, TypeOK, Table, Parents, Mains
  <2>3. Lack(c, p)' = {}
    BY <2>2 DEF WithinTable
  <2>4. Lack(c, p)' = Lack(c, p)
    BY <1>1 DEF Lack, Items, LinesOf
  <2> QED
    BY <2>3, <2>4 DEF AtMostOne
<1> QED
  BY <1>1, <1>2, <1>3, FilesKept DEF BuildInv

(* Steps within a table that print nothing.                                *)
LEMMA RowKeeps ==
  ASSUME BuildInv, ReturnsInv, NEW c \in Child,
         InTable(c), InTable(c)', UNCHANGED <<force, crashes, created, file, open, tab>>,
         \A d \in Child \ {c} : UNCHANGED Work(d)
  PROVE  ReturnsInv'
<1>1. FirstRun(c)'
  BY DEF ReturnsInv, FirstRun, InTable
<1>2. \A p \in Parents : Exposed(c, p) => Exposed(c, p)'
  BY DEF Exposed
<1> QED
  BY <1>1, <1>2, FilesKept DEF BuildInv

(* Before the first kill no table is exposed.                              *)
LEMMA FirstRunShort ==
  ASSUME ReturnsInv, crashes = 0, NEW c \in Child, NEW p \in Parents
  PROVE  AtMostOne(Lack(c, p))
<1>1. SUFFICES ASSUME Exposed(c, p) PROVE AtMostOne(Lack(c, p))
  BY DEF ReturnsInv, OneShort
<1>2. ReturnsOf[p] \notin created[c]
  <2>1. FirstRun(c) /\ p \in Mains /\ ReturnsOf[p] \in Family(p) /\ ~(p < p)
    BY ParentTable DEF ReturnsInv, Table
  <2> QED
    BY <1>1, <2>1 DEF FirstRun, Exposed, InTable
<1>3. file[c][ReturnsOf[p]] = <<>>
  BY <1>2, ParentTable DEF ReturnsInv, AbsentEmpty
<1> QED
  BY <1>3 DEF AtMostOne, Lack, Items, LinesOf

(* A process ends.  Only one started with -force is exposed, and it is not *)
(* refused; a kill that meets it is not the first.                         *)
LEMMA EndsKeep ==
  ASSUME BuildInv, ReturnsInv, NEW c \in Child, Refuse(c) \/ Kill(c)
  PROVE  ReturnsInv'
<1>1. /\ UNCHANGED <<force, created>> /\ file'[c] = file[c]
      /\ pc'[c] \in {"idle", "failed"}
      /\ \A d \in Child \ {c} : UNCHANGED Work(d)
      /\ crashes \in Nat
  BY BuildAssumption DEF Refuse, Kill, Unflushed, Stop, options, disk, Work, BuildInv, TInv, TypeOK
<1>2. CASE Refuse(c)
  <2>1. crashes' = crashes /\ pc'[c] = "failed"
    BY <1>2 DEF Refuse, Stop, BuildInv, TInv, TypeOK
  <2>2. FirstRun(c)'
    BY <2>1 DEF FirstRun
  <2>3. ~force
    BY <1>2 DEF Refuse, Refused
  <2> QED
    BY <1>1, <2>1, <2>2, <2>3, FilesKept DEF Exposed, BuildInv
<1>3. CASE Kill(c)
  <2>1. crashes' = crashes + 1
    BY <1>3 DEF Kill
  <2>2. FirstRun(c)'
    BY <1>1, <2>1 DEF FirstRun
  <2>3. \A p \in Parents : ~(crashes' > 1) => AtMostOne(Lack(c, p))
    BY <1>1, <2>1, FirstRunShort
  <2> QED
    BY <1>1, <2>1, <2>2, <2>3, FilesKept DEF BuildInv
<1> QED
  BY <1>2, <1>3

(* The first kill at an open empties a file that is new.                   *)
LEMMA KillAtOpenKeeps ==
  ASSUME BuildInv, ReturnsInv, NEW c \in Child, KillAtOpen(c)
  PROVE  ReturnsInv'
<1>1. PICK t \in NextPrinted(c) \ open[c] :
        /\ created' = [created EXCEPT ![c] = @ \cup {t}]
        /\ file'    = [file EXCEPT ![c][t] = <<>>]
  BY DEF KillAtOpen
<1>2. /\ InTable(c) /\ tab[c] \in Mains /\ t \in Table /\ t \in Family(tab[c])
  <2>1. InTable(c) /\ t \in Table
    BY DEF NextPrinted, InTable
  <2>2. /\ tab[c] \in Mains
        /\ pc[c] = "line" => IsParent(tab[c])
    BY <2>1 DEF BuildInv, TInv, Control, Mains
  <2> QED
    BY <2>1, <2>2 DEF NextPrinted, Family
<1>3. /\ created'[c] = created[c] \cup {t}
      /\ file'[c] = [file[c] EXCEPT ![t] = <<>>]
      /\ file[c] \in [Table -> Seq(Lines)]
  BY <1>1, <1>2 DEF BuildInv, TInv, TypeOK
<1>4. /\ pc'[c] = "idle" /\ UNCHANGED force /\ crashes' = crashes + 1
      /\ crashes \in Nat
  BY BuildAssumption DEF KillAtOpen, Stop, options, BuildInv, TInv, TypeOK
<1>5. \A d \in Child \ {c} : UNCHANGED Work(d)
  BY <1>1 DEF KillAtOpen, Stop, Work, BuildInv, TInv, TypeOK
<1>6. AbsentEmpty(c)'
  BY <1>2, <1>3 DEF AbsentEmpty, ReturnsInv
<1>7. FirstRun(c)'
  BY <1>4 DEF FirstRun
<1>8. OneShort(c)'
  <2> SUFFICES ASSUME crashes = 0, NEW p \in Parents
               PROVE  AtMostOne(Lack(c, p))'
    BY <1>4 DEF OneShort
  <2>1. t \notin created[c]
    <3>1. FirstRun(c) /\ ~(tab[c] < tab[c])
      BY <1>2 DEF ReturnsInv, Mains, Table
    <3> QED
      BY <1>2, <3>1 DEF FirstRun, InTable
  <2>2. file'[c] = file[c]
    <3>1. file[c][t] = <<>>
      BY <1>2, <2>1 DEF ReturnsInv, AbsentEmpty
    <3> QED
      BY <1>3, <3>1
  <2>3. Lack(c, p)' = Lack(c, p)
    BY <2>2 DEF Lack, Items, LinesOf
  <2> QED
    BY <2>3, FirstRunShort DEF AtMostOne
<1> QED
  BY <1>6, <1>7, <1>8, <1>4, <1>5, OthersKept DEF BuildInv

(* A line is printed, of the table under way or its returns table.         *)
LEMMA PrintKeeps ==
  ASSUME BuildInv, ReturnsInv, WithinTable', NEW c \in Child,
         NEW t \in Family(tab[c]), NEW line, Emit(c, t, line), ~Refused(c, t),
         InTable(c), InTable(c)', UNCHANGED <<force, crashes, tab>>,
         \A d \in Child \ {c} : UNCHANGED Work(d)
  PROVE  ReturnsInv'
<1>1. tab[c] \in Mains /\ t \in Table
  BY FamilyType DEF BuildInv, TInv, Control, Mains
<1>2. /\ open'[c] = open[c] \cup {t} /\ created'[c] = created[c] \cup {t}
      /\ \A u \in Table \ {t} : file'[c][u] = file[c][u]
      /\ file'[c][t] = IF t \in open[c] THEN Append(file[c][t], line) ELSE <<line>>
      /\ file[c][t] \in Seq(Lines)
  BY <1>1 DEF Emit, BuildInv, TInv, TypeOK
<1>3. AbsentEmpty(c)'
  BY <1>2 DEF AbsentEmpty, ReturnsInv
<1>4. FirstRun(c)'
  <2>1. FirstRun(c)
    BY DEF ReturnsInv
  <2> QED
    BY <1>2, <2>1 DEF FirstRun, InTable
<1>5. OneShort(c)'
  <2> SUFFICES ASSUME crashes <= 1, NEW p \in Parents
               PROVE  AtMostOne(Lack(c, p))' \/ Exposed(c, p)'
    BY DEF OneShort
  <2>1. AtMostOne(Lack(c, p)) \/ Exposed(c, p)
    BY DEF ReturnsInv, OneShort
  <2> DEFINE u == ReturnsOf[p]
  <2>2. CASE p # tab[c]
    <3>1. t # p /\ t # u /\ p \in Table /\ u \in Table
      BY <1>1, <2>2, ParentTable, Families
    <3>2. Lack(c, p)' = Lack(c, p)
      BY <1>2, <3>1 DEF Lack, Items, LinesOf
    <3> QED
      BY <2>1, <2>2, <3>2 DEF Exposed, AtMostOne
  <2>3. CASE p = tab[c] /\ u \in open'[c]
    BY <2>3 DEF WithinTable, AtMostOne
  <2>4. CASE p = tab[c] /\ u \notin open'[c] /\ force
    <3>1. t = p
      BY <1>2, <2>4, ParentTable
    <3> QED
      BY <1>2, <2>4, <3>1 DEF Exposed
  <2>5. CASE p = tab[c] /\ u \notin open'[c] /\ ~force
    <3>1. t = p /\ u \in Table /\ u # t
      BY <1>2, <2>5, ParentTable
    <3>2. AtMostOne(Lack(c, p))
      BY <2>1, <2>5 DEF Exposed
    <3>3. LinesOf(c, p) \subseteq LinesOf(c, p)'
      <4>1. CASE p \in open[c]
        <5>1. file'[c][p] = Append(file[c][p], line) /\ file[c][p] \in Seq(Lines)
          BY <1>2, <3>1, <4>1
        <5>2. \A i \in DOMAIN file[c][p] :
                i \in DOMAIN file'[c][p] /\ file'[c][p][i] = file[c][p][i]
          BY <5>1
        <5> QED
          BY <5>2 DEF LinesOf
      <4>2. CASE p \notin open[c]
        <5>1. file[c][p] = <<>>
          BY <1>1, <2>5, <3>1, <4>2 DEF Refused, ReturnsInv, AbsentEmpty
        <5> QED
          BY <5>1 DEF LinesOf
      <4> QED
        BY <4>1, <4>2
    <3>4. LinesOf(c, u)' = LinesOf(c, u)
      BY <1>2, <3>1 DEF LinesOf
    <3>5. Lack(c, p)' \subseteq Lack(c, p)
      BY <3>3, <3>4 DEF Lack, Items
    <3> QED
      BY <3>2, <3>5 DEF AtMostOne
  <2> QED
    BY <2>2, <2>3, <2>4, <2>5
<1> QED
  BY <1>3, <1>4, <1>5, OthersKept DEF BuildInv

(* Every step.                                                             *)
LEMMA ReturnsKept ==
  ASSUME BuildInv, ReturnsInv, WithinTable', [Next]_vars
  PROVE  ReturnsInv'
<1>1. CASE UNCHANGED vars
  <2> SUFFICES ASSUME NEW c \in Child
               PROVE  AbsentEmpty(c)' /\ FirstRun(c)' /\ OneShort(c)'
    BY DEF ReturnsInv
  <2>1. UNCHANGED <<force, pc, tab, open, created, file, crashes>>
    BY <1>1 DEF vars, options, memory, disk
  <2>2. AbsentEmpty(c) /\ FirstRun(c) /\ OneShort(c)
    BY DEF ReturnsInv
  <2>3. AbsentEmpty(c)' /\ FirstRun(c)'
    BY <2>1, <2>2 DEF AbsentEmpty, FirstRun
  <2>4. \A p \in Parents : Lack(c, p)' = Lack(c, p) /\ (Exposed(c, p)' <=> Exposed(c, p))
    BY <2>1 DEF Lack, Items, LinesOf, Exposed, InTable
  <2> QED
    BY <2>1, <2>2, <2>3, <2>4 DEF OneShort, AtMostOne
<1>2. ASSUME NEW c \in Child,
             Launch(c) \/ SkipTable(c) \/ BeginTable(c) \/ EndTable(c) \/ Exit(c)
      PROVE  ReturnsInv'
  BY <1>2, LoopsKeep
<1>3. ASSUME NEW c \in Child, BuildRow(c) PROVE ReturnsInv'
  <2>1. /\ InTable(c) /\ InTable(c)' /\ UNCHANGED <<force, crashes, tab>>
        /\ \A d \in Child \ {c} : UNCHANGED Work(d)
        /\ tab[c] \in Family(tab[c])
    BY <1>3 DEF BuildRow, Draw, Emit, options, Work, BuildInv, TInv, TypeOK, InTable, Family
  <2> QED
    BY <1>3, <2>1, PrintKeeps DEF BuildRow
<1>4. ASSUME NEW c \in Child, BuildOrder(c) \/ RowStop(c) PROVE ReturnsInv'
  <2>1. /\ InTable(c) /\ InTable(c)'
        /\ UNCHANGED <<force, crashes, created, file, open, tab>>
        /\ \A d \in Child \ {c} : UNCHANGED Work(d)
    BY <1>4 DEF BuildOrder, RowStop, Draw, options, disk, Work, BuildInv, TInv, TypeOK, InTable
  <2> QED
    BY <2>1, RowKeeps
<1>5. ASSUME NEW c \in Child, BuildLine(c) PROVE ReturnsInv'
  <2>1. /\ InTable(c) /\ InTable(c)' /\ UNCHANGED <<force, crashes, tab>>
        /\ IsParent(tab[c])
    BY <1>5 DEF BuildLine, options, BuildInv, TInv, TypeOK, Control, InTable
  <2>2. \A d \in Child \ {c} : UNCHANGED Work(d)
    BY <1>5 DEF BuildLine, Draw, Emit, options, disk, Work, BuildInv, TInv, TypeOK
  <2>3. CASE Returned(tab[c], at[c][ReturnStream[tab[c]]])
    <3>1. ReturnsOf[tab[c]] \in Family(tab[c])
      BY <2>1 DEF Family
    <3> QED
      BY <1>5, <2>1, <2>2, <2>3, <3>1, PrintKeeps DEF BuildLine
  <2>4. CASE ~Returned(tab[c], at[c][ReturnStream[tab[c]]])
    <3>1. UNCHANGED <<created, file, open>>
      BY <1>5, <2>4 DEF BuildLine, disk
    <3> QED
      BY <2>1, <2>2, <3>1, RowKeeps
  <2> QED
    BY <2>3, <2>4
<1>6. ASSUME NEW c \in Child, PrintSale(c) PROVE ReturnsInv'
  <2>1. /\ InTable(c) /\ InTable(c)' /\ UNCHANGED <<force, crashes, tab>>
        /\ tab[c] \in Family(tab[c])
    BY <1>6 DEF PrintSale, options, BuildInv, TInv, TypeOK, InTable, Family
  <2>2. \A d \in Child \ {c} : UNCHANGED Work(d)
    BY <1>6 DEF PrintSale, Emit, options, Work, BuildInv, TInv, TypeOK
  <2> QED
    BY <1>6, <2>1, <2>2, PrintKeeps DEF PrintSale
<1>7. ASSUME NEW c \in Child, Refuse(c) \/ Kill(c) PROVE ReturnsInv'
  BY <1>7, EndsKeep
<1>8. ASSUME NEW c \in Child, KillAtOpen(c) PROVE ReturnsInv'
  BY <1>8, KillAtOpenKeeps
<1> QED
  BY <1>1, <1>2, <1>3, <1>4, <1>5, <1>6, <1>7, <1>8 DEF Next, Step, Over

(* At first there is no file.                                              *)
LEMMA ReturnsStart ==
  ASSUME Init
  PROVE  ReturnsInv
<1> SUFFICES ASSUME NEW c \in Child
             PROVE  AbsentEmpty(c) /\ FirstRun(c) /\ OneShort(c)
  BY DEF ReturnsInv
<1>1. /\ pc[c] = "idle" /\ created[c] = {} /\ \A t \in Table : file[c][t] = <<>>
  BY DEF Init
<1>2. AbsentEmpty(c) /\ FirstRun(c)
  BY <1>1 DEF AbsentEmpty, FirstRun
<1>3. \A p \in Parents : Lack(c, p) = {}
  BY <1>1, ParentTable DEF Lack, Items, LinesOf
<1> QED
  BY <1>2, <1>3 DEF OneShort, AtMostOne

(* A return is printed before the sale it returns.  However many children  *)
(* and orders there are, with at most one kill and whether or not a rerun  *)
(* follows, a child's files lack the sale of at most one return, unless    *)
(* the child is within a table.                                            *)
THEOREM ReturnsLackOneSale == Fits => (Spec => []ReturnsHaveSales)
<1> SUFFICES ASSUME Fits PROVE Spec => []ReturnsHaveSales
  OBVIOUS
<1>1. Init => ReturnsInv
  BY ReturnsStart
<1>2. BuildInv => WithinTable
  BY FilesWithinTable
<1>3. BuildInv /\ ReturnsInv /\ WithinTable' /\ [Next]_vars => ReturnsInv'
  BY ReturnsKept
<1>4. ReturnsInv => ReturnsHaveSales
  <2> SUFFICES ASSUME ReturnsInv, crashes <= 1, NEW c \in Child, NEW p \in Table,
                      IsParent(p), pc[c] \in {"idle", "table", "done", "failed"}
               PROVE  Cardinality(Items(c, ReturnsOf[p]) \ Items(c, p)) <= 1
    BY DEF ReturnsHaveSales
  <2>1. p \in Parents
    <3>1. ~IsChild(p)
      <4> SUFFICES ASSUME NEW q \in Table, ReturnsOf[q] = p PROVE FALSE
        BY DEF IsChild
      <4>1. IsParent(q)
        BY DEF IsParent, Table
      <4> QED
        BY <4>1, TableAssumption
    <3> QED
      BY <3>1 DEF Parents, Mains
  <2>2. AtMostOne(Lack(c, p))
    BY <2>1 DEF ReturnsInv, OneShort, Exposed, InTable
  <2>3. CASE Lack(c, p) = {}
    BY <2>3, FS_EmptySet DEF Lack
  <2>4. CASE Lack(c, p) # {}
    <3>1. PICK a \in Lack(c, p) : TRUE
      BY <2>4
    <3>2. Lack(c, p) = {a}
      BY <2>2, <3>1 DEF AtMostOne
    <3> QED
      BY <3>2, FS_Singleton DEF Lack
  <2> QED
    BY <2>3, <2>4
<1> QED
  BY <1>1, <1>2, <1>3, <1>4, BuildInvariant, PTL DEF Spec
===============================================================================
