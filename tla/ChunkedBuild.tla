---------------------------- MODULE ChunkedBuild ----------------------------
(***************************************************************************)
(* A parallel build of the data set: one dsdgen process per child, each    *)
(* with its own -parallel P -child c command line, its own random-number   *)
(* streams and its own output files.  The processes never speak to each    *)
(* other.  What makes their files add up to one data set is that           *)
(*   - split_work() (module SplitWork) gives every row to one child,       *)
(*   - row_skip() moves each stream of a table to where a serial build     *)
(*     would have it when it reaches the child's first row, and            *)
(*   - row_stop() pads each stream after every row to its fixed budget,    *)
(*     however many numbers the row happened to need.                      *)
(*                                                                         *)
(* A random number is known by its place in its stream: the generator is   *)
(* deterministic, so a seed is the number of draws made since the initial  *)
(* seed, next_random() adds one to it and skip_random(N) sets it to N.     *)
(* What a row holds is then what it drew: two builds agree on a row when   *)
(* they made it from the same places of the same streams.                  *)
(*                                                                         *)
(* A child may be killed between any two steps; the operator may start it  *)
(* again with the same command line.                                       *)
(***************************************************************************)
EXTENDS SplitWork, Sequences, FiniteSets

CONSTANTS
  NTable,          (* the tables are 1..NTable, in the order of w_tdefs    *)
  Rows,            (* get_rowcount(t)                                      *)
  ReturnsOf,       (* nParam of an FL_PARENT table, its child; 0: no child *)
  Selected,        (* the tables that are not FL_NOP and that -table names *)
  Stream,          (* the random-number streams                            *)
  TableOf,         (* nTable of a stream                                   *)
  DupOf,           (* nDuplicateOf of a stream; itself when it has none    *)
  Budget,          (* nUsedPerRow of a stream                              *)
  PerRow,          (* what the builder of a row draws from a stream, which *)
                   (* depends on where the stream is                       *)
  PerLine,         (* what each line item draws from it                    *)
  CountStream,     (* the stream that gives an order its line items        *)
  ReturnStream,    (* the stream that decides whether an item is returned  *)
  MinLines,        (* an order has at least this many line items           *)
  MaxLines,        (* and at most this many                                *)
  ReturnPct,       (* the percentage of line items that are returned       *)
  Random,          (* the numbers of each stream, over one period          *)
  Period,          (* the period of the generator (2^31 - 2)               *)
  IntRange,        (* 2^32: the values an int can hold                     *)
  Parallels,       (* the -parallel settings of the checked builds         *)
  MaxCrashes       (* bound on the kills the model explores                *)

Table == 1 .. NTable

IsParent(t) == ReturnsOf[t] # 0
IsChild(t)  == \E p \in Table : ReturnsOf[p] = t
Family(t)   == {t} \cup IF IsParent(t) THEN {ReturnsOf[t]} ELSE {}

Streams(T) == {s \in Stream : TableOf[s] \in T}

(* The largest value of an int, and a conversion to it.                    *)
IntMax == IntRange \div 2 - 1
AsInt(n) ==
  LET low == n % IntRange IN IF low > IntMax THEN low - IntRange ELSE low

(* genrand_integer(): the number at place p of stream s, brought into the  *)
(* interval min..max.                                                      *)
GenrandInteger(s, p, min, max) ==
  min + (Random[s][p % Period] % (max - min + 1))

(* Mutant: an order may come out without a line item.                      *)
LineCountFromZero(t, p) ==
  GenrandInteger(CountStream[t], p, MinLines - 1, MaxLines)

(* The line items of an order, and whether one of them is returned.        *)
LineCount(t, p) == GenrandInteger(CountStream[t], p, MinLines, MaxLines)
Returned(t, p)  == GenrandInteger(ReturnStream[t], p, 0, 99) < ReturnPct

(* What a row draws from stream s when it finds it at place p.             *)
RowDraws(s, p) == PerRow[s][p % Period]

(* The children of all the builds that are considered.                     *)
Child == UNION {Kids(par) : par \in Parallels}

(***************************************************************************)
(* Assumptions.  The numbers are those of column_list.txt and scaling.dst; *)
(* what is assumed of them is what the builders rely on: returns tables    *)
(* have no returns table of their own (the update tables, which have, are  *)
(* not built here), a row never draws more from a stream than the budget   *)
(* set aside for it, and every child of a divided table gets a row.  The   *)
(* streams that give an order its line items and decide on their return    *)
(* (SR_IS_RETURNED and its like) are streams of the sales table.           *)
(***************************************************************************)
ASSUME TableAssumption ==
  /\ NTable \in Nat
  /\ Rows \in [Table -> Nat]
  /\ ReturnsOf \in [Table -> 0 .. NTable]
  /\ \A t \in Table : IsParent(t) => ReturnsOf[t] # t /\ ~IsParent(ReturnsOf[t])
  /\ \A t, u \in Table : IsParent(t) /\ ReturnsOf[t] = ReturnsOf[u] => t = u
  /\ Selected \subseteq Table

ASSUME StreamAssumption ==
  /\ TableOf \in [Stream -> Table]
  /\ DupOf \in [Stream -> Stream]
  /\ Budget \in [Stream -> Nat]
  /\ PerRow \in [Stream -> [0 .. Period - 1 -> Nat]]
  /\ PerLine \in [Stream -> Nat]

ASSUME LineAssumption ==
  /\ MinLines \in Nat \ {0}
  /\ MaxLines \in Nat
  /\ MinLines <= MaxLines
  /\ ReturnPct \in 0 .. 100
  /\ CountStream \in [Table -> Stream]
  /\ ReturnStream \in [Table -> Stream]
  /\ \A t \in Table : IsParent(t) => /\ TableOf[CountStream[t]] = t
                                   /\ TableOf[ReturnStream[t]] = t
  /\ Period \in Nat \ {0}
  /\ Random \in [Stream -> [0 .. Period - 1 -> Nat]]

ASSUME BudgetAssumption ==
  \A s \in Stream, p \in 0 .. Period - 1 :
    /\ PerRow[s][p] + MaxLines * PerLine[s] <= Budget[s]
    /\ IsChild(TableOf[s]) => PerRow[s][p] = 0

ASSUME BuildAssumption ==
  /\ IntRange \in Nat \ {0}
  /\ MaxCrashes \in Nat
  /\ Parallels \subseteq {Unset} \cup 2 .. SmallTable

(***************************************************************************)
(* Every process works through the tables with its own copy of the state.  *)
(***************************************************************************)
VARIABLES
  parallel,  (* the -parallel setting of this build                        *)
  force,     (* the -force option                                          *)
  pc,        (* where each child's process is; "idle": not running         *)
  tab,       (* i of main(): the table it is at                            *)
  row,       (* i of gen_tbl(): the row it is at                           *)
  left,      (* kRowCount of gen_tbl(): the rows it has yet to build       *)
  lines,     (* the line items its order has yet to build                  *)
  at,        (* nSeed of each stream, as a place in the stream             *)
  used,      (* nUsed of each stream                                       *)
  open,      (* the tables whose outfile it has open                       *)
  created,   (* the output files of a child that exist on disk             *)
  file,      (* what they hold                                             *)
  crashes    (* kills so far                                               *)

options == <<parallel, force>>
memory  == <<tab, row, left, lines, at, used, open>>
disk    == <<created, file>>
vars    == <<options, pc, memory, disk, crashes>>

(***************************************************************************)
(* Steps that several actions share.                                       *)
(***************************************************************************)

(* The process of c ends and its memory with it.                           *)
Stop(c, status) ==
  /\ pc'    = [pc EXCEPT ![c] = status]
  /\ tab'   = [tab EXCEPT ![c] = 1]
  /\ row'   = [row EXCEPT ![c] = 1]
  /\ left'  = [left EXCEPT ![c] = 0]
  /\ lines' = [lines EXCEPT ![c] = 0]
  /\ at'    = [at EXCEPT ![c] = [s \in Stream |-> 0]]
  /\ used'  = [used EXCEPT ![c] = [s \in Stream |-> 0]]
  /\ open'  = [open EXCEPT ![c] = {}]

(* Draw n[s] numbers from every stream: next_random(), n[s] times.         *)
Draw(c, n) ==
  /\ at'   = [at EXCEPT ![c] = [s \in Stream |-> at[c][s] + n[s]]]
  /\ used' = [used EXCEPT ![c] = [s \in Stream |-> used[c][s] + n[s]]]

(* The draws of a row, or of an order's master record, and of a line item  *)
(* that makes a line in each table of T.                                   *)
MasterDraws(c, t) ==
  [s \in Stream |-> IF s \in Streams({t}) THEN RowDraws(s, at[c][s]) ELSE 0]
LineDraws(T) ==
  [s \in Stream |-> IF s \in Streams(T) THEN PerLine[s] ELSE 0]

(* What a printed line of table t was made from: its row, its line item    *)
(* and the places of the table's own streams.                              *)
Line(t, r, k, places) ==
  [row |-> r, line |-> k,
   seeds |-> [s \in Stream |-> IF s \in Streams({t}) THEN places[s] ELSE 0]]

(* Mutant: -force is not looked at.                                        *)
RefusedDespiteForce(c, t) == t \notin open[c] /\ t \in created[c]

(* print_start() exits rather than open a file that exists.                *)
Refused(c, t) == t \notin open[c] /\ t \in created[c] /\ ~force

(* Mutant: print_start() opens the file for appending.                     *)
EmitAppending(c, t, line) ==
  /\ open'    = [open EXCEPT ![c] = @ \cup {t}]
  /\ created' = [created EXCEPT ![c] = @ \cup {t}]
  /\ file'    = [file EXCEPT ![c][t] = Append(@, line)]

(* print_start() .. print_end(): open the file, emptied, at the first line *)
(* of the table, write the line and flush it.                              *)
Emit(c, t, line) ==
  /\ open'    = [open EXCEPT ![c] = @ \cup {t}]
  /\ created' = [created EXCEPT ![c] = @ \cup {t}]
  /\ file'    = [file EXCEPT ![c][t] =
                   IF t \in open[c] THEN Append(@, line) ELSE <<line>>]

(***************************************************************************)
(* main(): the loop over the tables.                                       *)
(***************************************************************************)

(* The operator starts child c, for the first time or after a kill.        *)
Launch(c) ==
  /\ pc[c] = "idle"
  /\ c \in Kids(parallel)
  /\ pc' = [pc EXCEPT ![c] = "table"]
  /\ UNCHANGED <<options, memory, disk, crashes>>

(* A table that is not built by itself: FL_CHILD tables are built with     *)
(* their parent, others are FL_NOP or not the one -table names.            *)
SkipTable(c) ==
  /\ pc[c] = "table"
  /\ tab[c] \in Table
  /\ IsChild(tab[c]) \/ tab[c] \notin Selected
  /\ tab' = [tab EXCEPT ![c] = @ + 1]
  /\ UNCHANGED <<options, pc, row, left, lines, at, used, open, disk, crashes>>

(* Mutant: the streams of the child table stay where they are.             *)
SkippedWithoutChild(t) ==
  Streams({t}) \cup {DupOf[s] : s \in {d \in Stream : DupOf[d] # d}}

(* The streams row_skip(t) and, for a parent, row_skip(nParam) reposition: *)
(* those of the tables, and the target of every duplicate stream, whatever *)
(* table it belongs to.                                                    *)
Skipped(t) ==
  Streams(Family(t)) \cup {DupOf[s] : s \in {d \in Stream : DupOf[d] # d}}

(* skip_random(): go n places on from the initial seed, not from the place *)
(* of the moment; a negative n leaves the stream at its initial seed.      *)
Jump(n) == IF n > 0 THEN n ELSE 0

(* Divide the table and bring its streams to the first row of the chunk.   *)
(* main() hands the number of rows to skip to row_skip() as an int.        *)
BeginTable(c) ==
  LET t     == tab[c]
      first == FirstRow(Rows[t], parallel, c)
      moved == IF first # 1 THEN Skipped(t) ELSE {}
  IN
  /\ pc[c] = "table"
  /\ t \in Table
  /\ t \in Selected
  /\ ~IsChild(t)
  /\ pc'   = [pc EXCEPT ![c] = "row"]
  /\ row'  = [row EXCEPT ![c] = first]
  /\ left' = [left EXCEPT ![c] = RowCount(Rows[t], parallel, c)]
  /\ at'   = [at EXCEPT ![c] =
                [s \in Stream |-> IF s \in moved
                                  THEN Jump(AsInt(first - 1) * Budget[s])
                                  ELSE at[c][s]]]
  /\ used' = [used EXCEPT ![c] =
                [s \in Stream |-> IF s \in moved THEN 0 ELSE used[c][s]]]
  /\ UNCHANGED <<options, tab, lines, open, disk, crashes>>

(* After the last row print_close() closes the table and its child.        *)
EndTable(c) ==
  /\ pc[c] = "row"
  /\ left[c] = 0
  /\ pc'   = [pc EXCEPT ![c] = "table"]
  /\ tab'  = [tab EXCEPT ![c] = @ + 1]
  /\ open' = [open EXCEPT ![c] = @ \ Family(tab[c])]
  /\ UNCHANGED <<options, row, left, lines, at, used, disk, crashes>>

(* The update tables, which come next, are not built without -update.      *)
Exit(c) ==
  /\ pc[c] = "table"
  /\ tab[c] = NTable + 1
  /\ Stop(c, "done")
  /\ UNCHANGED <<options, disk, crashes>>

(***************************************************************************)
(* gen_tbl(): the loop over the rows of a chunk.                           *)
(***************************************************************************)

(* The builder of a table without children makes one line, which the       *)
(* loader prints.                                                          *)
BuildRow(c) ==
  LET t == tab[c] IN
  /\ pc[c] = "row"
  /\ left[c] > 0
  /\ ~IsParent(t)
  /\ ~Refused(c, t)
  /\ Draw(c, MasterDraws(c, t))
  /\ Emit(c, t, Line(t, row[c], 0, at[c]))
  /\ pc' = [pc EXCEPT ![c] = "stop"]
  /\ UNCHANGED <<options, tab, row, left, lines, crashes>>

(* mk_master(): what all line items of an order share, and their number.   *)
BuildOrder(c) ==
  LET t == tab[c] IN
  /\ pc[c] = "row"
  /\ left[c] > 0
  /\ IsParent(t)
  /\ Draw(c, MasterDraws(c, t))
  /\ lines' = [lines EXCEPT ![c] = LineCount(t, at[c][CountStream[t]])]
  /\ pc' = [pc EXCEPT ![c] = "line"]
  /\ UNCHANGED <<options, tab, row, left, open, disk, crashes>>

(* mk_detail(): draw a line item and, if it is returned, draw and print    *)
(* its return.                                                             *)
BuildLine(c) ==
  LET t    == tab[c]
      back == Returned(t, at[c][ReturnStream[t]])
      u    == ReturnsOf[t]
  IN
  /\ pc[c] = "line"
  /\ back => ~Refused(c, u)
  /\ Draw(c, LineDraws(IF back THEN {t, u} ELSE {t}))
  /\ IF back
     THEN Emit(c, u, Line(u, row[c], lines[c], at[c]))
     ELSE UNCHANGED <<open, disk>>
  /\ pc' = [pc EXCEPT ![c] = "sale"]
  /\ UNCHANGED <<options, tab, row, left, lines, crashes>>

(* The end of mk_detail(): the sale is printed after its return.           *)
PrintSale(c) ==
  LET t == tab[c] IN
  /\ pc[c] = "sale"
  /\ ~Refused(c, t)
  /\ Emit(c, t, Line(t, row[c], lines[c], at[c]))
  /\ lines' = [lines EXCEPT ![c] = @ - 1]
  /\ pc' = [pc EXCEPT ![c] = IF lines[c] = 1 THEN "stop" ELSE "line"]
  /\ UNCHANGED <<options, tab, row, left, at, used, crashes>>

(* Mutant: checkSeeds() pads the streams of the table but not its child's. *)
PaddedWithoutChild(t) == Streams({t})

(* The streams row_stop() brings to the end of the row's budget.           *)
Padded(t) == Streams(Family(t))

(* row_stop(): checkSeeds() draws what is left of the budget and counts    *)
(* the next row's draws from 0.                                            *)
RowStop(c) ==
  LET padded   == Padded(tab[c])
      unused(s) == IF used[c][s] < Budget[s] THEN Budget[s] - used[c][s] ELSE 0
  IN
  /\ pc[c] = "stop"
  /\ at'   = [at EXCEPT ![c] =
                [s \in Stream |-> at[c][s] + IF s \in padded THEN unused(s) ELSE 0]]
  /\ used' = [used EXCEPT ![c] =
                [s \in Stream |-> IF s \in padded THEN 0 ELSE used[c][s]]]
  /\ row'  = [row EXCEPT ![c] = @ + 1]
  /\ left' = [left EXCEPT ![c] = @ - 1]
  /\ pc'   = [pc EXCEPT ![c] = "row"]
  /\ UNCHANGED <<options, tab, lines, open, disk, crashes>>

(***************************************************************************)
(* The ends of a process other than its own exit(0).                       *)
(***************************************************************************)

(* The table whose line the process prints next, if it is at a print.      *)
NextPrinted(c) ==
  {t \in Table :
     \/ pc[c] = "row" /\ left[c] > 0 /\ ~IsParent(tab[c]) /\ t = tab[c]
     \/ /\ pc[c] = "line"
        /\ Returned(tab[c], at[c][ReturnStream[tab[c]]])
        /\ t = ReturnsOf[tab[c]]
     \/ pc[c] = "sale" /\ t = tab[c]}

(* print_start() finds the file of an earlier run and no -force: exit(-1). *)
Refuse(c) ==
  /\ \E t \in NextPrinted(c) : Refused(c, t)
  /\ Stop(c, "failed")
  /\ UNCHANGED <<options, disk, crashes>>

(* Mutant: print_end() does not flush, and a kill may lose a file's lines. *)
UnflushedUntilClose(c) == open[c]

(* The files of c with lines not yet on disk: print_end() flushes each.    *)
Unflushed(c) == {}

(* The process is killed; the lines it flushed stay on disk.               *)
Kill(c) ==
  /\ pc[c] \in {"table", "row", "line", "sale", "stop"}
  /\ crashes < MaxCrashes
  /\ crashes' = crashes + 1
  /\ Stop(c, "idle")
  /\ \E T \in SUBSET Unflushed(c) :
       file' = [file EXCEPT ![c] =
                  [t \in Table |-> IF t \in T THEN <<>> ELSE file[c][t]]]
  /\ UNCHANGED <<options, created>>

(* The process is killed after it has opened a file, emptying it, and      *)
(* before the first line is flushed.                                       *)
KillAtOpen(c) ==
  /\ crashes < MaxCrashes
  /\ \E t \in NextPrinted(c) \ open[c] :
       /\ ~Refused(c, t)
       /\ created' = [created EXCEPT ![c] = @ \cup {t}]
       /\ file'    = [file EXCEPT ![c][t] = <<>>]
  /\ crashes' = crashes + 1
  /\ Stop(c, "idle")
  /\ UNCHANGED options

Init ==
  /\ parallel \in Parallels
  /\ force \in BOOLEAN
  /\ pc      = [c \in Child |-> "idle"]
  /\ tab     = [c \in Child |-> 1]
  /\ row     = [c \in Child |-> 1]
  /\ left    = [c \in Child |-> 0]
  /\ lines   = [c \in Child |-> 0]
  /\ at      = [c \in Child |-> [s \in Stream |-> 0]]
  /\ used    = [c \in Child |-> [s \in Stream |-> 0]]
  /\ open    = [c \in Child |-> {}]
  /\ created = [c \in Child |-> {}]
  /\ file    = [c \in Child |-> [t \in Table |-> <<>>]]
  /\ crashes = 0

(* What the process of c does, started and left alone.                     *)
Step(c) ==
  \/ Launch(c)
  \/ SkipTable(c)
  \/ BeginTable(c)
  \/ EndTable(c)
  \/ Exit(c)
  \/ BuildRow(c)
  \/ BuildOrder(c)
  \/ BuildLine(c)
  \/ PrintSale(c)
  \/ RowStop(c)
  \/ Refuse(c)

Ended == \A c \in Kids(parallel) : pc[c] \in {"done", "failed"}

(* All children have ended: the build is over.                             *)
Over == Ended /\ UNCHANGED vars

Next == (\E c \in Child : Step(c) \/ Kill(c) \/ KillAtOpen(c)) \/ Over

Spec == Init /\ [][Next]_vars

(* Every process is scheduled, and the operator starts every child and     *)
(* starts it again after a kill.                                           *)
FairSpec == Spec /\ \A c \in Child : WF_vars(Step(c))

(***************************************************************************)
(* What a serial build writes, row by row and line by line, as places in   *)
(* the streams.  It depends on nothing but the row number.                 *)
(***************************************************************************)

(* Where stream s stands when a serial build comes to row r, and after the *)
(* master record and k line items.                                         *)
RowStart(s, r) == (r - 1) * Budget[s]
LineStart(s, r, k) ==
  RowStart(s, r) + RowDraws(s, RowStart(s, r)) + k * PerLine[s]

SerialLineCount(t, r) == LineCount(t, RowStart(CountStream[t], r))

(* Is the k-th line item of order r returned; how many are before it.      *)
SerialReturned(t, r, k) == Returned(t, LineStart(ReturnStream[t], r, k - 1))
ReturnsBefore(t, r, k) ==
  Cardinality({j \in 1 .. k - 1 : SerialReturned(t, r, j)})

(* What a serial build makes of row r in table t: the plain row, the sales *)
(* and the returns of an order.  Line items are numbered from the last, as *)
(* the counter `lines' counts.                                             *)
SerialRow(t, r) == {Line(t, r, 0, [s \in Stream |-> RowStart(s, r)])}

SerialSales(t, r) ==
  LET n == SerialLineCount(t, r) IN
  {Line(t, r, n - k + 1, [s \in Stream |-> LineStart(s, r, k)]) : k \in 1 .. n}

SerialReturns(t, r) ==
  LET n == SerialLineCount(t, r) IN
  {Line(ReturnsOf[t], r, n - k + 1,
        [s \in Stream |-> LineStart(s, r, ReturnsBefore(t, r, k))]) :
     k \in {j \in 1 .. n : SerialReturned(t, r, j)}}

(* The lines of table t that the rows of R give.                           *)
SerialLines(t, R) ==
  CASE IsParent(t) -> UNION {SerialSales(t, r) : r \in R}
    [] IsChild(t)  -> UNION {SerialReturns(p, r) :
                               p \in {q \in Table : ReturnsOf[q] = t}, r \in R}
    [] OTHER       -> UNION {SerialRow(t, r) : r \in R}

(***************************************************************************)
(* Properties.                                                             *)
(***************************************************************************)

Places == [Stream -> Nat]
Lines  == [row : Nat, line : Nat, seeds : Places]

(* The variables keep their types; an order never has more line items left *)
(* than the largest order has, and a file is open only if it exists.       *)
TypeOK ==
  /\ parallel \in Parallels
  /\ force \in BOOLEAN
  /\ pc \in [Child -> {"idle", "table", "row", "line", "sale", "stop",
                       "done", "failed"}]
  /\ tab \in [Child -> 1 .. NTable + 1]
  /\ row \in [Child -> Nat]
  /\ left \in [Child -> Nat]
  /\ lines \in [Child -> 0 .. MaxLines]
  /\ at \in [Child -> Places]
  /\ used \in [Child -> Places]
  /\ open \in [Child -> SUBSET Table]
  /\ created \in [Child -> SUBSET Table]
  /\ file \in [Child -> [Table -> Seq(Lines)]]
  /\ \A c \in Child : open[c] \subseteq created[c]
  /\ crashes \in 0 .. MaxCrashes

(* The streams of a table about to build row[c], and where they should be. *)
InSync(c, T) ==
  \A s \in Streams(T) : at[c][s] = RowStart(s, row[c]) /\ used[c][s] = 0

(* Whenever a child comes to a row, whichever child it is and whatever the *)
(* rows before held, every stream of the table and of its returns table is *)
(* where a serial build has it at that row; and within a row no stream     *)
(* runs past the budget that row_stop() pads it to (the "Seed overrun" of  *)
(* checkSeeds(), which only -chkseeds looks for).                          *)
StreamsInSync ==
  \A c \in Child :
    /\ pc[c] = "row" /\ left[c] > 0 => InSync(c, Family(tab[c]))
    /\ pc[c] \in {"line", "sale", "stop"} =>
         \A s \in Streams(Family(tab[c])) : used[c][s] <= Budget[s]

LinesOf(c, t) == {file[c][t][i] : i \in DOMAIN file[c][t]}

(* The rows of table t that child c is to build; a returns table gets its  *)
(* lines from the rows of its parent.                                      *)
RowsOf(t) ==
  IF IsChild(t)
  THEN Rows[CHOOSE p \in Table : ReturnsOf[p] = t]
  ELSE Rows[t]

(* The tables the build writes: a returns table comes with its parent.     *)
Built(t) ==
  IF IsChild(t) THEN \E p \in Selected : ReturnsOf[p] = t ELSE t \in Selected

(* What child c of a build in par parts is to write to its file of t.      *)
Share(par, c, t) ==
  IF Built(t) THEN SerialLines(t, Chunk(RowsOf(t), par, c)) ELSE {}

(* However the children interleave, and whatever killed runs left behind,  *)
(* a line in a file is one a serial build makes, in the chunk of that      *)
(* file's child, and is there once.                                        *)
FilesAreSerial ==
  \A c \in Child, t \in Table :
    /\ LinesOf(c, t) \subseteq Share(parallel, c, t)
    /\ Cardinality(LinesOf(c, t)) = Len(file[c][t])

(* When every child has reached its exit(0), the files together hold all   *)
(* the lines of a serial build, no line is in two files, and a table that  *)
(* is not divided has but one file.                                        *)
CompleteBuild ==
  (\A c \in Kids(parallel) : pc[c] = "done") =>
    \A t \in {u \in Table : Built(u)} :
      /\ UNION {LinesOf(c, t) : c \in Child} = SerialLines(t, 1 .. RowsOf(t))
      /\ \A c, d \in Child : c # d => LinesOf(c, t) \cap LinesOf(d, t) = {}
      /\ Undivided(RowsOf(t), parallel) =>
           Cardinality({c \in Child : t \in created[c]}) <= 1

Item(line) == <<line.row, line.line>>
Items(c, t) == {Item(x) : x \in LinesOf(c, t)}

(* A return is printed before the sale it returns.  After a kill, or when  *)
(* a rerun has been refused or has ended, the files of a child lack the    *)
(* sale of at most one return.  (One kill: a second can hit a rerun that   *)
(* has emptied the sales file and not yet the returns file.)               *)
ReturnsHaveSales ==
  crashes <= 1 =>
    \A c \in Child, t \in Table :
      IsParent(t) /\ pc[c] \in {"idle", "table", "done", "failed"} =>
        Cardinality(Items(c, ReturnsOf[t]) \ Items(c, t)) <= 1

(* A build started with -force comes to its end, and every child succeeds, *)
(* although some were killed and found the files of their earlier runs.    *)
ForcedBuildFinishes ==
  force ~> \A c \in Kids(parallel) : pc[c] = "done"

(* The data set as its reader sees it: the files of the children that have *)
(* ended with exit(0).  It grows as Delivery says: by whole chunks, the    *)
(* serial build's lines of the child's rows, once per child and for good,  *)
(* although the children write line by line and are killed in between.     *)
Finished == {c \in Child : pc[c] = "done"}
Handed   == INSTANCE Delivery WITH
              Piece     <- Share,
              Settings  <- Parallels,
              delivered <- Finished,
              data      <- [t \in Table |-> UNION {LinesOf(c, t) : c \in Finished}]
WholeChunks == Handed!Spec
=============================================================================
