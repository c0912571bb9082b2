------------------------------- MODULE JavaBuild -------------------------------
(***************************************************************************)
(* The Java port of dsdgen: one thread of a build.  Driver.run() starts a  *)
(* thread per chunk; a thread generates its chunk of every table, or of    *)
(* the one that --table names, into files of its own, from generators of   *)
(* its own.  Threads share nothing, so that one stands for all.            *)
(*                                                                         *)
(* The port is written anew - a line item at a time, fresh streams for     *)
(* each table, returns built alone through the generator of their sales -  *)
(* and is to give row for row what dsdgen gives: modules RowDraws,         *)
(* ColumnList and SplitWork say what that is.                              *)
(***************************************************************************)
EXTENDS Integers, Sequences, JavaRows, JavaColumns, ColumnList

CONSTANTS
  BaseTables,  (* Table.getBaseTables(), in the order of the enumeration   *)
  Volumes, rowcounts, Weeks,  (* what row counts go by: see RowCounts      *)
  SmallTable,  (* a table below this many rows is not divided (1000000)    *)
  Versioned,   (* keepsHistory()                                           *)
  Lines,       (* the numbers of line items of the orders of a table       *)
  Sessions,    (* the command lines: scale, parallelism, chunk, only,      *)
               (* overwrite                                                *)
  OldFiles     (* the sets of tables whose files exist beforehand          *)

None == "none"

ASSUME BuildAssumption ==
  /\ BaseTables \in Seq(DOMAIN rowcounts)
  /\ SmallTable \in Nat \ {0}
  /\ DOMAIN Lines = {"CATALOG_SALES", "STORE_SALES", "WEB_SALES"}
  /\ \A t \in DOMAIN Lines : Lines[t] \subseteq Nat \ {0}
  /\ \A s \in Sessions :
       /\ s.parallelism \in Nat /\ s.chunk \in 1 .. s.parallelism
       /\ s.only = None \/ \E i \in DOMAIN BaseTables : s.only = BaseTables[i]
  /\ \A i \in DOMAIN BaseTables :
       BaseTables[i] # None /\ BaseTables[i] \in DOMAIN getGeneratorColumns

VARIABLES
  session,    (* the options, with the chunk of the thread                 *)
  place,      (* of the table in tablesToGenerate                          *)
  table,      (* the table being generated, or None                        *)
  rowNumber, endingRowNumber,
  permuted,   (* the sales generator has its itemPermutation               *)
  outcome,    (* what the order's line items came to so far                *)
  remaining,  (* remainingLineItems                                        *)
  at,         (* the numbers drawn from a stream since its first seed      *)
  used,       (* seedsUsed                                                 *)
  wrote,      (* the rows written for rowNumber, by file                   *)
  ended,      (* what the row that ended last was and did, or None         *)
  files,      (* the file of each table                                    *)
  failed      (* a TpcdsException has ended the thread                     *)

vars == <<session, place, table, rowNumber, endingRowNumber, permuted,
          remaining, outcome, at, used, wrote, ended, files, failed>>
rowVars == <<permuted, remaining, outcome, used, wrote, ended>>

Scaling == INSTANCE RowCounts WITH KeepsHistory <- Versioned
getRowCount(t) == Scaling!getRowCount(t, session.scale)

NoOutcome ==
  [first |-> FALSE, new |-> FALSE, more |-> FALSE, lines |-> 0, returned |-> 0]
NotEnded == [outcome |-> NoOutcome, drawn |-> EmptyBag, wrote |-> EmptyBag]
BaseTable == {BaseTables[i] : i \in DOMAIN BaseTables}

(* The static block of Table.                                              *)
ChildOf == [CATALOG_SALES |-> "CATALOG_RETURNS", STORE_SALES |-> "STORE_RETURNS",
            WEB_SALES |-> "WEB_RETURNS"]
hasChild(t) == t \in DOMAIN ChildOf
isChild(t)  == \E p \in DOMAIN ChildOf : ChildOf[p] = t
ParentOf(t) == CHOOSE p \in DOMAIN ChildOf : ChildOf[p] = t

(* The table whose generator makes the rows.                               *)
Source(t) == IF isChild(t) THEN ParentOf(t) ELSE t
IsOrder(t) == hasChild(Source(t))

generateOnlyOneTable == session.only # None
tablesToGenerate ==
  IF generateOnlyOneTable THEN <<session.only>> ELSE BaseTables

(* The generators of a ResultsIterator: the table's, with its parent's or  *)
(* its child's.                                                            *)
Generators(t) ==
  {t} \cup IF hasChild(t) THEN {ChildOf[t]}
           ELSE IF isChild(t) THEN {ParentOf(t)} ELSE {}

seedsPerRow(t) ==
  LET columns == UNION {DOMAIN getGeneratorColumns[g] : g \in Generators(t)}
  IN [s \in columns |->
        LET g == CHOOSE o \in Generators(t) : s \in DOMAIN getGeneratorColumns[o]
        IN getGeneratorColumns[g][s]]

-----------------------------------------------------------------------------
(* Mutant: the last of the extra rows is left out.                         *)
takesExtraShort(chunk, extra) == chunk < extra

takesExtra(chunk, extra) == chunk <= extra

(* Parallel.splitWork(): the chunk of the thread.                          *)
splitWork(t) ==
  LET rows  == getRowCount(t)  chunk == session.chunk  n == session.parallelism
      extra == rows % n
      size  == rows \div n
      first == 1 + (chunk - 1) * size + IF chunk - 1 < extra THEN chunk - 1 ELSE extra
  IN IF rows < SmallTable
     THEN [firstRow |-> 1, lastRow |-> IF chunk > 1 THEN 0 ELSE rows]
     ELSE [firstRow |-> first,
           lastRow  |-> first + size - IF takesExtra(chunk, extra) THEN 0 ELSE 1]

(* Streams with places above 0 only.                                       *)
Places(place_) == [s \in {d \in DOMAIN place_ : place_[d] > 0} |-> place_[s]]

(* Every generator is new, and moves to the first row of the chunk.        *)
skipRowsUntilStartingRowNumber(t, first) ==
  Places([s \in DOMAIN seedsPerRow(t) |-> (first - 1) * seedsPerRow(t)[s]])

(* consumeRemainingSeedsForRow(), of the same generators: what is drawn.   *)
Remaining(t, drawn) ==
  Places([s \in DOMAIN seedsPerRow(t) |->
            IF Copies(s, drawn) < seedsPerRow(t)[s]
            THEN seedsPerRow(t)[s] - Copies(s, drawn) ELSE 0])

-----------------------------------------------------------------------------
(* Mutant: also when it is the one table to generate.                      *)
PassedOverAlways(t) == isChild(t)

(* A table generated with its parent.                                      *)
PassedOver(t) == isChild(t) /\ ~generateOnlyOneTable

SkipChild ==
  /\ table = None /\ ~failed
  /\ place <= Len(tablesToGenerate)
  /\ PassedOver(tablesToGenerate[place])
  /\ place' = place + 1
  /\ UNCHANGED <<session, table, rowNumber, endingRowNumber, at, files, failed, rowVars>>

(* addFileWriterForTable() makes the file, or truncates it.                *)
Refused(t) == files[t] # "absent" /\ ~session.overwrite

(* generateTable() opens the files of the table and of its child.  The     *)
(* first that exists ends the thread; one opened before it stays, empty.   *)
BeginTable ==
  /\ table = None /\ ~failed
  /\ place <= Len(tablesToGenerate)
  /\ LET t == tablesToGenerate[place]
         opened == {t} \cup IF hasChild(t) /\ ~generateOnlyOneTable
                            THEN {ChildOf[t]} ELSE {}
         chunk == splitWork(t)
     IN
     /\ ~PassedOver(t)
     /\ IF \E f \in opened : Refused(f)
        THEN /\ failed' = TRUE
             /\ files' = IF Refused(t) THEN files ELSE [files EXCEPT ![t] = "open"]
             /\ UNCHANGED <<table, rowNumber, endingRowNumber, at>>
        ELSE /\ files' = [f \in BaseTable |-> IF f \in opened THEN "open" ELSE files[f]]
             /\ table' = t
             /\ rowNumber' = chunk.firstRow
             /\ endingRowNumber' = chunk.lastRow
             /\ at' = skipRowsUntilStartingRowNumber(t, chunk.firstRow)
             /\ UNCHANGED failed
  /\ UNCHANGED <<session, place, rowVars>>

(* The cases of the next row, or of the next line of an order.             *)
begins == IsOrder(table) /\ remaining = 0

(* computeScdKey(): ids have one, two and three versions in turn.          *)
IsNew == table \in Versioned /\ rowNumber % 6 \in {1, 2, 4}

Cases ==
  {[first |-> ~permuted, new |-> new, more |-> more, begins |-> begins,
    returned |-> back] :
     new \in {IsNew},
     more \in IF remaining > 0 THEN {outcome.more} ELSE BOOLEAN,
     back \in IF IsOrder(table) THEN BOOLEAN ELSE {FALSE}}

(* The sales generator makes no return when only the sales are built.      *)
Returns(c) == c.returned /\ session.only # Source(table)

(* What computeNext() hands on: a row of the table, and one of its child;  *)
(* of a returns table built alone the return, if there is one.             *)
Handed(c) ==
  IF isChild(table)
  THEN If(Returns(c), Once({table}))
  ELSE Once({table}) (+) If(Returns(c), Once({ChildOf[table]}))

(* Mutant: a row ends only with a call that has something to hand on.      *)
shouldEndRowHanded(c, left) == left = 0 /\ Handed(c) # EmptyBag

shouldEndRow(c, left) == left = 0

(* What the lines of the row came to so far.                               *)
outcomeWith(c) ==
  LET so_far == IF remaining > 0 THEN outcome
                ELSE [first |-> c.first, new |-> c.new, more |-> c.more,
                      lines |-> 0, returned |-> 0]
  IN [so_far EXCEPT !.lines = @ + IF IsOrder(table) THEN 1 ELSE 0,
                    !.returned = @ + IF c.returned THEN 1 ELSE 0]

(* ResultsIterator.computeNext(): a row, or a line of an order; it calls   *)
(* itself when there is nothing to hand on.  The last line ends the row.   *)
computeNext ==
  /\ table # None
  /\ rowNumber <= endingRowNumber
  /\ \E c \in Cases, n \in IF begins THEN Lines[Source(table)] ELSE {1} :
       LET left  == (IF remaining > 0 THEN remaining ELSE n) - 1
           drawn == generateRowAndChildRows(table, [c EXCEPT !.returned = Returns(c)])
           total == used (+) drawn
       IN
       /\ permuted' = IsOrder(table)
       /\ remaining' = left
       /\ IF shouldEndRow(c, left)
          THEN /\ at' = at (+) drawn (+) Remaining(table, total)
               /\ used' = EmptyBag
               /\ wrote' = EmptyBag
               /\ outcome' = NoOutcome
               /\ ended' = [outcome |-> outcomeWith(c), drawn |-> total,
                            wrote |-> wrote (+) Handed(c)]
               /\ rowNumber' = rowNumber + 1
          ELSE /\ at' = at (+) drawn
               /\ used' = total
               /\ wrote' = wrote (+) Handed(c)
               /\ outcome' = outcomeWith(c)
               /\ ended' = NotEnded
               /\ UNCHANGED rowNumber
  /\ UNCHANGED <<session, place, table, endingRowNumber, files, failed>>

(* endOfData(): the files are closed, the generators dropped.              *)
EndTable ==
  /\ table # None
  /\ rowNumber > endingRowNumber
  /\ files' = [f \in BaseTable |-> IF files[f] = "open" THEN "done" ELSE files[f]]
  /\ table' = None
  /\ place' = place + 1
  /\ rowNumber' = 1 /\ endingRowNumber' = 0
  /\ permuted' = FALSE /\ remaining' = 0 /\ outcome' = NoOutcome
  /\ at' = EmptyBag /\ used' = EmptyBag /\ wrote' = EmptyBag
  /\ ended' = NotEnded
  /\ UNCHANGED <<session, failed>>

Ended == failed \/ (table = None /\ place > Len(tablesToGenerate))
Finished == Ended /\ UNCHANGED vars

Init ==
  /\ session \in Sessions
  /\ \E old \in OldFiles :
       files = [f \in BaseTable |-> IF f \in old THEN "old" ELSE "absent"]
  /\ place = 1 /\ table = None /\ failed = FALSE
  /\ rowNumber = 1 /\ endingRowNumber = 0
  /\ permuted = FALSE /\ remaining = 0 /\ outcome = NoOutcome
  /\ at = EmptyBag /\ used = EmptyBag /\ wrote = EmptyBag
  /\ ended = NotEnded

Next == SkipChild \/ BeginTable \/ computeNext \/ EndTable \/ Finished

(* Threads run until they end.                                             *)
Spec == Init /\ [][Next]_vars /\ WF_vars(Next)

-----------------------------------------------------------------------------
(***************************************************************************)
(* Properties.                                                             *)
(***************************************************************************)

(* dsdgen's name of a table.                                               *)
CName(t) == IF t = "DATE_DIM" THEN "DATE" ELSE IF t = "TIME_DIM" THEN "TIME" ELSE t

Dsdgen == INSTANCE SplitWork
Unsplit(n) == IF n = 1 THEN Dsdgen!Unset ELSE n

(* Streams that show: dsdgen draws the constants of these rows, the port   *)
(* writes them down.                                                       *)
Constants ==
  {"CC_HOURS", "P_PURPOSE", "W_STORE_TYPE", "W_STORE_GEOGRAPHY_CLASS",
   "W_STORE_DIVISION_NAME", "W_STORE_COMPANY_NAME"}
Shown(t) ==
  {s \in DOMAIN seedsPerRow(t) :
     /\ s \notin Constants \/ t = "CALL_CENTER"
     /\ session.only \in DOMAIN ChildOf =>
          s \notin DOMAIN getGeneratorColumns[ChildOf[session.only]]}

(***************************************************************************)
(* What ChunkAsDsdgen rests on, besides the steps of a thread: the tables  *)
(* of the two programs and the draws of a row.                             *)
(***************************************************************************)

(* The port and dsdgen count the rows of a table alike, those of a returns *)
(* table as those of its sales.                                            *)
CountsAlike ==
  \A o \in Sessions, t \in BaseTable :
    /\ Scaling!getRowCount(t, o.scale) \in Nat
    /\ Scaling!getRowCount(t, o.scale) = Scaling!get_rowcount(Source(t), o.scale)

(* The tables that are divided at some scale, and their streams that are   *)
(* compared, whatever the command line.                                    *)
Divided ==
  {t \in BaseTable : \E o \in Sessions : Scaling!getRowCount(t, o.scale) >= SmallTable}
Compared(t) ==
  {s \in DOMAIN seedsPerRow(t) :
     (s \notin Constants \/ t = "CALL_CENTER") /\ Budget[s] # 0}

(* Their columns have as many seeds in a row as column_list.txt gives.     *)
SeedsAlike ==
  /\ \A t \in BaseTable :
       /\ \A s \in DOMAIN seedsPerRow(t) : seedsPerRow(t)[s] \in Nat
       /\ \A s \in Compared(t) : Budget[s] \in Nat
  /\ \A t \in Divided : \A s \in Compared(t) : seedsPerRow(t)[s] = Budget[s]

(* No row of such a table draws more than its seeds: the first line of an  *)
(* order with any other, as often as they come.                            *)
CaseOf == [first : BOOLEAN, new : BOOLEAN, more : BOOLEAN, begins : BOOLEAN,
           returned : BOOLEAN]
LineCases   == {c \in CaseOf : ~c.begins}
CasesOf(t)  == {c \in CaseOf : c.begins = IsOrder(t)}
LinesOf(t)  == IF IsOrder(t) THEN Lines[Source(t)] ELSE {1}
RowsFit ==
  \A t \in Divided :
    LET draws == [c \in CaseOf |-> generateRowAndChildRows(t, c)] IN
    \A s \in Compared(t) :
      LET drawn == [c \in CaseOf |-> Copies(s, draws[c])] IN
      /\ \A c \in CaseOf : drawn[c] \in Nat
      /\ \A b \in CasesOf(t), l \in LineCases, n \in LinesOf(t) :
           drawn[b] + (n - 1) * drawn[l] <= seedsPerRow(t)[s]

(* A thread generates the rows dsdgen builds with the same -child at the   *)
(* same scale, in it or between the volumes that counts are defined for.   *)
(* And whichever chunk, and built alone or with the sales, a row of a      *)
(* table that can be divided begins with every stream where dsdgen has it; *)
(* every table begins with its streams at their first seeds.               *)
ChunkAsDsdgen ==
  /\ table # None /\ ended = NotEnded /\ used = EmptyBag =>
       rowNumber .. endingRowNumber =
         Dsdgen!Chunk(Scaling!get_rowcount(Source(table), session.scale),
                      Unsplit(session.parallelism), session.chunk)
  /\ (/\ table # None /\ remaining = 0 /\ rowNumber <= endingRowNumber
      /\ getRowCount(table) >= SmallTable \/ rowNumber = 1) =>
       \A s \in Shown(table) :
         Budget[s] = 0 \/ Copies(s, at) = (rowNumber - 1) * Budget[s]

(* A row, taken together from its line items, drew from every stream what  *)
(* dsdgen's builder draws for the same row.                                *)
DrawsAsDsdgen ==
  ended # NotEnded =>
    LET drawn == Draws(CName(Source(table)), ended.outcome)
    IN \A s \in Shown(table) : Copies(s, ended.drawn) = Copies(s, drawn)

(* Built with its sales or alone, a returns file gets a row for every sale *)
(* that is returned, the sales file one for every line; no row is lost     *)
(* with the calls that hand on nothing.                                    *)
ReturnsWithSales ==
  ended # NotEnded /\ IsOrder(table) =>
    LET sales == Source(table) IN
    /\ ~isChild(table) => Copies(sales, ended.wrote) = ended.outcome.lines
    /\ session.only # sales =>
         Copies(ChildOf[sales], ended.wrote) = ended.outcome.returned

(* Every thread ends, its files written - unless one existed and may not   *)
(* be overwritten.                                                         *)
Written(f) == files[f] = "done"
BuildEnds ==
  <>(IF failed
     THEN ~session.overwrite /\ \E f \in BaseTable : files[f] = "old"
     ELSE /\ place > Len(tablesToGenerate)
          /\ \A i \in DOMAIN tablesToGenerate : Written(tablesToGenerate[i]))
==============================================================================
