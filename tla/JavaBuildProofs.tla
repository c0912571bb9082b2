--------------------------- MODULE JavaBuildProofs ---------------------------
(***************************************************************************)
(* What a thread of the Java port builds, for every command line and every *)
(* number of rows and of lines of an order: the rows and the places in the *)
(* streams that dsdgen has, and a return for every sale that is returned.  *)
(***************************************************************************)
EXTENDS JavaBuild, TLAPS

(***************************************************************************)
(* The invariant.                                                          *)
(***************************************************************************)
Outcome == [first : BOOLEAN, new : BOOLEAN, more : BOOLEAN, lines : Nat,
            returned : Nat]

Typed ==
  /\ session \in Sessions
  /\ place \in Nat \ {0}
  /\ table \in BaseTable \cup {None}
  /\ permuted \in BOOLEAN
  /\ remaining \in Nat
  /\ outcome \in Outcome

(* Between tables nothing is under way; a row is under way only between    *)
(* the lines of an order.                                                  *)
Idle ==
  /\ table = None => remaining = 0 /\ ended = NotEnded
  /\ remaining = 0 => used = EmptyBag /\ wrote = EmptyBag
  /\ remaining > 0 => table # None /\ IsOrder(table) /\ used # EmptyBag

(* The files of an order have got what its lines came to so far.           *)
Matches(o, w) ==
  LET sales == Source(table) IN
  /\ ~isChild(table) => Copies(sales, w) = o.lines
  /\ session.only # sales => Copies(ChildOf[sales], w) = o.returned
LinesWritten == remaining > 0 => Matches(outcome, wrote)

LinesInv == Typed /\ Idle /\ LinesWritten /\ ReturnsWithSales

-----------------------------------------------------------------------------
(***************************************************************************)
(* Bags.                                                                   *)
(***************************************************************************)
LEMMA CopiesInUnion ==
  \A e, A, B : Copies(e, A (+) B) = Copies(e, A) + Copies(e, B)
BY DEF Copies, (+)

LEMMA InUnion ==
  \A e, A, B : e \in DOMAIN A \/ e \in DOMAIN B => e \in DOMAIN (A (+) B)
BY DEF (+)

LEMMA CopiesInEmpty ==
  /\ DOMAIN EmptyBag = {}
  /\ \A e : Copies(e, EmptyBag) = 0
BY DEF Copies, EmptyBag, SetToBag

LEMMA UnionNotEmpty ==
  ASSUME NEW A, NEW B, NEW e, e \in DOMAIN B
  PROVE  A (+) B # EmptyBag
BY InUnion, CopiesInEmpty

LEMMA CopiesInEach == \A e, n, S : Copies(e, Each(n, S)) = IF e \in S THEN n ELSE 0
BY DEF Copies, Each

LEMMA CopiesInIf ==
  ASSUME NEW e, NEW A, NEW cond \in BOOLEAN
  PROVE  Copies(e, If(cond, A)) = IF cond THEN Copies(e, A) ELSE 0
BY CopiesInEmpty DEF If

LEMMA CopiesInTimes ==
  ASSUME NEW e, NEW A, NEW n \in Nat, Copies(e, A) \in Nat
  PROVE  Copies(e, Times(n, A)) = n * Copies(e, A)
<1>1. CASE n = 0
  BY <1>1, CopiesInEmpty DEF Times
<1>2. CASE n # 0 /\ e \in DOMAIN A
  BY <1>2 DEF Times, Copies
<1>3. CASE n # 0 /\ e \notin DOMAIN A
  BY <1>3 DEF Times, Copies
<1> QED  BY <1>1, <1>2, <1>3

LEMMA CopiesInOnce ==
  ASSUME NEW e, NEW f, NEW cond \in BOOLEAN
  PROVE  Copies(e, If(cond, Once({f}))) = IF cond /\ e = f THEN 1 ELSE 0
BY CopiesInEmpty DEF Copies, If, Once, Each

-----------------------------------------------------------------------------
(***************************************************************************)
(* Tables.                                                                 *)
(***************************************************************************)
LEMMA ParentsAndChildren ==
  /\ DOMAIN ChildOf = {"CATALOG_SALES", "STORE_SALES", "WEB_SALES"}
  /\ ChildOf["CATALOG_SALES"] = "CATALOG_RETURNS"
  /\ ChildOf["STORE_SALES"] = "STORE_RETURNS"
  /\ ChildOf["WEB_SALES"] = "WEB_RETURNS"
BY DEF ChildOf

LEMMA SourceOf ==
  ASSUME NEW t
  PROVE  /\ isChild(t) => Source(t) \in DOMAIN ChildOf /\ ChildOf[Source(t)] = t
         /\ ~isChild(t) => Source(t) = t
         /\ IsOrder(t) => /\ Source(t) \in DOMAIN ChildOf
                          /\ ChildOf[Source(t)] # Source(t)
                          /\ t \in {Source(t), ChildOf[Source(t)]}
BY ParentsAndChildren DEF isChild, Source, ParentOf, IsOrder, hasChild

LEMMA NotAnOrder == None \notin BaseTable /\ ~IsOrder(None)
BY BuildAssumption, ParentsAndChildren
DEF BaseTable, None, IsOrder, hasChild, Source, isChild
(* Every line of an order draws: whether it has NULLs, for one.            *)
LEMMA LinesDraw ==
  ASSUME NEW t, IsOrder(t), NEW c
  PROVE  \E s : s \in DOMAIN generateRowAndChildRows(t, c)
<1> DEFINE drawn == generateRowAndChildRows(t, c)
<1>1. \A s : s \in DOMAIN createNullBitMap(s)
  BY DEF createNullBitMap, Twice, Each
<1>2. t \in {"STORE_SALES", "STORE_RETURNS", "CATALOG_SALES", "CATALOG_RETURNS",
            "WEB_SALES", "WEB_RETURNS"}
  BY SourceOf, ParentsAndChildren
<1>3. CASE t \in {"STORE_SALES", "STORE_RETURNS"}
  <2>1. drawn = StoreSalesRowGenerator(c)
    BY <1>3 DEF generateRowAndChildRows
  <2>2. "SS_NULLS" \in DOMAIN StoreSalesRowGenerator(c)
    BY <1>1, InUnion DEF StoreSalesRowGenerator
  <2> QED  BY <2>1, <2>2
<1>4. CASE t \in {"CATALOG_SALES", "CATALOG_RETURNS"}
  <2>1. drawn = CatalogSalesRowGenerator(c)
    BY <1>4 DEF generateRowAndChildRows
  <2>2. "CS_NULLS" \in DOMAIN CatalogSalesRowGenerator(c)
    BY <1>1, InUnion DEF CatalogSalesRowGenerator
  <2> QED  BY <2>1, <2>2
<1>5. CASE t \in {"WEB_SALES", "WEB_RETURNS"}
  <2>1. drawn = WebSalesRowGenerator(c)
    BY <1>5 DEF generateRowAndChildRows
  <2>2. "WS_NULLS" \in DOMAIN WebSalesRowGenerator(c)
    BY <1>1, InUnion DEF WebSalesRowGenerator
  <2> QED  BY <2>1, <2>2
<1> QED  BY <1>2, <1>3, <1>4, <1>5

-----------------------------------------------------------------------------
(***************************************************************************)
(* A line of an order, and the row it may end.                             *)
(***************************************************************************)

(* The cases of a line, and its number of lines if it begins an order.     *)
LEMMA CasesTyped ==
  ASSUME Typed, NEW c \in Cases
  PROVE  c \in CaseOf /\ c.begins = begins
         /\ c.new \in BOOLEAN /\ c.more \in BOOLEAN /\ c.returned \in BOOLEAN
<1> DEFINE Mores == IF remaining > 0 THEN {outcome.more} ELSE BOOLEAN
           Backs == IF IsOrder(table) THEN BOOLEAN ELSE {FALSE}
           case(new, more, back) ==
             [first |-> ~permuted, new |-> new, more |-> more, begins |-> begins,
              returned |-> back]
<1>1. PICK new \in {IsNew}, more \in Mores, back \in Backs : c = case(new, more, back)
  <2>1. Cases = {case(new, more, back) : new \in {IsNew}, more \in Mores, back \in Backs}
    BY DEF Cases
  <2> HIDE DEF case, Mores, Backs
  <2> QED  BY <2>1
<1>2. new \in BOOLEAN /\ more \in BOOLEAN /\ back \in BOOLEAN /\ begins \in BOOLEAN
  <2>1. outcome.more \in BOOLEAN  BY DEF Typed, Outcome
  <2> QED  BY <1>1, <2>1 DEF begins, IsNew
<1> QED  BY <1>1, <1>2 DEF Typed, CaseOf

LEMMA LineLeft ==
  ASSUME Typed, Idle, table # None,
         NEW n \in IF begins THEN Lines[Source(table)] ELSE {1}
  PROVE  /\ (IF remaining > 0 THEN remaining ELSE n) - 1 \in Nat
         /\ (IF remaining > 0 THEN remaining ELSE n) - 1 > 0 => IsOrder(table)
<1>1. n \in Nat \ {0} /\ (~IsOrder(table) => n = 1)
  <2>1. CASE begins
    <3>1. IsOrder(table) /\ Source(table) \in DOMAIN Lines
      BY <2>1, SourceOf, ParentsAndChildren, BuildAssumption DEF begins
    <3> QED  BY <2>1, <3>1, BuildAssumption
  <2> QED  BY <2>1
<1> QED  BY <1>1 DEF Typed, Idle

LEMMA OutcomeTyped ==
  ASSUME Typed, NEW c \in Cases
  PROVE  /\ outcomeWith(c) \in Outcome
         /\ outcomeWith(c).lines =
              (IF remaining > 0 THEN outcome.lines ELSE 0) + IF IsOrder(table) THEN 1 ELSE 0
         /\ outcomeWith(c).returned =
              (IF remaining > 0 THEN outcome.returned ELSE 0) + IF c.returned THEN 1 ELSE 0
<1> DEFINE so_far == IF remaining > 0 THEN outcome
                     ELSE [first |-> c.first, new |-> c.new, more |-> c.more,
                           lines |-> 0, returned |-> 0]
           line == IF IsOrder(table) THEN 1 ELSE 0
           back == IF c.returned THEN 1 ELSE 0
<1>1. so_far \in Outcome
  BY CasesTyped DEF Outcome, Typed, CaseOf
<1>2. outcomeWith(c) = [so_far EXCEPT !.lines = @ + line, !.returned = @ + back]
  BY DEF outcomeWith
<1>3. line \in Nat /\ back \in Nat  OBVIOUS
<1>4. /\ so_far.lines = IF remaining > 0 THEN outcome.lines ELSE 0
      /\ so_far.returned = IF remaining > 0 THEN outcome.returned ELSE 0
  OBVIOUS
<1> HIDE DEF so_far, line, back
<1>5. /\ outcomeWith(c) \in Outcome
      /\ outcomeWith(c).lines = so_far.lines + line
      /\ outcomeWith(c).returned = so_far.returned + back
  <2> DEFINE o == [first |-> so_far.first, new |-> so_far.new, more |-> so_far.more,
                   lines |-> so_far.lines + line, returned |-> so_far.returned + back]
  <2>1. outcomeWith(c) = o
    BY <1>1, <1>2 DEF Outcome
  <2>2. /\ so_far.first \in BOOLEAN /\ so_far.new \in BOOLEAN /\ so_far.more \in BOOLEAN
        /\ so_far.lines + line \in Nat /\ so_far.returned + back \in Nat
    BY <1>1, <1>3 DEF Outcome
  <2> QED  BY <2>1, <2>2 DEF Outcome
<1> QED  BY <1>4, <1>5 DEF line, back

(* A line of an order, and its return if it has one, are handed on.        *)
LEMMA LineHanded ==
  ASSUME Typed, IsOrder(table), NEW c \in Cases
  PROVE  /\ ~isChild(table) => Copies(Source(table), Handed(c)) = 1
         /\ session.only # Source(table) =>
              Copies(ChildOf[Source(table)], Handed(c)) = IF c.returned THEN 1 ELSE 0
<1> DEFINE back == c.returned /\ session.only # Source(table)
<1>0. c.returned \in BOOLEAN /\ back \in BOOLEAN
  BY CasesTyped
<1>1. CASE isChild(table)
  <2>1. Handed(c) = If(back, Once({table})) /\ table = ChildOf[Source(table)]
    BY <1>1, SourceOf DEF Handed, Returns
  <2> QED  BY <1>0, <1>1, <2>1, CopiesInOnce
<1>2. CASE ~isChild(table)
  <2>1. /\ Source(table) = table /\ ChildOf[table] # table
        /\ Handed(c) = Once({table}) (+) If(back, Once({ChildOf[table]}))
    BY <1>2, SourceOf DEF Handed, Returns
  <2>2. \A e : Copies(e, Once({table})) = IF e = table THEN 1 ELSE 0
    BY DEF Copies, Once, Each
  <2>3. \A e : Copies(e, If(back, Once({ChildOf[table]}))) =
               IF back /\ e = ChildOf[table] THEN 1 ELSE 0
    BY <1>0, CopiesInOnce
  <2>4. \A e : Copies(e, Handed(c)) =
               (IF e = table THEN 1 ELSE 0)
               + (IF back /\ e = ChildOf[table] THEN 1 ELSE 0)
    <3> SUFFICES ASSUME NEW e
                 PROVE  Copies(e, Handed(c)) = (IF e = table THEN 1 ELSE 0)
                          + (IF back /\ e = ChildOf[table] THEN 1 ELSE 0)
      OBVIOUS
    <3>1. Copies(e, Handed(c)) = Copies(e, Once({table}))
                                 + Copies(e, If(back, Once({ChildOf[table]})))
      BY <2>1, CopiesInUnion
    <3> QED  BY <2>2, <2>3, <3>1
  <2> QED  BY <1>0, <2>1, <2>4
<1> QED  BY <1>1, <1>2

LEMMA LineMatches ==
  ASSUME LinesInv, IsOrder(table), NEW c \in Cases
  PROVE  Matches(outcomeWith(c), wrote (+) Handed(c))
<1>1. CASE remaining > 0
  BY <1>1, OutcomeTyped, LineHanded, CopiesInUnion
  DEF LinesInv, LinesWritten, Matches, Typed, Outcome
<1>2. CASE remaining = 0
  BY <1>2, OutcomeTyped, LineHanded, CopiesInUnion, CopiesInEmpty
  DEF LinesInv, Matches, Idle
<1> QED  BY <1>1, <1>2 DEF LinesInv, Typed
-----------------------------------------------------------------------------
(***************************************************************************)
(* The invariant holds.                                                    *)
(***************************************************************************)
LEMMA TablesToGenerate ==
  ASSUME Typed, place <= Len(tablesToGenerate)
  PROVE  tablesToGenerate[place] \in BaseTable
<1>1. CASE session.only = None
  BY <1>1, BuildAssumption
  DEF Typed, tablesToGenerate, generateOnlyOneTable, BaseTable
<1>2. CASE session.only # None
  <2>1. session.only \in BaseTable
    BY <1>2, BuildAssumption DEF Typed, BaseTable
  <2>2. tablesToGenerate = <<session.only>> /\ place = 1
    BY <1>2 DEF Typed, tablesToGenerate, generateOnlyOneTable
  <2> QED  BY <2>1, <2>2
<1> QED  BY <1>1, <1>2

LEMMA NoOutcomeTyped == NoOutcome \in Outcome
BY DEF NoOutcome, Outcome

LEMMA LinesInit == Init => LinesInv
<1> SUFFICES ASSUME Init PROVE LinesInv  OBVIOUS
<1>1. Typed
  <2>1. /\ session \in Sessions /\ place = 1 /\ table = None
        /\ permuted = FALSE /\ remaining = 0 /\ outcome = NoOutcome
    BY DEF Init
  <2>2. permuted \in BOOLEAN
    BY <2>1, Zenon
  <2>3. place \in Nat \ {0} /\ remaining \in Nat /\ outcome \in Outcome
    BY <2>1, NoOutcomeTyped
  <2>4. table \in BaseTable \cup {None} /\ session \in Sessions
    BY <2>1
  <2> QED  BY <2>2, <2>3, <2>4 DEF Typed
<1>2. Idle
  BY DEF Init, Idle
<1> QED  BY <1>1, <1>2 DEF Init, LinesInv, LinesWritten, ReturnsWithSales

LEMMA LinesNext == LinesInv /\ [Next]_vars => LinesInv'
<1> SUFFICES ASSUME LinesInv, [Next]_vars PROVE LinesInv'  OBVIOUS
<1> USE DEF LinesInv
<1>1. CASE SkipChild
  BY <1>1 DEF SkipChild, rowVars, Typed, Idle, LinesWritten, ReturnsWithSales, Matches
<1>2. CASE BeginTable
  <2>1. /\ table = None /\ place <= Len(tablesToGenerate)
        /\ table' \in {None, tablesToGenerate[place]}
        /\ UNCHANGED <<session, place, permuted, remaining, outcome, used, wrote, ended>>
    BY <1>2 DEF BeginTable, rowVars
  <2>2. Typed'
    BY <2>1, TablesToGenerate DEF Typed
  <2>3. remaining = 0 /\ ended = NotEnded
    BY <2>1 DEF Idle
  <2>4. Idle'
    BY <2>1, <2>3 DEF Idle
  <2> QED  BY <2>1, <2>2, <2>3, <2>4 DEF LinesWritten, ReturnsWithSales
<1>3. CASE computeNext
  <2> DEFINE order == IF begins THEN Lines[Source(table)] ELSE {1}
             left(n) == (IF remaining > 0 THEN remaining ELSE n) - 1
             drawn(c) ==
               generateRowAndChildRows(table, [c EXCEPT !.returned = Returns(c)])
  <2>0. /\ table # None /\ UNCHANGED <<session, place, table>>
    BY <1>3 DEF computeNext
  <2>1. PICK c \in Cases, n \in order :
          /\ permuted' = IsOrder(table)
          /\ remaining' = left(n)
          /\ IF shouldEndRow(c, left(n))
             THEN /\ used' = EmptyBag /\ wrote' = EmptyBag /\ outcome' = NoOutcome
                  /\ ended' = [outcome |-> outcomeWith(c), drawn |-> used (+) drawn(c),
                               wrote |-> wrote (+) Handed(c)]
             ELSE /\ used' = used (+) drawn(c) /\ wrote' = wrote (+) Handed(c)
                  /\ outcome' = outcomeWith(c) /\ ended' = NotEnded
    BY <1>3 DEF computeNext
  <2>2. /\ left(n) \in Nat
        /\ left(n) > 0 => IsOrder(table)
    BY <2>0, LineLeft
  <2>3. IsOrder(table) => Matches(outcomeWith(c), wrote (+) Handed(c))
    BY LineMatches
  <2>4. outcomeWith(c) \in Outcome
    BY OutcomeTyped
  <2>5. IsOrder(table) => used (+) drawn(c) # EmptyBag
    BY LinesDraw, UnionNotEmpty
  <2>6. IsOrder(table) \in BOOLEAN
    BY DEF IsOrder, hasChild
  <2> HIDE DEF order, left, drawn
  <2>7. CASE left(n) = 0
    <3>1. Typed'
      BY <2>0, <2>1, <2>2, <2>6, <2>7, NoOutcomeTyped DEF Typed, shouldEndRow
    <3>2. Idle' /\ LinesWritten'
      BY <2>0, <2>1, <2>7 DEF Idle, LinesWritten, shouldEndRow
    <3>3. /\ ended'.outcome = outcomeWith(c) /\ ended'.wrote = wrote (+) Handed(c)
          /\ session' = session /\ table' = table
      BY <2>0, <2>1, <2>7 DEF shouldEndRow
    <3>4. ReturnsWithSales'
      BY <2>3, <3>3 DEF ReturnsWithSales, Matches
    <3> QED  BY <3>1, <3>2, <3>4
  <2>8. CASE left(n) # 0
    <3>1. Typed'
      BY <2>0, <2>1, <2>2, <2>4, <2>6, <2>8 DEF Typed, shouldEndRow
    <3>2. Idle'
      BY <2>0, <2>1, <2>2, <2>5, <2>8 DEF Idle, shouldEndRow
    <3>3. /\ outcome' = outcomeWith(c) /\ wrote' = wrote (+) Handed(c)
          /\ ended' = NotEnded /\ IsOrder(table)
      BY <2>1, <2>2, <2>8 DEF shouldEndRow
    <3>4. LinesWritten' /\ ReturnsWithSales'
      BY <2>0, <2>3, <3>3 DEF LinesWritten, Matches, ReturnsWithSales
    <3> QED  BY <3>1, <3>2, <3>4
  <2> QED  BY <2>7, <2>8
<1>4. CASE EndTable
  <2>1. /\ session' = session /\ place' = place + 1 /\ table' = None
        /\ permuted' = FALSE /\ remaining' = 0 /\ outcome' = NoOutcome
        /\ used' = EmptyBag /\ wrote' = EmptyBag /\ ended' = NotEnded
    BY <1>4 DEF EndTable
  <2>2. permuted' \in BOOLEAN
    BY <2>1, Zenon
  <2>3. place' \in Nat \ {0} /\ remaining' \in Nat /\ outcome' \in Outcome
    BY <2>1, NoOutcomeTyped DEF Typed
  <2>4. table' \in BaseTable \cup {None} /\ session' \in Sessions
    BY <2>1 DEF Typed
  <2>5. Typed'
    BY <2>2, <2>3, <2>4 DEF Typed
  <2> QED  BY <2>1, <2>5 DEF Idle, LinesWritten, ReturnsWithSales
<1>5. CASE UNCHANGED vars
  BY <1>5 DEF vars, Typed, Idle, LinesWritten, ReturnsWithSales, Matches
<1> QED
  BY <1>1, <1>2, <1>3, <1>4, <1>5 DEF Next, Finished

(* Built with its sales or alone, a returns file gets a row for every sale *)
(* that is returned, the sales file one for every line: whatever the       *)
(* command line, the numbers of lines and which of them are returned.      *)
THEOREM ReturnsBuiltWithSales == Spec => []ReturnsWithSales
<1>1. LinesInv => ReturnsWithSales
  BY DEF LinesInv
<1> QED  BY LinesInit, LinesNext, <1>1, PTL DEF Spec
-----------------------------------------------------------------------------
(***************************************************************************)
(* The rows of a chunk and the places of its streams.                      *)
(***************************************************************************)

(* A thread that has drawn nothing is at the beginning of its chunk.       *)
AtChunk ==
  table # None /\ ended = NotEnded /\ used = EmptyBag =>
    rowNumber .. endingRowNumber =
      Dsdgen!Chunk(Scaling!get_rowcount(Source(table), session.scale),
                   Unsplit(session.parallelism), session.chunk)

(* A stream is where its row began and what the row has drawn; what the    *)
(* lines to come can draw is set aside.                                    *)
Large == table # None /\ getRowCount(table) >= SmallTable
StreamAt(s) ==
  /\ Copies(s, used) \in Nat
  /\ Copies(s, at) = (rowNumber - 1) * Budget[s] + Copies(s, used)
  /\ remaining > 0 =>
       \A l \in LineCases :
         Copies(s, used) + remaining * Copies(s, generateRowAndChildRows(table, l))
           <= Budget[s]
StreamsInStep == Large => \A s \in Compared(table) : StreamAt(s)

(* A table that is not divided is begun with every stream at its seed.     *)
AtSeeds ==
  table # None /\ remaining = 0 /\ rowNumber = 1 =>
    \A s \in DOMAIN seedsPerRow(table) : Copies(s, at) = 0

RowNumbers == table # None => rowNumber \in Nat \ {0}

ChunkInv == LinesInv /\ RowNumbers /\ AtChunk /\ StreamsInStep /\ AtSeeds
(* The remainder taken away changes no quotient.                           *)
LEMMA Division ==
  ASSUME NEW rows \in Nat, NEW n \in Nat \ {0}
  PROVE  /\ rows \div n \in Nat /\ rows % n \in Nat
         /\ Dsdgen!Rowset(rows, n) = rows \div n
<1>1. rows % n \in 0 .. n - 1 /\ rows \div n \in Nat
  OBVIOUS
<1> DEFINE q == rows \div n
<1>2. rows = n * q + (rows % n)
  OBVIOUS
<1>3. rows - (rows % n) = n * q
  BY <1>1, <1>2
<1>4. (n * q) \div n = q
  BY <1>1
<1> QED  BY <1>1, <1>3, <1>4 DEF Dsdgen!Rowset, Dsdgen!Extra

(* The two divisions come to the same rows.                                *)
LEMMA ChunksAlike ==
  ASSUME NEW rows \in Nat, NEW n \in Nat \ {0}, NEW chunk \in 1 .. n
  PROVE  LET extra == rows % n
             size  == rows \div n
             first == 1 + (chunk - 1) * size + IF chunk - 1 < extra THEN chunk - 1 ELSE extra
             last  == first + size - IF takesExtra(chunk, extra) THEN 0 ELSE 1
         IN /\ first \in Nat \ {0}
            /\ rows >= SmallTable =>
                 first .. last = Dsdgen!Chunk(rows, Unsplit(n), chunk)
<1> DEFINE extra == rows % n
           size  == rows \div n
           skipped == (chunk - 1) * size
           first == 1 + skipped + IF chunk - 1 < extra THEN chunk - 1 ELSE extra
           last  == first + size - IF takesExtra(chunk, extra) THEN 0 ELSE 1
<1>1. size \in Nat /\ extra \in Nat /\ Dsdgen!Rowset(rows, n) = size
  BY Division
<1>2. skipped \in Nat
  <2> HIDE DEF size
  <2> QED  BY <1>1
<1>3. first \in Nat \ {0}
  <2> HIDE DEF skipped, extra
  <2> QED  BY <1>1, <1>2
<1>4. ASSUME rows >= SmallTable
      PROVE  first .. last = Dsdgen!Chunk(rows, Unsplit(n), chunk)
  <2>1. CASE n = 1
    <3>1. chunk = 1 /\ size = rows /\ extra = 0
      BY <2>1
    <3>2. first = 1 /\ last = rows
      <4>1. skipped = 0
        BY <3>1
      <4> HIDE DEF size, extra, skipped
      <4> QED  BY <3>1, <4>1 DEF takesExtra
    <3>3. Dsdgen!Chunk(rows, Unsplit(n), chunk) = 1 .. 1 + rows - 1
      BY <1>4, <2>1, BuildAssumption
      DEF Unsplit, Dsdgen!Chunk, Dsdgen!FirstRow, Dsdgen!RowCount,
          Dsdgen!Undivided, Dsdgen!Unset
    <3> QED  BY <3>2, <3>3
  <2>2. CASE n # 1
    <3>1. Unsplit(n) = n /\ n # Dsdgen!Unset /\ ~(rows < SmallTable)
      BY <1>4, <2>2, BuildAssumption DEF Unsplit, Dsdgen!Unset
    <3>2. Dsdgen!FirstRow(rows, n, chunk) = first
      <4>1. Dsdgen!FirstRow(rows, n, chunk) =
              1 + (chunk - 1) * Dsdgen!Rowset(rows, n)
                + Dsdgen!LeastOf(chunk - 1, Dsdgen!Extra(rows, n))
        BY <3>1 DEF Dsdgen!FirstRow, Dsdgen!Undivided
      <4>2. Dsdgen!LeastOf(chunk - 1, Dsdgen!Extra(rows, n)) =
              IF chunk - 1 < extra THEN chunk - 1 ELSE extra
        BY DEF Dsdgen!LeastOf, Dsdgen!Extra
      <4> QED  BY <1>1, <4>1, <4>2
    <3>3. Dsdgen!RowCount(rows, n, chunk) = size + IF chunk <= extra THEN 1 ELSE 0
      BY <1>1, <3>1 DEF Dsdgen!RowCount, Dsdgen!Extra
    <3>4. last = first + Dsdgen!RowCount(rows, n, chunk) - 1
      <4>1. last = first + size - IF chunk <= extra THEN 0 ELSE 1
        BY DEF takesExtra
      <4> HIDE DEF first, last, size, extra
      <4> QED  BY <1>1, <1>3, <3>3, <4>1
    <3> HIDE DEF first, last
    <3> QED  BY <3>1, <3>2, <3>4 DEF Dsdgen!Chunk
  <2> QED  BY <2>1, <2>2
<1> QED  BY <1>3, <1>4

(* A session is one the thread can have.                                   *)
LEMMA SessionTyped ==
  ASSUME Typed
  PROVE  /\ session \in Sessions
         /\ session.parallelism \in Nat \ {0}
         /\ session.chunk \in 1 .. session.parallelism
BY BuildAssumption DEF Typed

LEMMA SplitAlike ==
  ASSUME Typed, CountsAlike, NEW t \in BaseTable
  PROVE  /\ splitWork(t).firstRow \in Nat \ {0}
         /\ ~(getRowCount(t) >= SmallTable) => splitWork(t).firstRow = 1
         /\ splitWork(t).firstRow .. splitWork(t).lastRow =
              Dsdgen!Chunk(Scaling!get_rowcount(Source(t), session.scale),
                           Unsplit(session.parallelism), session.chunk)
<1> DEFINE rows == getRowCount(t)
           n == session.parallelism
           chunk == session.chunk
           extra == rows % n
           size  == rows \div n
           first == 1 + (chunk - 1) * size + IF chunk - 1 < extra THEN chunk - 1 ELSE extra
           last  == first + size - IF takesExtra(chunk, extra) THEN 0 ELSE 1
<1>1. rows \in Nat /\ rows = Scaling!get_rowcount(Source(t), session.scale)
  BY SessionTyped DEF CountsAlike, getRowCount
<1>2. n \in Nat \ {0} /\ chunk \in 1 .. n
  BY SessionTyped
<1>3. SmallTable \in Nat \ {0}
  BY BuildAssumption
<1>4. CASE rows < SmallTable
  <2>1. splitWork(t) = [firstRow |-> 1, lastRow |-> IF chunk > 1 THEN 0 ELSE rows]
    BY <1>4 DEF splitWork
  <2>2. Dsdgen!Chunk(rows, Unsplit(n), chunk) = 1 .. 1 + (IF chunk > 1 THEN 0 ELSE rows) - 1
    <3> HIDE DEF rows, n, chunk
    <3> QED  BY <1>1, <1>3, <1>4
             DEF Dsdgen!Chunk, Dsdgen!FirstRow, Dsdgen!RowCount, Dsdgen!Undivided
  <2>3. 1 + (IF chunk > 1 THEN 0 ELSE rows) - 1 = IF chunk > 1 THEN 0 ELSE rows
    BY <1>1
  <2> HIDE DEF rows, n, chunk
  <2> QED  BY <1>1, <2>1, <2>2, <2>3 DEF rows, n, chunk
<1>5. CASE ~(rows < SmallTable)
  <2>1. splitWork(t) = [firstRow |-> first, lastRow |-> last]
    BY <1>5 DEF splitWork
  <2>2. rows >= SmallTable
    BY <1>1, <1>3, <1>5
  <2>3. first \in Nat \ {0} /\ first .. last = Dsdgen!Chunk(rows, Unsplit(n), chunk)
    <3> HIDE DEF rows, n, chunk
    <3> QED  BY <1>1, <1>2, <2>2, ChunksAlike
  <2> HIDE DEF first, last
  <2> QED  BY <1>1, <2>1, <2>2, <2>3
<1> QED  BY <1>4, <1>5
-----------------------------------------------------------------------------
(***************************************************************************)
(* The streams within a row.                                               *)
(***************************************************************************)
LEMMA CopiesInPlaces ==
  ASSUME NEW f, NEW s \in DOMAIN f, f[s] \in Nat
  PROVE  Copies(s, Places(f)) = f[s]
BY DEF Copies, Places

LEMMA SkippedTo ==
  ASSUME SeedsAlike, NEW t \in BaseTable, NEW first \in Nat \ {0},
         NEW s \in DOMAIN seedsPerRow(t)
  PROVE  Copies(s, skipRowsUntilStartingRowNumber(t, first)) =
           (first - 1) * seedsPerRow(t)[s]
<1> DEFINE seeds == seedsPerRow(t)
           f == [d \in DOMAIN seeds |-> (first - 1) * seeds[d]]
<1>1. seeds[s] \in Nat
  BY DEF SeedsAlike
<1> HIDE DEF seeds
<1>2. (first - 1) * seeds[s] \in Nat
  BY <1>1
<1>3. s \in DOMAIN f /\ f[s] = (first - 1) * seeds[s]
  BY DEF seeds
<1>4. skipRowsUntilStartingRowNumber(t, first) = Places(f)
  BY DEF skipRowsUntilStartingRowNumber, seeds
<1> HIDE DEF f
<1> QED  BY <1>2, <1>3, <1>4, CopiesInPlaces DEF seeds

LEMMA RestOfRow ==
  ASSUME NEW t, NEW drawn, NEW s \in DOMAIN seedsPerRow(t),
         seedsPerRow(t)[s] \in Nat, Copies(s, drawn) \in Nat,
         Copies(s, drawn) <= seedsPerRow(t)[s]
  PROVE  Copies(s, Remaining(t, drawn)) = seedsPerRow(t)[s] - Copies(s, drawn)
<1> DEFINE seeds == seedsPerRow(t)
           f == [d \in DOMAIN seeds |->
                   IF Copies(d, drawn) < seeds[d] THEN seeds[d] - Copies(d, drawn) ELSE 0]
<1> HIDE DEF seeds
<1>1. s \in DOMAIN f /\ f[s] \in Nat /\ f[s] = seeds[s] - Copies(s, drawn)
  BY DEF seeds
<1>2. Remaining(t, drawn) = Places(f)
  BY DEF Remaining, seeds
<1> HIDE DEF f
<1> QED  BY <1>1, <1>2, CopiesInPlaces DEF seeds

(* What n more lines can draw covers one of them and n - 1 others.         *)
LEMMA OneLineLess ==
  ASSUME NEW u \in Nat, NEW x \in Nat, NEW y \in Nat, NEW most \in Nat,
         NEW n \in Nat \ {0}, u + n * x <= most, u + n * y <= most
  PROVE  u + x <= most /\ (u + x) + (n - 1) * y <= most
<1> DEFINE m == n - 1
<1>1. m \in Nat /\ n = m + 1
  OBVIOUS
<1>2. n * x = m * x + x /\ n * y = m * y + y /\ m * x \in Nat /\ m * y \in Nat
  BY <1>1
<1>3. CASE x <= y
  BY <1>2, <1>3
<1>4. CASE y < x
  <2>1. x = y + (x - y) /\ x - y \in Nat
    BY <1>4
  <2>2. m * x = m * y + m * (x - y) /\ m * (x - y) \in Nat
    BY <1>1, <2>1
  <2> QED  BY <1>2, <2>2
<1> QED  BY <1>3, <1>4

LEMMA RowAfter ==
  ASSUME NEW r \in Nat \ {0}, NEW k \in Nat
  PROVE  /\ (r - 1) * k \in Nat
         /\ (r - 1) * k + k = r * k
<1> DEFINE m == r - 1
<1>1. m \in Nat /\ r = m + 1  OBVIOUS
<1>2. r * k = m * k + k /\ m * k \in Nat  BY <1>1
<1> QED  BY <1>2

Draw(t, c, s) == Copies(s, generateRowAndChildRows(t, c))

LEMMA RowFits ==
  ASSUME SeedsAlike, RowsFit, NEW t \in Divided, NEW s \in Compared(t)
  PROVE  /\ s \in DOMAIN seedsPerRow(t)
         /\ Budget[s] \in Nat /\ seedsPerRow(t)[s] = Budget[s]
         /\ \A c \in CaseOf : Draw(t, c, s) \in Nat
         /\ \A b \in CasesOf(t), l \in LineCases, n \in LinesOf(t) :
              Draw(t, b, s) + (n - 1) * Draw(t, l, s) <= Budget[s]
<1>1. /\ s \in DOMAIN seedsPerRow(t)
      /\ Budget[s] \in Nat /\ seedsPerRow(t)[s] = Budget[s]
  BY DEF SeedsAlike, Divided, Compared
<1> DEFINE draws == [c \in CaseOf |-> generateRowAndChildRows(t, c)]
           drawn == [c \in CaseOf |-> Copies(s, draws[c])]
<1>2. /\ \A c \in CaseOf : drawn[c] \in Nat
      /\ \A b \in CasesOf(t), l \in LineCases, n \in LinesOf(t) :
           drawn[b] + (n - 1) * drawn[l] <= seedsPerRow(t)[s]
  BY DEF RowsFit
<1>3. \A c \in CaseOf : drawn[c] = Draw(t, c, s)
  BY DEF Draw
<1>4. CasesOf(t) \subseteq CaseOf /\ LineCases \subseteq CaseOf
  BY DEF CasesOf, LineCases
<1> HIDE DEF drawn
<1> QED  BY <1>1, <1>2, <1>3, <1>4

(* A case of the state, with the return the generator makes.               *)
LEMMA CaseDrawn ==
  ASSUME Typed, Idle, table # None, NEW c \in Cases,
         NEW n \in IF begins THEN Lines[Source(table)] ELSE {1}
  PROVE  LET d == [c EXCEPT !.returned = Returns(c)] IN
         /\ d \in CaseOf
         /\ remaining = 0 => d \in CasesOf(table) /\ n \in LinesOf(table)
         /\ remaining > 0 => d \in LineCases
<1> DEFINE d == [c EXCEPT !.returned = Returns(c)]
<1>1. c \in CaseOf /\ c.begins = begins /\ c.returned \in BOOLEAN
  BY CasesTyped
<1>2. Returns(c) \in BOOLEAN
  BY DEF Returns
<1>3. d \in CaseOf /\ d.begins = begins
  <2> DEFINE back == Returns(c)
             e == [first |-> c.first, new |-> c.new, more |-> c.more,
                   begins |-> c.begins, returned |-> back]
  <2> HIDE DEF back
  <2>1. back \in BOOLEAN  BY <1>2 DEF back
  <2>2. [c EXCEPT !.returned = back] = e
    BY <1>1 DEF CaseOf
  <2>3. /\ c.first \in BOOLEAN /\ c.new \in BOOLEAN /\ c.more \in BOOLEAN
        /\ c.begins \in BOOLEAN
    BY <1>1 DEF CaseOf
  <2>4. e \in CaseOf
    BY <2>1, <2>3 DEF CaseOf
  <2> QED  BY <1>1, <2>2, <2>4 DEF back
<1> HIDE DEF d
<1>4. ASSUME remaining = 0
      PROVE  d \in CasesOf(table) /\ n \in LinesOf(table)
  <2>1. IsOrder(table) \in BOOLEAN
    BY DEF IsOrder, hasChild
  <2>2. begins = IsOrder(table)
    BY <1>4, <2>1 DEF begins
  <2> QED  BY <1>3, <2>2 DEF CasesOf, LinesOf
<1>5. ASSUME remaining > 0
      PROVE  d \in LineCases
  <2>1. remaining # 0
    BY <1>5 DEF Typed
  <2>2. begins = FALSE
    BY <2>1 DEF begins
  <2> QED  BY <1>3, <2>2 DEF LineCases
<1> QED  BY <1>3, <1>4, <1>5 DEF d

LEMMA LineCaseExists == \E l \in LineCases : l \in CaseOf
<1> DEFINE l == [first |-> FALSE, new |-> FALSE, more |-> FALSE, begins |-> FALSE,
                 returned |-> FALSE]
<1>1. l \in CaseOf /\ ~l.begins  BY DEF CaseOf
<1> QED  BY <1>1 DEF LineCases
(* The call that ends a row has something to show for it.                  *)
LEMMA RowEnds ==
  ASSUME Typed, table # None, NEW c \in Cases
  PROVE  \A drawn :
           [outcome |-> outcomeWith(c), drawn |-> drawn, wrote |-> wrote (+) Handed(c)]
             # NotEnded
<1>1. CASE IsOrder(table)
  <2>1. outcomeWith(c).lines # 0
    BY <1>1, OutcomeTyped DEF Typed, Outcome
  <2>2. outcomeWith(c) # NoOutcome
    BY <2>1 DEF NoOutcome
  <2> QED  BY <2>2 DEF NotEnded
<1>2. CASE ~IsOrder(table)
  <2>1. ~isChild(table)
    BY <1>2, SourceOf DEF IsOrder, hasChild
  <2>2. table \in DOMAIN Once({table})
    BY DEF Once, Each
  <2>3. table \in DOMAIN Handed(c)
    BY <2>1, <2>2, InUnion DEF Handed
  <2>4. wrote (+) Handed(c) # EmptyBag
    BY <2>3, UnionNotEmpty
  <2> QED  BY <2>4 DEF NotEnded
<1> QED  BY <1>1, <1>2

LEMMA LargeDivided ==
  ASSUME Typed, Large
  PROVE  table \in Divided
BY DEF Typed, Large, Divided, getRowCount

(* What a row has drawn with a line more, and what is left for the rest.   *)
LEMMA LineDrawn ==
  ASSUME Typed, Idle, SeedsAlike, RowsFit, Large, NEW s \in Compared(table), StreamAt(s),
         NEW c \in Cases, NEW n \in IF begins THEN Lines[Source(table)] ELSE {1},
         NEW drawn, NEW left,
         drawn = generateRowAndChildRows(table, [c EXCEPT !.returned = Returns(c)]),
         left = (IF remaining > 0 THEN remaining ELSE n) - 1
  PROVE  LET total == Copies(s, used) + Copies(s, drawn) IN
         /\ Copies(s, used) \in Nat /\ Copies(s, drawn) \in Nat
         /\ total <= Budget[s]
         /\ \A l \in LineCases :
              total + left * Copies(s, generateRowAndChildRows(table, l)) <= Budget[s]
<1> DEFINE d == [c EXCEPT !.returned = Returns(c)]
           u == Copies(s, used)
           x == Draw(table, d, s)
<1>1. table \in Divided /\ table # None
  BY LargeDivided DEF Large
<1>2. /\ d \in CaseOf
      /\ remaining = 0 => d \in CasesOf(table) /\ n \in LinesOf(table)
      /\ remaining > 0 => d \in LineCases
  BY <1>1, CaseDrawn
<1>3. Copies(s, drawn) = x
  BY DEF Draw
<1>4. u \in Nat /\ x \in Nat /\ Budget[s] \in Nat
  BY <1>1, <1>2, RowFits DEF StreamAt
<1>5. \A l \in LineCases : Draw(table, l, s) \in Nat
  BY <1>1, RowFits DEF LineCases
<1>6. ASSUME NEW l \in LineCases
      PROVE  u + x <= Budget[s] /\ (u + x) + left * Draw(table, l, s) <= Budget[s]
  <2> DEFINE y == Draw(table, l, s)
  <2>0. y \in Nat  BY <1>5
  <2>1. CASE remaining > 0
    <3>1. u + remaining * x <= Budget[s] /\ u + remaining * y <= Budget[s]
      BY <1>2, <2>1 DEF StreamAt, Draw
    <3>2. remaining \in Nat \ {0} /\ left = remaining - 1
      BY <2>1 DEF Typed
    <3> HIDE DEF u, x, y
    <3>3. u + x <= Budget[s] /\ (u + x) + left * y <= Budget[s]
      BY <1>4, <2>0, <3>1, <3>2, OneLineLess
    <3> QED  BY <3>3 DEF y
  <2>2. CASE remaining = 0
    <3>1. u = 0
      BY <2>2, CopiesInEmpty DEF Idle
    <3>2. x + (n - 1) * y <= Budget[s]
      BY <1>1, <1>2, <2>2, RowFits
    <3>3. left = n - 1 /\ left \in Nat
      BY <1>1, <2>2, LineLeft
    <3> HIDE DEF u, x, y
    <3>4. left * y \in Nat
      BY <2>0, <3>3
    <3>5. u + x <= Budget[s] /\ (u + x) + left * y <= Budget[s]
      <4>1. left * y = (n - 1) * y
        BY <3>3
      <4>2. x + left * y <= Budget[s]
        BY <3>2, <4>1
      <4> QED  BY <1>4, <3>1, <3>4, <4>2
    <3> QED  BY <3>5 DEF y
  <2> QED  BY <2>1, <2>2 DEF Typed
<1> HIDE DEF u, x
<1>7. u + x <= Budget[s]
  BY <1>6, LineCaseExists
<1> QED  BY <1>3, <1>4, <1>6, <1>7 DEF u, Draw

LEMMA ChunkInit == Init => ChunkInv
<1> SUFFICES ASSUME Init PROVE ChunkInv  OBVIOUS
<1>1. table = None  BY DEF Init
<1> QED
  BY <1>1, LinesInit DEF ChunkInv, RowNumbers, AtChunk, StreamsInStep, Large, AtSeeds

LEMMA ChunkNext ==
  ASSUME CountsAlike, SeedsAlike, RowsFit, ChunkInv, [Next]_vars
  PROVE  ChunkInv'
<1> USE DEF ChunkInv
<1>0. LinesInv' /\ Typed /\ Idle /\ Typed' /\ Idle'
  BY LinesNext DEF LinesInv
<1>1. CASE SkipChild
  <2>1. table' = None
    BY <1>1 DEF SkipChild
  <2> QED  BY <1>0, <2>1 DEF RowNumbers, AtChunk, StreamsInStep, Large, AtSeeds
<1>2. CASE BeginTable
  <2> DEFINE t == tablesToGenerate[place]
  <2>1. CASE table' = None
    BY <1>0, <2>1 DEF RowNumbers, AtChunk, StreamsInStep, Large, AtSeeds
  <2>2. CASE table' # None
    <3>1. /\ table = None /\ place <= Len(tablesToGenerate) /\ table' = t
          /\ rowNumber' = splitWork(t).firstRow /\ endingRowNumber' = splitWork(t).lastRow
          /\ at' = skipRowsUntilStartingRowNumber(t, splitWork(t).firstRow)
          /\ UNCHANGED <<session, remaining, used>>
      BY <1>2, <2>2 DEF BeginTable, rowVars
    <3>2. t \in BaseTable
      BY <1>0, <3>1, TablesToGenerate
    <3> HIDE DEF t
    <3>3. /\ splitWork(t).firstRow \in Nat \ {0}
          /\ ~(getRowCount(t) >= SmallTable) => splitWork(t).firstRow = 1
          /\ splitWork(t).firstRow .. splitWork(t).lastRow =
               Dsdgen!Chunk(Scaling!get_rowcount(Source(t), session.scale),
                            Unsplit(session.parallelism), session.chunk)
      BY <1>0, <3>2, SplitAlike
    <3>4. RowNumbers' /\ AtChunk'
      BY <3>1, <3>3 DEF RowNumbers, AtChunk
    <3>5. remaining' = 0 /\ used' = EmptyBag
      BY <1>0, <3>1 DEF Idle
    <3>6. ASSUME NEW s \in DOMAIN seedsPerRow(t)
          PROVE  Copies(s, at') = (rowNumber' - 1) * seedsPerRow(t)[s]
      BY <3>1, <3>2, <3>3, SkippedTo
    <3>7. AtSeeds'
      <4> SUFFICES ASSUME rowNumber' = 1, NEW s \in DOMAIN seedsPerRow(t)
                   PROVE  Copies(s, at') = 0
        BY <3>1 DEF AtSeeds
      <4>1. Copies(s, at') = (1 - 1) * seedsPerRow(t)[s] /\ seedsPerRow(t)[s] \in Nat
        BY <3>2, <3>6 DEF SeedsAlike
      <4> QED  BY <4>1
    <3>8. StreamsInStep'
      <4> SUFFICES ASSUME Large', NEW s \in Compared(t)
                   PROVE  StreamAt(s)'
        BY <3>1 DEF StreamsInStep
      <4>1. t \in Divided
        BY <1>0, <3>1, <3>2 DEF Large, Divided, getRowCount, Typed
      <4>2. /\ s \in DOMAIN seedsPerRow(t) /\ Budget[s] \in Nat
            /\ seedsPerRow(t)[s] = Budget[s]
        BY <4>1, RowFits
      <4>3. Copies(s, used') = 0
        BY <3>5, CopiesInEmpty
      <4>4. Copies(s, at') = (rowNumber' - 1) * Budget[s] /\ rowNumber' \in Nat \ {0}
        BY <3>1, <3>3, <3>6, <4>2
      <4>5. (rowNumber' - 1) * Budget[s] \in Nat
        BY <4>2, <4>4, RowAfter
      <4> QED  BY <3>5, <4>3, <4>4, <4>5 DEF StreamAt
    <3> QED  BY <1>0, <3>4, <3>7, <3>8
  <2> QED  BY <2>1, <2>2
<1>3. CASE computeNext
  <2> DEFINE order == IF begins THEN Lines[Source(table)] ELSE {1}
  <2>0. /\ table # None /\ UNCHANGED <<session, place, table, endingRowNumber>>
    BY <1>3 DEF computeNext
  <2>1. PICK c, n, left, drawn :
          /\ c \in Cases /\ n \in order
          /\ left = (IF remaining > 0 THEN remaining ELSE n) - 1
          /\ drawn = generateRowAndChildRows(table, [c EXCEPT !.returned = Returns(c)])
          /\ remaining' = left
          /\ IF shouldEndRow(c, left)
             THEN /\ at' = at (+) drawn (+) Remaining(table, used (+) drawn)
                  /\ used' = EmptyBag
                  /\ ended' = [outcome |-> outcomeWith(c), drawn |-> used (+) drawn,
                               wrote |-> wrote (+) Handed(c)]
                  /\ rowNumber' = rowNumber + 1
             ELSE /\ at' = at (+) drawn /\ used' = used (+) drawn
                  /\ ended' = NotEnded /\ rowNumber' = rowNumber
    BY <1>3 DEF computeNext
  <2>2. left \in Nat /\ rowNumber \in Nat \ {0}
    BY <1>0, <2>0, <2>1, LineLeft DEF RowNumbers
  <2>3. RowNumbers'
    BY <2>1, <2>2 DEF RowNumbers
  <2>4. AtSeeds'
    BY <2>1, <2>2 DEF AtSeeds, shouldEndRow
  <2>5. AtChunk'
    <3>1. CASE left # 0
      <4>0. remaining' = left
        BY <2>1
      <4>1. remaining' > 0
        BY <2>2, <3>1, <4>0
      <4>2. used' # EmptyBag
        BY <1>0, <4>1 DEF Idle
      <4> QED  BY <4>2 DEF AtChunk
    <3>2. CASE left = 0
      <4>1. ended' # NotEnded
        BY <1>0, <2>0, <2>1, <3>2, RowEnds DEF shouldEndRow, LinesInv
      <4> QED  BY <4>1 DEF AtChunk
    <3> QED  BY <3>1, <3>2
  <2>6. StreamsInStep'
    <3> SUFFICES ASSUME Large, NEW s \in Compared(table)
                 PROVE  StreamAt(s)'
      BY <2>0 DEF StreamsInStep, Large, getRowCount
    <3> DEFINE u == Copies(s, used)
               x == Copies(s, drawn)
    <3>1. StreamAt(s)
      BY DEF StreamsInStep
    <3>2. /\ u \in Nat /\ x \in Nat /\ u + x <= Budget[s]
          /\ \A l \in LineCases :
               (u + x) + left * Copies(s, generateRowAndChildRows(table, l)) <= Budget[s]
      BY <1>0, <2>1, <3>1, LineDrawn
    <3>3. /\ s \in DOMAIN seedsPerRow(table) /\ Budget[s] \in Nat
          /\ seedsPerRow(table)[s] = Budget[s]
      BY <1>0, LargeDivided, RowFits
    <3>4. Copies(s, at) = (rowNumber - 1) * Budget[s] + u
      BY <3>1 DEF StreamAt
    <3>5. /\ (rowNumber - 1) * Budget[s] \in Nat
          /\ (rowNumber - 1) * Budget[s] + Budget[s] = rowNumber * Budget[s]
      BY <2>2, <3>3, RowAfter
    <3>6. Copies(s, used (+) drawn) = u + x
      BY CopiesInUnion
    <3>7. Copies(s, at (+) drawn) = (rowNumber - 1) * Budget[s] + (u + x)
      BY <3>2, <3>4, <3>5, CopiesInUnion
    <3>8. CASE left # 0
      <4>1. /\ at' = at (+) drawn /\ used' = used (+) drawn /\ rowNumber' = rowNumber
            /\ remaining' = left /\ table' = table
        BY <2>0, <2>1, <3>8 DEF shouldEndRow
      <4> QED  BY <3>2, <3>6, <3>7, <4>1 DEF StreamAt
    <3>9. CASE left = 0
      <4>1. /\ at' = (at (+) drawn) (+) Remaining(table, used (+) drawn)
            /\ used' = EmptyBag /\ rowNumber' = rowNumber + 1 /\ remaining' = 0
        BY <2>1, <3>9 DEF shouldEndRow
      <4>2. Copies(s, Remaining(table, used (+) drawn)) = Budget[s] - (u + x)
        BY <3>2, <3>3, <3>6, RestOfRow
      <4>3. Copies(s, at') = rowNumber * Budget[s]
        <5>1. Copies(s, at') = Copies(s, at (+) drawn)
                               + Copies(s, Remaining(table, used (+) drawn))
          BY <4>1, CopiesInUnion
        <5> HIDE DEF u, x
        <5> QED  BY <3>2, <3>3, <3>5, <3>7, <4>2, <5>1
      <4>4. Copies(s, used') = 0
        BY <4>1, CopiesInEmpty
      <4>5. rowNumber' - 1 = rowNumber /\ rowNumber * Budget[s] \in Nat
        BY <2>2, <3>3, <3>5, <4>1
      <4> QED  BY <4>1, <4>3, <4>4, <4>5 DEF StreamAt
    <3> QED  BY <3>8, <3>9
  <2> QED  BY <1>0, <2>3, <2>4, <2>5, <2>6
<1>4. CASE EndTable
  <2>1. table' = None
    BY <1>4 DEF EndTable
  <2> QED  BY <1>0, <2>1 DEF RowNumbers, AtChunk, StreamsInStep, Large, AtSeeds
<1>5. CASE UNCHANGED vars
  BY <1>0, <1>5
  DEF vars, RowNumbers, AtChunk, StreamsInStep, Large, StreamAt, AtSeeds, getRowCount
<1> QED
  BY <1>1, <1>2, <1>3, <1>4, <1>5 DEF Next, Finished

(* Where the two programs' row counts and seeds agree and rows draw within *)
(* their seeds, a thread builds dsdgen's rows, and a row of a table that   *)
(* can be divided begins with every stream where dsdgen has it - for every *)
(* number of rows, chunks and lines.                                       *)
THEOREM PortBuildsChunk ==
  CountsAlike /\ SeedsAlike /\ RowsFit => (Spec => []ChunkAsDsdgen)
<1> SUFFICES ASSUME CountsAlike, SeedsAlike, RowsFit
             PROVE  Spec => []ChunkAsDsdgen
  OBVIOUS
<1>1. ChunkInv /\ [Next]_vars => ChunkInv'
  BY ChunkNext
<1>2. ChunkInv => ChunkAsDsdgen
  <2> SUFFICES ASSUME ChunkInv PROVE ChunkAsDsdgen  OBVIOUS
  <2>1. ASSUME table # None, remaining = 0, rowNumber <= endingRowNumber,
               getRowCount(table) >= SmallTable \/ rowNumber = 1,
               NEW s \in Shown(table), Budget[s] # 0
        PROVE  Copies(s, at) = (rowNumber - 1) * Budget[s]
    <3>1. s \in Compared(table)
      BY <2>1 DEF Shown, Compared
    <3>2. CASE rowNumber = 1
      <4>1. Copies(s, at) = 0
        BY <2>1, <3>1, <3>2 DEF ChunkInv, AtSeeds, Compared
      <4>2. Budget[s] \in Nat
        BY <2>1, <3>1 DEF ChunkInv, LinesInv, Typed, SeedsAlike
      <4> QED  BY <3>2, <4>1, <4>2
    <3>3. CASE getRowCount(table) >= SmallTable
      <4>1. StreamAt(s) /\ used = EmptyBag
        BY <2>1, <3>1, <3>3 DEF ChunkInv, StreamsInStep, Large, LinesInv, Idle
      <4>2. Copies(s, used) = 0
        BY <4>1, CopiesInEmpty
      <4>3. table \in Divided
        BY <2>1, <3>3, LargeDivided DEF ChunkInv, LinesInv, Large
      <4>4. Budget[s] \in Nat /\ rowNumber \in Nat \ {0}
        BY <2>1, <3>1, <4>3, RowFits DEF ChunkInv, RowNumbers
      <4>5. (rowNumber - 1) * Budget[s] \in Nat
        BY <4>4, RowAfter
      <4> QED  BY <4>1, <4>2, <4>5 DEF StreamAt
    <3> QED  BY <2>1, <3>2, <3>3
  <2> QED  BY <2>1 DEF ChunkInv, AtChunk, ChunkAsDsdgen
<1> QED  BY <1>1, <1>2, ChunkInit, PTL DEF Spec

-----------------------------------------------------------------------------
(***************************************************************************)
(* What a row draws in the two programs.                                   *)
(***************************************************************************)
(* A text takes a number of draws, of the same stream in both programs.    *)
LEMMA TextDraws ==
  ASSUME NEW len \in {20, 50, 60, 99, 100, 200}, NEW c, NEW d, c.more = d.more,
         NEW s, NEW e
  PROVE  /\ Copies(e, Text(s, len, d)) \in Nat
         /\ Copies(e, generateRandomText(s, len, c)) = Copies(e, Text(s, len, d))
<1> DEFINE n == IF d.more THEN TextMost[len] ELSE TextLeast[len]
<1>1. n \in Nat
  BY TextAssumption
<1>2. Text(s, len, d) = Each(n, {s}) /\ generateRandomText(s, len, c) = Each(n, {s})
  BY DEF Text, generateRandomText
<1> HIDE DEF n
<1> QED  BY <1>1, <1>2, CopiesInEach

-----------------------------------------------------------------------------
(* The tables whose rows are drawn at once.                                *)
Simple == DOMAIN getGeneratorColumns \ UNION {{p, ChildOf[p]} : p \in DOMAIN ChildOf}

LEMMA SimpleRowsAlike ==
  ASSUME NEW t \in Simple, NEW c, NEW d, c.new \in BOOLEAN, c.new = d.new, c.more = d.more,
         NEW s, s \notin Constants \/ t = "CALL_CENTER"
  PROVE  /\ Copies(s, generateRowAndChildRows(t, c)) = Copies(s, Draws(CName(t), d))
         /\ Copies(s, Draws(CName(t), d)) \in Nat
<1> USE CopiesInUnion, CopiesInEach, TextDraws
    DEF Nulls, createNullBitMap, Once, Twice, Join, generateJoinKey, generateScdJoinKey,
        Address, makeAddressForColumn, Charset, generateRandomCharset
<1>1. Simple = {"CALL_CENTER", "CATALOG_PAGE", "CUSTOMER", "CUSTOMER_ADDRESS",
        "CUSTOMER_DEMOGRAPHICS", "DATE_DIM", "DBGEN_VERSION", "HOUSEHOLD_DEMOGRAPHICS",
        "INCOME_BAND", "INVENTORY", "ITEM", "PROMOTION", "REASON", "SHIP_MODE", "STORE",
        "TIME_DIM", "WAREHOUSE", "WEB_PAGE", "WEB_SITE"}
  BY DEF Simple, ChildOf, getGeneratorColumns
<1>2. CASE t \in {"DATE_DIM", "TIME_DIM", "CUSTOMER_DEMOGRAPHICS", "HOUSEHOLD_DEMOGRAPHICS",
                  "INCOME_BAND", "REASON", "DBGEN_VERSION"}
  <2>1. \A n : Copies(s, createNullBitMap(n)) = Copies(s, Nulls(n)) /\ Copies(s, Nulls(n)) \in Nat
    OBVIOUS
  <2>2. CASE t = "DBGEN_VERSION"
    <3>1. generateRowAndChildRows(t, c) = EmptyBag /\ Draws(CName(t), d) = EmptyBag
      BY <2>2 DEF CName, generateRowAndChildRows, Draws, DbgenVersionRowGenerator
    <3> QED  BY <3>1, CopiesInEmpty
  <2>3. CASE t # "DBGEN_VERSION"
    <3>1. \E n : generateRowAndChildRows(t, c) = createNullBitMap(n)
               /\ Draws(CName(t), d) = Nulls(n)
      BY <1>2, <2>3 DEF CName, generateRowAndChildRows, Draws,
        DateDimRowGenerator, Date, TimeDimRowGenerator, Time,
        CustomerDemographicsRowGenerator, CustomerDemographics,
        HouseholdDemographicsRowGenerator, HouseholdDemographics,
        IncomeBandRowGenerator, IncomeBand, ReasonRowGenerator, Reason
    <3> QED  BY <2>1, <3>1
  <2> QED  BY <2>2, <2>3
<1>3. CASE t = "CALL_CENTER"
  <2>1. Copies(s, CallCenterRowGenerator(c)) = Copies(s, CallCenter(d))
    BY CopiesInIf DEF CallCenterRowGenerator, CallCenter, Names
  <2>2. Copies(s, CallCenter(d)) \in Nat
    <3>1. CASE c.new
      BY <3>1 DEF If, CallCenter, Names
    <3>2. CASE ~c.new
      BY <3>2, CopiesInEmpty DEF If, CallCenter, Names
    <3> QED  BY <3>1, <3>2
  <2> QED  BY <1>3, <2>1, <2>2 DEF CName, generateRowAndChildRows, Draws
<1>4. CASE t = "CATALOG_PAGE"
  <2>1. /\ Copies(s, CatalogPageRowGenerator(c)) = Copies(s, CatalogPage(d))
        /\ Copies(s, CatalogPage(d)) \in Nat
    BY DEF CatalogPageRowGenerator, CatalogPage
  <2> QED  BY <1>4, <2>1 DEF CName, generateRowAndChildRows, Draws
<1>5. CASE t = "CUSTOMER"
  <2>1. /\ Copies(s, CustomerRowGenerator(c)) = Copies(s, Customer(d))
        /\ Copies(s, Customer(d)) \in Nat
    BY DEF CustomerRowGenerator, Customer, Email, generateRandomEmail
  <2> QED  BY <1>5, <2>1 DEF CName, generateRowAndChildRows, Draws
<1>6. CASE t = "CUSTOMER_ADDRESS"
  <2>1. /\ Copies(s, CustomerAddressRowGenerator(c)) = Copies(s, CustomerAddress(d))
        /\ Copies(s, CustomerAddress(d)) \in Nat
    BY DEF CustomerAddressRowGenerator, CustomerAddress
  <2> QED  BY <1>6, <2>1 DEF CName, generateRowAndChildRows, Draws
<1>7. CASE t = "INVENTORY"
  <2>1. /\ Copies(s, InventoryRowGenerator(c)) = Copies(s, Inventory(d))
        /\ Copies(s, Inventory(d)) \in Nat
    BY DEF InventoryRowGenerator, Inventory
  <2> QED  BY <1>7, <2>1 DEF CName, generateRowAndChildRows, Draws
<1>8. CASE t = "ITEM"
  <2>1. Copies(s, ItemRowGenerator(c)) = Copies(s, Item(d))
    BY <1>8 DEF ItemRowGenerator, Item, Constants
  <2>2. Copies(s, Item(d)) \in Nat
    BY SMTT(60) DEF Item
  <2> QED  BY <1>8, <2>1, <2>2 DEF CName, generateRowAndChildRows, Draws
<1>9. CASE t = "PROMOTION"
  <2>1. /\ Copies(s, PromotionRowGenerator(c)) = Copies(s, Promotion(d))
        /\ Copies(s, Promotion(d)) \in Nat
    BY <1>9 DEF PromotionRowGenerator, Promotion, Constants
  <2> QED  BY <1>9, <2>1 DEF CName, generateRowAndChildRows, Draws
<1>10. CASE t = "SHIP_MODE"
  <2>1. /\ Copies(s, ShipModeRowGenerator(c)) = Copies(s, ShipMode(d))
        /\ Copies(s, ShipMode(d)) \in Nat
    BY DEF ShipModeRowGenerator, ShipMode
  <2> QED  BY <1>10, <2>1 DEF CName, generateRowAndChildRows, Draws
<1>11. CASE t = "STORE"
  <2>1. /\ Copies(s, StoreRowGenerator(c)) = Copies(s, Store(d))
        /\ Copies(s, Store(d)) \in Nat
    BY <1>11 DEF StoreRowGenerator, Store, Constants, Names
  <2> QED  BY <1>11, <2>1 DEF CName, generateRowAndChildRows, Draws
<1>12. CASE t = "WAREHOUSE"
  <2>1. /\ Copies(s, WarehouseRowGenerator(c)) = Copies(s, Warehouse(d))
        /\ Copies(s, Warehouse(d)) \in Nat
    BY DEF WarehouseRowGenerator, Warehouse
  <2> QED  BY <1>12, <2>1 DEF CName, generateRowAndChildRows, Draws
<1>13. CASE t = "WEB_PAGE"
  <2>1. Copies(s, generateWebJoinKey("WP_CREATION_DATE_SK"))
          = Copies(s, WebDateJoin({"WP_CREATION_DATE_SK"}) (+) Once({"WP_CREATION_DATE_SK"}))
    BY DEF generateWebJoinKey, WebDateJoin, If
  <2>2. /\ Copies(s, WebPageRowGenerator(c)) = Copies(s, WebPage(d))
        /\ Copies(s, WebPage(d)) \in Nat
    BY <2>1 DEF WebPageRowGenerator, WebPage, WebDateJoin
  <2> QED  BY <1>13, <2>2 DEF CName, generateRowAndChildRows, Draws
<1>14. CASE t = "WEB_SITE"
  <2>1. /\ Copies(s, generateWebJoinKey("WEB_OPEN_DATE")) = IF s = "WEB_OPEN_DATE" THEN 1 ELSE 0
        /\ Copies(s, generateWebJoinKey("WEB_CLOSE_DATE")) = IF s = "WEB_CLOSE_DATE" THEN 1 ELSE 0
    BY CopiesInEmpty DEF generateWebJoinKey, If
  <2>2. /\ Copies(s, WebSiteRowGenerator(c)) = Copies(s, WebSite(d))
        /\ Copies(s, WebSite(d)) \in Nat
    <3>1. CASE c.new
      BY <2>1, <3>1 DEF If, WebSiteRowGenerator, WebSite, WebDateJoin, Names
    <3>2. CASE ~c.new
      BY <3>2, CopiesInEmpty DEF If, WebSiteRowGenerator, WebSite, WebDateJoin, Names
    <3> QED  BY <3>1, <3>2
  <2> QED  BY <1>14, <2>2 DEF CName, generateRowAndChildRows, Draws
<1> QED
  BY <1>1, <1>2, <1>3, <1>4, <1>5, <1>6, <1>7, <1>8, <1>9, <1>10, <1>11, <1>12, <1>13, <1>14

-----------------------------------------------------------------------------
(* The parts of an order of a sales table, as dsdgen draws them.           *)
ShuffleOf(p) ==
  Each(Ids, {CASE p = "STORE_SALES"   -> "SS_PERMUTATION"
               [] p = "CATALOG_SALES" -> "CS_PERMUTE"
               [] p = "WEB_SALES"     -> "WS_PERMUTATION"})
OrderOf(p, c) ==
  CASE p = "STORE_SALES"   -> StoreSale
    [] p = "CATALOG_SALES" -> CatalogSale(c)
    [] p = "WEB_SALES"     -> WebSale(c)
LineOf(p) ==
  CASE p = "STORE_SALES"   -> StoreSaleLine
    [] p = "CATALOG_SALES" -> CatalogSaleLine
    [] p = "WEB_SALES"     -> WebSaleLine
ReturnOf(p) ==
  CASE p = "STORE_SALES"   -> StoreReturn
    [] p = "CATALOG_SALES" -> CatalogReturn
    [] p = "WEB_SALES"     -> WebReturn

LEMMA PartsTyped ==
  ASSUME NEW p \in DOMAIN ChildOf, NEW c, c.more \in BOOLEAN, NEW s
  PROVE  /\ Copies(s, ShuffleOf(p)) \in Nat /\ Copies(s, OrderOf(p, c)) \in Nat
         /\ Copies(s, LineOf(p)) \in Nat /\ Copies(s, ReturnOf(p)) \in Nat
<1> USE CopiesInUnion, CopiesInEach
    DEF Nulls, Once, Twice, Join, DateJoin, TimeJoin, CatalogPageJoin, SalePricing,
      ReturnPricing
<1>1. Copies(s, ShuffleOf(p)) \in Nat
  BY IdsAssumption DEF ShuffleOf
<1>2. CASE p = "STORE_SALES"
  BY <1>1, <1>2 DEF OrderOf, LineOf, ReturnOf, StoreSale, StoreSaleLine, StoreReturn
<1>3. CASE p = "CATALOG_SALES"
  <2>1. Copies(s, LineOf(p)) \in Nat /\ Copies(s, ReturnOf(p)) \in Nat
    BY <1>3 DEF LineOf, ReturnOf, CatalogSaleLine, CatalogReturn
  <2>2. Copies(s, OrderOf(p, c)) \in Nat
    BY <1>3, CopiesInIf DEF OrderOf, CatalogSale
  <2> QED  BY <1>1, <2>1, <2>2
<1>4. CASE p = "WEB_SALES"
  <2>1. Copies(s, LineOf(p)) \in Nat /\ Copies(s, ReturnOf(p)) \in Nat
    BY <1>4 DEF LineOf, ReturnOf, WebSaleLine, WebReturn
  <2>2. Copies(s, OrderOf(p, c)) \in Nat
    BY <1>4, CopiesInIf DEF OrderOf, WebSale
  <2> QED  BY <1>1, <2>1, <2>2
<1> QED  BY <1>2, <1>3, <1>4, ParentsAndChildren

(* What dsdgen draws for an order.                                         *)
LEMMA OrderTotals ==
  ASSUME NEW p \in DOMAIN ChildOf, NEW o, o.first \in BOOLEAN, o.more \in BOOLEAN,
         o.lines \in Nat, o.returned \in Nat, NEW s
  PROVE  Copies(s, Draws(CName(p), o)) =
           (IF o.first THEN Copies(s, ShuffleOf(p)) ELSE 0) + Copies(s, OrderOf(p, o))
           + o.lines * Copies(s, LineOf(p)) + o.returned * Copies(s, ReturnOf(p))
<1>1. /\ Copies(s, ShuffleOf(p)) \in Nat /\ Copies(s, OrderOf(p, o)) \in Nat
      /\ Copies(s, LineOf(p)) \in Nat /\ Copies(s, ReturnOf(p)) \in Nat
  BY PartsTyped
<1>2. Draws(CName(p), o) =
        If(o.first, ShuffleOf(p)) (+) OrderOf(p, o)
        (+) Times(o.lines, LineOf(p)) (+) Times(o.returned, ReturnOf(p))
  <2>1. CASE p = "STORE_SALES"
    BY <2>1 DEF CName, Draws, StoreSales, Shuffle, ShuffleOf, OrderOf, LineOf, ReturnOf
  <2>2. CASE p = "CATALOG_SALES"
    BY <2>2 DEF CName, Draws, CatalogSales, Shuffle, ShuffleOf, OrderOf, LineOf, ReturnOf
  <2>3. CASE p = "WEB_SALES"
    BY <2>3 DEF CName, Draws, WebSales, Shuffle, ShuffleOf, OrderOf, LineOf, ReturnOf
  <2> QED  BY <2>1, <2>2, <2>3, ParentsAndChildren
<1>3. Copies(s, Draws(CName(p), o)) =
        Copies(s, If(o.first, ShuffleOf(p))) + Copies(s, OrderOf(p, o))
        + Copies(s, Times(o.lines, LineOf(p))) + Copies(s, Times(o.returned, ReturnOf(p)))
  BY <1>2, CopiesInUnion
<1>4. /\ Copies(s, If(o.first, ShuffleOf(p))) = IF o.first THEN Copies(s, ShuffleOf(p)) ELSE 0
      /\ Copies(s, Times(o.lines, LineOf(p))) = o.lines * Copies(s, LineOf(p))
      /\ Copies(s, Times(o.returned, ReturnOf(p))) = o.returned * Copies(s, ReturnOf(p))
  BY <1>1, CopiesInIf, CopiesInTimes
<1> QED  BY <1>3, <1>4

(* What the port draws for a line.                                         *)
LEMMA LineTotals ==
  ASSUME NEW p \in DOMAIN ChildOf, NEW t \in {p, ChildOf[p]}, NEW c,
         c.first \in BOOLEAN, c.more \in BOOLEAN, c.begins \in BOOLEAN,
         c.returned \in BOOLEAN, NEW o, o.more = c.more, NEW s
  PROVE  Copies(s, generateRowAndChildRows(t, c)) =
           (IF c.first THEN Copies(s, ShuffleOf(p)) ELSE 0)
           + (IF c.begins THEN Copies(s, OrderOf(p, o)) ELSE 0)
           + Copies(s, LineOf(p)) + (IF c.returned THEN Copies(s, ReturnOf(p)) ELSE 0)
<1>1. CASE p = "STORE_SALES"
  <2>1. Copies(s, StoreReturnsRow) = Copies(s, StoreReturn)
    BY CopiesInUnion, CopiesInEach
    DEF StoreReturnsRow, StoreReturn, Nulls, createNullBitMap, Once, Twice, Join,
      DateJoin, generateJoinKey, generateScdJoinKey, generateDateJoinKey, ReturnPricing,
      generatePricingForReturnsTable
  <2>2. Copies(s, StoreOrderInfo (+) Once({"SS_TICKET_NUMBER", "SS_SOLD_ITEM_SK"}))
          = Copies(s, StoreSale)
    BY CopiesInUnion, CopiesInEach
    DEF StoreOrderInfo, StoreSale, Once, Twice, Join, DateJoin, TimeJoin,
      generateJoinKey, generateScdJoinKey, generateDateJoinKey, generateTimeJoinKey
  <2>3. Copies(s, createNullBitMap("SS_NULLS") (+) generateJoinKey({"SS_SOLD_PROMO_SK"})
                  (+) generatePricingForSalesTable("SS_PRICING") (+) Once({"SR_IS_RETURNED"}))
          = Copies(s, StoreSaleLine)
    BY CopiesInUnion, CopiesInEach
    DEF StoreSaleLine, Nulls, createNullBitMap, Once, Twice, Join, generateJoinKey,
      SalePricing, generatePricingForSalesTable
  <2>4. /\ ShuffleOf(p) = makePermutation("SS_PERMUTATION") /\ OrderOf(p, o) = StoreSale
        /\ LineOf(p) = StoreSaleLine /\ ReturnOf(p) = StoreReturn
    BY <1>1 DEF makePermutation, ShuffleOf, OrderOf, LineOf, ReturnOf
  <2>5. /\ Copies(s, createNullBitMap("SS_NULLS")) \in Nat
        /\ Copies(s, generateJoinKey({"SS_SOLD_PROMO_SK"})) \in Nat
        /\ Copies(s, generatePricingForSalesTable("SS_PRICING")) \in Nat
        /\ Copies(s, Once({"SR_IS_RETURNED"})) \in Nat
    BY CopiesInEach DEF Once, createNullBitMap, Twice, generateJoinKey,
      generatePricingForSalesTable
  <2>6. /\ Copies(s, ShuffleOf(p)) \in Nat /\ Copies(s, OrderOf(p, o)) \in Nat
        /\ Copies(s, LineOf(p)) \in Nat /\ Copies(s, ReturnOf(p)) \in Nat
    BY PartsTyped
  <2>7. Copies(s, StoreSalesRowGenerator(c)) =
          (IF c.first THEN Copies(s, ShuffleOf(p)) ELSE 0)
          + (IF c.begins THEN Copies(s, OrderOf(p, o)) ELSE 0)
          + Copies(s, LineOf(p)) + (IF c.returned THEN Copies(s, ReturnOf(p)) ELSE 0)
    BY <2>1, <2>2, <2>3, <2>4, <2>5, <2>6, CopiesInUnion, CopiesInIf
    DEF StoreSalesRowGenerator
  <2>8. generateRowAndChildRows(t, c) = StoreSalesRowGenerator(c)
    BY <1>1, ParentsAndChildren DEF generateRowAndChildRows
  <2> QED  BY <2>7, <2>8
<1>2. CASE p = "CATALOG_SALES"
  <2>1. Copies(s, CatalogReturnsRow) = Copies(s, CatalogReturn)
    BY CopiesInUnion, CopiesInEach
    DEF CatalogReturnsRow, CatalogReturn, Nulls, createNullBitMap, Once, Twice, Join,
      DateJoin, TimeJoin, generateJoinKey, generateDateJoinKey, generateTimeJoinKey,
      ReturnPricing, generatePricingForReturnsTable
  <2>2. Copies(s, CatalogOrderInfo(c) (+) Once({"CS_SOLD_ITEM_SK", "CS_ORDER_NUMBER"}))
          = Copies(s, CatalogSale(o))
    BY CopiesInUnion, CopiesInEach, CopiesInIf
    DEF CatalogOrderInfo, CatalogSale, Once, Twice, Join, TimeJoin,
      generateJoinKey, generateScdJoinKey, generateTimeJoinKey
  <2>3. Copies(s, createNullBitMap("CS_NULLS") (+) Once({"CS_SHIP_DATE_SK", "CR_IS_RETURNED"})
                  (+) generateCatalogPageJoinKey("CS_CATALOG_PAGE_SK")
                  (+) generateJoinKey({"CS_SHIP_MODE_SK", "CS_WAREHOUSE_SK", "CS_PROMO_SK"})
                  (+) generatePricingForSalesTable("CS_PRICING"))
          = Copies(s, CatalogSaleLine)
    BY CopiesInUnion, CopiesInEach
    DEF CatalogSaleLine, Nulls, createNullBitMap, Once, Twice, Join, generateJoinKey,
      CatalogPageJoin, generateCatalogPageJoinKey, SalePricing, generatePricingForSalesTable
  <2>4. /\ ShuffleOf(p) = makePermutation("CS_PERMUTE") /\ OrderOf(p, o) = CatalogSale(o)
        /\ LineOf(p) = CatalogSaleLine /\ ReturnOf(p) = CatalogReturn
    BY <1>2 DEF makePermutation, ShuffleOf, OrderOf, LineOf, ReturnOf
  <2>5. /\ Copies(s, createNullBitMap("CS_NULLS")) \in Nat
        /\ Copies(s, Once({"CS_SHIP_DATE_SK", "CR_IS_RETURNED"})) \in Nat
        /\ Copies(s, generateCatalogPageJoinKey("CS_CATALOG_PAGE_SK")) \in Nat
        /\ Copies(s, generateJoinKey({"CS_SHIP_MODE_SK", "CS_WAREHOUSE_SK", "CS_PROMO_SK"}))
              \in Nat
        /\ Copies(s, generatePricingForSalesTable("CS_PRICING")) \in Nat
    BY CopiesInEach DEF Once, createNullBitMap, Twice, generateJoinKey,
      generatePricingForSalesTable, generateCatalogPageJoinKey
  <2>6. /\ Copies(s, ShuffleOf(p)) \in Nat /\ Copies(s, OrderOf(p, o)) \in Nat
        /\ Copies(s, LineOf(p)) \in Nat /\ Copies(s, ReturnOf(p)) \in Nat
    BY PartsTyped
  <2>7. Copies(s, CatalogSalesRowGenerator(c)) =
          (IF c.first THEN Copies(s, ShuffleOf(p)) ELSE 0)
          + (IF c.begins THEN Copies(s, OrderOf(p, o)) ELSE 0)
          + Copies(s, LineOf(p)) + (IF c.returned THEN Copies(s, ReturnOf(p)) ELSE 0)
    BY <2>1, <2>2, <2>3, <2>4, <2>5, <2>6, CopiesInUnion, CopiesInIf
    DEF CatalogSalesRowGenerator
  <2>8. generateRowAndChildRows(t, c) = CatalogSalesRowGenerator(c)
    BY <1>2, ParentsAndChildren DEF generateRowAndChildRows
  <2> QED  BY <2>7, <2>8
<1>3. CASE p = "WEB_SALES"
  <2>1. Copies(s, WebReturnsRow) = Copies(s, WebReturn)
    BY CopiesInUnion, CopiesInEach
    DEF WebReturnsRow, WebReturn, Nulls, createNullBitMap, Once, Twice, Join,
      DateJoin, TimeJoin, generateJoinKey, generateDateJoinKey, generateTimeJoinKey,
      ReturnPricing, generatePricingForReturnsTable
  <2>2. Copies(s, WebOrderInfo(c) (+) Once({"WS_ITEM_SK", "WS_ORDER_NUMBER"}))
          = Copies(s, WebSale(o))
    BY CopiesInUnion, CopiesInEach, CopiesInIf
    DEF WebOrderInfo, WebSale, Once, Twice, Join, DateJoin, TimeJoin,
      generateJoinKey, generateDateJoinKey, generateTimeJoinKey
  <2>3. Copies(s, createNullBitMap("WS_NULLS") (+) Once({"WS_SHIP_DATE_SK", "WR_IS_RETURNED"})
                  (+) generateScdJoinKey({"WS_WEB_PAGE_SK", "WS_WEB_SITE_SK"})
                  (+) generateJoinKey({"WS_SHIP_MODE_SK", "WS_WAREHOUSE_SK", "WS_PROMO_SK"})
                  (+) generatePricingForSalesTable("WS_PRICING"))
          = Copies(s, WebSaleLine)
    BY CopiesInUnion, CopiesInEach
    DEF WebSaleLine, Nulls, createNullBitMap, Once, Twice, Join, generateJoinKey,
      generateScdJoinKey, SalePricing, generatePricingForSalesTable
  <2>4. /\ ShuffleOf(p) = makePermutation("WS_PERMUTATION") /\ OrderOf(p, o) = WebSale(o)
        /\ LineOf(p) = WebSaleLine /\ ReturnOf(p) = WebReturn
    BY <1>3 DEF makePermutation, ShuffleOf, OrderOf, LineOf, ReturnOf
  <2>5. /\ Copies(s, createNullBitMap("WS_NULLS")) \in Nat
        /\ Copies(s, Once({"WS_SHIP_DATE_SK", "WR_IS_RETURNED"})) \in Nat
        /\ Copies(s, generateScdJoinKey({"WS_WEB_PAGE_SK", "WS_WEB_SITE_SK"})) \in Nat
        /\ Copies(s, generateJoinKey({"WS_SHIP_MODE_SK", "WS_WAREHOUSE_SK", "WS_PROMO_SK"}))
              \in Nat
        /\ Copies(s, generatePricingForSalesTable("WS_PRICING")) \in Nat
    BY CopiesInEach DEF Once, createNullBitMap, Twice, generateJoinKey, generateScdJoinKey,
      generatePricingForSalesTable
  <2>6. /\ Copies(s, ShuffleOf(p)) \in Nat /\ Copies(s, OrderOf(p, o)) \in Nat
        /\ Copies(s, LineOf(p)) \in Nat /\ Copies(s, ReturnOf(p)) \in Nat
    BY PartsTyped
  <2>7. Copies(s, WebSalesRowGenerator(c)) =
          (IF c.first THEN Copies(s, ShuffleOf(p)) ELSE 0)
          + (IF c.begins THEN Copies(s, OrderOf(p, o)) ELSE 0)
          + Copies(s, LineOf(p)) + (IF c.returned THEN Copies(s, ReturnOf(p)) ELSE 0)
    BY <2>1, <2>2, <2>3, <2>4, <2>5, <2>6, CopiesInUnion, CopiesInIf
    DEF WebSalesRowGenerator
  <2>8. generateRowAndChildRows(t, c) = WebSalesRowGenerator(c)
    BY <1>3, ParentsAndChildren DEF generateRowAndChildRows
  <2> QED  BY <2>7, <2>8
<1> QED  BY <1>1, <1>2, <1>3, ParentsAndChildren

(* A return draws from the columns of the returns table alone.             *)
LEMMA ReturnsColumns ==
  ASSUME NEW p \in DOMAIN ChildOf, NEW s, s \notin DOMAIN getGeneratorColumns[ChildOf[p]]
  PROVE  Copies(s, ReturnOf(p)) = 0
<1> USE CopiesInUnion, CopiesInEach
    DEF Nulls, Once, Twice, Join, DateJoin, TimeJoin, ReturnPricing
<1>1. CASE p = "STORE_SALES"
  BY <1>1, ParentsAndChildren DEF ReturnOf, StoreReturn, getGeneratorColumns,
    StoreReturnsGeneratorColumn
<1>2. CASE p = "CATALOG_SALES"
  BY <1>2, ParentsAndChildren DEF ReturnOf, CatalogReturn, getGeneratorColumns,
    CatalogReturnsGeneratorColumn
<1>3. CASE p = "WEB_SALES"
  BY <1>3, ParentsAndChildren DEF ReturnOf, WebReturn, getGeneratorColumns,
    WebReturnsGeneratorColumn
<1> QED  BY <1>1, <1>2, <1>3, ParentsAndChildren

-----------------------------------------------------------------------------
(***************************************************************************)
(* Within an order: the permutation is drawn, and the lines so far have    *)
(* drawn what dsdgen draws for an order of as many lines and returns.      *)
(***************************************************************************)
Agrees(drawn, o) ==
  \A s \in Shown(table) : Copies(s, drawn) = Copies(s, Draws(CName(Source(table)), o))
DrawsSoFar == remaining > 0 => permuted /\ Agrees(used, outcome)
DrawsInv == LinesInv /\ DrawsSoFar /\ DrawsAsDsdgen

LEMMA OutcomeOf ==
  ASSUME Typed, NEW c \in Cases
  PROVE  /\ remaining = 0 => outcomeWith(c).first = c.first /\ outcomeWith(c).new = c.new
         /\ remaining > 0 => outcomeWith(c).first = outcome.first
         /\ outcomeWith(c).more = c.more
         /\ c.first = ~permuted
         /\ remaining > 0 => c.more = outcome.more
         /\ ~IsOrder(table) => c.returned = FALSE
<1> DEFINE Mores == IF remaining > 0 THEN {outcome.more} ELSE BOOLEAN
           Backs == IF IsOrder(table) THEN BOOLEAN ELSE {FALSE}
           case(new, more, back) ==
             [first |-> ~permuted, new |-> new, more |-> more, begins |-> begins,
              returned |-> back]
<1>1. PICK new \in {IsNew}, more \in Mores, back \in Backs : c = case(new, more, back)
  <2>1. Cases = {case(new, more, back) : new \in {IsNew}, more \in Mores, back \in Backs}
    BY DEF Cases
  <2> HIDE DEF case, Mores, Backs
  <2> QED  BY <2>1
<1>2. /\ c.first = ~permuted
      /\ remaining > 0 => c.more = outcome.more
      /\ ~IsOrder(table) => c.returned = FALSE
  BY <1>1
<1> DEFINE so_far == IF remaining > 0 THEN outcome
                     ELSE [first |-> c.first, new |-> c.new, more |-> c.more,
                           lines |-> 0, returned |-> 0]
           line == IF IsOrder(table) THEN 1 ELSE 0
           count == IF c.returned THEN 1 ELSE 0
<1>3. so_far \in Outcome
  BY CasesTyped DEF Outcome, Typed, CaseOf
<1>4. outcomeWith(c) = [so_far EXCEPT !.lines = @ + line, !.returned = @ + count]
  BY DEF outcomeWith
<1>5. /\ remaining = 0 => so_far.first = c.first /\ so_far.new = c.new
      /\ remaining > 0 => so_far.first = outcome.first
      /\ so_far.more = c.more
  BY <1>2
<1> HIDE DEF so_far, line, count
<1>6. /\ outcomeWith(c).first = so_far.first /\ outcomeWith(c).new = so_far.new
      /\ outcomeWith(c).more = so_far.more
  BY <1>3, <1>4 DEF Outcome
<1> QED  BY <1>2, <1>5, <1>6

(* A line draws what it adds to dsdgen's order.                            *)
LEMMA LineAgrees ==
  ASSUME DrawsInv, IsOrder(table), NEW c \in Cases
  PROVE  Agrees(used (+) generateRowAndChildRows(table, [c EXCEPT !.returned = Returns(c)]),
                outcomeWith(c))
<1> DEFINE p == Source(table)
           o == outcomeWith(c)
           d == [c EXCEPT !.returned = Returns(c)]
<1> SUFFICES ASSUME NEW s \in Shown(table)
             PROVE  Copies(s, used (+) generateRowAndChildRows(table, d))
                      = Copies(s, Draws(CName(p), o))
  BY DEF Agrees
<1> DEFINE Sh == Copies(s, ShuffleOf(p))
           Or(x) == Copies(s, OrderOf(p, x))
           Li == Copies(s, LineOf(p))
           Re == Copies(s, ReturnOf(p))
<1>1. p \in DOMAIN ChildOf /\ table \in {p, ChildOf[p]}
  BY SourceOf
<1>2. /\ c \in CaseOf /\ c.begins = (remaining = 0)
      /\ c.first \in BOOLEAN /\ c.more \in BOOLEAN /\ c.begins \in BOOLEAN
      /\ c.returned \in BOOLEAN /\ Typed
  BY CasesTyped DEF CaseOf, DrawsInv, LinesInv, begins
<1>3. o \in Outcome
  BY <1>2, OutcomeTyped
<1>4. /\ d.first = c.first /\ d.more = c.more /\ d.begins = c.begins
      /\ d.returned = (c.returned /\ session.only # p)
  BY <1>2 DEF CaseOf, Returns
<1>5. /\ Sh \in Nat /\ Or(o) \in Nat /\ Li \in Nat /\ Re \in Nat
  BY <1>1, <1>3, PartsTyped DEF Outcome
<1>6. Copies(s, generateRowAndChildRows(table, d)) =
        (IF c.first THEN Sh ELSE 0) + (IF c.begins THEN Or(o) ELSE 0)
        + Li + (IF c.returned THEN Re ELSE 0)
  <2>1. o.more = d.more
    BY <1>2, <1>4, OutcomeOf
  <2>2. /\ d.first \in BOOLEAN /\ d.more \in BOOLEAN /\ d.begins \in BOOLEAN
        /\ d.returned \in BOOLEAN
    BY <1>2, <1>4
  <2>3. Copies(s, generateRowAndChildRows(table, d)) =
          (IF d.first THEN Sh ELSE 0) + (IF d.begins THEN Or(o) ELSE 0)
          + Li + (IF d.returned THEN Re ELSE 0)
    <3> HIDE DEF p, o, d
    <3> QED  BY <1>1, <2>1, <2>2, LineTotals
  <2>4. session.only = p => Re = 0
    BY <1>1, ReturnsColumns DEF Shown
  <2> HIDE DEF Sh, Or, Li, Re, o, d, p
  <2> QED  BY <1>2, <1>4, <2>3, <2>4
<1>7. Copies(s, Draws(CName(p), o)) =
        (IF o.first THEN Sh ELSE 0) + Or(o) + o.lines * Li + o.returned * Re
  <2> HIDE DEF p, o
  <2> QED  BY <1>1, <1>3, OrderTotals DEF Outcome
<1>8. Copies(s, used (+) generateRowAndChildRows(table, d)) =
        Copies(s, used) + Copies(s, generateRowAndChildRows(table, d))
  BY CopiesInUnion
<1>9. CASE remaining = 0
  <2>1. Copies(s, used) = 0
    BY <1>9, CopiesInEmpty DEF DrawsInv, LinesInv, Idle
  <2>2. /\ o.first = c.first /\ o.lines = 1 /\ o.returned = IF c.returned THEN 1 ELSE 0
        /\ c.begins
    <3>1. o.first = c.first
      BY <1>2, <1>9, OutcomeOf
    <3>2. /\ o.lines = (IF remaining > 0 THEN outcome.lines ELSE 0)
                       + IF IsOrder(table) THEN 1 ELSE 0
          /\ o.returned = (IF remaining > 0 THEN outcome.returned ELSE 0)
                          + IF c.returned THEN 1 ELSE 0
      BY <1>2, OutcomeTyped
    <3> HIDE DEF o
    <3>3. o.lines = 1
      BY <1>9, <3>2
    <3>4. o.returned = IF c.returned THEN 1 ELSE 0
      BY <1>2, <1>9, <3>2
    <3>5. c.begins
      BY <1>2, <1>9, Zenon
    <3> QED  BY <3>1, <3>3, <3>4, <3>5, Zenon
  <2> HIDE DEF Sh, Or, Li, Re, o, d, p
  <2>3. o.lines * Li = Li /\ o.returned * Re = IF c.returned THEN Re ELSE 0
    <3>1. o.lines * Li = Li  BY <1>5, <2>2
    <3>2. CASE c.returned
      BY <1>5, <2>2, <3>1, <3>2
    <3>3. CASE ~c.returned
      BY <1>5, <2>2, <3>1, <3>3
    <3> QED  BY <3>2, <3>3
  <2> QED  BY <1>2, <1>5, <1>6, <1>7, <1>8, <2>1, <2>2, <2>3
<1>10. CASE remaining > 0
  <2>1. permuted /\ Copies(s, used) = Copies(s, Draws(CName(p), outcome))
    BY <1>10 DEF DrawsInv, DrawsSoFar, Agrees
  <2>2. outcome \in Outcome
    BY <1>2 DEF Typed
  <2>3. /\ o.first = outcome.first /\ o.lines = outcome.lines + 1
        /\ o.returned = outcome.returned + IF c.returned THEN 1 ELSE 0
        /\ ~c.first /\ ~c.begins /\ o.more = outcome.more
    BY <1>2, <1>10, <2>1, OutcomeOf, OutcomeTyped
  <2>4. Or(o) = Or(outcome)
    <3>1. OrderOf(p, o) = OrderOf(p, outcome)
      <4> HIDE DEF o, p
      <4> QED  BY <2>3 DEF OrderOf, CatalogSale, WebSale
    <3> QED  BY <3>1
  <2>5. Copies(s, Draws(CName(p), outcome)) =
          (IF outcome.first THEN Sh ELSE 0) + Or(outcome) + outcome.lines * Li
          + outcome.returned * Re
    <3> HIDE DEF p, o
    <3> QED  BY <1>1, <2>2, OrderTotals DEF Outcome
  <2>6. outcome.lines \in Nat /\ outcome.returned \in Nat
    BY <2>2 DEF Outcome
  <2> HIDE DEF Sh, Or, Li, Re, o, d, p
  <2>7. /\ (outcome.lines + 1) * Li = outcome.lines * Li + Li
        /\ (outcome.returned + 1) * Re = outcome.returned * Re + Re
        /\ outcome.lines * Li \in Nat /\ outcome.returned * Re \in Nat
    BY <1>5, <2>6
  <2>8. o.lines * Li = outcome.lines * Li + Li
    BY <2>3, <2>7
  <2>9. o.returned * Re = outcome.returned * Re + IF c.returned THEN Re ELSE 0
    BY <1>2, <1>5, <2>3, <2>6, <2>7
  <2> QED
    BY <1>2, <1>5, <1>6, <1>7, <1>8, <2>1, <2>3, <2>4, <2>5, <2>7, <2>8, <2>9
<1> QED  BY <1>2, <1>9, <1>10 DEF Typed

(* A row of another table is drawn at once.                                *)
LEMMA RowAgrees ==
  ASSUME DrawsInv, table # None, ~IsOrder(table), NEW c \in Cases
  PROVE  Agrees(used (+) generateRowAndChildRows(table, [c EXCEPT !.returned = Returns(c)]),
                outcomeWith(c))
<1> DEFINE o == outcomeWith(c)
           d == [c EXCEPT !.returned = Returns(c)]
<1>1. Typed /\ remaining = 0 /\ used = EmptyBag
  BY DEF DrawsInv, LinesInv, Idle, Typed
<1>2. Source(table) = table /\ table \in Simple
  <2>1. table \in DOMAIN getGeneratorColumns
    BY <1>1, BuildAssumption DEF Typed, BaseTable
  <2>2. Source(table) = table /\ ~isChild(table) /\ ~hasChild(table)
    BY SourceOf DEF IsOrder, hasChild
  <2>3. \A q \in DOMAIN ChildOf : table \notin {q, ChildOf[q]}
    BY <2>2 DEF isChild, hasChild
  <2> QED  BY <2>1, <2>2, <2>3 DEF Simple
<1>3. /\ d.new = c.new /\ d.more = c.more /\ c.new \in BOOLEAN
      /\ o.new = c.new /\ o.more = c.more
  <2>1. c \in CaseOf /\ c.new \in BOOLEAN
    BY <1>1, CasesTyped
  <2>2. o.new = c.new /\ o.more = c.more
    BY <1>1, OutcomeOf
  <2>3. d.new = c.new /\ d.more = c.more
    BY <2>1 DEF CaseOf
  <2> QED  BY <2>1, <2>2, <2>3, Zenon
<1> HIDE DEF o, d
<1>4. ASSUME NEW s \in Shown(table)
      PROVE  Copies(s, used (+) generateRowAndChildRows(table, d))
               = Copies(s, Draws(CName(table), o))
  <2>1. s \notin Constants \/ table = "CALL_CENTER"
    BY DEF Shown
  <2>2. /\ Copies(s, generateRowAndChildRows(table, d)) = Copies(s, Draws(CName(table), o))
        /\ Copies(s, Draws(CName(table), o)) \in Nat
    BY <1>2, <1>3, <2>1, SimpleRowsAlike
  <2> QED  BY <1>1, <2>2, CopiesInUnion, CopiesInEmpty
<1> QED  BY <1>2, <1>4 DEF Agrees, o, d

LEMMA DrawsInit == Init => DrawsInv
BY LinesInit DEF Init, DrawsInv, DrawsSoFar, DrawsAsDsdgen

LEMMA DrawsNext == DrawsInv /\ [Next]_vars => DrawsInv'
<1> SUFFICES ASSUME DrawsInv, [Next]_vars PROVE DrawsInv'  OBVIOUS
<1>0. /\ LinesInv /\ DrawsSoFar /\ DrawsAsDsdgen /\ LinesInv'
      /\ Typed /\ Idle /\ Idle'
  BY LinesNext DEF DrawsInv, LinesInv
<1>1. CASE table' = None
  <2>1. ended' = NotEnded /\ remaining' = 0
    BY <1>0, <1>1 DEF Idle
  <2> QED  BY <1>0, <2>1 DEF DrawsInv, DrawsSoFar, DrawsAsDsdgen
<1>2. CASE BeginTable /\ table' # None
  <2>1. table = None /\ UNCHANGED <<remaining, ended>>
    BY <1>2 DEF BeginTable, rowVars
  <2>2. ended' = NotEnded /\ remaining' = 0
    BY <1>0, <2>1 DEF Idle
  <2> QED  BY <1>0, <2>2 DEF DrawsInv, DrawsSoFar, DrawsAsDsdgen
<1>3. CASE computeNext
  <2> DEFINE order == IF begins THEN Lines[Source(table)] ELSE {1}
  <2>0. /\ table # None /\ UNCHANGED <<session, table>>
    BY <1>3 DEF computeNext
  <2>1. PICK c, n, left, total :
          /\ c \in Cases /\ n \in order
          /\ left = (IF remaining > 0 THEN remaining ELSE n) - 1
          /\ total = used (+) generateRowAndChildRows(table, [c EXCEPT !.returned = Returns(c)])
          /\ permuted' = IsOrder(table)
          /\ remaining' = left
          /\ IF shouldEndRow(c, left)
             THEN ended' = [outcome |-> outcomeWith(c), drawn |-> total,
                            wrote |-> wrote (+) Handed(c)]
             ELSE used' = total /\ outcome' = outcomeWith(c) /\ ended' = NotEnded
    BY <1>3 DEF computeNext
  <2>2. Agrees(total, outcomeWith(c))
    BY <2>0, <2>1, LineAgrees, RowAgrees
  <2>3. CASE left = 0
    <3>1. remaining' = 0 /\ ended'.outcome = outcomeWith(c) /\ ended'.drawn = total
      BY <2>1, <2>3 DEF shouldEndRow
    <3>2. DrawsAsDsdgen'
      BY <2>0, <2>2, <3>1 DEF DrawsAsDsdgen, Agrees, Shown
    <3> QED  BY <1>0, <3>1, <3>2 DEF DrawsInv, DrawsSoFar
  <2>4. CASE left # 0
    <3>1. /\ used' = total /\ outcome' = outcomeWith(c) /\ ended' = NotEnded
          /\ remaining' = left /\ permuted' = IsOrder(table)
      BY <2>1, <2>4 DEF shouldEndRow
    <3>2. remaining' > 0 => IsOrder(table)
      BY <1>0, <2>0 DEF Idle
    <3>3. Agrees(used, outcome)'
      BY <2>0, <2>2, <3>1 DEF Agrees, Shown
    <3> QED  BY <1>0, <3>1, <3>2, <3>3 DEF DrawsInv, DrawsSoFar, DrawsAsDsdgen
  <2> QED  BY <2>3, <2>4
<1>4. CASE UNCHANGED <<vars>>
  BY <1>0, <1>4 DEF vars, DrawsInv, DrawsSoFar, DrawsAsDsdgen, Agrees, Shown
<1>5. SkipChild \/ EndTable => table' = None
  BY DEF SkipChild, EndTable
<1> QED
  BY <1>1, <1>2, <1>3, <1>4, <1>5 DEF Next, Finished

(* Whatever the command line, the number of line items and the lengths of  *)
(* texts, a row of the port draws from every stream that shows as many     *)
(* numbers as dsdgen's builder draws for the same row, an order as the sum *)
(* of its line items.                                                      *)
THEOREM PortDrawsAlike == Spec => []DrawsAsDsdgen
<1>1. DrawsInv => DrawsAsDsdgen
  BY DEF DrawsInv
<1> QED  BY <1>1, DrawsInit, DrawsNext, PTL DEF Spec
==============================================================================
