----------------------------- MODULE StreamOrder -----------------------------
(***************************************************************************)
(* The order in which dsqgen writes its queries (generateQueryStreams of   *)
(* QgenMain.c, makePermutation of permute.c): STREAMS files, each with all *)
(* templates in an order of its own, every template COUNT times in a row.  *)
(* How the options and the templates are read, and how a query is made of  *)
(* a template, is left to QueryStreams, whose actions are those of this    *)
(* module with what they do besides.                                       *)
(***************************************************************************)
EXTENDS Integers, Sequences

CONSTANT
  StreamOne     \* the numbers Streams[1] gives from its fixed seed on

ASSUME StreamOneAssumption == StreamOne \in Seq(Nat)

VARIABLES
  program,      \* "distcomp", "dsqgen", "over"
  stage,        \* of dsqgen: "options", "parse", "stream", "query", "select"
  settings,     \* the options, among them STREAMS, COUNT and QUALIFY
  TemplateList, \* templates: [name, subs, segments]
  pPermutation, \* indices of templates from 0, <<>> before the first stream
  nStream, nQuery, nCount,
  printed       \* the templates printed so far, per stream

orderVars == <<program, stage, settings, TemplateList, pPermutation,
               nStream, nQuery, nCount, printed>>

nQueryCount == Len(TemplateList)
nVersionCount == settings.params["COUNT"]
Qualified == settings.params["QUALIFY"] = "Y"

----------------------------------------------------------------------------
(* The permutations                                                        *)

Identity(nSize) == [i \in 1..nSize |-> i - 1]

\* The number at place i is swapped with that at a place that is drawn.
Swapped(p, i, nSize) ==
  LET j == (StreamOne[i] % nSize) + 1
  IN  [p EXCEPT ![i] = p[j], ![j] = p[i]]

Shuffled(p, nSize) ==
  LET after[i \in 0..nSize] == IF i = 0 THEN p ELSE Swapped(after[i - 1], i, nSize)
  IN  after[nSize]

\* A bug StreamsInOrder must find: each stream begins with the numbers in
\* order again.
makePermutationAnew(nNumberSet, nSize) == Shuffled(Identity(nSize), nSize)

\* The numbers that are given, or those from 0 on, each swapped with another.
makePermutation(nNumberSet, nSize) ==
  Shuffled(IF nNumberSet = <<>> THEN Identity(nSize) ELSE nNumberSet, nSize)

----------------------------------------------------------------------------
(* The streams                                                             *)

Exit == program' = "over"

dsqgenAt(at) == program = "dsqgen" /\ stage = at

\* Stream 1 is set back to its seed, so each stream shuffles alike.
OpenStream(opened) ==
  /\ dsqgenAt("stream")
  /\ nStream < settings.params["STREAMS"]
  /\ pPermutation' = makePermutation(pPermutation, nQueryCount)
  /\ IF opened
     THEN /\ stage' = "query"
          /\ nQuery' = 1
          /\ nCount' = 1
          /\ printed' = Append(printed, <<>>)
          /\ UNCHANGED program
     ELSE Exit /\ UNCHANGED <<stage, nQuery, nCount, printed>>
  /\ UNCHANGED <<settings, TemplateList, nStream>>

CloseStreams ==
  /\ dsqgenAt("stream")
  /\ nStream >= settings.params["STREAMS"]
  /\ Exit
  /\ UNCHANGED <<stage, settings, TemplateList, pPermutation, nStream, nQuery,
                 nCount, printed>>

nQID == IF Qualified THEN nQuery ELSE pPermutation[nQuery] + 1

Template == TemplateList[nQID]

\* Another query from the template, another template, or the stream's end.
StartQuery ==
  /\ dsqgenAt("query")
  /\ nQuery <= nQueryCount /\ nCount <= nVersionCount
  /\ stage' = "select"
  /\ UNCHANGED <<program, settings, TemplateList, pPermutation, nStream, nQuery,
                 nCount, printed>>

AdvanceTemplate ==
  /\ dsqgenAt("query")
  /\ nQuery <= nQueryCount /\ nCount > nVersionCount
  /\ nQuery' = nQuery + 1
  /\ nCount' = 1
  /\ UNCHANGED <<program, stage, settings, TemplateList, pPermutation, nStream,
                 printed>>

CloseStream ==
  /\ dsqgenAt("query")
  /\ nQuery > nQueryCount
  /\ nStream' = nStream + 1
  /\ stage' = "stream"
  /\ UNCHANGED <<program, settings, TemplateList, pPermutation, nQuery, nCount,
                 printed>>

\* A query is made, or cannot be.
WriteQuery ==
  /\ dsqgenAt("select")
  /\ printed' = [printed EXCEPT ![nStream + 1] = Append(@, Template.name)]
  /\ nCount' = nCount + 1
  /\ stage' = "query"
  /\ UNCHANGED <<program, settings, TemplateList, pPermutation, nStream, nQuery>>

FailQuery ==
  /\ dsqgenAt("select")
  /\ Exit
  /\ UNCHANGED <<stage, settings, TemplateList, pPermutation, nStream, nQuery,
                 nCount, printed>>

\* The options and the templates have been read.
OrderInit ==
  /\ dsqgenAt("stream")
  /\ nVersionCount \in Int
  /\ nQueryCount \in 0..Len(StreamOne)
  /\ pPermutation = <<>> /\ nStream = 0 /\ nQuery = 1 /\ nCount = 1
  /\ printed = <<>>

OrderNext ==
  \/ \E opened \in BOOLEAN : OpenStream(opened)
  \/ CloseStreams \/ StartQuery \/ AdvanceTemplate \/ CloseStream
  \/ WriteQuery \/ FailQuery

OrderSpec == OrderInit /\ [][OrderNext]_orderVars

----------------------------------------------------------------------------
(* Properties                                                              *)

\* The order of a stream is the shuffle of the one before shuffled alike: one
\* order per stream number, the same in every session with as many templates.
OrderOf(nSize) ==
  LET first == makePermutation(<<>>, nSize)
      order[s \in Nat] ==
        IF s = 0 THEN first ELSE [i \in 1..nSize |-> order[s - 1][first[i] + 1]]
  IN  order

\* "use stream 1 for permutation, and stream 0 for all other RNG calls in
\* qgen, to assure permutation stability" (QgenMain.c): every finished stream
\* has each template COUNT times in a row, in the order of the list with
\* QUALIFY, else in that stream's own order, whatever was drawn meanwhile.
StreamsInOrder ==
  \A s \in 1..nStream :
    printed[s] =
      [k \in 1..nQueryCount * nVersionCount |->
         LET place == (k - 1) \div nVersionCount + 1
             t == IF Qualified THEN place ELSE OrderOf(nQueryCount)[s - 1][place] + 1
         IN  TemplateList[t].name]
=============================================================================
