----------------------------- MODULE RowBuilders -----------------------------
(***************************************************************************)
(* One dsdgen process and the places of its random-number streams.         *)
(*                                                                         *)
(* It builds every table in turn, or the one -table names; or, as a later  *)
(* child of a parallel build, a chunk of each table large enough to be     *)
(* divided; or, with -validate, rows picked at random.  However it comes   *)
(* to a row, the row must be the one a serial build writes: the builder    *)
(* must find every stream it draws from where a serial build has it, the   *)
(* shuffled ids must come out in the same order, and a later version of a  *)
(* slowly changing row must be built on the version before it.             *)
(*                                                                         *)
(* ChunkedBuild composes many such processes and their files, over a few   *)
(* abstract streams; here is every stream of every builder.                *)
(***************************************************************************)
EXTENDS Integers, Sequences, FiniteSetsExt, RowDraws, ColumnList

CONSTANTS
  DataTables, (* the tables of a data build, in the order they are built   *)
  UpdateTables, (* the source tables of an update                          *)
  Divided,    (* those with a million rows at some scale                   *)
  Validated,  (* those -validate jumps about in                            *)
  Versioned,  (* FL_TYPE_2: those that keep the history of a row           *)
  Lines,      (* the numbers of line items of the orders of a table        *)
  FirstRows,  (* first rows of later chunks                                *)
  MaxRow      (* bound on the rows built                                   *)

None == "none"

ASSUME BuildersAssumption ==
  /\ MaxRow \in Nat \ {0}
  /\ FirstRows \subseteq 2 .. MaxRow
  /\ \A t \in DOMAIN Lines : Lines[t] \subseteq Nat \ {0}
  /\ Divided \cap Versioned = {}
  /\ \A order \in {DataTables, UpdateTables} :
       /\ DOMAIN order \subseteq Nat
       /\ \A i \in DOMAIN order : order[i] # None

(* No text draws more numbers than gen_text() can (see module Texts), and no*)
(* order has more line items than the code gives it.                       *)
ASSUME DrawsAssumption ==
  /\ TextMost[20] <= 21 /\ TextMost[50] <= 36 /\ TextMost[60] <= 41
  /\ TextMost[99] <= 60 /\ TextMost[100] <= 61 /\ TextMost[200] <= 110
  /\ \A t \in DOMAIN Lines :
       Lines[t] \subseteq 1 .. CASE t = "CATALOG_SALES" -> 14
                               [] t = "S_CATALOG_ORDER" -> 9
                               [] t \in {"S_PURCHASE", "S_WEB_ORDER"} -> 12
                               [] OTHER -> 16

VARIABLES
  update,   (* the -update option                                          *)
  how,      (* "serial", "chunk" or "validate"                             *)
  todo,     (* the tables still to be built, as places in the order        *)
  table,    (* the table being built, or None                              *)
  row,      (* the row to be built next                                    *)
  last,     (* the last one                                                *)
  fresh,    (* no row of this table was built yet                          *)
  ready,    (* the streams were moved to the row                           *)
  kept,     (* the row g_OldValues was left by; 0: none                    *)
  at,       (* nSeed of the streams, as the numbers drawn since the first  *)
  overrun   (* streams the row before drew more from than its budget       *)

vars == <<update, how, todo, table, row, last, fresh, ready, kept, at, overrun>>

Order == IF update THEN UpdateTables ELSE DataTables

(* nParam of an FL_PARENT table: where its line items or returns go.       *)
ChildOf ==
  [STORE_SALES |-> "STORE_RETURNS", CATALOG_SALES |-> "CATALOG_RETURNS",
   WEB_SALES |-> "WEB_RETURNS",
   S_PURCHASE |-> "S_PURCHASE_LINEITEM",
   S_PURCHASE_LINEITEM |-> "S_STORE_RETURNS",
   S_CATALOG_ORDER |-> "S_CATALOG_ORDER_LINEITEM",
   S_CATALOG_ORDER_LINEITEM |-> "S_CATALOG_RETURNS",
   S_WEB_ORDER |-> "S_WEB_ORDER_LINEITEM",
   S_WEB_ORDER_LINEITEM |-> "S_WEB_RETURNS"]

Children(T) == {ChildOf[t] : t \in T \cap DOMAIN ChildOf}

(* The tables main() and validateGeneric() skip in for t: it and its child.*)
SkippedWith(t) == {t} \cup Children({t})

(* The tables row_stop(t) pads: it, its child and that one's child; and    *)
(* those whose row_stop() the builders of some source tables call as well. *)
StoppedWith(t) ==
  SkippedWith(t) \cup Children(Children({t}))
  \cup CASE t = "S_ITEM" -> {"ITEM"}
         [] t = "S_PROMOTION" -> {"PROMOTION"}
         [] t = "S_CATALOG_PAGE" -> {"CATALOG_PAGE"}
         [] OTHER -> {}

OwnedBy(T) == UNION {Owned(t) : t \in T}

(* makePermutation() draws from these once, whatever their budget.          *)
Shuffles ==
  {"SS_PERMUTATION", "CS_PERMUTE", "WS_PERMUTATION", "S_CALL_CENTER_ID",
   "S_ITEM_PERMUTE", "S_PROMOTION_ID", "S_STORE_ID", "S_WRHS_ID",
   "S_WPAG_PERMUTE", "S_CUST_ID", "S_PLINE_PERMUTE", "S_CLIN_PERMUTE",
   "S_WLIN_PERMUTE"}

(* Streams whose numbers never reach a printed column, and whose places    *)
(* are not kept: every container is the same, no column of a date can be   *)
(* NULL, and S_CUSTOMER prints neither the NULLs nor the location type of  *)
(* its address.                                                            *)
Unprinted(t) ==
  {"CC_HOURS", "D_NULLS"}
  \cup IF t = "S_CUSTOMER" THEN {"CA_NULLS", "CA_LOCATION_TYPE"} ELSE {}

(* Streams whose budget a row may exceed: texts of many short words; all    *)
(* returns of an update, whose time takes two numbers and whose reason may *)
(* be joined twice; the lines of a catalog order, with the budget of one.  *)
Overdrawn ==
  {"CC_MARKET_DESC", "WEB_MARKET_CLASS",
   "S_SRET_RETURN_TIME", "S_WRET_RETURN_TIME", "S_WRET_REASON_ID",
   "S_CLIN_PROMOTION_ID", "S_CLIN_WAREHOUSE_ID", "S_CLIN_SHIP_DATE",
   "S_CLIN_CATALOG_PAGE_ID", "S_CLIN_PRICING", "S_CLIN_IS_RETURNED"}

(* setSCDKeys(): ids have one, two and three versions in turn.             *)
New(k) == k % 6 \in {1, 2, 4}

(* Mutant: validateSCD() builds the row without those before it.           *)
SameRow(k) == k

(* validateSCD() backs up to the first version of the row's id.            *)
FirstVersion(k) == Max({j \in 1 .. k : New(j)})

-----------------------------------------------------------------------------
(* The cases the next row of the table can be.  Only the call centers and  *)
(* web sites draw more for a new id; a source row takes a shuffled one.    *)
IsNew ==
  {new \in BOOLEAN :
     IF table \in Versioned \cup {"S_WEB_SITE"} THEN new = New(row)
     ELSE new => table = "S_CALL_CENTER"}

Orders == IF table \in DOMAIN Lines THEN Lines[table] ELSE {0}

Cases ==
  {[first |-> fresh, new |-> new, more |-> more, lines |-> n,
    returned |-> IF back THEN n ELSE 0] :
     new \in IsNew, more \in BOOLEAN, n \in Orders, back \in BOOLEAN}

(* Every stream the builder of a table may touch.                          *)
Touched ==
  LET most == [first |-> TRUE, new |-> TRUE, more |-> TRUE,
               lines |-> 1, returned |-> 1]
      Tables == {DataTables[i] : i \in DOMAIN DataTables}
                \cup {UpdateTables[i] : i \in DOMAIN UpdateTables}
  IN [t \in Tables |-> DOMAIN Draws(t, most) \cup OwnedBy(StoppedWith(t))]

(* The streams of a table that show.                                       *)
Printed(t) == Touched[t] \ Unprinted(t)

(* Mutant: from where they are, not from their first seeds.                *)
SkipOn(T, n) ==
  LET moved == OwnedBy(T) \cup Duplicated
  IN at (+) IF n = 0 THEN EmptyBag
            ELSE [s \in {m \in moved : Budget[m] > 0} |-> n * Budget[s]]

(* row_skip(): the streams S go to where n budgets bring them from their   *)
(* first seed, and with them any stream another one is a duplicate of.     *)
Skip(T, n) ==
  LET moved == OwnedBy(T) \cup Duplicated
      there == IF n = 0 THEN EmptyBag ELSE [s \in {m \in moved : Budget[m] > 0} |-> n * Budget[s]]
  IN [s \in DOMAIN at \ moved |-> at[s]] (+) there

(* row_stop(): what a row left of the budgets of these streams is drawn.   *)
Rest(T, drawn) ==
  LET short == {s \in OwnedBy(T) : Copies(s, drawn) < Budget[s]}
  IN [s \in short |-> Budget[s] - Copies(s, drawn)]

-----------------------------------------------------------------------------
(* main() comes to the next table.  A serial build and a first child find  *)
(* the streams as the tables before left them; a later child skips to its  *)
(* chunk.                                                                  *)
Begin ==
  /\ table = None
  /\ todo # {}
  /\ LET i == Min(todo)
         t == Order[i]
     IN
     /\ table' = t
     /\ todo' = todo \ {i}
     /\ CASE how = "serial" ->
               /\ row' = 1 /\ last' = MaxRow /\ ready' = TRUE
               /\ UNCHANGED at
          [] how = "chunk" ->
               \E first \in FirstRows :
                 /\ row' = first /\ last' = MaxRow /\ ready' = TRUE
                 /\ at' = Skip(SkippedWith(t), first - 1)
          [] how = "validate" ->
               /\ row' = 1 /\ last' = 0 /\ ready' = FALSE
               /\ UNCHANGED at
  /\ fresh' = TRUE
  /\ kept' = 0
  /\ overrun' = {}
  /\ UNCHANGED <<update, how>>

(* With -validate main() picks a row; validateSCD() goes back for versions.*)
Pick ==
  /\ table # None
  /\ how = "validate"
  /\ row > last
  /\ \E k \in 1 .. MaxRow :
       /\ last' = k
       /\ row' = IF table \in Versioned THEN FirstVersion(k) ELSE k
  /\ ready' = FALSE
  /\ UNCHANGED <<update, how, todo, table, fresh, kept, at, overrun>>

(* validateGeneric(), validateSCD() and the vld routines of the sales.     *)
Seek ==
  /\ table # None
  /\ how = "validate"
  /\ row <= last
  /\ ~ready
  /\ at' = Skip(SkippedWith(table), row - 1)
  /\ ready' = TRUE
  /\ UNCHANGED <<update, how, todo, table, row, last, fresh, kept, overrun>>

(* gen_tbl() or a validation routine builds a row.  Only gen_tbl() calls   *)
(* row_stop().                                                             *)
BuildRow ==
  /\ table # None
  /\ ready
  /\ row <= last
  /\ \E c \in Cases :
       LET drawn == Draws(table, c) IN
       /\ at' = at (+) [s \in DOMAIN drawn \ Unprinted(table) |-> drawn[s]]
                (+) IF how = "validate" THEN EmptyBag
                    ELSE Rest(StoppedWith(table), drawn)
       /\ overrun' = {s \in (DOMAIN drawn \ Shuffles) : drawn[s] > Budget[s]}
  /\ fresh' = FALSE
  /\ kept' = row
  /\ row' = row + 1
  /\ ready' = (how # "validate" /\ row < last)
  /\ UNCHANGED <<update, how, todo, table, last>>

(* The table is done; streams no later table touches are not kept.         *)
EndTable ==
  /\ table # None
  /\ row > last
  /\ LET needed == UNION {Touched[Order[i]] : i \in todo}
     IN at' = [s \in DOMAIN at \cap needed |-> at[s]]
  /\ table' = None
  /\ row' = 1 /\ last' = 0 /\ fresh' = TRUE /\ ready' = FALSE /\ kept' = 0
  /\ overrun' = {}
  /\ UNCHANGED <<update, how, todo>>

Done == table = None /\ todo = {} /\ UNCHANGED vars

Init ==
  /\ update \in BOOLEAN
  /\ how \in {"serial", "chunk"} \cup IF update THEN {} ELSE {"validate"}
  /\ \E named \in SUBSET DOMAIN Order :
       /\ (named = DOMAIN Order \/ Cardinality(named) = 1)
       /\ todo = {i \in named : CASE how = "serial"   -> TRUE
                                  [] how = "chunk"    -> Order[i] \in Divided
                                  [] how = "validate" -> Order[i] \in Validated}
  /\ table = None
  /\ row = 1 /\ last = 0 /\ fresh = TRUE /\ ready = FALSE /\ kept = 0
  /\ at = EmptyBag
  /\ overrun = {}

Next == Begin \/ Pick \/ Seek \/ BuildRow \/ EndTable \/ Done

Spec == Init /\ [][Next]_vars

-----------------------------------------------------------------------------
(***************************************************************************)
(* Properties.                                                             *)
(***************************************************************************)

(* As many budgets as there are rows before; ids are shuffled from the     *)
(* first seed on.                                                          *)
SerialPlace(s) == IF s \in Shuffles THEN 0 ELSE (row - 1) * Budget[s]

(* Whatever was built before in this process, whichever chunk or picked    *)
(* row it is, every stream that shows in the row is where a build of the   *)
(* table alone from row 1 has it, if the rows before kept to their budgets.*)
(* A serial build may be further on, never behind, in a stream that they   *)
(* can overdraw: -validate, which comes to the row by budgets, may then    *)
(* build another text than was written.  (Tables that are neither divided  *)
(* nor validated only have to begin in place.)                             *)
InPlace ==
  (/\ table # None /\ ready /\ row <= last
   /\ fresh \/ table \in Divided \cup Validated) =>
    \A s \in Printed(table) :
      \/ s \in Shuffles /\ ~fresh
      \/ Copies(s, at) = SerialPlace(s)
      \/ s \in Overdrawn /\ how = "serial" /\ ~fresh /\ Copies(s, at) > SerialPlace(s)

(* A later version of a row is built on the version before it, also when   *)
(* -validate jumps to it.                                                  *)
RevisionFollows ==
  table \in Versioned /\ ready /\ row <= last /\ ~New(row) => kept = row - 1

(* No row draws more than its budget (the "Seed overrun" of checkSeeds())  *)
(* from a stream that row_stop() pads, of any table of a data build or an  *)
(* update, but from those of Overdrawn.  After another overrun the rows of *)
(* later chunks would not be those of a serial build.                      *)
NoOtherOverrun == overrun \cap OwnedBy(StoppedWith(table)) \subseteq Overdrawn

-----------------------------------------------------------------------------
(***************************************************************************)
(* What InPlace rests on besides the steps: the kit's streams and draws.   *)
(***************************************************************************)
KitTables == DOMAIN Touched

LinesOf(t) == IF t \in DOMAIN Lines THEN Lines[t] ELSE {0}
CasesOf(t) ==
  {c \in [first : BOOLEAN, new : BOOLEAN, more : BOOLEAN,
          lines : LinesOf(t), returned : LinesOf(t) \cup {0}] :
     c.returned \in {0, c.lines}}

(* A stream is one table's; those that show have a budget, and a row draws *)
(* from no other streams than its table's.                                 *)
StreamsOwned == \A t \in Owners : \A s \in DOMAIN Columns[t] : Owner[s] = t
StreamsBudgeted == \A t \in KitTables : \A s \in Printed(t) : Budget[s] \in Nat
DrawsTouched ==
  \A t \in KitTables : \A c \in CasesOf(t) : DOMAIN Draws(t, c) \subseteq Touched[t]

(* No table leaves a stream that shows in a later one moved.               *)
TablesApart ==
  \A order \in {DataTables, UpdateTables} : \A i, j \in DOMAIN order :
    i # j => Touched[order[i]] \cap Printed(order[j]) = {}

(* Every stream that shows in a table which is jumped about in is moved by *)
(* row_skip(), a shuffled one not at all; the others row_stop() makes up,  *)
(* and no row of a table that is built in chunks can overdraw.             *)
StreamsSkipped ==
  \A t \in Divided \cup Validated : \A s \in Printed(t) :
    /\ s \in OwnedBy(SkippedWith(t)) \cup Duplicated
    /\ s \in Shuffles => Budget[s] = 0
StreamsStopped ==
  \A t \in Divided \cup Validated : \A s \in Printed(t) \ Shuffles :
    /\ s \in OwnedBy(StoppedWith(t))
    /\ t \in Divided => s \notin Overdrawn
    /\ \A c \in CasesOf(t) : Copies(s, Draws(t, c)) \in Nat

KitIsSound ==
  /\ StreamsOwned /\ StreamsBudgeted /\ DrawsTouched
  /\ TablesApart /\ StreamsSkipped /\ StreamsStopped
==============================================================================
