----------------------------- MODULE PrintedRows -----------------------------
(***************************************************************************)
(* One dsdgen process writing rows, and which of their fields are empty.   *)
(*                                                                         *)
(* The builder of a row draws a bit map for it with nullSet(): the columns *)
(* that are to be NULL.  The map is kept in the description of the table,  *)
(* where the print functions look each column up with nullCheck().  A      *)
(* sales order builds and prints several rows of two tables in turn; the   *)
(* source tables of an update may build one table's row and print it as    *)
(* another's.                                                              *)
(*                                                                         *)
(* Left out: fields that are empty because the value itself is missing (a  *)
(* key of -1, a date before 1, no string).                                 *)
(***************************************************************************)
EXTENDS PrintFunctions

CONSTANTS
  TableOrders, (* the tables a process may build, in order                 *)
  Thresholds,  (* the numbers drawn for whether a row has NULLs            *)
  Maps,        (* the maps drawn, as the sets of their bits                *)
  RowCount,    (* the rows of a table                                      *)
  MaxLine      (* the most line items of an order                          *)

NoTable == "none"
Tables == DOMAIN Fields

(* A map is drawn from 1 .. MAXINT.                                        *)
ASSUME MapsAssumption ==
  /\ TableOrders \subseteq Seq(Tables)
  /\ Thresholds \subseteq 0 .. 9999
  /\ Maps \subseteq SUBSET (0 .. 30)
  /\ {RowCount, MaxLine} \subseteq Nat \ {0}

VARIABLES
  ahead,        (* the tables still to be built                            *)
  built,        (* the table being built, or NoTable                       *)
  rows,         (* how many more rows                                      *)
  lineItems,    (* how many more line items of the row, an order           *)
  calls,        (* what is left of the row: nullSet() and print calls      *)
  kNullBitMap,  (* of each table, as a set of bits                         *)
  drawn,        (* the draws for a row not yet written, by table           *)
  written       (* the row written last: its table, its empty fields and   *)
                (* the draws there were for it                             *)

printVars == <<ahead, built, rows, lineItems, calls, kNullBitMap, drawn, written>>

(* w_tdefs: the rows with NULLs in ten thousand; none for the rest.        *)
nNullPct(t) ==
  CASE t \in {"CALL_CENTER", "CATALOG_SALES", "STORE", "WEB_SITE"} -> 100
    [] t \in {"CATALOG_PAGE", "PROMOTION", "WAREHOUSE"} -> 200
    [] t = "CATALOG_RETURNS" -> 400
    [] t \in {"CUSTOMER", "STORE_RETURNS"} -> 700
    [] t = "CUSTOMER_ADDRESS" -> 600
    [] t = "INVENTORY" -> 1000
    [] t = "ITEM" -> 50
    [] t \in {"STORE_SALES", "WEB_RETURNS"} -> 900
    [] t = "WEB_PAGE" -> 250
    [] t = "WEB_SALES" -> 5
    [] OTHER -> 0

(* Its masks, as sets of bits.                                             *)
kNotNullBitMap(t) ==
  CASE t \in {"CALL_CENTER", "ITEM", "STORE", "WEB_PAGE", "WEB_SITE"} -> {0, 1, 3}
    [] t \in {"CUSTOMER_DEMOGRAPHICS", "HOUSEHOLD_DEMOGRAPHICS", "INCOME_BAND"} -> {0}
    [] t = "CUSTOMER"        -> {0, 1, 4}
    [] t = "INVENTORY"       -> {0, 1, 2}
    [] t = "CATALOG_RETURNS" -> {0, 1, 2, 16}
    [] t = "CATALOG_SALES"   -> {15, 17}
    [] t = "WEB_RETURNS"     -> {2, 13}
    [] t = "WEB_SALES"       -> {3, 17}
    [] t \in {"STORE_RETURNS", "STORE_SALES"} -> {2, 9}
    [] t = "DBGEN_VERSION"   -> {}
    [] OTHER -> {0, 1}

-----------------------------------------------------------------------------
(* What a builder calls, in order.  A call to nullSet() takes a stream of  *)
(* the table whose map is set.                                             *)
SetCall(t) == [call |-> "nullSet", table |-> t]
PrintCall(t)   == [call |-> "print", table |-> t]

(* The table whose row is built for a table, also for another one's rows.  *)
Built(t) ==
  CASE t = "S_CALL_CENTER"  -> "CALL_CENTER"
    [] t = "S_CATALOG_PAGE" -> "CATALOG_PAGE"
    [] t \in {"S_CUSTOMER", "S_CUSTOMER_ADDRESS"} -> "CUSTOMER_ADDRESS"
    [] t = "S_ITEM"         -> "ITEM"
    [] t = "S_PROMOTION"    -> "PROMOTION"
    [] t = "S_STORE"        -> "STORE"
    [] t = "S_WAREHOUSE"    -> "WAREHOUSE"
    [] t = "S_WEB_PAGE"     -> "WEB_PAGE"
    [] t = "S_WEB_SITE"     -> "WEB_SITE"
    [] t \in {"S_INVENTORY", "S_ZIPG", "DBGEN_VERSION"} -> NoTable
    [] OTHER -> t

RowOf(t) ==
  IF Built(t) = NoTable THEN <<PrintCall(t)>> ELSE <<SetCall(Built(t)), PrintCall(t)>>

ReturnsOf == [STORE_SALES |-> "STORE_RETURNS", CATALOG_SALES |-> "CATALOG_RETURNS",
              WEB_SALES |-> "WEB_RETURNS"]

(* Mutant: the NULLs of a sale are drawn when it has been printed.         *)
SaleDrawnLate(t, returned) ==
  IF returned
  THEN <<SetCall(ReturnsOf[t]), PrintCall(ReturnsOf[t]), PrintCall(t), SetCall(t)>>
  ELSE <<PrintCall(t), SetCall(t)>>

(* mk_w_store_sales() and the two like it: a line item is built, returned  *)
(* or not, and printed.                                                    *)
Sale(t, returned) ==
  IF returned
  THEN <<SetCall(t), SetCall(ReturnsOf[t]), PrintCall(ReturnsOf[t]), PrintCall(t)>>
  ELSE <<SetCall(t), PrintCall(t)>>

LineOf == [S_PURCHASE |-> "S_PURCHASE_LINEITEM",
           S_CATALOG_ORDER |-> "S_CATALOG_ORDER_LINEITEM",
           S_WEB_ORDER |-> "S_WEB_ORDER_LINEITEM"]
LineReturnsOf == [S_PURCHASE |-> "S_STORE_RETURNS",
                  S_CATALOG_ORDER |-> "S_CATALOG_RETURNS",
                  S_WEB_ORDER |-> "S_WEB_RETURNS"]

(* mk_s_purchase() and the two like it: the line items are printed, each   *)
(* with its return, and the order after the last; nothing of them is NULL. *)
OrderLine(t, returned, last) ==
  <<PrintCall(LineOf[t])>> \o (IF returned THEN <<PrintCall(LineReturnsOf[t])>> ELSE <<>>)
  \o (IF last THEN <<PrintCall(t)>> ELSE <<>>)

-----------------------------------------------------------------------------
(* Mutant: columns that may not be NULL are not masked.                    *)
nullSetUnmasked(t, threshold, map) ==
  IF threshold < nNullPct(t) THEN map ELSE {}

(* nullSet(): the map of table t from the two numbers drawn for it.        *)
nullSet(t, threshold, map) ==
  IF threshold < nNullPct(t) THEN map \ kNotNullBitMap(t) ELSE {}

(* nullCheck(): the column's bit of the map of its table.                  *)
nullCheck(field) == field.place - 1 \in kNullBitMap[field.table]

Empty(t) == {i \in DOMAIN Fields[t] : nullCheck(Fields[t][i])}

(* gen_tbl() comes to a table.                                             *)
NextTable ==
  /\ built = NoTable
  /\ ahead # <<>>
  /\ built' = Head(ahead)
  /\ ahead' = Tail(ahead)
  /\ rows' = RowCount
  /\ UNCHANGED <<lineItems, calls, kNullBitMap, drawn, written>>

RowOver == lineItems = 0 /\ calls = <<>>

(* The builder of the next row is called; an order is built by its lines.  *)
NextRow ==
  /\ built # NoTable
  /\ rows > 0
  /\ RowOver
  /\ rows' = rows - 1
  /\ drawn' = <<>>
  /\ IF built \in DOMAIN ReturnsOf \cup DOMAIN LineOf
     THEN calls' = <<>> /\ lineItems' \in 1 .. MaxLine
     ELSE calls' = RowOf(built) /\ lineItems' = 0
  /\ UNCHANGED <<ahead, built, kNullBitMap, written>>

(* mk_detail() is called for the next line item.                           *)
NextLine ==
  /\ lineItems > 0
  /\ calls = <<>>
  /\ lineItems' = lineItems - 1
  /\ \E returned \in BOOLEAN :
       calls' = IF built \in DOMAIN ReturnsOf THEN Sale(built, returned)
                ELSE OrderLine(built, returned, lineItems = 1)
  /\ UNCHANGED <<ahead, built, rows, kNullBitMap, drawn, written>>

(* The builder draws the NULLs of a row.                                   *)
SetNulls ==
  /\ calls # <<>>
  /\ Head(calls).call = "nullSet"
  /\ \E threshold \in Thresholds, map \in Maps :
       LET t == Head(calls).table IN
       /\ kNullBitMap' = [kNullBitMap EXCEPT ![t] = nullSet(t, threshold, map)]
       /\ drawn' = [u \in DOMAIN drawn \cup {t} |->
                      IF u = t THEN [threshold |-> threshold, map |-> map] ELSE drawn[u]]
  /\ calls' = Tail(calls)
  /\ UNCHANGED <<ahead, built, rows, lineItems, written>>

(* A row goes to its file.                                                 *)
PrintRow ==
  /\ calls # <<>>
  /\ Head(calls).call = "print"
  /\ LET t == Head(calls).table IN
     /\ written' = [table |-> t, empty |-> Empty(t), drawn |-> drawn]
     /\ drawn' = [u \in DOMAIN drawn \ {t} |-> drawn[u]]
  /\ calls' = Tail(calls)
  /\ UNCHANGED <<ahead, built, rows, lineItems, kNullBitMap>>

TableBuilt ==
  /\ built # NoTable
  /\ rows = 0
  /\ RowOver
  /\ built' = NoTable
  /\ UNCHANGED <<ahead, rows, lineItems, calls, kNullBitMap, drawn, written>>

AllBuilt == built = NoTable /\ ahead = <<>> /\ UNCHANGED printVars

(* The map of the web sales begins with 1100, a number that stands in the  *)
(* wrong column of w_tdefs.                                                *)
PrintInit ==
  /\ ahead \in TableOrders
  /\ built = NoTable
  /\ rows = 0
  /\ lineItems = 0
  /\ calls = <<>>
  /\ kNullBitMap = [t \in Tables |-> IF t = "WEB_SALES" THEN {2, 3, 6, 10} ELSE {}]
  /\ drawn = <<>>
  /\ written = [table |-> NoTable, empty |-> {}, drawn |-> <<>>]

PrintNext ==
  NextTable \/ NextRow \/ NextLine \/ SetNulls \/ PrintRow \/ TableBuilt \/ AllBuilt

PrintSpec == PrintInit /\ [][PrintNext]_printVars

-----------------------------------------------------------------------------
(***************************************************************************)
(* Properties.                                                             *)
(***************************************************************************)
CanHold(type, print) ==
  CASE type = "int"  -> print \in {"key", "integer"}
    [] type = "num"  -> print \in {"decimal", "integer"}
    [] type = "date" -> print \in {"date", "varchar"}
    [] type = "time" -> print \in {"time", "varchar"}
    [] OTHER -> TRUE

(* (s_promotion has one column more, prom_discount_pct, that nothing       *)
(* prints.)                                                                *)
DeclaredColumns(t) ==
  IF t = "S_PROMOTION" THEN SubSeq(Declared[t], 1, Len(Declared[t]) - 1) ELSE Declared[t]

(* The fields of a print function are those of the declared table, in      *)
(* number and type.                                                        *)
FieldsAsDeclared(t) ==
  /\ Len(Fields[t]) = Len(DeclaredColumns(t))
  /\ \A i \in DOMAIN DeclaredColumns(t) : CanHold(DeclaredColumns(t)[i], Fields[t][i].print)

(* Whatever NULLs are drawn, a row can be loaded into the table its file   *)
(* is for: it has a field for each declared column, of a type that fits,   *)
(* and none is empty where the column is NOT NULL.                         *)
RowsAsDeclared ==
  written.table # NoTable =>
    /\ FieldsAsDeclared(written.table)
    /\ written.empty \cap NotNull[written.table] = {}

(* A field is empty only by its own bit of the map that was drawn for this *)
(* very row, never by one left from a row, line item or table before, or   *)
(* by another column's.  So a row does not depend on which rows its        *)
(* process wrote before, and every chunk writes it alike.                  *)
NullsOfThisRow ==
  written.table # NoTable =>
    \A i \in written.empty :
      LET field == Fields[written.table][i] IN
      /\ field.table \in DOMAIN written.drawn
      /\ written.drawn[field.table].threshold < nNullPct(field.table)
      /\ field.place - 1 \in written.drawn[field.table].map

(* What the proofs need of the kit's tables: of a table that has NULLs,    *)
(* the columns declared NOT NULL are masked.                               *)
TablesAreDeclared ==
  \A t \in Tables :
    /\ FieldsAsDeclared(t)
    /\ \A i \in DOMAIN Fields[t] \cap NotNull[t] :
         LET field == Fields[t][i] IN
         nNullPct(field.table) > 0 => field.place - 1 \in kNotNullBitMap(field.table)
==============================================================================
