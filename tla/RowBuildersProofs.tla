--------------------------- MODULE RowBuildersProofs ---------------------------
(***************************************************************************)
(* A row is built from the same places of its streams, and a version of a  *)
(* row on the version before it, however the process comes to the row: for *)
(* every number of rows, all chunks, and every pick of -validate.  What is *)
(* empty of a row when it is printed was drawn for this very row.          *)
(***************************************************************************)
EXTENDS RowBuilders, PrintedRows, WellFoundedInduction, TLAPS

(***************************************************************************)
(* The operators.                                                          *)
(***************************************************************************)

(* A set of numbers has a least one.                                       *)
Below == {p \in Nat \X Nat : p[1] < p[2]}
LEMMA MinIn ==
  ASSUME NEW S \in SUBSET Nat, S # {}
  PROVE  Min(S) \in S
<1>1. IsWellFoundedOn(Below, Nat)
  BY NatLessThanWellFounded, Zenon DEF OpToRel, Below
<1>2. PICK x \in S : \A y \in S : <<y, x>> \notin Below
  BY <1>1, WFMin
<1>3. \A y \in S : x <= y
  <2> SUFFICES ASSUME NEW y \in S, ~ (x <= y)
               PROVE  FALSE
    BY <1>2
  <2>1. <<y, x>> \in Below
    BY DEF Below
  <2> QED  BY <1>2, <2>1
<1> QED  BY <1>3 DEF Min

(* Of the last three rows up to any row one is the first of an id.         *)
LEMMA FirstVersionNew ==
  ASSUME NEW k \in Nat \ {0}
  PROVE  FirstVersion(k) \in 1 .. k /\ New(FirstVersion(k))
<1> DEFINE J == {j \in 1 .. k : New(j)}
<1>1. \E x \in J : \A y \in J : x >= y
  <2>1. CASE New(k)
    BY <2>1
  <2>2. CASE ~New(k) /\ New(k - 1)
    <3>1. k - 1 \in J
      BY <2>2 DEF New
    <3> QED  BY <2>2, <3>1
  <2>3. CASE ~New(k) /\ ~New(k - 1)
    <3>1. k % 6 = 0
      BY <2>3 DEF New
    <3>2. k - 2 \in J
      BY <3>1 DEF New
    <3>3. \A y \in J : y <= k - 2
      BY <2>3
    <3> QED  BY <3>2, <3>3
  <2> QED  BY <2>1, <2>2, <2>3
<1>2. FirstVersion(k) \in J
  BY <1>1 DEF FirstVersion, Max
<1> QED  BY <1>2

LEMMA CopiesInUnion ==
  \A e, A, B : Copies(e, A (+) B) = Copies(e, A) + Copies(e, B)
BY DEF Copies, (+)

LEMMA CopiesInEmpty == \A e : Copies(e, EmptyBag) = 0
BY DEF Copies, EmptyBag, SetToBag

LEMMA CopiesInEach == \A e, n, S : Copies(e, Each(n, S)) = IF e \in S THEN n ELSE 0
BY DEF Copies, Each

LEMMA CopiesInIf ==
  \A e, cond, A : Copies(e, If(cond, A)) = IF cond THEN Copies(e, A) ELSE 0
BY CopiesInEmpty DEF If

LEMMA CopiesInTimes ==
  ASSUME NEW e, NEW A, NEW n \in Nat, Copies(e, A) \in Nat
  PROVE  Copies(e, Times(n, A)) = n * Copies(e, A)
<1>1. CASE n = 0
  BY <1>1, CopiesInEmpty DEF Times
<1>2. CASE n # 0 /\ e \in DOMAIN A
  BY <1>2 DEF Times, Copies
<1>3. CASE n # 0 /\ e \notin DOMAIN A
  BY <1>3 DEF Times, Copies
<1> QED  BY <1>1, <1>2, <1>3

-----------------------------------------------------------------------------
(***************************************************************************)
(* The process on its way through the tables.                              *)
(***************************************************************************)

(* The tables still to be built, and the one being built, are those that   *)
(* the command line leaves.                                                *)
Chosen(t) ==
  CASE how = "serial" -> TRUE
    [] how = "chunk" -> t \in Divided
    [] how = "validate" -> t \in Validated

OnTheWay ==
  /\ update \in BOOLEAN
  /\ how \in {"serial", "chunk", "validate"}
  /\ todo \subseteq DOMAIN Order
  /\ \A i \in todo : Chosen(Order[i])
  /\ table # None =>
       /\ Chosen(table)
       /\ \E i \in DOMAIN Order \ todo : table = Order[i]
  /\ row \in Nat \ {0}
  /\ last \in Nat
  /\ table = None => row = 1

LEMMA OrderIs ==
  ASSUME update \in BOOLEAN
  PROVE  /\ Order \in {DataTables, UpdateTables}
         /\ DOMAIN Order \subseteq Nat
         /\ \A i \in DOMAIN Order : Order[i] # None
BY BuildersAssumption DEF Order

LEMMA InitOnTheWay == Init => OnTheWay
<1> SUFFICES ASSUME Init
             PROVE  OnTheWay
  OBVIOUS
<1>1. update \in BOOLEAN /\ how \in {"serial", "chunk", "validate"}
  BY DEF Init
<1>2. todo \subseteq DOMAIN Order /\ \A i \in todo : Chosen(Order[i])
  BY DEF Init, Chosen
<1>3. table = None /\ row = 1 /\ last = 0
  BY DEF Init
<1> QED  BY <1>1, <1>2, <1>3 DEF OnTheWay

(* The next table is the first of those still to be built.                 *)
LEMMA BeginChosen ==
  ASSUME OnTheWay, Begin
  PROVE  \E i \in todo :
           /\ table' = Order[i] /\ table' # None /\ Chosen(table')
           /\ todo' = todo \ {i}
<1> DEFINE i == Min(todo)
<1>1. i \in todo
  BY OrderIs, MinIn DEF OnTheWay, Begin
<1>2. table' = Order[i] /\ todo' = todo \ {i}
  BY DEF Begin
<1> QED  BY <1>1, <1>2, OrderIs DEF OnTheWay

LEMMA WayKept == OnTheWay /\ [Next]_vars => OnTheWay'
<1> SUFFICES ASSUME OnTheWay, [Next]_vars
             PROVE  OnTheWay'
  OBVIOUS
<1>0. CASE UNCHANGED <<update, how>> /\ UNCHANGED <<todo, table>>
            /\ row' \in Nat \ {0} /\ last' \in Nat /\ (table = None => row' = 1)
  BY <1>0 DEF OnTheWay, Chosen, Order
<1>1. CASE Begin
  <2>1. PICK i \in todo : /\ table' = Order[i] /\ table' # None /\ Chosen(table')
                          /\ todo' = todo \ {i}
    BY <1>1, BeginChosen
  <2>2. UNCHANGED <<update, how>> /\ Order' = Order
    BY <1>1 DEF Begin, Order
  <2>3. row' \in Nat \ {0} /\ last' \in Nat
    <3>1. how \in {"serial", "chunk", "validate"} /\ FirstRows \subseteq Nat \ {0}
      BY BuildersAssumption DEF OnTheWay
    <3>2. row' \in {1} \cup FirstRows /\ last' \in {0, MaxRow}
      BY <1>1, <3>1 DEF Begin
    <3> QED  BY <3>1, <3>2, BuildersAssumption
  <2>4. \A j \in todo' : (Chosen(Order[j]))'
    BY <2>1, <2>2 DEF OnTheWay, Chosen
  <2>5. (Chosen(table))' /\ \E j \in (DOMAIN Order \ todo)' : table' = (Order[j])'
    BY <2>1, <2>2 DEF OnTheWay, Chosen
  <2> QED  BY <2>1, <2>2, <2>3, <2>4, <2>5 DEF OnTheWay
<1>2. CASE Pick
  <2>1. row' \in Nat \ {0} /\ last' \in Nat
    BY <1>2, FirstVersionNew, BuildersAssumption DEF Pick
  <2> QED  BY <1>0, <1>2, <2>1 DEF Pick
<1>3. CASE Seek
  BY <1>0, <1>3 DEF Seek, OnTheWay
<1>4. CASE BuildRow
  BY <1>0, <1>4 DEF BuildRow, OnTheWay
<1>5. CASE EndTable
  <2>1. how' = how /\ todo' = todo /\ Order' = Order /\ update' \in BOOLEAN
    BY <1>5 DEF EndTable, Order, OnTheWay
  <2>2. table' = None /\ row' = 1 /\ last' = 0
    BY <1>5 DEF EndTable
  <2>3. todo' \subseteq (DOMAIN Order)' /\ \A i \in todo' : (Chosen(Order[i]))'
    BY <2>1 DEF OnTheWay, Chosen
  <2> QED  BY <2>1, <2>2, <2>3 DEF OnTheWay
<1>6. CASE Done \/ UNCHANGED vars
  BY <1>0, <1>6 DEF Done, vars, OnTheWay
<1> QED  BY <1>1, <1>2, <1>3, <1>4, <1>5, <1>6 DEF Next

-----------------------------------------------------------------------------
(***************************************************************************)
(* Versions.                                                               *)
(***************************************************************************)

(* A process that comes to a later version of a row, skipping or not, has  *)
(* just built the row before it.                                           *)
Following ==
  table # None /\ table \in Versioned => New(row) \/ kept = row - 1

LEMMA FollowingKept ==
  OnTheWay /\ Following /\ [Next]_vars => Following'
<1> SUFFICES ASSUME OnTheWay, Following, [Next]_vars
             PROVE  Following'
  OBVIOUS
<1>1. CASE Begin
  <2>1. Chosen(table') /\ how \in {"serial", "chunk", "validate"}
    BY <1>1, BeginChosen DEF OnTheWay
  <2>2. CASE how = "chunk"
    <3>1. table' \in Divided
      BY <2>1, <2>2 DEF Chosen
    <3> QED  BY <3>1, BuildersAssumption DEF Following
  <2>3. CASE how \in {"serial", "validate"}
    <3>1. row' = 1
      BY <1>1, <2>3 DEF Begin
    <3> QED  BY <3>1 DEF Following, New
  <2> QED  BY <2>1, <2>2, <2>3
<1>2. CASE Pick
  BY <1>2, FirstVersionNew DEF Pick, Following
<1>3. CASE Seek
  BY <1>3 DEF Seek, Following
<1>4. CASE BuildRow
  BY <1>4 DEF BuildRow, Following, OnTheWay
<1>5. CASE EndTable
  BY <1>5 DEF EndTable, Following
<1>6. CASE Done \/ UNCHANGED vars
  BY <1>6 DEF Done, vars, Following
<1> QED  BY <1>1, <1>2, <1>3, <1>4, <1>5, <1>6 DEF Next

(* A later version of a row is built on the version before it, for every   *)
(* number of rows and however -validate jumps.                             *)
THEOREM VersionsFollow == Spec => []RevisionFollows
<1>1. Init => Following
  BY DEF Init, Following
<1>2. OnTheWay /\ Following /\ ~(table = None /\ table \in Versioned) => RevisionFollows
  BY DEF Following, RevisionFollows
<1>3. OnTheWay /\ table = None => RevisionFollows
  BY DEF OnTheWay, RevisionFollows, New
<1> QED
  BY InitOnTheWay, WayKept, FollowingKept, <1>1, <1>2, <1>3, PTL DEF Spec

-----------------------------------------------------------------------------
(***************************************************************************)
(* Streams.                                                                *)
(***************************************************************************)
LEMMA KitTablesAre ==
  ASSUME update \in BOOLEAN, NEW i \in DOMAIN Order
  PROVE  Order[i] \in KitTables
BY DEF Order, KitTables, Touched

LEMMA StoppedTouched ==
  ASSUME NEW t \in KitTables
  PROVE  OwnedBy(StoppedWith(t)) \subseteq Touched[t]
BY DEF KitTables, Touched

(* row_skip() brings the streams that show to the row.                     *)
LEMMA SkipTo ==
  ASSUME StreamsSkipped, NEW t \in Divided \cup Validated, NEW n \in Nat,
         NEW s \in Printed(t), Budget[s] \in Nat
  PROVE  Copies(s, Skip(SkippedWith(t), n)) = n * Budget[s]
<1> DEFINE moved == OwnedBy(SkippedWith(t)) \cup Duplicated
           there == IF n = 0 THEN EmptyBag
                    ELSE [m \in {m \in moved : Budget[m] > 0} |-> n * Budget[m]]
           stay  == [m \in DOMAIN at \ moved |-> at[m]]
<1>1. s \in moved /\ Budget[s] \in Nat
  BY DEF StreamsSkipped
<1>2. Copies(s, stay) = 0
  BY <1>1 DEF Copies
<1>3. Copies(s, there) = n * Budget[s]
  <2>1. CASE n = 0
    BY <1>1, <2>1, CopiesInEmpty
  <2>2. CASE n # 0 /\ Budget[s] > 0
    BY <1>1, <2>2 DEF Copies
  <2>3. CASE n # 0 /\ Budget[s] = 0
    BY <1>1, <2>3 DEF Copies
  <2> QED  BY <1>1, <2>1, <2>2, <2>3
<1>4. Skip(SkippedWith(t), n) = stay (+) there
  BY DEF Skip
<1>5. n * Budget[s] \in Nat
  BY <1>1
<1> HIDE DEF stay, there
<1> QED  BY <1>2, <1>3, <1>4, <1>5, CopiesInUnion

(* The cases of a row are those the tables are assumed to be right for.    *)
LEMMA CasesIn ==
  ASSUME fresh \in BOOLEAN, NEW c \in Cases
  PROVE  c \in CasesOf(table)
<1>1. PICK new \in IsNew, more \in BOOLEAN, n \in Orders, back \in BOOLEAN :
        c = [first |-> fresh, new |-> new, more |-> more, lines |-> n,
             returned |-> IF back THEN n ELSE 0]
  BY SMT DEF Cases
<1>2. new \in BOOLEAN
  BY Zenon DEF IsNew
<1>3. n \in LinesOf(table) /\ (IF back THEN n ELSE 0) \in {0, n}
  BY DEF Orders, LinesOf
<1> DEFINE m == IF back THEN n ELSE 0
<1>4. c = [first |-> fresh, new |-> new, more |-> more, lines |-> n, returned |-> m]
  BY <1>1
<1>5. m \in {0, n} /\ m \in LinesOf(table) \cup {0}
  BY <1>3
<1> HIDE DEF m
<1>6. c \in [first : BOOLEAN, new : BOOLEAN, more : BOOLEAN,
             lines : LinesOf(table), returned : LinesOf(table) \cup {0}]
  BY <1>2, <1>3, <1>4, <1>5, Zenon
<1>7. c.returned = m /\ c.lines = n
  BY <1>4
<1> QED  BY <1>5, <1>6, <1>7 DEF CasesOf

(* The case a row is built in, and where that leaves a stream.             *)
Drawn(c, s) ==
  Copies(s, at)
  + (IF s \in Unprinted(table) THEN 0 ELSE Copies(s, Draws(table, c)))
  + (IF how = "validate" THEN 0
     ELSE Copies(s, Rest(StoppedWith(table), Draws(table, c))))

(* The streams it draws more from than their budgets.                      *)
Overrun(c) ==
  {s \in DOMAIN Draws(table, c) \ Shuffles : Draws(table, c)[s] > Budget[s]}

LEMMA RowDrawn ==
  ASSUME fresh \in BOOLEAN, BuildRow
  PROVE  \E c \in CasesOf(table) :
           /\ \A s : Copies(s, at') = Drawn(c, s)
           /\ overrun' = Overrun(c)
<1>1. PICK c \in Cases :
        /\ overrun' = Overrun(c)
        /\ at' = at (+) [s \in DOMAIN Draws(table, c) \ Unprinted(table) |-> Draws(table, c)[s]]
                (+) (IF how = "validate" THEN EmptyBag
                     ELSE Rest(StoppedWith(table), Draws(table, c)))
  BY DEF BuildRow, Overrun
<1> DEFINE draws == Draws(table, c)
           shown == [s \in DOMAIN draws \ Unprinted(table) |-> draws[s]]
           rest  == IF how = "validate" THEN EmptyBag ELSE Rest(StoppedWith(table), draws)
<1>2. c \in CasesOf(table)
  BY CasesIn
<1>3. \A s : Copies(s, shown) = IF s \in Unprinted(table) THEN 0 ELSE Copies(s, draws)
  BY DEF Copies
<1>4. \A s : Copies(s, rest) = IF how = "validate" THEN 0
                                 ELSE Copies(s, Rest(StoppedWith(table), draws))
  BY CopiesInEmpty
<1>5. at' = (at (+) shown) (+) rest
  BY <1>1
<1> HIDE DEF draws, shown, rest
<1>6. \A s : Copies(s, at') = Copies(s, at) + Copies(s, shown) + Copies(s, rest)
  BY <1>5, CopiesInUnion
<1>7. \A s : Copies(s, at') = Drawn(c, s)
  BY <1>3, <1>4, <1>6 DEF Drawn, draws
<1> QED  BY <1>1, <1>2, <1>7

FirstOrNot == fresh \in BOOLEAN

LEMMA FirstOrNotKept == FirstOrNot /\ [Next]_vars => FirstOrNot'
<1> SUFFICES ASSUME FirstOrNot, [Next]_vars
             PROVE  FirstOrNot'
  OBVIOUS
<1>1. fresh' = fresh \/ fresh' = TRUE \/ fresh' = FALSE
  BY DEF Next, Begin, Pick, Seek, BuildRow, EndTable, Done, vars
<1> QED  BY <1>1 DEF FirstOrNot

-----------------------------------------------------------------------------
(***************************************************************************)
(* What a row draws, and the budgets of the streams.                       *)
(***************************************************************************)
(* A text draws from its own stream, at most what the longest does.        *)
LEMMA TextFits ==
  ASSUME NEW len \in {20, 50, 60, 99, 100, 200}
  PROVE  \A f, c, s : Copies(s, Text(f, len, c)) \in 0 .. (IF s = f THEN TextMost[len] ELSE 0)
<1> SUFFICES ASSUME NEW f, NEW c, NEW s
             PROVE  Copies(s, Text(f, len, c)) \in 0 .. (IF s = f THEN TextMost[len] ELSE 0)
  OBVIOUS
<1> DEFINE n == IF c.more THEN TextMost[len] ELSE TextLeast[len]
<1>1. n \in 0 .. TextMost[len]
  BY TextAssumption
<1>2. Text(f, len, c) = Each(n, {f})
  BY DEF Text
<1> HIDE DEF n
<1> QED  BY <1>1, <1>2, CopiesInEach

(* A row leaves the budgets of a table's columns what they are enough for. *)
Fits(u, s, bag) ==
  s \in DOMAIN Columns[u] =>
    Columns[u][s] \in Nat /\ Copies(s, bag) \in 0 .. Columns[u][s]


LEMMA SimpleFits ==
  ASSUME NEW c, NEW s, s \notin Overdrawn
  PROVE  /\ Fits("CALL_CENTER", s, CallCenter(c))
         /\ Fits("CATALOG_PAGE", s, CatalogPage(c))
         /\ Fits("CUSTOMER", s, Customer(c))
         /\ Fits("CUSTOMER_ADDRESS", s, CustomerAddress(c))
         /\ Fits("INVENTORY", s, Inventory(c))
         /\ Fits("ITEM", s, Item(c))
         /\ Fits("PROMOTION", s, Promotion(c))
         /\ Fits("SHIP_MODE", s, ShipMode(c))
         /\ Fits("STORE", s, Store(c))
         /\ Fits("WAREHOUSE", s, Warehouse(c))
         /\ Fits("WEB_PAGE", s, WebPage(c))
         /\ Fits("WEB_SITE", s, WebSite(c))
<1> USE CopiesInUnion, CopiesInEach, TextFits, TextAssumption, DrawsAssumption
    DEF Fits, Nulls, Once, Twice, Join, Charset, Address, Names
<1>1. Fits("CALL_CENTER", s, CallCenter(c))
  <2>1. Columns["CALL_CENTER"] = CallCenterColumns
    BY DEF Columns
  <2> QED  BY <2>1, CopiesInIf DEF CallCenter, CallCenterColumns, Overdrawn
<1>2. Fits("CATALOG_PAGE", s, CatalogPage(c))
  <2>1. Columns["CATALOG_PAGE"] = CatalogPageColumns
    BY DEF Columns
  <2> QED  BY <2>1 DEF CatalogPage, CatalogPageColumns
<1>3. Fits("CUSTOMER", s, Customer(c))
  <2>1. Columns["CUSTOMER"] = CustomerColumns
    BY DEF Columns
  <2> QED  BY <2>1 DEF Customer, CustomerColumns, Email
<1>4. Fits("CUSTOMER_ADDRESS", s, CustomerAddress(c))
  <2>1. Columns["CUSTOMER_ADDRESS"] = CustomerAddressColumns
    BY DEF Columns
  <2> QED  BY <2>1 DEF CustomerAddress, CustomerAddressColumns
<1>5. Fits("INVENTORY", s, Inventory(c))
  <2>1. Columns["INVENTORY"] = InventoryColumns
    BY DEF Columns
  <2> QED  BY <2>1 DEF Inventory, InventoryColumns
<1>6. Fits("ITEM", s, Item(c))
  <2>1. Columns["ITEM"] = ItemColumns
    BY DEF Columns
  <2> QED  BY <2>1 DEF Item, ItemColumns
<1>7. Fits("PROMOTION", s, Promotion(c))
  <2>1. Columns["PROMOTION"] = PromotionColumns
    BY DEF Columns
  <2> QED  BY <2>1 DEF Promotion, PromotionColumns
<1>8. Fits("SHIP_MODE", s, ShipMode(c))
  <2>1. Columns["SHIP_MODE"] = ShipModeColumns
    BY DEF Columns
  <2> QED  BY <2>1 DEF ShipMode, ShipModeColumns
<1>9. Fits("STORE", s, Store(c))
  <2>1. Columns["STORE"] = StoreColumns
    BY DEF Columns
  <2> QED  BY <2>1 DEF Store, StoreColumns
<1>10. Fits("WAREHOUSE", s, Warehouse(c))
  <2>1. Columns["WAREHOUSE"] = WarehouseColumns
    BY DEF Columns
  <2> QED  BY <2>1 DEF Warehouse, WarehouseColumns
<1>11. Fits("WEB_PAGE", s, WebPage(c))
  <2>1. Columns["WEB_PAGE"] = WebPageColumns
    BY DEF Columns
  <2> QED  BY <2>1 DEF WebPage, WebPageColumns, WebDateJoin
<1>12. Fits("WEB_SITE", s, WebSite(c))
  <2>1. Columns["WEB_SITE"] = WebSiteColumns
    BY DEF Columns
  <2> QED  BY <2>1, CopiesInIf DEF WebSite, WebSiteColumns, WebDateJoin, Overdrawn
<1> QED  BY <1>1, <1>2, <1>3, <1>4, <1>5, <1>6, <1>7, <1>8, <1>9, <1>10, <1>11, <1>12

(* The order of a sales table, its lines and their returns share a budget. *)
LEMMA OrderFits ==
  ASSUME NEW s, NEW shuffle, NEW order, NEW line, NEW return, NEW most \in Nat, NEW budget \in Nat,
         Copies(s, shuffle) = 0, Copies(s, order) \in Nat,
         Copies(s, line) \in Nat, Copies(s, return) \in Nat,
         Copies(s, order) + most * Copies(s, line) + most * Copies(s, return) <= budget,
         NEW lines \in 0 .. most, NEW returned \in 0 .. most
  PROVE  Copies(s, shuffle (+) order (+) Times(lines, line) (+) Times(returned, return))
           \in 0 .. budget
<1> DEFINE o == Copies(s, order)
           l == Copies(s, line)
           r == Copies(s, return)
<1>1. Copies(s, shuffle (+) order (+) Times(lines, line) (+) Times(returned, return))
        = 0 + o + lines * l + returned * r
  BY CopiesInUnion, CopiesInTimes
<1>2. /\ lines * l \in Nat /\ returned * r \in Nat
      /\ lines * l <= most * l /\ returned * r <= most * r
      /\ most * l \in Nat /\ most * r \in Nat
  <2> HIDE DEF l, r
  <2>1. \A a \in 0 .. most, x \in Nat : a * x \in Nat /\ a * x <= most * x
    OBVIOUS
  <2> QED  BY <2>1 DEF l, r
<1> HIDE DEF o, l, r
<1> QED  BY <1>1, <1>2 DEF o, l, r

LEMMA SalesFit ==
  ASSUME NEW t \in {"STORE_SALES", "CATALOG_SALES", "WEB_SALES"}, NEW c \in CasesOf(t),
         NEW s, s \notin Shuffles, NEW u \in {t, ChildOf[t]}
  PROVE  Fits(u, s, Draws(t, c))
<1> USE CopiesInUnion, CopiesInEach, CopiesInIf
    DEF Nulls, Once, Twice, Join, DateJoin, TimeJoin, CatalogPageJoin, SalePricing,
      ReturnPricing
<1> DEFINE most == IF t = "CATALOG_SALES" THEN 14 ELSE 16
<1>0. c.lines \in 0 .. most /\ c.returned \in 0 .. most
  BY DrawsAssumption DEF CasesOf, LinesOf
<1>1. CASE t = "STORE_SALES"
  <2>1. /\ u \in {"STORE_SALES", "STORE_RETURNS"}
        /\ Columns["STORE_SALES"] = StoreSalesColumns
        /\ Columns["STORE_RETURNS"] = StoreReturnsColumns
    BY <1>1 DEF ChildOf, Columns
  <2> SUFFICES ASSUME s \in DOMAIN Columns[u]
               PROVE  Columns[u][s] \in Nat /\ Copies(s, Draws(t, c)) \in 0 .. Columns[u][s]
    BY DEF Fits
  <2>2. Columns[u][s] \in Nat
    BY <2>1 DEF StoreSalesColumns, StoreReturnsColumns
  <2>3. /\ Copies(s, StoreSale) \in Nat /\ Copies(s, StoreSaleLine) \in Nat
        /\ Copies(s, StoreReturn) \in Nat
    BY DEF StoreSale, StoreSaleLine, StoreReturn
  <2>4. Copies(s, StoreSale) + 16 * Copies(s, StoreSaleLine) + 16 * Copies(s, StoreReturn)
          <= Columns[u][s]
    <3>1. CASE u = "STORE_SALES"
      BY <2>1, <3>1 DEF StoreSale, StoreSaleLine, StoreReturn, StoreSalesColumns
    <3>2. CASE u = "STORE_RETURNS"
      BY <2>1, <3>2 DEF StoreSale, StoreSaleLine, StoreReturn, StoreReturnsColumns
    <3> QED  BY <2>1, <3>1, <3>2
  <2>5. Copies(s, Shuffle("SS_PERMUTATION", c)) = 0
    BY DEF Shuffle, Shuffles
  <2> QED  BY <1>0, <1>1, <2>2, <2>3, <2>4, <2>5, OrderFits DEF Draws, StoreSales
<1>2. CASE t = "CATALOG_SALES"
  <2>1. /\ u \in {"CATALOG_SALES", "CATALOG_RETURNS"}
        /\ Columns["CATALOG_SALES"] = CatalogSalesColumns
        /\ Columns["CATALOG_RETURNS"] = CatalogReturnsColumns
    BY <1>2 DEF ChildOf, Columns
  <2> SUFFICES ASSUME s \in DOMAIN Columns[u]
               PROVE  Columns[u][s] \in Nat /\ Copies(s, Draws(t, c)) \in 0 .. Columns[u][s]
    BY DEF Fits
  <2>2. Columns[u][s] \in Nat
    BY <2>1 DEF CatalogSalesColumns, CatalogReturnsColumns
  <2>3. /\ Copies(s, CatalogSale(c)) \in Nat /\ Copies(s, CatalogSaleLine) \in Nat
        /\ Copies(s, CatalogReturn) \in Nat
    <3>1. Copies(s, CatalogSale(c)) \in Nat
      BY SMTT(30) DEF CatalogSale
    <3>2. Copies(s, CatalogSaleLine) \in Nat /\ Copies(s, CatalogReturn) \in Nat
      BY DEF CatalogSaleLine, CatalogReturn
    <3> QED  BY <3>1, <3>2
  <2>4. Copies(s, CatalogSale(c)) + 14 * Copies(s, CatalogSaleLine) + 14 * Copies(s, CatalogReturn)
          <= Columns[u][s]
    <3>1. CASE u = "CATALOG_SALES"
      BY <2>1, <3>1 DEF CatalogSale, CatalogSaleLine, CatalogReturn, CatalogSalesColumns
    <3>2. CASE u = "CATALOG_RETURNS"
      BY <2>1, <3>2 DEF CatalogSale, CatalogSaleLine, CatalogReturn, CatalogReturnsColumns
    <3> QED  BY <2>1, <3>1, <3>2
  <2>5. Copies(s, Shuffle("CS_PERMUTE", c)) = 0
    BY DEF Shuffle, Shuffles
  <2>6. c.lines \in 0 .. 14 /\ c.returned \in 0 .. 14
    BY <1>0, <1>2
  <2>7. Draws(t, c) = Shuffle("CS_PERMUTE", c) (+) CatalogSale(c)
          (+) Times(c.lines, CatalogSaleLine) (+) Times(c.returned, CatalogReturn)
    BY <1>2 DEF Draws, CatalogSales
  <2> HIDE CopiesInUnion, CopiesInEach, CopiesInIf
  <2> QED  BY <2>2, <2>3, <2>4, <2>5, <2>6, <2>7, OrderFits
<1>3. CASE t = "WEB_SALES"
  <2>1. /\ u \in {"WEB_SALES", "WEB_RETURNS"}
        /\ Columns["WEB_SALES"] = WebSalesColumns
        /\ Columns["WEB_RETURNS"] = WebReturnsColumns
    BY <1>3 DEF ChildOf, Columns
  <2> SUFFICES ASSUME s \in DOMAIN Columns[u]
               PROVE  Columns[u][s] \in Nat /\ Copies(s, Draws(t, c)) \in 0 .. Columns[u][s]
    BY DEF Fits
  <2>2. Columns[u][s] \in Nat
    BY <2>1 DEF WebSalesColumns, WebReturnsColumns
  <2>3. /\ Copies(s, WebSale(c)) \in Nat /\ Copies(s, WebSaleLine) \in Nat
        /\ Copies(s, WebReturn) \in Nat
    BY DEF WebSale, WebSaleLine, WebReturn
  <2>4. Copies(s, WebSale(c)) + 16 * Copies(s, WebSaleLine) + 16 * Copies(s, WebReturn)
          <= Columns[u][s]
    <3>1. CASE u = "WEB_SALES"
      BY <2>1, <3>1 DEF WebSale, WebSaleLine, WebReturn, WebSalesColumns
    <3>2. CASE u = "WEB_RETURNS"
      BY <2>1, <3>2 DEF WebSale, WebSaleLine, WebReturn, WebReturnsColumns
    <3> QED  BY <2>1, <3>1, <3>2
  <2>5. Copies(s, Shuffle("WS_PERMUTATION", c)) = 0
    BY DEF Shuffle, Shuffles
  <2> QED  BY <1>0, <1>3, <2>2, <2>3, <2>4, <2>5, OrderFits DEF Draws, WebSales
<1> QED  BY <1>1, <1>2, <1>3

(* So do the three tables of an update's orders, but for what is overdrawn.*)
LEMMA PurchasesFit ==
  ASSUME NEW c \in CasesOf("S_PURCHASE"), NEW s, s \notin Shuffles, s \notin Overdrawn,
         NEW u \in {"S_PURCHASE", "S_PURCHASE_LINEITEM", "S_STORE_RETURNS"}
  PROVE  Fits(u, s, SPurchase(c))
<1> USE CopiesInUnion, CopiesInEach, TextFits, TextAssumption, DrawsAssumption
    DEF Nulls, Once, Twice, Join, TimeJoin, SalePricing
<1> SUFFICES ASSUME s \in DOMAIN Columns[u]
             PROVE  Columns[u][s] \in Nat /\ Copies(s, SPurchase(c)) \in 0 .. Columns[u][s]
  BY DEF Fits
<1>1. c.lines \in 0 .. 12 /\ c.returned \in 0 .. 12
  BY DrawsAssumption DEF CasesOf, LinesOf
<1>2. /\ Columns["S_PURCHASE"] = SPurchaseColumns
      /\ Columns["S_PURCHASE_LINEITEM"] = SPurchaseLineitemColumns
      /\ Columns["S_STORE_RETURNS"] = SStoreReturnsColumns
  BY DEF Columns
<1>3. Columns[u][s] \in Nat
  BY <1>2 DEF SPurchaseColumns, SPurchaseLineitemColumns, SStoreReturnsColumns
<1>4. Copies(s, Shuffle("S_PLINE_PERMUTE", c)) = 0
  BY CopiesInIf DEF Shuffle, Shuffles
<1>5. /\ Copies(s, Purchase(c)) \in Nat /\ Copies(s, PurchaseLine(c)) \in Nat
      /\ Copies(s, PurchaseReturn) \in Nat
  BY DEF Purchase, PurchaseLine, PurchaseReturn
<1>6. Copies(s, Purchase(c)) + 12 * Copies(s, PurchaseLine(c)) + 12 * Copies(s, PurchaseReturn)
        <= Columns[u][s]
  <2> USE DEF Purchase, PurchaseLine, PurchaseReturn
  <2>1. CASE u = "S_PURCHASE"
    BY <1>2, <2>1 DEF SPurchaseColumns, Shuffles
  <2>2. CASE u = "S_PURCHASE_LINEITEM"
    BY <1>2, <2>2 DEF SPurchaseLineitemColumns, Shuffles
  <2>3. CASE u = "S_STORE_RETURNS"
    BY <1>2, <2>3 DEF SStoreReturnsColumns, Overdrawn
  <2> QED  BY <2>1, <2>2, <2>3
<1> HIDE CopiesInUnion, CopiesInEach, TextFits, TextAssumption, DrawsAssumption
<1> QED  BY <1>1, <1>3, <1>4, <1>5, <1>6, OrderFits DEF SPurchase

LEMMA CatalogOrdersFit ==
  ASSUME NEW c \in CasesOf("S_CATALOG_ORDER"), NEW s, s \notin Shuffles, s \notin Overdrawn,
         NEW u \in {"S_CATALOG_ORDER", "S_CATALOG_ORDER_LINEITEM", "S_CATALOG_RETURNS"}
  PROVE  Fits(u, s, SCatalogOrder(c))
<1> USE CopiesInUnion, CopiesInEach, CopiesInIf, TextFits, TextAssumption, DrawsAssumption
    DEF Nulls, Once, Twice, Join, TimeJoin, CatalogPageJoin, SalePricing
<1> SUFFICES ASSUME s \in DOMAIN Columns[u]
             PROVE  Columns[u][s] \in Nat /\ Copies(s, SCatalogOrder(c)) \in 0 .. Columns[u][s]
  BY DEF Fits
<1>1. c.lines \in 0 .. 9 /\ c.returned \in 0 .. 9
  BY DrawsAssumption DEF CasesOf, LinesOf
<1>2. /\ Columns["S_CATALOG_ORDER"] = SCatalogOrderColumns
      /\ Columns["S_CATALOG_ORDER_LINEITEM"] = SCatalogOrderLineitemColumns
      /\ Columns["S_CATALOG_RETURNS"] = SCatalogReturnsColumns
  BY DEF Columns
<1>3. Columns[u][s] \in Nat
  BY <1>2 DEF SCatalogOrderColumns, SCatalogOrderLineitemColumns, SCatalogReturnsColumns
<1>4. Copies(s, Shuffle("S_CLIN_PERMUTE", c)) = 0
  BY DEF Shuffle, Shuffles
<1>5. /\ Copies(s, CatalogOrder(c)) \in Nat /\ Copies(s, CatalogOrderLine) \in Nat
      /\ Copies(s, CatalogOrderReturn) \in Nat
  BY DEF CatalogOrder, CatalogOrderLine, CatalogOrderReturn
<1>6. Copies(s, CatalogOrder(c)) + 9 * Copies(s, CatalogOrderLine)
        + 9 * Copies(s, CatalogOrderReturn) <= Columns[u][s]
  <2> USE DEF CatalogOrder, CatalogOrderLine, CatalogOrderReturn
  <2>1. CASE u = "S_CATALOG_ORDER"
    BY <1>2, <2>1 DEF SCatalogOrderColumns, Shuffles
  <2>2. CASE u = "S_CATALOG_ORDER_LINEITEM"
    BY <1>2, <2>2 DEF SCatalogOrderLineitemColumns, Shuffles, Overdrawn
  <2>3. CASE u = "S_CATALOG_RETURNS"
    BY <1>2, <2>3 DEF SCatalogReturnsColumns
  <2> QED  BY <2>1, <2>2, <2>3
<1> HIDE CopiesInUnion, CopiesInEach, CopiesInIf, TextFits, TextAssumption, DrawsAssumption
<1> QED  BY <1>1, <1>3, <1>4, <1>5, <1>6, OrderFits DEF SCatalogOrder

LEMMA WebOrdersFit ==
  ASSUME NEW c \in CasesOf("S_WEB_ORDER"), NEW s, s \notin Shuffles, s \notin Overdrawn,
         NEW u \in {"S_WEB_ORDER", "S_WEB_ORDER_LINEITEM", "S_WEB_RETURNS"}
  PROVE  Fits(u, s, SWebOrder(c))
<1> USE CopiesInUnion, CopiesInEach, CopiesInIf, TextFits, TextAssumption, DrawsAssumption
    DEF Nulls, Once, Twice, Join, TimeJoin, SalePricing
<1> SUFFICES ASSUME s \in DOMAIN Columns[u]
             PROVE  Columns[u][s] \in Nat /\ Copies(s, SWebOrder(c)) \in 0 .. Columns[u][s]
  BY DEF Fits
<1>1. c.lines \in 0 .. 12 /\ c.returned \in 0 .. 12
  BY DrawsAssumption DEF CasesOf, LinesOf
<1>2. /\ Columns["S_WEB_ORDER"] = SWebOrderColumns
      /\ Columns["S_WEB_ORDER_LINEITEM"] = SWebOrderLineitemColumns
      /\ Columns["S_WEB_RETURNS"] = SWebReturnsColumns
  BY DEF Columns
<1>3. Columns[u][s] \in Nat
  BY <1>2 DEF SWebOrderColumns, SWebOrderLineitemColumns, SWebReturnsColumns
<1>4. Copies(s, Shuffle("S_WLIN_PERMUTE", c)) = 0
  BY DEF Shuffle, Shuffles
<1>5. /\ Copies(s, WebOrder(c)) \in Nat /\ Copies(s, WebOrderLine) \in Nat
      /\ Copies(s, WebOrderReturn) \in Nat
  BY DEF WebOrder, WebOrderLine, WebOrderReturn
<1>6. Copies(s, WebOrder(c)) + 12 * Copies(s, WebOrderLine) + 12 * Copies(s, WebOrderReturn)
        <= Columns[u][s]
  <2> USE DEF WebOrder, WebOrderLine, WebOrderReturn
  <2>1. CASE u = "S_WEB_ORDER"
    BY <1>2, <2>1 DEF SWebOrderColumns, Shuffles
  <2>2. CASE u = "S_WEB_ORDER_LINEITEM"
    BY <1>2, <2>2 DEF SWebOrderLineitemColumns, Shuffles
  <2>3. CASE u = "S_WEB_RETURNS"
    BY <1>2, <2>3 DEF SWebReturnsColumns, Overdrawn
  <2> QED  BY <2>1, <2>2, <2>3
<1> HIDE CopiesInUnion, CopiesInEach, CopiesInIf, TextFits, TextAssumption, DrawsAssumption
<1> QED  BY <1>1, <1>3, <1>4, <1>5, <1>6, OrderFits DEF SWebOrder

LEMMA OrdersFit ==
  ASSUME NEW t \in {"S_PURCHASE", "S_CATALOG_ORDER", "S_WEB_ORDER"}, NEW c \in CasesOf(t),
         NEW s, s \notin Shuffles, s \notin Overdrawn, NEW u \in StoppedWith(t)
  PROVE  Fits(u, s, Draws(t, c))
<1>1. CASE t = "S_PURCHASE"
  <2>1. u \in {"S_PURCHASE", "S_PURCHASE_LINEITEM", "S_STORE_RETURNS"}
    BY <1>1 DEF StoppedWith, SkippedWith, Children, ChildOf
  <2> QED  BY <1>1, <2>1, PurchasesFit DEF Draws
<1>2. CASE t = "S_CATALOG_ORDER"
  <2>1. u \in {"S_CATALOG_ORDER", "S_CATALOG_ORDER_LINEITEM", "S_CATALOG_RETURNS"}
    BY <1>2 DEF StoppedWith, SkippedWith, Children, ChildOf
  <2> QED  BY <1>2, <2>1, CatalogOrdersFit DEF Draws
<1>3. CASE t = "S_WEB_ORDER"
  <2>1. u \in {"S_WEB_ORDER", "S_WEB_ORDER_LINEITEM", "S_WEB_RETURNS"}
    BY <1>3 DEF StoppedWith, SkippedWith, Children, ChildOf
  <2> QED  BY <1>3, <2>1, WebOrdersFit DEF Draws
<1> QED  BY <1>1, <1>2, <1>3

(* Most rows of a source table take shuffled ids, and some versions.       *)
LEMMA FitsAfterVersion ==
  ASSUME NEW u, NEW c, NEW s, s \notin Shuffles, NEW f \in Shuffles, NEW e, NEW bag,
         s \in DOMAIN Columns[u] => s # e, Fits(u, s, bag)
  PROVE  Fits(u, s, Shuffle(f, c) (+) Version(e, c) (+) bag)
<1>1. Copies(s, Shuffle(f, c)) = 0 /\ (s # e => Copies(s, Version(e, c)) = 0)
  BY CopiesInIf, CopiesInEach DEF Shuffle, Version, Once
<1> QED  BY <1>1, CopiesInUnion DEF Fits

LEMMA FitsAfterShuffle ==
  ASSUME NEW u, NEW c, NEW s, s \notin Shuffles, NEW f \in Shuffles, NEW bag, Fits(u, s, bag)
  PROVE  Fits(u, s, Shuffle(f, c) (+) bag)
<1>1. Copies(s, Shuffle(f, c)) = 0
  BY CopiesInIf, CopiesInEach DEF Shuffle
<1> QED  BY <1>1, CopiesInUnion DEF Fits

LEMMA FitsFromShuffle ==
  ASSUME NEW u, NEW c, NEW s, s \notin Shuffles, NEW f \in Shuffles, NEW e, NEW bag,
         s \in DOMAIN Columns[u] => s = e /\ Columns[u][s] = 1,
         s = e => Copies(s, bag) = 0
  PROVE  Fits(u, s, Shuffle(f, c) (+) Version(e, c) (+) bag)
<1>1. /\ Copies(s, Shuffle(f, c)) = 0
      /\ Copies(s, Version(e, c)) = IF c.more /\ s = e THEN 1 ELSE 0
  BY CopiesInIf, CopiesInEach DEF Shuffle, Version, Once
<1> QED  BY <1>1, CopiesInUnion DEF Fits

(* The tables a row of which draws, but the sales and the update's orders. *)
LEMMA TablesFit ==
  ASSUME NEW t, t \notin {"S_PURCHASE", "S_CATALOG_ORDER", "S_WEB_ORDER"},
         t \notin {"STORE_SALES", "CATALOG_SALES", "WEB_SALES"},
         NEW c, Draws(t, c) # EmptyBag, NEW s, s \notin Shuffles, s \notin Overdrawn,
         NEW u \in StoppedWith(t)
  PROVE  u \in Owners => Fits(u, s, Draws(t, c))
<1> SUFFICES ASSUME u \in Owners
             PROVE  Fits(u, s, Draws(t, c))
  OBVIOUS
<1>1. CASE t \in DOMAIN ChildOf
  BY <1>1 DEF Draws, ChildOf
<1>2. CASE t \notin DOMAIN ChildOf
  <2>1. StoppedWith(t) = {t} \cup
          CASE t = "S_ITEM" -> {"ITEM"} [] t = "S_PROMOTION" -> {"PROMOTION"}
            [] t = "S_CATALOG_PAGE" -> {"CATALOG_PAGE"} [] OTHER -> {}
    BY <1>2 DEF StoppedWith, SkippedWith, Children
  <2>2. CASE t \in {"CUSTOMER_DEMOGRAPHICS", "DATE", "HOUSEHOLD_DEMOGRAPHICS", "INCOME_BAND",
                    "REASON", "TIME"}
    <3>1. u = t
      BY <2>1, <2>2
    <3>2. \E n : Draws(t, c) = Nulls(n) /\ DOMAIN Columns[t] = {n} /\ Columns[t][n] = 2
      <4> USE DEF Draws, Columns
      <4>1. CASE t = "CUSTOMER_DEMOGRAPHICS"
        BY <4>1 DEF CustomerDemographics, CustomerDemographicsColumns
      <4>2. CASE t = "DATE"
        BY <4>2 DEF Date, DateColumns
      <4>3. CASE t = "HOUSEHOLD_DEMOGRAPHICS"
        BY <4>3 DEF HouseholdDemographics, HouseholdDemographicsColumns
      <4>4. CASE t = "INCOME_BAND"
        BY <4>4 DEF IncomeBand, IncomeBandColumns
      <4>5. CASE t = "REASON"
        BY <4>5 DEF Reason, ReasonColumns
      <4>6. CASE t = "TIME"
        BY <4>6 DEF Time, TimeColumns
      <4> QED  BY <2>2, <4>1, <4>2, <4>3, <4>4, <4>5, <4>6
    <3> QED  BY <3>1, <3>2, CopiesInEach DEF Fits, Nulls, Twice
  <2>3. CASE t \in {"CALL_CENTER", "CATALOG_PAGE", "CUSTOMER", "CUSTOMER_ADDRESS", "INVENTORY",
                    "ITEM", "PROMOTION", "SHIP_MODE", "STORE", "WAREHOUSE", "WEB_PAGE",
                    "WEB_SITE"}
    <3>1. u = t
      BY <2>1, <2>3
    <3> QED  BY <2>3, <3>1, SimpleFits DEF Draws
  <2>4. CASE t \in {"S_CUSTOMER_ADDRESS", "S_WEB_SITE"}
    BY <2>1, <2>4 DEF Owners, Columns
  <2>5. CASE t \in {"S_CALL_CENTER", "S_STORE", "S_WAREHOUSE"}
    <3>1. u = t /\ DOMAIN Columns[t] \subseteq Shuffles
      BY <2>1, <2>5 DEF Columns, SCallCenterColumns, SStoreColumns, SWarehouseColumns, Shuffles
    <3> QED  BY <3>1 DEF Fits
  <2>6. CASE t = "S_CATALOG_PAGE"
    <3>1. u = "CATALOG_PAGE"
      BY <2>1, <2>6 DEF Owners, Columns
    <3> QED  BY <2>6, <3>1, SimpleFits DEF Draws, SCatalogPage
  <2>7. CASE t = "S_PROMOTION"
    <3>1. Draws(t, c) = Shuffle("S_PROMOTION_ID", c) (+) Promotion(c)
      BY <2>7 DEF Draws, SPromotion
    <3>2. CASE u = "S_PROMOTION"
      BY <3>2 DEF Fits, Columns, SPromotionColumns, Shuffles
    <3>3. CASE u = "PROMOTION"
      BY <3>1, <3>3, SimpleFits, FitsAfterShuffle DEF Shuffles
    <3> QED  BY <2>1, <2>7, <3>2, <3>3
  <2>8. CASE t = "S_ITEM"
    <3>1. Draws(t, c) = Shuffle("S_ITEM_PERMUTE", c) (+) Version("S_ITEM_ID", c) (+) Item(c)
      BY <2>8 DEF Draws, SItem
    <3>2. CASE u = "S_ITEM"
      <4>1. s \in DOMAIN Columns[u] => s = "S_ITEM_ID" /\ Columns[u][s] = 1
        BY <3>2 DEF Columns, SItemColumns, Shuffles
      <4>2. s = "S_ITEM_ID" => Copies(s, Item(c)) = 0
        BY CopiesInUnion, CopiesInEach, TextFits
        DEF Item, Nulls, Once, Twice, Join, Charset
      <4> QED  BY <3>1, <4>1, <4>2, FitsFromShuffle DEF Shuffles
    <3>3. CASE u = "ITEM"
      <4>1. s \in DOMAIN Columns[u] => s # "S_ITEM_ID"
        BY <3>3 DEF Columns, ItemColumns
      <4> QED  BY <3>1, <3>3, <4>1, SimpleFits, FitsAfterVersion DEF Shuffles
    <3> QED  BY <2>1, <2>8, <3>2, <3>3
  <2>9. CASE t = "S_WEB_PAGE"
    <3>1. u = t /\ (s \in DOMAIN Columns[u] => s = "S_WPAG_ID" /\ Columns[u][s] = 1)
      BY <2>1, <2>9 DEF Columns, SWebPageColumns, Shuffles
    <3>2. s = "S_WPAG_ID" => Copies(s, WebPage(c)) = 0
      BY CopiesInUnion, CopiesInEach DEF WebPage, Nulls, Once, Twice, Join, WebDateJoin
    <3>3. Draws(t, c) = Shuffle("S_WPAG_PERMUTE", c) (+) Version("S_WPAG_ID", c) (+) WebPage(c)
      BY <2>9 DEF Draws, SWebPage
    <3> QED  BY <3>1, <3>2, <3>3, FitsFromShuffle DEF Shuffles
  <2>10. CASE t = "S_INVENTORY"
    <3>1. u = t /\ Columns[t] = SInventoryColumns /\ Draws(t, c) = SInventory(c)
      BY <2>1, <2>10 DEF Columns, Draws
    <3> QED  BY <3>1, CopiesInEach DEF Fits, SInventory, SInventoryColumns, Once
  <2>11. CASE t = "S_CUSTOMER"
    <3>1. u = t /\ Columns[t] = SCustomerColumns /\ Draws(t, c) = SCustomer(c)
      BY <2>1, <2>11 DEF Columns, Draws
    <3>2. Copies(s, Shuffle("S_CUST_ID", c)) = 0
      BY CopiesInIf, CopiesInEach DEF Shuffle, Shuffles
    <3> QED
      BY <3>1, <3>2, CopiesInUnion, CopiesInEach
      DEF Fits, SCustomer, SCustomerColumns, Once, Twice, Join, Charset, Email, IpAddr,
        CustomerAddress, Nulls, Address
  <2> QED
    BY <1>2, <2>2, <2>3, <2>4, <2>5, <2>6, <2>7, <2>8, <2>9, <2>10, <2>11, SMTT(60)
    DEF Draws
<1> QED  BY <1>1, <1>2

(* So no row draws more than the budget from another stream that row_stop()*)
(* pads.                                                                   *)
LEMMA WithinBudgets ==
  ASSUME StreamsOwned, NEW c \in CasesOf(table)
  PROVE  Overrun(c) \cap OwnedBy(StoppedWith(table)) \subseteq Overdrawn
<1> SUFFICES ASSUME NEW s \in Overrun(c), NEW u \in StoppedWith(table), s \in Owned(u),
                    s \notin Overdrawn
             PROVE  FALSE
  BY DEF OwnedBy
<1> DEFINE draws == Draws(table, c)
<1>1. s \in DOMAIN draws /\ s \notin Shuffles /\ draws[s] > Budget[s] /\ draws # EmptyBag
  BY DEF Overrun, EmptyBag, SetToBag
<1>2. u \in Owners /\ s \in DOMAIN Columns[u] /\ Budget[s] = Columns[u][s]
  BY DEF Owned, StreamsOwned, Budget, Stream
<1>3. Fits(u, s, draws)
  <2>1. CASE table \in {"STORE_SALES", "CATALOG_SALES", "WEB_SALES"}
    <3>1. u \in {table, ChildOf[table]}
      BY <2>1 DEF StoppedWith, SkippedWith, Children, ChildOf
    <3> QED  BY <1>1, <2>1, <3>1, SalesFit
  <2>2. CASE table \in {"S_PURCHASE", "S_CATALOG_ORDER", "S_WEB_ORDER"}
    BY <1>1, <2>2, OrdersFit
  <2>3. CASE table \notin {"STORE_SALES", "CATALOG_SALES", "WEB_SALES"}
             /\ table \notin {"S_PURCHASE", "S_CATALOG_ORDER", "S_WEB_ORDER"}
    BY <1>1, <1>2, <2>3, TablesFit
  <2> QED  BY <2>1, <2>2, <2>3
<1>4. Copies(s, draws) = draws[s]
  BY <1>1 DEF Copies
<1> HIDE DEF draws
<1> QED  BY <1>1, <1>2, <1>3, <1>4 DEF Fits

LEMMA OverrunKept ==
  ASSUME StreamsOwned, FirstOrNot, NoOtherOverrun, [Next]_vars
  PROVE  NoOtherOverrun'
<1>1. CASE Begin \/ EndTable
  BY <1>1 DEF Begin, EndTable, NoOtherOverrun
<1>2. CASE Pick \/ Seek \/ Done \/ UNCHANGED vars
  BY <1>2 DEF Pick, Seek, Done, vars, NoOtherOverrun
<1>3. CASE BuildRow
  <2>1. table' = table
    BY <1>3 DEF BuildRow
  <2>2. PICK c \in CasesOf(table) : overrun' = Overrun(c)
    BY <1>3, RowDrawn DEF FirstOrNot
  <2> QED  BY <2>1, <2>2, WithinBudgets DEF NoOtherOverrun
<1> QED  BY <1>1, <1>2, <1>3 DEF Next

(* Whatever the gifts, versions, line items and returns, and for texts of  *)
(* as many numbers as gen_text() can draw, no row of any table draws more  *)
(* than column_list.txt sets aside for a row, but from the eleven streams  *)
(* of Overdrawn.                                                           *)
THEOREM RowsKeepToBudgets == StreamsOwned => (Spec => []NoOtherOverrun)
<1> SUFFICES ASSUME StreamsOwned
             PROVE  Spec => []NoOtherOverrun
  OBVIOUS
<1>1. Init => FirstOrNot /\ NoOtherOverrun
  BY DEF Init, FirstOrNot, NoOtherOverrun
<1>2. FirstOrNot /\ NoOtherOverrun /\ [Next]_vars => FirstOrNot' /\ NoOtherOverrun'
  BY FirstOrNotKept, OverrunKept
<1> QED  BY <1>1, <1>2, PTL DEF Spec

-----------------------------------------------------------------------------
(***************************************************************************)
(* Places.                                                                 *)
(***************************************************************************)

(* A row leaves the streams alone that are not its table's, and uses up    *)
(* the budgets of the others.                                              *)
LEMMA OthersStay ==
  ASSUME DrawsTouched, table \in KitTables, NEW c \in CasesOf(table),
         NEW s, s \notin Touched[table], Copies(s, at) = 0
  PROVE  Drawn(c, s) = 0
<1> DEFINE draws == Draws(table, c)
<1>1. s \notin DOMAIN draws
  BY DEF DrawsTouched
<1>2. s \notin OwnedBy(StoppedWith(table))
  BY StoppedTouched
<1> HIDE DEF draws
<1>3. Copies(s, draws) = 0 /\ Copies(s, Rest(StoppedWith(table), draws)) = 0
  BY <1>1, <1>2 DEF Copies, Rest
<1> QED  BY <1>3 DEF Drawn, draws

LEMMA BudgetUsed ==
  ASSUME StreamsStopped, table \in Divided \cup Validated, how # "validate",
         NEW c \in CasesOf(table), NEW s \in Printed(table) \ Shuffles,
         Copies(s, at) \in Nat, Budget[s] \in Nat,
         Overrun(c) \cap OwnedBy(StoppedWith(table)) \subseteq Overdrawn
  PROVE  /\ Drawn(c, s) \in Nat
         /\ Drawn(c, s) >= Copies(s, at) + Budget[s]
         /\ s \notin Overdrawn => Drawn(c, s) = Copies(s, at) + Budget[s]
<1> DEFINE draws == Draws(table, c)
           T     == OwnedBy(StoppedWith(table))
           d     == Copies(s, draws)
           rest  == Copies(s, Rest(StoppedWith(table), draws))
<1>1. s \in T /\ d \in Nat /\ Budget[s] \in Nat /\ (s \notin Overdrawn => d <= Budget[s])
  <2>1. s \in T /\ d \in Nat
    BY DEF StreamsStopped
  <2>2. s \notin Overdrawn => ~(d > Budget[s])
    BY <2>1 DEF Overrun, Copies
  <2> QED  BY <2>1, <2>2
<1>2. rest = IF d < Budget[s] THEN Budget[s] - d ELSE 0
  <2> HIDE DEF draws
  <2> QED  BY <1>1 DEF Copies, Rest
<1>3. s \notin Unprinted(table)
  BY DEF Printed
<1>4. Drawn(c, s) = Copies(s, at) + d + rest
  BY <1>3 DEF Drawn
<1> HIDE DEF d, rest
<1> QED  BY <1>1, <1>2, <1>4

(* A serial build comes to a table with its streams at their first seeds.  *)
Untouched(t) == \A s \in Printed(t) : Copies(s, at) = 0
AheadUntouched == how = "serial" => \A i \in todo : Untouched(Order[i])

LEMMA AheadKept ==
  ASSUME KitIsSound, OnTheWay, FirstOrNot, AheadUntouched, [Next]_vars
  PROVE  AheadUntouched'
<1> SUFFICES ASSUME how = "serial", how' = "serial", Order' = Order, todo' \subseteq todo,
                    NEW j \in todo', NEW s \in Printed(Order[j])
             PROVE  Copies(s, at') = 0
  <2>1. how' = how /\ Order' = Order /\ todo' \subseteq todo
    <3>1. CASE Begin
      BY <3>1 DEF Begin, Order
    <3>2. CASE Pick \/ Seek \/ Done \/ UNCHANGED vars
      BY <3>2 DEF Pick, Seek, Done, vars, Order
    <3>3. CASE BuildRow
      BY <3>3 DEF BuildRow, Order
    <3>4. CASE EndTable
      BY <3>4 DEF EndTable, Order
    <3> QED  BY <3>1, <3>2, <3>3, <3>4 DEF Next
  <2> QED  BY <2>1 DEF AheadUntouched, Untouched
<1>0. Copies(s, at) = 0
  BY DEF AheadUntouched, Untouched
<1>1. CASE Begin
  BY <1>0, <1>1 DEF Begin
<1>2. CASE Pick \/ Seek
  BY <1>0, <1>2 DEF Pick, Seek
<1>3. CASE BuildRow
  <2>1. PICK i \in DOMAIN Order \ todo : table = Order[i]
    BY <1>3 DEF OnTheWay, BuildRow
  <2>2. table \in KitTables
    BY <2>1, KitTablesAre DEF OnTheWay
  <2>3. s \notin Touched[table]
    BY <2>1, OrderIs DEF KitIsSound, TablesApart, OnTheWay
  <2>4. PICK c \in CasesOf(table) : \A z : Copies(z, at') = Drawn(c, z)
    BY <1>3, RowDrawn DEF FirstOrNot
  <2> QED  BY <1>0, <2>2, <2>3, <2>4, OthersStay DEF KitIsSound
<1>4. CASE EndTable
  <2>1. at' = [z \in DOMAIN at \cap UNION {Touched[Order[i]] : i \in todo} |-> at[z]]
    BY <1>4 DEF EndTable
  <2> QED  BY <1>0, <2>1 DEF Copies
<1>5. CASE Done \/ UNCHANGED vars
  BY <1>0, <1>5 DEF Done, vars
<1> QED  BY <1>1, <1>2, <1>3, <1>4, <1>5 DEF Next

(* At the row a build comes to, every stream that shows is in its place;   *)
(* a serial build may be beyond it where it overdraws.                     *)
AtRow(t, k, a, seen, serial) ==
  \A s \in Printed(t) :
    LET place == IF s \in Shuffles THEN 0 ELSE (k - 1) * Budget[s] IN
    \/ s \in Shuffles /\ seen
    \/ Copies(s, a) = place
    \/ /\ s \in Overdrawn /\ serial /\ seen
       /\ Copies(s, a) \in Nat /\ Copies(s, a) > place

RowInPlace ==
  (/\ table # None /\ ready /\ row <= last
   /\ fresh \/ table \in Divided \cup Validated) =>
    AtRow(table, row, at, ~fresh, how = "serial")

LEMMA SkippedInPlace ==
  ASSUME StreamsBudgeted, StreamsSkipped, NEW t \in KitTables,
         t \in Divided \cup Validated, NEW k \in Nat \ {0}
  PROVE  AtRow(t, k, Skip(SkippedWith(t), k - 1), FALSE, FALSE)
<1> SUFFICES ASSUME NEW s \in Printed(t)
             PROVE  Copies(s, Skip(SkippedWith(t), k - 1))
                      = IF s \in Shuffles THEN 0 ELSE (k - 1) * Budget[s]
  BY DEF AtRow
<1>1. Budget[s] \in Nat
  BY DEF StreamsBudgeted
<1>2. Copies(s, Skip(SkippedWith(t), k - 1)) = (k - 1) * Budget[s]
  BY <1>1, SkipTo
<1>3. s \in Shuffles => (k - 1) * Budget[s] = 0
  BY DEF StreamsSkipped
<1> QED  BY <1>2, <1>3

LEMMA InPlaceKept ==
  ASSUME KitIsSound, OnTheWay, FirstOrNot, AheadUntouched, RowInPlace,
         NoOtherOverrun', [Next]_vars
  PROVE  RowInPlace'
<1> DEFINE Due == /\ table # None /\ ready /\ row <= last
                  /\ fresh \/ table \in Divided \cup Validated
<1> SUFFICES ASSUME Due'
             PROVE  AtRow(table', row', at', ~fresh', how' = "serial")
  BY DEF RowInPlace, AtRow, Printed
<1>1. CASE Begin
  <2>1. PICK i \in todo : table' = Order[i] /\ table' # None /\ Chosen(table')
    BY <1>1, BeginChosen
  <2>2. table' \in KitTables /\ update \in BOOLEAN /\ fresh' = TRUE
    BY <1>1, <2>1, KitTablesAre DEF OnTheWay, Begin
  <2>3. CASE how = "serial"
    <3>1. row' = 1 /\ at' = at
      BY <1>1, <2>3 DEF Begin
    <3>2. \A s \in Printed(table') : Copies(s, at) = 0
      BY <2>1, <2>3 DEF AheadUntouched, Untouched
    <3>3. \A s \in Printed(table') : (1 - 1) * Budget[s] = 0
      BY <2>2 DEF KitIsSound, StreamsBudgeted
    <3> QED  BY <3>1, <3>2, <3>3 DEF AtRow
  <2>4. CASE how = "chunk"
    <3>1. PICK first \in FirstRows :
            row' = first /\ at' = Skip(SkippedWith(table'), first - 1)
      BY <1>1, <2>4 DEF Begin
    <3>2. first \in Nat \ {0} /\ table' \in Divided
      BY <2>1, <2>4, BuildersAssumption DEF Chosen
    <3> HIDE DEF Due
    <3>3. AtRow(table', first, Skip(SkippedWith(table'), first - 1), FALSE, FALSE)
      BY <2>2, <3>2, SkippedInPlace DEF KitIsSound
    <3> QED  BY <3>1, <3>3 DEF AtRow
  <2>5. CASE how = "validate"
    BY <1>1, <2>5 DEF Begin
  <2> QED  BY <2>3, <2>4, <2>5 DEF OnTheWay
<1>2. CASE Pick
  BY <1>2 DEF Pick
<1>3. CASE Seek
  <2>1. table' = table /\ row' = row /\ at' = Skip(SkippedWith(table), row - 1)
    BY <1>3 DEF Seek
  <2>2. table \in KitTables /\ table \in Validated /\ row \in Nat \ {0}
    <3>1. PICK i \in DOMAIN Order \ todo : table = Order[i]
      BY <1>3 DEF Seek, OnTheWay
    <3>2. table \in KitTables
      BY <3>1, KitTablesAre DEF OnTheWay
    <3>3. table \in Validated /\ row \in Nat \ {0}
      BY <1>3 DEF Seek, OnTheWay, Chosen
    <3> QED  BY <3>2, <3>3
  <2> HIDE DEF Due
  <2>3. AtRow(table, row, Skip(SkippedWith(table), row - 1), FALSE, FALSE)
    BY <2>2, SkippedInPlace DEF KitIsSound
  <2> QED  BY <2>1, <2>3 DEF AtRow
<1>4. CASE BuildRow
  <2>1. /\ table' = table /\ row' = row + 1 /\ how # "validate"
        /\ how' = how /\ table \in Divided \cup Validated /\ row \in Nat
    BY <1>4 DEF BuildRow, OnTheWay
  <2>2. AtRow(table, row, at, ~fresh, how = "serial")
    BY <1>4, <2>1 DEF BuildRow, RowInPlace
  <2>3. table \in KitTables
    BY <1>4, KitTablesAre DEF BuildRow, OnTheWay
  <2>4. PICK c \in CasesOf(table) :
          /\ \A s : Copies(s, at') = Drawn(c, s)
          /\ Overrun(c) \cap OwnedBy(StoppedWith(table)) \subseteq Overdrawn
    <3>1. overrun' \cap OwnedBy(StoppedWith(table)) \subseteq Overdrawn
      BY <2>1 DEF NoOtherOverrun
    <3>2. \E c \in CasesOf(table) :
            (\A s : Copies(s, at') = Drawn(c, s)) /\ overrun' = Overrun(c)
      BY <1>4, RowDrawn DEF FirstOrNot
    <3> QED  BY <3>1, <3>2
  <2>5. fresh' = FALSE
    BY <1>4 DEF BuildRow
  <2> HIDE DEF Due
  <2> SUFFICES ASSUME NEW s \in Printed(table) \ Shuffles
               PROVE  \/ Copies(s, at') = (row + 1 - 1) * Budget[s]
                      \/ /\ s \in Overdrawn /\ how = "serial" /\ Copies(s, at') \in Nat
                         /\ Copies(s, at') > (row + 1 - 1) * Budget[s]
    BY <2>1, <2>5 DEF AtRow
  <2> DEFINE b == Budget[s]
             p == Copies(s, at)
             q == Copies(s, at')
  <2>6. /\ b \in Nat
        /\ p = (row - 1) * b \/ (s \in Overdrawn /\ p \in Nat /\ p > (row - 1) * b)
    BY <2>2, <2>3 DEF KitIsSound, StreamsBudgeted, AtRow
  <2>7. (row + 1 - 1) * b = (row - 1) * b + b /\ (row - 1) * b \in Nat
    <3> HIDE DEF b
    <3> QED  BY <2>1, <2>6, <1>4 DEF OnTheWay
  <2>8. p \in Nat
    BY <2>6, <2>7
  <2>9. s \in Overdrawn => how = "serial"
    BY <1>4, <2>1 DEF BuildRow, OnTheWay, Chosen, KitIsSound, StreamsStopped
  <2>10. q \in Nat /\ q >= p + b /\ (s \notin Overdrawn => q = p + b)
    BY <2>1, <2>4, <2>6, <2>8, BudgetUsed DEF KitIsSound
  <2> HIDE DEF b, p, q
  <2>11. q = (row + 1 - 1) * b \/ (s \in Overdrawn /\ q > (row + 1 - 1) * b)
    <3> DEFINE n == (row - 1) * b
    <3>1. n \in Nat /\ (p = n \/ (s \in Overdrawn /\ p > n))
      BY <2>6, <2>7
    <3>2. (row + 1 - 1) * b = n + b
      BY <2>7
    <3> HIDE DEF n
    <3> QED  BY <2>6, <2>8, <2>10, <3>1, <3>2
  <2> QED  BY <2>9, <2>10, <2>11 DEF b, q
<1>5. CASE EndTable
  BY <1>5 DEF EndTable
<1>6. CASE Done \/ UNCHANGED vars
  BY <1>6 DEF Done, vars, RowInPlace, AtRow
<1> QED  BY <1>1, <1>2, <1>3, <1>4, <1>5, <1>6 DEF Next

(* Whatever a process built before, and whichever chunk or picked row it   *)
(* comes to, every stream that shows in the row is as many budgets from    *)
(* its first seed as there are rows before it, for every number of rows    *)
(* and all chunks, if the streams and their tables are as KitIsSound says. *)
(* In the streams of Overdrawn, and in no other, a serial build may be     *)
(* further on, and is never behind.                                        *)
THEOREM RowsBeginInPlace == KitIsSound => (Spec => []InPlace)
<1> SUFFICES ASSUME KitIsSound
             PROVE  Spec => []InPlace
  OBVIOUS
<1>0. Spec => []NoOtherOverrun
  BY RowsKeepToBudgets DEF KitIsSound
<1>1. Init => FirstOrNot /\ AheadUntouched /\ RowInPlace
  <2> SUFFICES ASSUME Init
               PROVE  FirstOrNot /\ AheadUntouched /\ RowInPlace
    OBVIOUS
  <2>1. fresh = TRUE /\ table = None /\ at = EmptyBag
    BY DEF Init
  <2> QED  BY <2>1, CopiesInEmpty DEF FirstOrNot, AheadUntouched, Untouched, RowInPlace
<1> DEFINE Inv == OnTheWay /\ FirstOrNot /\ AheadUntouched /\ RowInPlace
<1>2. Inv /\ [Next]_vars /\ NoOtherOverrun' => Inv'
  BY WayKept, FirstOrNotKept, AheadKept, InPlaceKept
<1>3. Init => Inv
  BY <1>1, InitOnTheWay
<1>4. Inv => InPlace
  BY DEF RowInPlace, InPlace, AtRow, SerialPlace
<1> QED  BY <1>0, <1>2, <1>3, <1>4, PTL DEF Spec

-----------------------------------------------------------------------------
(***************************************************************************)
(* The NULLs of a row.                                                     *)
(***************************************************************************)
(* The tables whose columns a row of t shows, and those with NULLs of them. *)
Shown(t) == {Fields[t][i].table : i \in DOMAIN Fields[t]}
Nullable(t) == {u \in Shown(t) : nNullPct(u) > 0}

LEMMA ColumnsOfOne ==
  ASSUME NEW name, NEW fields
  PROVE  \A i \in DOMAIN Of(name, fields) : Of(name, fields)[i].table = name
  BY DEF Of

LEMMA WarehouseShown ==
  \A t \in {"CALL_CENTER", "CATALOG_PAGE", "CATALOG_RETURNS", "CATALOG_SALES", "CUSTOMER",
            "CUSTOMER_ADDRESS", "CUSTOMER_DEMOGRAPHICS", "DATE", "DBGEN_VERSION",
            "HOUSEHOLD_DEMOGRAPHICS", "INCOME_BAND", "INVENTORY", "ITEM", "PROMOTION",
            "REASON", "SHIP_MODE", "STORE", "STORE_RETURNS", "STORE_SALES", "TIME",
            "WAREHOUSE", "WEB_PAGE", "WEB_RETURNS", "WEB_SALES", "WEB_SITE"} :
    Shown(t) \subseteq {t}
<1>1. \A t \in {"CALL_CENTER", "CATALOG_PAGE", "CATALOG_RETURNS", "CATALOG_SALES", "CUSTOMER",
               "CUSTOMER_ADDRESS", "CUSTOMER_DEMOGRAPHICS", "DATE", "DBGEN_VERSION"} :
        Shown(t) \subseteq {t}
  BY ColumnsOfOne
  DEF Shown, Fields, pr_w_call_center, pr_w_catalog_page, pr_w_catalog_returns,
      pr_w_catalog_sales, pr_w_customer, pr_w_customer_address, pr_w_customer_demographics,
      pr_w_date, pr_dbgen_version
<1>2. \A t \in {"HOUSEHOLD_DEMOGRAPHICS", "INCOME_BAND", "INVENTORY", "ITEM", "PROMOTION",
               "REASON", "SHIP_MODE", "STORE"} :
        Shown(t) \subseteq {t}
  BY ColumnsOfOne
  DEF Shown, Fields, pr_w_household_demographics, pr_w_income_band, pr_w_inventory,
      pr_w_item, pr_w_promotion, pr_w_reason, pr_w_ship_mode, pr_w_store
<1>3. \A t \in {"STORE_RETURNS", "STORE_SALES", "TIME", "WAREHOUSE", "WEB_PAGE",
               "WEB_RETURNS", "WEB_SALES", "WEB_SITE"} :
        Shown(t) \subseteq {t}
  BY ColumnsOfOne
  DEF Shown, Fields, pr_w_store_returns, pr_w_store_sales, pr_w_time, pr_w_warehouse,
      pr_w_web_page, pr_w_web_returns, pr_w_web_sales, pr_w_web_site
<1> QED BY <1>1, <1>2, <1>3

LEMMA SourceShown ==
  /\ \A t \in {"S_CATALOG_ORDER", "S_CATALOG_PAGE", "S_CATALOG_RETURNS", "S_CUSTOMER",
               "S_CUSTOMER_ADDRESS", "S_INVENTORY", "S_ITEM", "S_PURCHASE",
               "S_STORE_RETURNS", "S_WEB_ORDER", "S_WEB_RETURNS", "S_ZIPG"} :
       Shown(t) \subseteq {t}
  /\ \A t \in {"S_CALL_CENTER", "S_PROMOTION", "S_STORE", "S_WAREHOUSE", "S_WEB_PAGE",
               "S_WEB_SITE"} :
       Shown(t) \subseteq {Built(t)}
<1>1. \A t \in {"S_CATALOG_ORDER", "S_CATALOG_PAGE", "S_CATALOG_RETURNS", "S_CUSTOMER",
               "S_CUSTOMER_ADDRESS", "S_INVENTORY", "S_ITEM", "S_PURCHASE",
               "S_STORE_RETURNS", "S_WEB_ORDER", "S_WEB_RETURNS", "S_ZIPG"} :
        Shown(t) \subseteq {t}
  BY ColumnsOfOne
  DEF Shown, Fields, pr_s_catalog_order, pr_s_catalog_page, pr_s_catalog_returns,
      pr_s_customer, pr_s_customer_address, pr_s_inventory, pr_s_item, pr_s_purchase,
      pr_s_store_returns, pr_s_web_order, pr_s_web_return, pr_s_zip
<1>2. \A t \in {"S_CALL_CENTER", "S_PROMOTION", "S_STORE", "S_WAREHOUSE", "S_WEB_PAGE",
               "S_WEB_SITE"} :
        Shown(t) \subseteq {Built(t)}
  BY ColumnsOfOne
  DEF Shown, Fields, Built, pr_s_call_center, pr_s_promotion, pr_s_store, pr_s_warehouse,
      pr_s_web_page, pr_s_web_site
<1> QED BY <1>1, <1>2

(* A line item shows the number of its order too.                          *)
PrintKinds == {"key", "id", "integer", "decimal", "varchar", "date"}
PrintCalls == [print : PrintKinds, place : Nat]

InColumnsOf(s, p, q) == \A i \in DOMAIN s : s[i].table \in {p, q}

LEMMA ColumnsOfTwo ==
  ASSUME NEW p, NEW q, NEW a \in Seq(PrintCalls), NEW b \in Seq(PrintCalls),
         NEW c \in Seq(PrintCalls)
  PROVE  InColumnsOf(Of(p, a) \o Of(q, b) \o Of(p, c), p, q)
<1> DEFINE s == Of(p, a) \o Of(q, b) \o Of(p, c)
<1> DEFINE Cols == [print : PrintKinds, table : {p, q}, place : Nat]
<1>1. ASSUME NEW n \in {p, q}, NEW f \in Seq(PrintCalls) PROVE Of(n, f) \in Seq(Cols)
  <2> DEFINE e(i) == [print |-> f[i].print, table |-> n, place |-> f[i].place]
  <2>1. DOMAIN f = 1 .. Len(f) /\ Len(f) \in Nat
    OBVIOUS
  <2>2. \A i \in 1 .. Len(f) : e(i) \in Cols
    <3>1. \A i \in 1 .. Len(f) : f[i] \in PrintCalls
      BY <2>1
    <3> QED BY <3>1 DEF PrintCalls
  <2>3. Of(n, f) = [i \in DOMAIN f |-> e(i)]
    BY DEF Of
  <2> HIDE DEF e, Cols
  <2> QED BY <2>1, <2>2, <2>3
<1>2. s \in Seq(Cols)
  <2>1. Of(p, a) \in Seq(Cols) /\ Of(q, b) \in Seq(Cols) /\ Of(p, c) \in Seq(Cols)
    BY <1>1
  <2> HIDE DEF Cols
  <2> QED BY <2>1
<1> HIDE DEF s
<1>3. \A i \in DOMAIN s : s[i] \in Cols
  <2> HIDE DEF Cols
  <2> QED BY <1>2
<1>4. InColumnsOf(s, p, q)
  BY <1>3 DEF InColumnsOf
<1> QED BY <1>4 DEF s

LEMMA CallsTyped ==
  ASSUME NEW print \in PrintKinds, NEW m \in Nat, NEW n \in Nat, m <= n
  PROVE  Calls(print, m, n) \in Seq(PrintCalls)
<1> DEFINE count == n + 1 - m
           call(i) == [print |-> print, place |-> m + i - 1]
<1>1. count \in Nat
  OBVIOUS
<1>2. \A i \in 1 .. count : call(i) \in PrintCalls
  BY DEF PrintCalls
<1>3. Calls(print, m, n) = [i \in 1 .. count |-> call(i)]
  BY DEF Calls
<1> HIDE DEF count, call
<1> QED BY <1>1, <1>2, <1>3

LEMMA LinesShown ==
  /\ Shown("S_PURCHASE_LINEITEM") \subseteq {"S_PURCHASE_LINEITEM", "S_PURCHASE"}
  /\ Shown("S_CATALOG_ORDER_LINEITEM") \subseteq {"S_CATALOG_ORDER_LINEITEM", "S_CATALOG_ORDER"}
  /\ Shown("S_WEB_ORDER_LINEITEM") \subseteq {"S_WEB_ORDER_LINEITEM", "S_WEB_ORDER"}
<1>1. \A print \in PrintKinds, i \in 1 .. 11 : Calls(print, i, i) \in Seq(PrintCalls)
  <2> TAKE print \in PrintKinds, i \in 1 .. 11
  <2>1. i \in Nat /\ i <= i
    BY SMT
  <2> QED BY <2>1, CallsTyped, Zenon
<1>2. \A i \in 1 .. 11 :
        /\ id(i, i) \in Seq(PrintCalls) /\ integer(i, i) \in Seq(PrintCalls)
        /\ decimal(i, i) \in Seq(PrintCalls) /\ varchar(i, i) \in Seq(PrintCalls)
        /\ date(i, i) \in Seq(PrintCalls)
  BY <1>1, Zenon DEF PrintKinds, id, integer, decimal, varchar, date
<1>3. key(1, 2) \in Seq(PrintCalls) /\ key(8, 9) \in Seq(PrintCalls)
  <2>1. /\ 1 \in Nat /\ 2 \in Nat /\ 1 <= 2
        /\ 8 \in Nat /\ 9 \in Nat /\ 8 <= 9
    BY SMT
  <2> QED BY <2>1, CallsTyped, Zenon DEF PrintKinds, key
<1>4. \A a, b \in Seq(PrintCalls) : a \o b \in Seq(PrintCalls)
  OBVIOUS
<1>5. Shown("S_PURCHASE_LINEITEM") \subseteq {"S_PURCHASE_LINEITEM", "S_PURCHASE"}
  <2> DEFINE c == id(3, 3) \o integer(5, 5) \o decimal(4, 4) \o decimal(6, 6) \o varchar(7, 7)
  <2>0. id(10, 10) \in Seq(PrintCalls)
    BY <1>2
  <2>1. c \in Seq(PrintCalls)
    BY <1>2, <1>4
  <2>2. pr_s_pline = Of("S_PURCHASE_LINEITEM", key(1, 2)) \o Of("S_PURCHASE", id(10, 10))
                     \o Of("S_PURCHASE_LINEITEM", c)
    BY DEF pr_s_pline
  <2> HIDE DEF c
  <2>3. InColumnsOf(pr_s_pline, "S_PURCHASE_LINEITEM", "S_PURCHASE")
    BY <1>3, <2>0, <2>1, <2>2, ColumnsOfTwo, Zenon
  <2> QED BY <2>3 DEF InColumnsOf, Shown, Fields
<1>6. Shown("S_CATALOG_ORDER_LINEITEM") \subseteq {"S_CATALOG_ORDER_LINEITEM", "S_CATALOG_ORDER"}
  <2> DEFINE c == id(3, 3) \o integer(4, 4) \o decimal(10, 10) \o decimal(5, 5) \o id(6, 6)
                    \o date(7, 7) \o key(8, 9) \o decimal(11, 11)
  <2>0. id(8, 8) \in Seq(PrintCalls)
    BY <1>2
  <2>1. c \in Seq(PrintCalls)
    BY <1>2, <1>3, <1>4
  <2>2. pr_s_catalog_order_lineitem =
          Of("S_CATALOG_ORDER_LINEITEM", key(1, 2)) \o Of("S_CATALOG_ORDER", id(8, 8))
          \o Of("S_CATALOG_ORDER_LINEITEM", c)
    BY DEF pr_s_catalog_order_lineitem
  <2> HIDE DEF c
  <2>3. InColumnsOf(pr_s_catalog_order_lineitem, "S_CATALOG_ORDER_LINEITEM", "S_CATALOG_ORDER")
    BY <1>3, <2>0, <2>1, <2>2, ColumnsOfTwo, Zenon
  <2> QED BY <2>3 DEF InColumnsOf, Shown, Fields
<1>7. Shown("S_WEB_ORDER_LINEITEM") \subseteq {"S_WEB_ORDER_LINEITEM", "S_WEB_ORDER"}
  <2> DEFINE c == id(3, 3) \o integer(4, 4) \o decimal(9, 9) \o decimal(5, 5) \o id(6, 6)
                    \o date(7, 7) \o decimal(10, 10) \o id(8, 8)
  <2>0. id(9, 9) \in Seq(PrintCalls)
    BY <1>2
  <2>1. c \in Seq(PrintCalls)
    BY <1>2, <1>4
  <2>2. pr_s_web_order_lineitem =
          Of("S_WEB_ORDER_LINEITEM", key(1, 2)) \o Of("S_WEB_ORDER", id(9, 9))
          \o Of("S_WEB_ORDER_LINEITEM", c)
    BY DEF pr_s_web_order_lineitem
  <2> HIDE DEF c
  <2>3. InColumnsOf(pr_s_web_order_lineitem, "S_WEB_ORDER_LINEITEM", "S_WEB_ORDER")
    BY <1>3, <2>0, <2>1, <2>2, ColumnsOfTwo, Zenon
  <2> QED BY <2>3 DEF InColumnsOf, Shown, Fields
<1> QED BY <1>5, <1>6, <1>7

(* Of the columns a row shows only those of the table it is built for can  *)
(* be NULL.                                                                *)
LEMMA NullableBuilt ==
  ASSUME NEW t \in Tables
  PROVE  Shown(t) \subseteq Tables /\ Nullable(t) \subseteq {Built(t)}
  BY WarehouseShown, SourceShown, LinesShown DEF Nullable, Built, nNullPct, Tables, Fields

(* Before a row of t is printed the NULLs of its table have been drawn, if *)
(* it has any, and no row of that table has been printed since.            *)
DrawnFor(u, seq, k, D) ==
  \/ u \in D /\ \A h \in 1 .. k - 1 : seq[h] # PrintCall(u)
  \/ \E j \in 1 .. k - 1 : /\ seq[j] = SetCall(u)
                           /\ \A h \in j + 1 .. k - 1 : seq[h] # PrintCall(u)
Ready(seq, D) ==
  \A k \in 1 .. Len(seq), t \in Tables :
    seq[k] = PrintCall(t) => \A u \in Nullable(t) : DrawnFor(u, seq, k, D)

(* The calls are of tables, and a table's map is what was drawn for it; it *)
(* is empty if the table has no NULLs.                                     *)
BuilderCalls == {SetCall(t) : t \in Tables} \cup {PrintCall(t) : t \in Tables}
NullsInv ==
  /\ ahead \in Seq(Tables)
  /\ built \in Tables \cup {NoTable}
  /\ lineItems \in Nat /\ (lineItems > 0 => built \in DOMAIN ReturnsOf \cup DOMAIN LineOf)
  /\ calls \in Seq(BuilderCalls)
  /\ Ready(calls, DOMAIN drawn)
  /\ DOMAIN kNullBitMap = Tables
  /\ \A u \in Tables : ~(nNullPct(u) > 0) => kNullBitMap[u] = {}
  /\ \A u \in DOMAIN drawn :
       /\ u \in Tables
       /\ kNullBitMap[u] = nullSet(u, drawn[u].threshold, drawn[u].map)

LEMMA TablesAre ==
  /\ NoTable \notin Tables
  /\ DOMAIN ReturnsOf \subseteq Tables /\ DOMAIN LineOf \subseteq Tables
  /\ \A t \in DOMAIN ReturnsOf : ReturnsOf[t] \in Tables
  /\ \A t \in DOMAIN LineOf : LineOf[t] \in Tables /\ LineReturnsOf[t] \in Tables
  /\ \A t \in Tables : Built(t) \in Tables \cup {NoTable}
<1>1. NoTable \notin Tables /\ DOMAIN ReturnsOf \subseteq Tables /\ DOMAIN LineOf \subseteq Tables
  BY DEF NoTable, Tables, Fields, ReturnsOf, LineOf
<1>2. \A t \in DOMAIN ReturnsOf : ReturnsOf[t] \in Tables
  BY DEF Tables, Fields, ReturnsOf
<1>3. \A t \in DOMAIN LineOf : LineOf[t] \in Tables /\ LineReturnsOf[t] \in Tables
  BY DEF Tables, Fields, LineOf, LineReturnsOf
<1>4. \A t \in Tables : Built(t) \in Tables \cup {NoTable}
  BY DEF Tables, Fields, Built
<1> QED BY <1>1, <1>2, <1>3, <1>4

LEMMA NoNullsOfOrders ==
  \A t \in DOMAIN LineOf : /\ Nullable(t) = {} /\ Nullable(LineOf[t]) = {}
                           /\ Nullable(LineReturnsOf[t]) = {}
  BY NullableBuilt, TablesAre DEF Nullable, Built, nNullPct, LineOf, LineReturnsOf

LEMMA NullableOfSales ==
  \A t \in DOMAIN ReturnsOf : /\ t # ReturnsOf[t]
                              /\ Nullable(t) \subseteq {t}
                              /\ Nullable(ReturnsOf[t]) \subseteq {ReturnsOf[t]}
  BY NullableBuilt, TablesAre DEF Built, ReturnsOf

LEMMA RowReady ==
  ASSUME NEW t \in Tables
  PROVE  RowOf(t) \in Seq(BuilderCalls) /\ Ready(RowOf(t), {})
<1>1. Nullable(t) \subseteq {Built(t)} \cap Tables
  BY NullableBuilt DEF Nullable
<1>2. CASE Built(t) = NoTable
  <2>1. Nullable(t) = {}
    BY <1>1, <1>2, TablesAre
  <2>2. RowOf(t) = <<PrintCall(t)>>
    BY <1>2 DEF RowOf
  <2> QED BY <2>1, <2>2 DEF Ready, BuilderCalls, PrintCall, SetCall
<1>3. CASE Built(t) # NoTable
  <2>1. RowOf(t) = <<SetCall(Built(t)), PrintCall(t)>> /\ Built(t) \in Tables
    BY <1>3, TablesAre DEF RowOf
  <2> QED BY <1>1, <2>1 DEF Ready, DrawnFor, BuilderCalls, PrintCall, SetCall
<1> QED BY <1>2, <1>3

LEMMA SaleReady ==
  ASSUME NEW t \in DOMAIN ReturnsOf, NEW returned \in BOOLEAN, NEW D
  PROVE  Sale(t, returned) \in Seq(BuilderCalls) /\ Ready(Sale(t, returned), D)
<1> DEFINE r == ReturnsOf[t]
<1>1. t \in Tables /\ r \in Tables /\ t # r /\ Nullable(t) \subseteq {t} /\ Nullable(r) \subseteq {r}
  BY TablesAre, NullableOfSales
<1>2. CASE returned
  <2>1. Sale(t, returned) = <<SetCall(t), SetCall(r), PrintCall(r), PrintCall(t)>>
    BY <1>2 DEF Sale
  <2> HIDE DEF r
  <2> QED BY <1>1, <2>1 DEF Ready, DrawnFor, BuilderCalls, PrintCall, SetCall
<1>3. CASE ~returned
  <2>1. Sale(t, returned) = <<SetCall(t), PrintCall(t)>>
    BY <1>3 DEF Sale
  <2> QED BY <1>1, <2>1 DEF Ready, DrawnFor, BuilderCalls, PrintCall, SetCall
<1> QED BY <1>2, <1>3

LEMMA LineReady ==
  ASSUME NEW t \in DOMAIN LineOf, NEW returned \in BOOLEAN, NEW ends \in BOOLEAN, NEW D
  PROVE  OrderLine(t, returned, ends) \in Seq(BuilderCalls)
         /\ Ready(OrderLine(t, returned, ends), D)
<1> DEFINE l == LineOf[t]
           r == LineReturnsOf[t]
           seq == OrderLine(t, returned, ends)
<1>1. t \in Tables /\ l \in Tables /\ r \in Tables
      /\ Nullable(t) = {} /\ Nullable(l) = {} /\ Nullable(r) = {}
  BY TablesAre, NoNullsOfOrders
<1>2. \A S : {PrintCall(t), PrintCall(l), PrintCall(r)} \subseteq S => seq \in Seq(S)
  BY DEF OrderLine
<1>3. \A k \in 1 .. Len(seq) : seq[k] \in {PrintCall(t), PrintCall(l), PrintCall(r)}
  <2> DEFINE S == {PrintCall(t), PrintCall(l), PrintCall(r)}
  <2>1. seq \in Seq(S)
    BY <1>2
  <2> HIDE DEF S, seq
  <2>2. \A k \in 1 .. Len(seq) : seq[k] \in S
    BY <2>1
  <2> QED BY <2>2 DEF S
<1>4. seq \in Seq(BuilderCalls)
  <2>1. PrintCall(t) \in BuilderCalls /\ PrintCall(l) \in BuilderCalls /\ PrintCall(r) \in BuilderCalls
    BY <1>1 DEF BuilderCalls
  <2> QED BY <1>2, <2>1, Zenon
<1> HIDE DEF l, r, seq
<1>5. Ready(seq, D)
  BY <1>1, <1>3 DEF Ready, PrintCall
<1> QED BY <1>4, <1>5 DEF seq

LEMMA NothingDrawn == ASSUME NEW seq, Ready(seq, {}), NEW D PROVE Ready(seq, D)
  BY DEF Ready, DrawnFor

LEMMA AfterSet ==
  ASSUME NEW seq \in Seq(BuilderCalls), seq # <<>>, NEW t, Head(seq) = SetCall(t),
         NEW D, Ready(seq, D)
  PROVE  Ready(Tail(seq), D \cup {t})
<1> SUFFICES ASSUME NEW k \in 1 .. Len(Tail(seq)), NEW p \in Tables,
                    Tail(seq)[k] = PrintCall(p), NEW u \in Nullable(p)
             PROVE  DrawnFor(u, Tail(seq), k, D \cup {t})
  BY DEF Ready
<1>1. /\ Len(seq) \in Nat /\ Len(Tail(seq)) = Len(seq) - 1 /\ k + 1 \in 1 .. Len(seq)
      /\ \A i \in 1 .. Len(seq) - 1 : Tail(seq)[i] = seq[i + 1]
      /\ seq[1] = SetCall(t)
  OBVIOUS
<1>2. seq[k + 1] = PrintCall(p)
  BY <1>1
<1>3. DrawnFor(u, seq, k + 1, D)
  BY <1>1, <1>2 DEF Ready
<1>4. CASE u \in D /\ \A h \in 1 .. k : seq[h] # PrintCall(u)
  <2>1. \A h \in 1 .. k - 1 : Tail(seq)[h] # PrintCall(u)
    BY <1>1, <1>4
  <2> QED BY <1>4, <2>1 DEF DrawnFor
<1>5. ASSUME NEW j \in 1 .. k, seq[j] = SetCall(u), \A h \in j + 1 .. k : seq[h] # PrintCall(u)
      PROVE  DrawnFor(u, Tail(seq), k, D \cup {t})
  <2>1. CASE j = 1
    <3>1. u = t
      BY <1>1, <1>5, <2>1 DEF SetCall
    <3>2. \A h \in 1 .. k - 1 : Tail(seq)[h] # PrintCall(u)
      BY <1>1, <1>5, <2>1
    <3> QED BY <3>1, <3>2 DEF DrawnFor
  <2>2. CASE j # 1
    <3>1. j - 1 \in 1 .. k - 1 /\ Tail(seq)[j - 1] = SetCall(u)
      BY <1>1, <1>5, <2>2
    <3>2. \A h \in (j - 1) + 1 .. k - 1 : Tail(seq)[h] # PrintCall(u)
      BY <1>1, <1>5
    <3> QED BY <3>1, <3>2 DEF DrawnFor
  <2> QED BY <2>1, <2>2
<1> QED BY <1>3, <1>4, <1>5 DEF DrawnFor

LEMMA AfterPrint ==
  ASSUME NEW seq \in Seq(BuilderCalls), seq # <<>>, NEW t, Head(seq) = PrintCall(t),
         NEW D, Ready(seq, D)
  PROVE  Ready(Tail(seq), D \ {t})
<1> SUFFICES ASSUME NEW k \in 1 .. Len(Tail(seq)), NEW p \in Tables,
                    Tail(seq)[k] = PrintCall(p), NEW u \in Nullable(p)
             PROVE  DrawnFor(u, Tail(seq), k, D \ {t})
  BY DEF Ready
<1>1. /\ Len(seq) \in Nat /\ Len(Tail(seq)) = Len(seq) - 1 /\ k + 1 \in 1 .. Len(seq)
      /\ \A i \in 1 .. Len(seq) - 1 : Tail(seq)[i] = seq[i + 1]
      /\ seq[1] = PrintCall(t)
  OBVIOUS
<1>2. seq[k + 1] = PrintCall(p)
  BY <1>1
<1>3. DrawnFor(u, seq, k + 1, D)
  BY <1>1, <1>2 DEF Ready
<1>4. CASE u \in D /\ \A h \in 1 .. k : seq[h] # PrintCall(u)
  <2>1. u # t
    BY <1>1, <1>4
  <2>2. \A h \in 1 .. k - 1 : Tail(seq)[h] # PrintCall(u)
    BY <1>1, <1>4
  <2> QED BY <1>4, <2>1, <2>2 DEF DrawnFor
<1>5. ASSUME NEW j \in 1 .. k, seq[j] = SetCall(u), \A h \in j + 1 .. k : seq[h] # PrintCall(u)
      PROVE  DrawnFor(u, Tail(seq), k, D \ {t})
  <2>1. j # 1
    BY <1>1, <1>5 DEF SetCall, PrintCall
  <2>2. j - 1 \in 1 .. k - 1 /\ Tail(seq)[j - 1] = SetCall(u)
    BY <1>1, <1>5, <2>1
  <2>3. \A h \in (j - 1) + 1 .. k - 1 : Tail(seq)[h] # PrintCall(u)
    BY <1>1, <1>5
  <2> QED BY <2>2, <2>3 DEF DrawnFor
<1> QED BY <1>3, <1>4, <1>5 DEF DrawnFor

LEMMA NullsInit == PrintInit => NullsInv
<1> SUFFICES ASSUME PrintInit PROVE NullsInv
  OBVIOUS
<1>1. /\ ahead \in Seq(Tables) /\ built = NoTable /\ lineItems = 0 /\ calls = <<>>
      /\ DOMAIN drawn = {} /\ DOMAIN kNullBitMap = Tables
  BY MapsAssumption DEF PrintInit
<1>2. calls \in Seq(BuilderCalls) /\ Ready(calls, DOMAIN drawn)
  BY <1>1 DEF Ready
<1>3. \A u \in Tables : ~(nNullPct(u) > 0) => kNullBitMap[u] = {}
  <2>1. nNullPct("WEB_SALES") > 0
    BY DEF nNullPct
  <2>2. \A u \in Tables : u # "WEB_SALES" => kNullBitMap[u] = {}
    BY DEF PrintInit
  <2> QED BY <2>1, <2>2
<1> QED BY <1>1, <1>2, <1>3 DEF NullsInv

LEMMA Percentages == \A t : nNullPct(t) \in Nat
  BY DEF nNullPct

(* Only a draw changes what is drawn of a table and its map.               *)
LEMMA NullsKept == NullsInv /\ [PrintNext]_printVars => NullsInv'
<1> SUFFICES ASSUME NullsInv, [PrintNext]_printVars PROVE NullsInv'
  OBVIOUS
<1> USE DEF NullsInv
<1>1. CASE NextTable
  <2>1. ahead' \in Seq(Tables) /\ built' \in Tables
    BY <1>1 DEF NextTable
  <2>2. lineItems' = 0
    BY <1>1, TablesAre DEF NextTable
  <2> QED BY <1>1, <2>1, <2>2 DEF NextTable
<1>2. CASE NextRow
  <2>1. built \in Tables /\ DOMAIN drawn' = {}
    BY <1>2 DEF NextRow
  <2>2. /\ calls' \in Seq(BuilderCalls) /\ Ready(calls', {})
        /\ lineItems' \in Nat /\ (lineItems' > 0 => built \in DOMAIN ReturnsOf \cup DOMAIN LineOf)
    <3>1. CASE built \in DOMAIN ReturnsOf \cup DOMAIN LineOf
      <4>1. calls' = <<>> /\ lineItems' \in 1 .. MaxLine /\ MaxLine \in Nat
        BY <1>2, <3>1, MapsAssumption DEF NextRow
      <4> QED BY <3>1, <4>1 DEF Ready
    <3>2. CASE built \notin DOMAIN ReturnsOf \cup DOMAIN LineOf
      <4>1. calls' = RowOf(built) /\ lineItems' = 0
        BY <1>2, <3>2 DEF NextRow
      <4> QED BY <2>1, <4>1, RowReady
    <3> QED BY <3>1, <3>2
  <2> QED BY <1>2, <2>1, <2>2 DEF NextRow
<1>3. CASE NextLine
  <2>1. lineItems' \in Nat
    BY <1>3 DEF NextLine
  <2>2. calls' \in Seq(BuilderCalls) /\ Ready(calls', DOMAIN drawn)
    <3>1. PICK returned \in BOOLEAN :
            calls' = IF built \in DOMAIN ReturnsOf THEN Sale(built, returned)
                     ELSE OrderLine(built, returned, lineItems = 1)
      BY <1>3 DEF NextLine
    <3>2. CASE built \in DOMAIN ReturnsOf
      BY <3>1, <3>2, SaleReady
    <3>3. CASE built \notin DOMAIN ReturnsOf
      <4>1. built \in DOMAIN LineOf /\ (lineItems = 1) \in BOOLEAN
        BY <1>3, <3>3 DEF NextLine
      <4> QED BY <3>1, <3>3, <4>1, LineReady
    <3> QED BY <3>2, <3>3
  <2> QED BY <1>3, <2>1, <2>2 DEF NextLine
<1>4. CASE SetNulls
  <2>1. PICK t \in Tables : Head(calls) = SetCall(t)
    BY <1>4 DEF SetNulls, BuilderCalls, PrintCall, SetCall
  <2>2. Head(calls).table = t
    BY <2>1 DEF SetCall
  <2>3. PICK threshold \in Thresholds, map \in Maps :
          /\ kNullBitMap' = [kNullBitMap EXCEPT ![Head(calls).table] =
                               nullSet(Head(calls).table, threshold, map)]
          /\ drawn' = [u \in DOMAIN drawn \cup {Head(calls).table} |->
                         IF u = Head(calls).table THEN [threshold |-> threshold, map |-> map]
                         ELSE drawn[u]]
    BY <1>4, Zenon DEF SetNulls
  <2>4. /\ kNullBitMap' = [kNullBitMap EXCEPT ![t] = nullSet(t, threshold, map)]
        /\ drawn' = [u \in DOMAIN drawn \cup {t} |->
                       IF u = t THEN [threshold |-> threshold, map |-> map] ELSE drawn[u]]
    <3> HIDE DEF NullsInv
    <3> QED BY <2>2, <2>3
  <2>5. calls # <<>> /\ calls' = Tail(calls)
    BY <1>4 DEF SetNulls
  <2>6. Ready(calls', DOMAIN drawn')
    BY <2>1, <2>4, <2>5, AfterSet
  <2>7. calls' \in Seq(BuilderCalls)
    BY <2>5
  <2>8. \A u \in Tables : ~(nNullPct(u) > 0) => kNullBitMap'[u] = {}
    <3>1. threshold \in Nat /\ nNullPct(t) \in Nat
      <4> HIDE DEF NullsInv
      <4>1. threshold \in 0 .. 9999
        BY MapsAssumption
      <4> QED BY <4>1, Percentages
    <3>2. ~(nNullPct(t) > 0) => ~(threshold < nNullPct(t))
      BY <3>1
    <3>3. ~(nNullPct(t) > 0) => nullSet(t, threshold, map) = {}
      BY <3>2 DEF nullSet
    <3> QED BY <2>1, <2>4, <3>3
  <2>9. \A u \in DOMAIN drawn' :
          /\ u \in Tables
          /\ kNullBitMap'[u] = nullSet(u, drawn'[u].threshold, drawn'[u].map)
    BY <2>1, <2>4
  <2> QED BY <1>4, <2>4, <2>6, <2>7, <2>8, <2>9 DEF SetNulls
<1>5. CASE PrintRow
  <2>1. PICK t \in Tables : Head(calls) = PrintCall(t)
    BY <1>5 DEF PrintRow, BuilderCalls, PrintCall, SetCall
  <2>2. /\ calls # <<>> /\ calls' = Tail(calls)
        /\ drawn' = [u \in DOMAIN drawn \ {t} |-> drawn[u]]
    BY <1>5, <2>1 DEF PrintRow, PrintCall
  <2>3. Ready(calls', DOMAIN drawn') /\ calls' \in Seq(BuilderCalls)
    BY <2>1, <2>2, AfterPrint
  <2> QED BY <1>5, <2>2, <2>3 DEF PrintRow
<1>6. CASE TableBuilt
  BY <1>6 DEF TableBuilt, RowOver
<1>7. CASE UNCHANGED printVars
  BY <1>7 DEF printVars
<1> QED BY <1>1, <1>2, <1>3, <1>4, <1>5, <1>6, <1>7 DEF PrintNext, AllBuilt

(* What is empty of a row is of a table that has NULLs, whose draws then   *)
(* are at hand.                                                            *)
LEMMA EmptyDrawn ==
  ASSUME NullsInv, PrintRow, NEW i \in written'.empty
  PROVE  LET t == written'.table
             u == Fields[t][i].table
         IN /\ t \in Tables /\ i \in DOMAIN Fields[t]
            /\ u \in DOMAIN written'.drawn /\ nNullPct(u) > 0
            /\ Fields[t][i].place - 1 \in
                 nullSet(u, written'.drawn[u].threshold, written'.drawn[u].map)
<1>1. PICK t \in Tables : Head(calls) = PrintCall(t)
  BY DEF NullsInv, PrintRow, BuilderCalls, PrintCall, SetCall
<1>2. written' = [table |-> t, empty |-> Empty(t), drawn |-> drawn]
  BY <1>1 DEF PrintRow, PrintCall
<1> DEFINE u == Fields[t][i].table
<1>3. i \in DOMAIN Fields[t] /\ Fields[t][i].place - 1 \in kNullBitMap[u]
  BY <1>2 DEF Empty, nullCheck
<1>4. u \in Shown(t) /\ u \in Tables
  BY <1>3, NullableBuilt DEF Shown
<1>5. nNullPct(u) > 0
  BY <1>3, <1>4 DEF NullsInv
<1>6. DrawnFor(u, calls, 1, DOMAIN drawn)
  <2>1. calls[1] = PrintCall(t) /\ 1 \in 1 .. Len(calls)
    BY <1>1 DEF PrintRow, NullsInv
  <2>2. u \in Nullable(t)
    BY <1>4, <1>5 DEF Nullable
  <2> QED BY <2>1, <2>2 DEF NullsInv, Ready
<1>7. u \in DOMAIN drawn
  BY <1>6 DEF DrawnFor
<1> QED BY <1>2, <1>3, <1>5, <1>7 DEF NullsInv

LEMMA NullsInvariant == PrintSpec => []NullsInv
  BY NullsInit, NullsKept, PTL DEF PrintSpec

LEMMA NoRowAtFirst == PrintInit => written.table = NoTable
  BY DEF PrintInit

(* Whatever tables a process builds, however many rows and line items, and *)
(* whatever it draws, the empty fields of a row are those of the map drawn *)
(* for this row.                                                           *)
THEOREM NullsAreDrawn == PrintSpec => []NullsOfThisRow
<1>1. PrintInit => NullsOfThisRow
  BY NoRowAtFirst DEF NullsOfThisRow
<1>2. NullsInv /\ NullsOfThisRow /\ [PrintNext]_printVars => NullsOfThisRow'
  <2> SUFFICES ASSUME NullsInv, NullsOfThisRow, [PrintNext]_printVars PROVE NullsOfThisRow'
    OBVIOUS
  <2>1. CASE UNCHANGED written
    BY <2>1 DEF NullsOfThisRow
  <2>2. CASE PrintRow
    <3> SUFFICES ASSUME NEW i \in written'.empty
                 PROVE  LET field == Fields[written'.table][i] IN
                        /\ field.table \in DOMAIN written'.drawn
                        /\ written'.drawn[field.table].threshold < nNullPct(field.table)
                        /\ field.place - 1 \in written'.drawn[field.table].map
      BY DEF NullsOfThisRow
    <3> QED BY <2>2, EmptyDrawn DEF nullSet
  <2> QED
    BY <2>1, <2>2 DEF PrintNext, NextTable, NextRow, NextLine, SetNulls, TableBuilt, AllBuilt,
       printVars
<1> QED BY <1>1, <1>2, NullsInvariant, PTL DEF PrintSpec

(* A row can be loaded into its table, whatever a process builds and draws *)
(* before it, if its print function has the declared columns and the       *)
(* table's mask those that are NOT NULL.                                   *)
THEOREM RowsCanBeLoaded == TablesAreDeclared => (PrintSpec => []RowsAsDeclared)
<1> SUFFICES ASSUME TablesAreDeclared PROVE PrintSpec => []RowsAsDeclared
  OBVIOUS
<1>1. PrintInit => RowsAsDeclared
  BY NoRowAtFirst DEF RowsAsDeclared
<1>2. NullsInv /\ RowsAsDeclared /\ [PrintNext]_printVars => RowsAsDeclared'
  <2> SUFFICES ASSUME NullsInv, RowsAsDeclared, [PrintNext]_printVars PROVE RowsAsDeclared'
    OBVIOUS
  <2>1. CASE UNCHANGED written
    BY <2>1 DEF RowsAsDeclared
  <2>2. CASE PrintRow
    <3>1. PICK t \in Tables : written'.table = t
      BY <2>2 DEF NullsInv, PrintRow, BuilderCalls, PrintCall, SetCall
    <3>2. FieldsAsDeclared(t)
      BY <3>1 DEF TablesAreDeclared
    <3>3. ASSUME NEW i \in written'.empty, i \in NotNull[t] PROVE FALSE
      <4> DEFINE field == Fields[t][i]
      <4>1. /\ i \in DOMAIN Fields[t] /\ nNullPct(field.table) > 0
            /\ field.place - 1 \notin kNotNullBitMap(field.table)
        BY <2>2, <3>1, EmptyDrawn DEF nullSet
      <4> QED BY <3>1, <3>3, <4>1 DEF TablesAreDeclared
    <3> QED BY <3>1, <3>2, <3>3 DEF RowsAsDeclared
  <2> QED
    BY <2>1, <2>2 DEF PrintNext, NextTable, NextRow, NextLine, SetNulls, TableBuilt, AllBuilt,
       printVars
<1> QED BY <1>1, <1>2, NullsInvariant, PTL DEF PrintSpec
=============================================================================
