---------------------------- MODULE MCRowBuilders ----------------------------
(***************************************************************************)
(* Every table dsdgen builds, in its order.                                *)
(***************************************************************************)
EXTENDS RowBuilders, Texts

MCWarehouse ==
  <<"CALL_CENTER", "CATALOG_PAGE", "CATALOG_SALES", "CUSTOMER",
    "CUSTOMER_ADDRESS", "CUSTOMER_DEMOGRAPHICS", "DATE",
    "HOUSEHOLD_DEMOGRAPHICS", "INCOME_BAND", "INVENTORY", "ITEM", "PROMOTION",
    "REASON", "SHIP_MODE", "STORE", "STORE_SALES", "TIME", "WAREHOUSE",
    "WEB_PAGE", "WEB_SALES", "WEB_SITE", "DBGEN_VERSION">>

(* The update tables but S_CUSTOMER_ADDRESS: S_CUSTOMER uses its streams   *)
(* again, and has other addresses when it is built alone.                  *)
MCSource ==
  <<"S_CALL_CENTER", "S_CATALOG_ORDER", "S_CATALOG_PAGE", "S_CUSTOMER",
    "S_INVENTORY", "S_ITEM", "S_PROMOTION", "S_PURCHASE", "S_STORE",
    "S_WAREHOUSE", "S_WEB_ORDER", "S_WEB_PAGE", "S_WEB_SITE", "S_ZIPG">>

(* The sales, inventory and customers reach a million rows.  (The orders   *)
(* of an update would too, at large scales; their chunks are not those of  *)
(* a serial build: two of their three levels of tables are skipped in.)    *)
MCDivided ==
  {"CATALOG_SALES", "CUSTOMER", "CUSTOMER_ADDRESS", "CUSTOMER_DEMOGRAPHICS",
   "INVENTORY", "STORE_SALES", "WEB_SALES", "S_INVENTORY"}

(* Nothing random is printed of a date.                                    *)
MCValidated ==
  {MCWarehouse[i] : i \in DOMAIN MCWarehouse} \ {"DATE", "DBGEN_VERSION"}

MCVersioned == {"CALL_CENTER", "ITEM", "STORE", "WEB_PAGE", "WEB_SITE"}

(* An order has 8..16, 4..14 or 8..16 lines; of an update 12, 9 or 12.     *)
MCLines ==
  [STORE_SALES |-> {8, 16}, CATALOG_SALES |-> {4, 14}, WEB_SALES |-> {8, 16},
   S_PURCHASE |-> {12}, S_CATALOG_ORDER |-> {9}, S_WEB_ORDER |-> {12}]

(* Texts of a longest length of 20, 50, 60, 99, 100 and 200 characters, as *)
(* gen_text() draws them.                                                  *)
MCTextLeast ==
  [len \in {20, 50, 60, 99, 100, 200} |-> IF len = 99 THEN 6 ELSE 5]
MCTextMost  ==
  [len \in {20, 50, 60, 99, 100, 200} |->
     CASE len = 20 -> 21 [] len = 50  -> 36 [] len = 60  -> 41
       [] len = 99 -> 60 [] len = 100 -> 61 [] len = 200 -> 110]
ASSUME TextsAsDrawn == MCTextLeast = LeastDrawn /\ MCTextMost = MostDrawn

FirstRowSet == {2, 3}

(* Every stream of Overdrawn is overdrawn by some row.                     *)
ASSUME OverdrawnAre ==
  \A s \in Overdrawn : \E t \in KitTables : \E c \in CasesOf(t) :
    Copies(s, Draws(t, c)) > Budget[s]

(* What the proofs assume of the tables, streams and draws of the kit.     *)
ASSUME KitAsAssumed == KitIsSound
===============================================================================
