----------------------------- MODULE MCJavaBuild -----------------------------
(***************************************************************************)
(* The tables of the port in its order, at a scale between two volumes:    *)
(* those that reach a million rows have 5 to 10 and are divided in two,    *)
(* the others 2 to 4.  A few are built at other scales as well.            *)
(***************************************************************************)
EXTENDS JavaBuild, Texts

MCBaseTables ==
  <<"CALL_CENTER", "CATALOG_PAGE", "CATALOG_RETURNS", "CATALOG_SALES",
    "CUSTOMER", "CUSTOMER_ADDRESS", "CUSTOMER_DEMOGRAPHICS", "DATE_DIM",
    "HOUSEHOLD_DEMOGRAPHICS", "INCOME_BAND", "INVENTORY", "ITEM", "PROMOTION",
    "REASON", "SHIP_MODE", "STORE", "STORE_RETURNS", "STORE_SALES", "TIME_DIM",
    "WAREHOUSE", "WEB_PAGE", "WEB_RETURNS", "WEB_SALES", "WEB_SITE",
    "DBGEN_VERSION">>

Large ==
  {"CATALOG_RETURNS", "CATALOG_SALES", "CUSTOMER", "CUSTOMER_ADDRESS",
   "CUSTOMER_DEMOGRAPHICS", "INVENTORY", "STORE_RETURNS", "STORE_SALES",
   "WEB_RETURNS", "WEB_SALES"}

(* The models are those of scaling.dst.  Web sites get fewer with a larger *)
(* volume, as they do from 10 to 100 GB; returns go with their sales.  As  *)
(* in the kit, a table whose rows may overdraw a stream is never divided.  *)
MCVolumes == <<1, 4, 8>>
Static == [counts |-> <<3, 3, 3>>, multiplier |-> 0, model |-> "static"]
Linear == [counts |-> <<2, 3, 6>>, multiplier |-> 0, model |-> "linear"]
Log(counts) == [counts |-> counts, multiplier |-> 0, model |-> "log"]
MCrowcounts ==
  [t \in {MCBaseTables[i] : i \in DOMAIN MCBaseTables} |->
     CASE t \in {"CUSTOMER", "CUSTOMER_ADDRESS"} -> Log(<<3, 6, 14>>)
       [] t = "CUSTOMER_DEMOGRAPHICS" ->
            [counts |-> <<1, 1, 1>>, multiplier |-> 1, model |-> "static"]
       [] t \in Large \ {"INVENTORY"} -> Linear
       [] t = "CALL_CENTER" -> Log(<<2, 2, 2>>)
       [] t \in {"ITEM", "STORE", "WEB_PAGE"} -> Log(<<2, 2, 4>>)
       [] t = "WEB_SITE" -> Log(<<2, 3, 1>>)
       [] t \in {"PROMOTION", "REASON", "WAREHOUSE"} -> Log(<<2, 3, 5>>)
       [] OTHER -> Static]

MCVersioned == {"CALL_CENTER", "ITEM", "STORE", "WEB_PAGE", "WEB_SITE"}

(* An order has 8..16, 4..14 or 8..16 lines.                               *)
MCLines ==
  [STORE_SALES |-> {8, 16}, CATALOG_SALES |-> {4, 14}, WEB_SALES |-> {8, 16}]

(* The whole and both halves; every table alone; with old files or         *)
(* without; and at the scale of a volume, or just off one.                 *)
Command(scale, n, chunk, only, overwrite) ==
  [scale |-> scale, parallelism |-> n, chunk |-> chunk, only |-> only,
   overwrite |-> overwrite]
MCSessions ==
  {Command(5, 2, chunk, only, FALSE) : chunk \in {1, 2}, only \in {None} \cup Large}
  \cup {Command(5, 1, 1, only, overwrite) :
          only \in {None, "STORE_SALES", "STORE_RETURNS"}, overwrite \in BOOLEAN}
  \cup {Command(scale, 2, chunk, only, FALSE) :
          scale \in {1, 3, 7, 8}, chunk \in {1, 2},
          only \in {"CUSTOMER", "INVENTORY", "WEB_SITE", "WEB_RETURNS"}}
MCOldFiles == {{}, {"STORE_RETURNS"}, {"STORE_SALES", "ITEM"}}

(* Texts of a longest length of 20, 50, 60, 99, 100 and 200 characters, as *)
(* gen_text() draws them.                                                  *)
MCTextLeast ==
  [len \in {20, 50, 60, 99, 100, 200} |-> IF len = 99 THEN 6 ELSE 5]
MCTextMost  ==
  [len \in {20, 50, 60, 99, 100, 200} |->
     CASE len = 20 -> 21 [] len = 50  -> 36 [] len = 60  -> 41
       [] len = 99 -> 60 [] len = 100 -> 61 [] len = 200 -> 110]
ASSUME TextsAsDrawn == MCTextLeast = LeastDrawn /\ MCTextMost = MostDrawn

(* The tables agree, at the scales of the sessions.                        *)
ASSUME TablesAlike == CountsAlike /\ SeedsAlike /\ RowsFit
==============================================================================
