---------------------------- MODULE MCPrintedRows ----------------------------
(***************************************************************************)
(* The tables of a data build and of an update, each alone and every two,  *)
(* one after the other.                                                    *)
(***************************************************************************)
EXTENDS PrintedRows

Warehouse ==
  <<"CALL_CENTER", "CATALOG_PAGE", "CATALOG_SALES", "CUSTOMER",
    "CUSTOMER_ADDRESS", "CUSTOMER_DEMOGRAPHICS", "DATE",
    "HOUSEHOLD_DEMOGRAPHICS", "INCOME_BAND", "INVENTORY", "ITEM", "PROMOTION",
    "REASON", "SHIP_MODE", "STORE", "STORE_SALES", "TIME", "WAREHOUSE",
    "WEB_PAGE", "WEB_SALES", "WEB_SITE", "DBGEN_VERSION">>

Source ==
  <<"S_CUSTOMER_ADDRESS", "S_CALL_CENTER", "S_CATALOG_ORDER", "S_CATALOG_PAGE",
    "S_CUSTOMER", "S_INVENTORY", "S_ITEM", "S_PROMOTION", "S_PURCHASE",
    "S_STORE", "S_WAREHOUSE", "S_WEB_ORDER", "S_WEB_PAGE", "S_WEB_SITE",
    "S_ZIPG">>

(* One table, or two one after the other.                                  *)
Some(order) ==
  {<<order[i]>> : i \in DOMAIN order} \cup
  UNION {{<<order[i], order[j]>> : j \in i + 1 .. Len(order)} : i \in DOMAIN order}
MCOrders == Some(Warehouse) \cup Some(Source)

(* Every bit, and the bits of the even columns.                            *)
MCMaps == {0 .. 30, {2 * i : i \in 0 .. 15}}

ASSUME KitIsDeclared == TablesAreDeclared
==============================================================================
