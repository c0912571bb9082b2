--------------------------- MODULE PrintFunctions ---------------------------
(***************************************************************************)
(* The rows of the files: the fields each print function of dsdgen writes, *)
(* in order, and the columns tpcds.sql and tpcds_source.sql declare for    *)
(* the file's table.                                                       *)
(*                                                                         *)
(* A field is written by print_key(), print_varchar(), ... and names a     *)
(* column of column_list.txt: mkheader numbers the columns of a table from *)
(* one number on, so that a column is the table it is listed under and its *)
(* place there.  What is written of the value is left out.                 *)
(***************************************************************************)
EXTENDS Naturals, Sequences, TLC

(* The calls for the columns at places first to last.                      *)
Calls(print, first, last) ==
  [i \in 1 .. (last + 1 - first) |-> [print |-> print, place |-> first + i - 1]]

key(i, j)     == Calls("key", i, j)
id(i, j)      == Calls("id", i, j)
integer(i, j) == Calls("integer", i, j)
decimal(i, j) == Calls("decimal", i, j)
varchar(i, j) == Calls("varchar", i, j)
boolean(i, j) == Calls("boolean", i, j)
date(i, j)    == Calls("date", i, j)
time(i, j)    == Calls("time", i, j)

(* The same column n times: the parts of an address or of a price.         *)
Repeated(n, call) == [i \in 1 .. n |-> call[1]]

(* Fields whose columns are those of a table.                              *)
Of(name, fields) ==
  [i \in DOMAIN fields |->
     [print |-> fields[i].print, table |-> name, place |-> fields[i].place]]

-----------------------------------------------------------------------------
(* The tables of the data warehouse.                                       *)
pr_w_call_center ==
  Of("CALL_CENTER", key(1, 1) \o varchar(2, 2) \o date(3, 4) \o key(5, 6)
    \o varchar(7, 8) \o integer(9, 10) \o varchar(11, 12) \o integer(13, 13)
    \o varchar(14, 16) \o integer(17, 17) \o varchar(18, 18) \o integer(19, 19)
    \o varchar(20, 20) \o integer(31, 31) \o Repeated(8, varchar(31, 31))
    \o integer(31, 31) \o decimal(32, 32))
pr_w_catalog_page ==
  Of("CATALOG_PAGE", key(1, 1) \o varchar(2, 2) \o key(3, 4) \o varchar(6, 6)
    \o integer(7, 8) \o varchar(9, 10))
pr_w_catalog_returns ==
  Of("CATALOG_RETURNS", key(1, 17) \o integer(18, 18) \o decimal(19, 27))
pr_w_catalog_sales ==
  Of("CATALOG_SALES", key(1, 18) \o integer(19, 19) \o decimal(20, 22)
    \o decimal(25, 25) \o decimal(24, 24) \o decimal(26, 28) \o decimal(23, 23)
    \o decimal(29, 34))
pr_w_customer ==
  Of("CUSTOMER", key(1, 1) \o varchar(2, 2) \o key(3, 5) \o integer(6, 7)
    \o varchar(8, 10) \o boolean(11, 11) \o integer(12, 14) \o varchar(15, 17)
    \o integer(18, 18))
pr_w_customer_address ==
  Of("CUSTOMER_ADDRESS", key(1, 1) \o varchar(2, 2) \o integer(3, 3)
    \o varchar(4, 11) \o integer(12, 12) \o varchar(13, 13))
pr_w_customer_demographics ==
  Of("CUSTOMER_DEMOGRAPHICS", key(1, 1) \o varchar(2, 4) \o integer(5, 5)
    \o varchar(6, 6) \o integer(7, 9))
pr_w_date ==
  Of("DATE", key(1, 1) \o varchar(2, 2) \o date(1, 1) \o integer(4, 14)
    \o varchar(15, 16) \o boolean(17, 19) \o integer(20, 23)
    \o boolean(24, 28))
pr_w_household_demographics ==
  Of("HOUSEHOLD_DEMOGRAPHICS", key(1, 2) \o varchar(3, 3) \o integer(4, 5))
pr_w_income_band ==
  Of("INCOME_BAND", integer(1, 3))
pr_w_inventory ==
  Of("INVENTORY", key(1, 3) \o integer(4, 4))
pr_w_item ==
  Of("ITEM", key(1, 1) \o varchar(2, 2) \o date(3, 4) \o varchar(5, 5)
    \o decimal(6, 7) \o key(8, 8) \o varchar(9, 9) \o key(10, 10)
    \o varchar(11, 11) \o key(12, 12) \o varchar(13, 13) \o key(14, 14)
    \o varchar(15, 20) \o key(21, 21) \o varchar(22, 22))
pr_w_promotion ==
  Of("PROMOTION", key(1, 1) \o varchar(2, 2) \o key(3, 5) \o decimal(6, 6)
    \o integer(7, 7) \o varchar(8, 8) \o boolean(9, 16) \o varchar(17, 18)
    \o boolean(19, 19))
pr_w_reason ==
  Of("REASON", key(1, 1) \o varchar(2, 3))
pr_w_ship_mode ==
  Of("SHIP_MODE", key(1, 1) \o varchar(2, 4) \o varchar(6, 6) \o varchar(5, 5))
pr_w_store ==
  Of("STORE", key(1, 1) \o varchar(2, 2) \o date(3, 4) \o key(5, 5)
    \o varchar(6, 6) \o integer(7, 8) \o varchar(9, 10) \o integer(11, 11)
    \o varchar(13, 15) \o key(16, 16) \o varchar(17, 17) \o key(18, 18)
    \o varchar(19, 19) \o integer(20, 20) \o varchar(21, 28) \o integer(29, 29)
    \o decimal(12, 12))
pr_w_store_returns ==
  Of("STORE_RETURNS", key(1, 10) \o integer(11, 11) \o decimal(12, 20))
pr_w_store_sales ==
  Of("STORE_SALES", key(1, 10) \o integer(11, 11) \o decimal(12, 19)
    \o decimal(15, 15) \o decimal(20, 22))
pr_w_time ==
  Of("TIME", key(1, 1) \o varchar(2, 2) \o integer(3, 6) \o varchar(7, 10))
pr_w_warehouse ==
  Of("WAREHOUSE", key(1, 1) \o varchar(2, 3) \o integer(4, 5) \o varchar(6, 13)
    \o integer(14, 14))
pr_w_web_page ==
  Of("WEB_PAGE", key(1, 1) \o varchar(2, 2) \o date(3, 4) \o key(5, 6)
    \o boolean(7, 7) \o key(8, 8) \o varchar(9, 10) \o integer(11, 14))
pr_w_web_returns ==
  Of("WEB_RETURNS", key(1, 14) \o integer(15, 15) \o decimal(16, 24))
pr_w_web_sales ==
  Of("WEB_SALES", key(1, 18) \o integer(19, 19) \o decimal(20, 34))
pr_w_web_site ==
  Of("WEB_SITE", key(1, 1) \o varchar(2, 2) \o date(3, 4) \o varchar(5, 5)
    \o key(6, 7) \o varchar(8, 9) \o integer(10, 10) \o varchar(11, 13)
    \o integer(14, 14) \o varchar(15, 15) \o integer(16, 16) \o varchar(17, 24)
    \o integer(25, 25) \o decimal(26, 26))
pr_dbgen_version ==
  Of("DBGEN_VERSION", varchar(1, 4))

-----------------------------------------------------------------------------
(* The source tables of an update.  Some print the row of the warehouse    *)
(* they have built, and name its columns.                                  *)
pr_s_call_center ==
  Of("CALL_CENTER", id(1, 1) \o date(6, 6) \o date(5, 5) \o varchar(7, 8)
    \o integer(9, 10) \o varchar(11, 12) \o decimal(32, 32))
pr_s_catalog_order ==
  Of("S_CATALOG_ORDER", key(1, 1) \o id(2, 3) \o date(4, 4) \o integer(5, 5)
    \o id(6, 7) \o varchar(9, 9))
pr_s_catalog_order_lineitem ==
  Of("S_CATALOG_ORDER_LINEITEM", key(1, 2))
  \o Of("S_CATALOG_ORDER", id(8, 8))
  \o Of("S_CATALOG_ORDER_LINEITEM", id(3, 3) \o integer(4, 4)
    \o decimal(10, 10) \o decimal(5, 5) \o id(6, 6) \o date(7, 7) \o key(8, 9)
    \o decimal(11, 11))
pr_s_catalog_page ==
  Of("S_CATALOG_PAGE", integer(1, 2) \o varchar(3, 4) \o date(5, 6)
    \o varchar(7, 8))
pr_s_catalog_returns ==
  Of("S_CATALOG_RETURNS", id(1, 1) \o key(2, 3) \o id(4, 6) \o date(7, 7)
    \o time(8, 8) \o integer(9, 9) \o decimal(10, 16) \o id(17, 17)
    \o id(19, 21))
pr_s_customer ==
  Of("S_CUSTOMER", id(1, 1) \o varchar(2, 4) \o boolean(5, 5) \o date(6, 6)
    \o varchar(9, 11) \o date(12, 12) \o date(8, 8) \o date(7, 7)
    \o date(13, 13) \o varchar(14, 15) \o integer(17, 17) \o varchar(21, 21)
    \o varchar(18, 20) \o varchar(22, 31) \o integer(32, 32) \o varchar(33, 33)
    \o integer(34, 37) \o decimal(38, 38))
pr_s_customer_address ==
  Of("S_CUSTOMER_ADDRESS", varchar(1, 1) \o integer(2, 2) \o varchar(3, 11))
pr_s_inventory ==
  Of("S_INVENTORY", id(1, 2) \o date(3, 3) \o integer(4, 4))
pr_s_item ==
  Of("S_ITEM", varchar(1, 1) \o varchar(4, 4) \o decimal(5, 6)
    \o varchar(8, 12) \o key(7, 7))
pr_s_pline ==
  Of("S_PURCHASE_LINEITEM", key(1, 2))
  \o Of("S_PURCHASE", id(10, 10))
  \o Of("S_PURCHASE_LINEITEM", id(3, 3) \o integer(5, 5) \o decimal(4, 4)
    \o decimal(6, 6) \o varchar(7, 7))
pr_s_promotion ==
  Of("PROMOTION", varchar(2, 2) \o varchar(8, 8) \o Repeated(2, date(3, 3))
    \o decimal(6, 6) \o integer(7, 7) \o boolean(9, 16) \o varchar(17, 18)
    \o boolean(19, 19))
pr_s_purchase ==
  Of("S_PURCHASE", key(1, 1) \o varchar(2, 3) \o date(4, 4) \o integer(5, 7)
    \o varchar(8, 8))
pr_s_store ==
  Of("STORE", varchar(2, 2) \o date(5, 5) \o varchar(6, 6) \o integer(7, 8)
    \o varchar(9, 10) \o integer(11, 11) \o varchar(13, 13) \o varchar(15, 15)
    \o decimal(12, 12))
pr_s_store_returns ==
  Of("S_STORE_RETURNS", id(1, 1) \o key(2, 3) \o id(4, 5) \o date(6, 6)
    \o time(7, 7) \o key(8, 8) \o integer(9, 9) \o decimal(10, 16)
    \o id(17, 17))
pr_s_warehouse ==
  Of("WAREHOUSE", varchar(2, 3) \o integer(4, 4))
pr_s_web_order ==
  Of("S_WEB_ORDER", key(1, 1) \o id(2, 3) \o date(4, 4) \o integer(5, 5)
    \o id(6, 7) \o varchar(8, 8))
pr_s_web_order_lineitem ==
  Of("S_WEB_ORDER_LINEITEM", key(1, 2))
  \o Of("S_WEB_ORDER", id(9, 9))
  \o Of("S_WEB_ORDER_LINEITEM", id(3, 3) \o integer(4, 4) \o decimal(9, 9)
    \o decimal(5, 5) \o id(6, 6) \o date(7, 7) \o decimal(10, 10) \o id(8, 8))
pr_s_web_page ==
  Of("WEB_PAGE", varchar(2, 2) \o date(5, 6) \o boolean(7, 7) \o varchar(9, 10)
    \o integer(11, 14))
pr_s_web_return ==
  Of("S_WEB_RETURNS", id(1, 1) \o key(2, 2) \o integer(3, 3) \o id(4, 6)
    \o date(7, 7) \o time(8, 8) \o integer(10, 10) \o Repeated(7, decimal(10, 10))
    \o id(9, 9))
pr_s_web_site ==
  Of("WEB_SITE", varchar(2, 2) \o date(6, 7) \o varchar(5, 5) \o varchar(8, 9)
    \o decimal(26, 26))
pr_s_zip ==
  Of("S_ZIPG", varchar(1, 1) \o integer(2, 2))

(* w_tdef_funcs and s_tdef_funcs: the print function of each table.        *)
Fields ==
  [CALL_CENTER |-> pr_w_call_center, CATALOG_PAGE |-> pr_w_catalog_page,
   CATALOG_RETURNS |-> pr_w_catalog_returns,
   CATALOG_SALES |-> pr_w_catalog_sales, CUSTOMER |-> pr_w_customer,
   CUSTOMER_ADDRESS |-> pr_w_customer_address,
   CUSTOMER_DEMOGRAPHICS |-> pr_w_customer_demographics, DATE |-> pr_w_date,
   DBGEN_VERSION |-> pr_dbgen_version,
   HOUSEHOLD_DEMOGRAPHICS |-> pr_w_household_demographics,
   INCOME_BAND |-> pr_w_income_band, INVENTORY |-> pr_w_inventory,
   ITEM |-> pr_w_item, PROMOTION |-> pr_w_promotion, REASON |-> pr_w_reason,
   SHIP_MODE |-> pr_w_ship_mode, STORE |-> pr_w_store,
   STORE_RETURNS |-> pr_w_store_returns, STORE_SALES |-> pr_w_store_sales,
   TIME |-> pr_w_time, WAREHOUSE |-> pr_w_warehouse,
   WEB_PAGE |-> pr_w_web_page, WEB_RETURNS |-> pr_w_web_returns,
   WEB_SALES |-> pr_w_web_sales, WEB_SITE |-> pr_w_web_site,
   S_CALL_CENTER |-> pr_s_call_center, S_CATALOG_ORDER |-> pr_s_catalog_order,
   S_CATALOG_ORDER_LINEITEM |-> pr_s_catalog_order_lineitem,
   S_CATALOG_PAGE |-> pr_s_catalog_page,
   S_CATALOG_RETURNS |-> pr_s_catalog_returns, S_CUSTOMER |-> pr_s_customer,
   S_CUSTOMER_ADDRESS |-> pr_s_customer_address,
   S_INVENTORY |-> pr_s_inventory, S_ITEM |-> pr_s_item,
   S_PROMOTION |-> pr_s_promotion, S_PURCHASE |-> pr_s_purchase,
   S_PURCHASE_LINEITEM |-> pr_s_pline, S_STORE |-> pr_s_store,
   S_STORE_RETURNS |-> pr_s_store_returns, S_WAREHOUSE |-> pr_s_warehouse,
   S_WEB_ORDER |-> pr_s_web_order,
   S_WEB_ORDER_LINEITEM |-> pr_s_web_order_lineitem,
   S_WEB_PAGE |-> pr_s_web_page, S_WEB_RETURNS |-> pr_s_web_return,
   S_WEB_SITE |-> pr_s_web_site, S_ZIPG |-> pr_s_zip]

-----------------------------------------------------------------------------
Typed(type, n) == [i \in 1 .. n |-> type]
int(n)  == Typed("int", n)
num(n)  == Typed("num", n)
text(n) == Typed("text", n)
day(n)  == Typed("date", n)
hour(n) == Typed("time", n)

(* create table ..., in tpcds.sql: the types of the columns, and the       *)
(* places of those that are not null.                                      *)
tpcds == [
   CALL_CENTER |-> int(1) \o text(1) \o day(2) \o int(2) \o text(2) \o int(2)
     \o text(2) \o int(1) \o text(3) \o int(1) \o text(1) \o int(1) \o text(10)
     \o num(2),
   CATALOG_PAGE |-> int(1) \o text(1) \o int(2) \o text(1) \o int(2)
     \o text(2),
   CATALOG_RETURNS |-> int(18) \o num(9),
   CATALOG_SALES |-> int(19) \o num(15),
   CUSTOMER |-> int(1) \o text(1) \o int(5) \o text(4) \o int(3) \o text(3)
     \o int(1),
   CUSTOMER_ADDRESS |-> int(1) \o text(10) \o num(1) \o text(1),
   CUSTOMER_DEMOGRAPHICS |-> int(1) \o text(3) \o int(1) \o text(1) \o int(3),
   DATE |-> int(1) \o text(1) \o day(1) \o int(11) \o text(5) \o int(4)
     \o text(5),
   DBGEN_VERSION |-> text(1) \o day(1) \o hour(1) \o text(1),
   HOUSEHOLD_DEMOGRAPHICS |-> int(2) \o text(1) \o int(2),
   INCOME_BAND |-> int(3),
   INVENTORY |-> int(4),
   ITEM |-> int(1) \o text(1) \o day(2) \o text(1) \o num(2) \o int(1)
     \o text(1) \o int(1) \o text(1) \o int(1) \o text(1) \o int(1) \o text(6)
     \o int(1) \o text(1),
   PROMOTION |-> int(1) \o text(1) \o int(3) \o num(1) \o int(1) \o text(12),
   REASON |-> int(1) \o text(2),
   SHIP_MODE |-> int(1) \o text(5),
   STORE |-> int(1) \o text(1) \o day(2) \o int(1) \o text(1) \o int(2)
     \o text(2) \o int(1) \o text(3) \o int(1) \o text(1) \o int(1) \o text(10)
     \o num(2),
   STORE_RETURNS |-> int(11) \o num(9),
   STORE_SALES |-> int(11) \o num(12),
   TIME |-> int(1) \o text(1) \o int(4) \o text(4),
   WAREHOUSE |-> int(1) \o text(2) \o int(1) \o text(9) \o num(1),
   WEB_PAGE |-> int(1) \o text(1) \o day(2) \o int(2) \o text(1) \o int(1)
     \o text(2) \o int(4),
   WEB_RETURNS |-> int(15) \o num(9),
   WEB_SALES |-> int(19) \o num(15),
   WEB_SITE |-> int(1) \o text(1) \o day(2) \o text(1) \o int(2) \o text(2)
     \o int(1) \o text(3) \o int(1) \o text(10) \o num(2)]

not_null == [
   CALL_CENTER |-> {1, 2}, CATALOG_PAGE |-> {1, 2},
   CATALOG_RETURNS |-> {3, 17}, CATALOG_SALES |-> {16, 18},
   CUSTOMER |-> {1, 2}, CUSTOMER_ADDRESS |-> {1, 2},
   CUSTOMER_DEMOGRAPHICS |-> {1}, DATE |-> {1, 2}, DBGEN_VERSION |-> {},
   HOUSEHOLD_DEMOGRAPHICS |-> {1}, INCOME_BAND |-> {1},
   INVENTORY |-> {1, 2, 3}, ITEM |-> {1, 2}, PROMOTION |-> {1, 2},
   REASON |-> {1, 2}, SHIP_MODE |-> {1, 2}, STORE |-> {1, 2},
   STORE_RETURNS |-> {3, 10}, STORE_SALES |-> {3, 10}, TIME |-> {1, 2},
   WAREHOUSE |-> {1, 2}, WEB_PAGE |-> {1, 2}, WEB_RETURNS |-> {3, 14},
   WEB_SALES |-> {4, 18}, WEB_SITE |-> {1, 2}]

(* The same in tpcds_source.sql.                                           *)
tpcds_source == [
   S_CALL_CENTER |-> text(5) \o int(2) \o text(2) \o num(1),
   S_CATALOG_ORDER |-> int(1) \o text(3) \o int(1) \o text(3),
   S_CATALOG_ORDER_LINEITEM |-> int(2) \o text(2) \o int(1) \o num(2)
     \o text(2) \o int(2) \o num(1),
   S_CATALOG_PAGE |-> int(2) \o text(6),
   S_CATALOG_RETURNS |-> text(1) \o int(2) \o text(5) \o int(1) \o num(7)
     \o text(4),
   S_CUSTOMER |-> text(15) \o int(1) \o text(14) \o num(1) \o text(1) \o int(4)
     \o num(1),
   S_CUSTOMER_ADDRESS |-> text(1) \o int(1) \o text(9),
   S_INVENTORY |-> text(3) \o int(1),
   S_ITEM |-> text(2) \o num(2) \o text(5) \o int(1),
   S_PROMOTION |-> text(4) \o num(1) \o text(12) \o num(1),
   S_PURCHASE |-> int(1) \o text(3) \o int(3) \o text(1),
   S_PURCHASE_LINEITEM |-> int(2) \o text(2) \o int(1) \o num(2) \o text(1),
   S_STORE |-> text(3) \o int(2) \o text(2) \o int(1) \o text(2) \o num(1),
   S_STORE_RETURNS |-> text(2) \o int(1) \o text(5) \o int(1) \o num(7)
     \o text(1),
   S_WAREHOUSE |-> text(2) \o int(1),
   S_WEB_ORDER |-> int(1) \o text(3) \o int(1) \o text(3),
   S_WEB_ORDER_LINEITEM |-> int(2) \o text(2) \o int(1) \o num(2) \o text(2)
     \o num(1) \o text(1),
   S_WEB_PAGE |-> text(6) \o int(4),
   S_WEB_RETURNS |-> text(1) \o int(2) \o text(5) \o int(1) \o num(7)
     \o text(1),
   S_WEB_SITE |-> text(6) \o num(1),
   S_ZIPG |-> text(1) \o int(1)]

source_not_null == [
   S_CALL_CENTER |-> {1}, S_CATALOG_ORDER |-> {1},
   S_CATALOG_ORDER_LINEITEM |-> {1, 2}, S_CATALOG_PAGE |-> {1, 2},
   S_CATALOG_RETURNS |-> {2, 3, 4}, S_CUSTOMER |-> {1},
   S_CUSTOMER_ADDRESS |-> {1}, S_INVENTORY |-> {1, 2, 3}, S_ITEM |-> {1},
   S_PROMOTION |-> {1}, S_PURCHASE |-> {1}, S_PURCHASE_LINEITEM |-> {1, 2},
   S_STORE |-> {1}, S_STORE_RETURNS |-> {2, 3, 4}, S_WAREHOUSE |-> {1},
   S_WEB_ORDER |-> {1}, S_WEB_ORDER_LINEITEM |-> {1, 2}, S_WEB_PAGE |-> {1},
   S_WEB_RETURNS |-> {2, 3, 4}, S_WEB_SITE |-> {1}, S_ZIPG |-> {1, 2}]

Declared == tpcds @@ tpcds_source
NotNull  == not_null @@ source_not_null
=============================================================================
