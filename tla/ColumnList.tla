------------------------------ MODULE ColumnList ------------------------------
(***************************************************************************)
(* The random-number streams: one per column, with the table it belongs to *)
(* and the numbers set aside for it per row (nUsedPerRow), as              *)
(* column_list.txt gives them; an entry without a number gets 1.  Columns  *)
(* no builder draws from are left out.                                     *)
(***************************************************************************)
EXTENDS Naturals

CallCenterColumns ==
  [CC_OPEN_DATE_ID |-> 10, CC_CLASS |-> 2, CC_EMPLOYEES |-> 1, CC_SQ_FT |-> 1,
   CC_HOURS |-> 1, CC_MANAGER |-> 2, CC_MARKET_ID |-> 1,
   CC_MARKET_CLASS |-> 50, CC_MARKET_DESC |-> 50, CC_MARKET_MANAGER |-> 2,
   CC_COMPANY |-> 2, CC_ADDRESS |-> 15, CC_TAX_PERCENTAGE |-> 1, CC_SCD |-> 1,
   CC_NULLS |-> 2]

CatalogPageColumns ==
  [CP_DESCRIPTION |-> 100, CP_NULLS |-> 2]

CatalogReturnsColumns ==
  [CR_RETURNED_DATE_SK |-> 28, CR_RETURNED_TIME_SK |-> 28,
   CR_RETURNING_CUSTOMER_SK |-> 28, CR_RETURNING_CDEMO_SK |-> 14,
   CR_RETURNING_HDEMO_SK |-> 14, CR_RETURNING_ADDR_SK |-> 14,
   CR_SHIP_MODE_SK |-> 14, CR_WAREHOUSE_SK |-> 14, CR_REASON_SK |-> 14,
   CR_NULLS |-> 28, CR_PRICING |-> 70]

CatalogSalesColumns ==
  [CS_SOLD_TIME_SK |-> 2, CS_SHIP_DATE_SK |-> 14, CS_BILL_CUSTOMER_SK |-> 1,
   CS_BILL_CDEMO_SK |-> 1, CS_BILL_HDEMO_SK |-> 1, CS_BILL_ADDR_SK |-> 1,
   CS_SHIP_CUSTOMER_SK |-> 2, CS_SHIP_CDEMO_SK |-> 1, CS_SHIP_HDEMO_SK |-> 1,
   CS_SHIP_ADDR_SK |-> 1, CS_CALL_CENTER_SK |-> 1, CS_CATALOG_PAGE_SK |-> 42,
   CS_SHIP_MODE_SK |-> 14, CS_WAREHOUSE_SK |-> 14, CS_SOLD_ITEM_SK |-> 1,
   CS_PROMO_SK |-> 14, CS_ORDER_NUMBER |-> 1, CS_PRICING |-> 112,
   CS_PERMUTE |-> 0, CS_NULLS |-> 28, CR_IS_RETURNED |-> 14]

CustomerColumns ==
  [C_CURRENT_CDEMO_SK |-> 1, C_CURRENT_HDEMO_SK |-> 1,
   C_CURRENT_ADDR_SK |-> 1, C_FIRST_SALES_DATE_ID |-> 1, C_SALUTATION |-> 1,
   C_FIRST_NAME |-> 1, C_LAST_NAME |-> 1, C_PREFERRED_CUST_FLAG |-> 2,
   C_BIRTH_DAY |-> 1, C_BIRTH_COUNTRY |-> 1, C_EMAIL_ADDRESS |-> 23,
   C_LAST_REVIEW_DATE |-> 1, C_NULLS |-> 2]

CustomerAddressColumns ==
  [CA_LOCATION_TYPE |-> 1, CA_NULLS |-> 2, CA_ADDRESS |-> 7]

CustomerDemographicsColumns ==
  [CD_NULLS |-> 2]

DateColumns ==
  [D_NULLS |-> 2]

HouseholdDemographicsColumns ==
  [HD_NULLS |-> 2]

IncomeBandColumns ==
  [IB_NULLS |-> 2]

InventoryColumns ==
  [INV_QUANTITY_ON_HAND |-> 1, INV_NULLS |-> 2]

ItemColumns ==
  [I_ITEM_DESC |-> 200, I_CURRENT_PRICE |-> 2, I_WHOLESALE_COST |-> 1,
   I_CLASS |-> 1, I_CATEGORY |-> 1, I_MANUFACT_ID |-> 2, I_SIZE |-> 1,
   I_FORMULATION |-> 50, I_COLOR |-> 1, I_UNITS |-> 1, I_MANAGER_ID |-> 2,
   I_NULLS |-> 2, I_SCD |-> 1, I_PROMO_SK |-> 2]

PromotionColumns ==
  [P_START_DATE_ID |-> 1, P_END_DATE_ID |-> 1, P_ITEM_SK |-> 1,
   P_CHANNEL_DMAIL |-> 1, P_CHANNEL_DETAILS |-> 100, P_PURPOSE |-> 1,
   P_NULLS |-> 2]

ReasonColumns ==
  [R_NULLS |-> 2]

ShipModeColumns ==
  [SM_CONTRACT |-> 21, SM_NULLS |-> 2]

StoreColumns ==
  [W_STORE_CLOSED_DATE_ID |-> 2, W_STORE_EMPLOYEES |-> 1,
   W_STORE_FLOOR_SPACE |-> 1, W_STORE_HOURS |-> 1, W_STORE_MANAGER |-> 2,
   W_STORE_MARKET_ID |-> 1, W_STORE_TAX_PERCENTAGE |-> 1,
   W_STORE_GEOGRAPHY_CLASS |-> 1, W_STORE_MARKET_DESC |-> 100,
   W_STORE_MARKET_MANAGER |-> 2, W_STORE_DIVISION_NAME |-> 1,
   W_STORE_COMPANY_NAME |-> 1, W_STORE_NULLS |-> 2, W_STORE_TYPE |-> 1,
   W_STORE_SCD |-> 1, W_STORE_ADDRESS |-> 7]

StoreReturnsColumns ==
  [SR_RETURNED_DATE_SK |-> 32, SR_RETURNED_TIME_SK |-> 32,
   SR_CUSTOMER_SK |-> 16, SR_CDEMO_SK |-> 16, SR_HDEMO_SK |-> 16,
   SR_ADDR_SK |-> 16, SR_STORE_SK |-> 16, SR_REASON_SK |-> 16,
   SR_TICKET_NUMBER |-> 16, SR_PRICING |-> 80, SR_NULLS |-> 32]

StoreSalesColumns ==
  [SS_SOLD_DATE_SK |-> 2, SS_SOLD_TIME_SK |-> 2, SS_SOLD_ITEM_SK |-> 1,
   SS_SOLD_CUSTOMER_SK |-> 1, SS_SOLD_CDEMO_SK |-> 1, SS_SOLD_HDEMO_SK |-> 1,
   SS_SOLD_ADDR_SK |-> 1, SS_SOLD_STORE_SK |-> 1, SS_SOLD_PROMO_SK |-> 16,
   SS_TICKET_NUMBER |-> 1, SR_IS_RETURNED |-> 16, SS_PRICING |-> 128,
   SS_NULLS |-> 32, SS_PERMUTATION |-> 0]

TimeColumns ==
  [T_NULLS |-> 2]

WarehouseColumns ==
  [W_WAREHOUSE_NAME |-> 80, W_WAREHOUSE_SQ_FT |-> 1, W_NULLS |-> 2,
   W_WAREHOUSE_ADDRESS |-> 7]

WebPageColumns ==
  [WP_CREATION_DATE_SK |-> 2, WP_ACCESS_DATE_SK |-> 1, WP_AUTOGEN_FLAG |-> 1,
   WP_CUSTOMER_SK |-> 1, WP_TYPE |-> 1, WP_CHAR_COUNT |-> 1,
   WP_LINK_COUNT |-> 1, WP_IMAGE_COUNT |-> 1, WP_MAX_AD_COUNT |-> 1,
   WP_NULLS |-> 2, WP_SCD |-> 1]

WebReturnsColumns ==
  [WR_RETURNED_DATE_SK |-> 32, WR_RETURNED_TIME_SK |-> 32,
   WR_REFUNDED_CUSTOMER_SK |-> 16, WR_REFUNDED_CDEMO_SK |-> 16,
   WR_REFUNDED_HDEMO_SK |-> 16, WR_REFUNDED_ADDR_SK |-> 16,
   WR_RETURNING_CUSTOMER_SK |-> 16, WR_REASON_SK |-> 16, WR_PRICING |-> 80,
   WR_NULLS |-> 32]

WebSalesColumns ==
  [WS_SOLD_DATE_SK |-> 2, WS_SOLD_TIME_SK |-> 2, WS_SHIP_DATE_SK |-> 16,
   WS_ITEM_SK |-> 1, WS_BILL_CUSTOMER_SK |-> 1, WS_BILL_CDEMO_SK |-> 1,
   WS_BILL_HDEMO_SK |-> 1, WS_BILL_ADDR_SK |-> 1, WS_SHIP_CUSTOMER_SK |-> 2,
   WS_SHIP_CDEMO_SK |-> 2, WS_SHIP_HDEMO_SK |-> 1, WS_SHIP_ADDR_SK |-> 1,
   WS_WEB_PAGE_SK |-> 16, WS_WEB_SITE_SK |-> 16, WS_SHIP_MODE_SK |-> 16,
   WS_WAREHOUSE_SK |-> 16, WS_PROMO_SK |-> 16, WS_ORDER_NUMBER |-> 1,
   WS_PRICING |-> 128, WS_NULLS |-> 32, WR_IS_RETURNED |-> 16,
   WS_PERMUTATION |-> 0]

WebSiteColumns ==
  [WEB_OPEN_DATE |-> 1, WEB_CLOSE_DATE |-> 1, WEB_MANAGER |-> 2,
   WEB_MARKET_ID |-> 1, WEB_MARKET_CLASS |-> 20, WEB_MARKET_DESC |-> 100,
   WEB_MARKET_MANAGER |-> 2, WEB_COMPANY_ID |-> 1, WEB_TAX_PERCENTAGE |-> 1,
   WEB_NULLS |-> 2, WEB_ADDRESS |-> 7, WEB_SCD |-> 70]

SCallCenterColumns ==
  [S_CALL_CENTER_ID |-> 1]

SCatalogOrderColumns ==
  [S_CORD_BILL_CUSTOMER_ID |-> 1, S_CORD_SHIP_CUSTOMER_ID |-> 2,
   S_CORD_ORDER_TIME |-> 1, S_CORD_SHIP_MODE_ID |-> 1, S_CLIN_ITEM_ID |-> 1,
   S_CORD_COMMENT |-> 100]

SCatalogOrderLineitemColumns ==
  [S_CLIN_PROMOTION_ID |-> 1, S_CLIN_WAREHOUSE_ID |-> 1,
   S_CLIN_SHIP_DATE |-> 1, S_CLIN_CATALOG_PAGE_ID |-> 2, S_CLIN_PRICING |-> 8,
   S_CLIN_IS_RETURNED |-> 1, S_CLIN_PERMUTE |-> 0]

SCatalogReturnsColumns ==
  [S_CRET_CALL_CENTER_ID |-> 9, S_CRET_DATE |-> 9, S_CRET_TIME |-> 18,
   S_CRET_REASON_ID |-> 9, S_CRET_PRICING |-> 72, S_CRET_SHIPMODE_ID |-> 9,
   S_CRET_WAREHOUSE_ID |-> 9]

SCustomerColumns ==
  [S_CUST_ID |-> 0, S_CUST_SALUTATION |-> 1, S_CUST_LAST_NAME |-> 1,
   S_CUST_FIRST_NAME |-> 1, S_CUST_PREFERRED_FLAG |-> 1,
   S_CUST_BIRTH_DATE |-> 1, S_CUST_FIRST_PURCHASE_DATE |-> 1,
   S_CUST_FIRST_SHIPTO_DATE |-> 1, S_CUST_LOGIN |-> 25, S_CUST_EMAIL |-> 23,
   S_CUST_LAST_LOGIN |-> 1, S_CUST_LAST_REVIEW |-> 1,
   S_CUST_PRIMARY_MACHINE |-> 4, S_CUST_SECONDARY_MACHINE |-> 4,
   S_CUST_LOCATION_TYPE |-> 1, S_CUST_GENDER |-> 1,
   S_CUST_PURCHASE_ESTIMATE |-> 1, S_CUST_VEHICLE_CNT |-> 1,
   S_CUST_INCOME |-> 1]

SInventoryColumns ==
  [S_INVN_QUANTITY |-> 1]

SItemColumns ==
  [S_ITEM_ID |-> 1, S_ITEM_PERMUTE |-> 0]

SPromotionColumns ==
  [S_PROMOTION_ID |-> 1]

SPurchaseColumns ==
  [S_PURCHASE_STORE_ID |-> 1, S_PURCHASE_CUSTOMER_ID |-> 1,
   S_PURCHASE_REGISTER |-> 1, S_PURCHASE_CLERK |-> 1,
   S_PURCHASE_COMMENT |-> 100, S_PLINE_ITEM_ID |-> 1]

SPurchaseLineitemColumns ==
  [S_PLINE_PROMOTION_ID |-> 12, S_PLINE_QUANTITY |-> 12,
   S_PLINE_COMMENT |-> 1200, S_PLINE_PRICING |-> 96,
   S_PLINE_IS_RETURNED |-> 12, S_PLINE_PERMUTE |-> 0]

SStoreColumns ==
  [S_STORE_ID |-> 1]

SStoreReturnsColumns ==
  [S_SRET_RETURN_DATE |-> 24, S_SRET_RETURN_TIME |-> 12,
   S_SRET_REASON_ID |-> 12, S_SRET_PRICING |-> 84]

SWarehouseColumns ==
  [S_WRHS_ID |-> 1]

SWebOrderColumns ==
  [S_WORD_BILL_CUSTOMER_ID |-> 1, S_WORD_SHIP_CUSTOMER_ID |-> 2,
   S_WORD_ORDER_TIME |-> 1, S_WORD_SHIP_MODE_ID |-> 1,
   S_WORD_WEB_SITE_ID |-> 1, S_WORD_COMMENT |-> 100, S_WLIN_ITEM_ID |-> 1]

SWebOrderLineitemColumns ==
  [S_WLIN_PROMOTION_ID |-> 12, S_WLIN_WAREHOUSE_ID |-> 12,
   S_WLIN_SHIP_DATE |-> 12, S_WLIN_WEB_PAGE_ID |-> 12, S_WLIN_PRICING |-> 96,
   S_WLIN_IS_RETURNED |-> 12, S_WLIN_PERMUTE |-> 0]

SWebPageColumns ==
  [S_WPAG_ID |-> 1, S_WPAG_PERMUTE |-> 0]

SWebReturnsColumns ==
  [S_WRET_RETURN_DATE |-> 24, S_WRET_RETURN_TIME |-> 12,
   S_WRET_REASON_ID |-> 12, S_WRET_PRICING |-> 84]

(* The columns of a table.                                                 *)
Columns == [
  CALL_CENTER |-> CallCenterColumns,
  CATALOG_PAGE |-> CatalogPageColumns,
  CATALOG_RETURNS |-> CatalogReturnsColumns,
  CATALOG_SALES |-> CatalogSalesColumns,
  CUSTOMER |-> CustomerColumns,
  CUSTOMER_ADDRESS |-> CustomerAddressColumns,
  CUSTOMER_DEMOGRAPHICS |-> CustomerDemographicsColumns,
  DATE |-> DateColumns,
  HOUSEHOLD_DEMOGRAPHICS |-> HouseholdDemographicsColumns,
  INCOME_BAND |-> IncomeBandColumns,
  INVENTORY |-> InventoryColumns,
  ITEM |-> ItemColumns,
  PROMOTION |-> PromotionColumns,
  REASON |-> ReasonColumns,
  SHIP_MODE |-> ShipModeColumns,
  STORE |-> StoreColumns,
  STORE_RETURNS |-> StoreReturnsColumns,
  STORE_SALES |-> StoreSalesColumns,
  TIME |-> TimeColumns,
  WAREHOUSE |-> WarehouseColumns,
  WEB_PAGE |-> WebPageColumns,
  WEB_RETURNS |-> WebReturnsColumns,
  WEB_SALES |-> WebSalesColumns,
  WEB_SITE |-> WebSiteColumns,
  S_CALL_CENTER |-> SCallCenterColumns,
  S_CATALOG_ORDER |-> SCatalogOrderColumns,
  S_CATALOG_ORDER_LINEITEM |-> SCatalogOrderLineitemColumns,
  S_CATALOG_RETURNS |-> SCatalogReturnsColumns,
  S_CUSTOMER |-> SCustomerColumns,
  S_INVENTORY |-> SInventoryColumns,
  S_ITEM |-> SItemColumns,
  S_PROMOTION |-> SPromotionColumns,
  S_PURCHASE |-> SPurchaseColumns,
  S_PURCHASE_LINEITEM |-> SPurchaseLineitemColumns,
  S_STORE |-> SStoreColumns,
  S_STORE_RETURNS |-> SStoreReturnsColumns,
  S_WAREHOUSE |-> SWarehouseColumns,
  S_WEB_ORDER |-> SWebOrderColumns,
  S_WEB_ORDER_LINEITEM |-> SWebOrderLineitemColumns,
  S_WEB_PAGE |-> SWebPageColumns,
  S_WEB_RETURNS |-> SWebReturnsColumns]

Owners  == DOMAIN Columns
Stream  == UNION {DOMAIN Columns[t] : t \in Owners}

(* The streams of a table; S_ZIPG and DBGEN_VERSION have none that is used.*)
Owned(t) == IF t \in Owners THEN DOMAIN Columns[t] ELSE {}

Owner  == [s \in Stream |-> CHOOSE t \in Owners : s \in DOMAIN Columns[t]]
Budget == [s \in Stream |-> Columns[Owner[s]][s]]

(* nDuplicateOf: the streams that the entry of some other column names.    *)
Duplicated ==
  {"CP_DESCRIPTION", "I_ITEM_DESC", "CA_ADDRESS", "I_CURRENT_PRICE",
   "I_WHOLESALE_COST", "I_MANAGER_ID", "I_SIZE", "I_FORMULATION", "I_COLOR",
   "I_UNITS", "I_SCD", "P_CHANNEL_DETAILS"}
==============================================================================
