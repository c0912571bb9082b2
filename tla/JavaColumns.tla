----------------------------- MODULE JavaColumns -----------------------------
(***************************************************************************)
(* The random-number streams of the Java port: the entries of its          *)
(* GeneratorColumn enumerations, a column and its seedsPerRow.  Columns    *)
(* nothing is drawn for are left out, as in module ColumnList, with whose  *)
(* entries they have to agree.                                             *)
(***************************************************************************)
EXTENDS Naturals

CallCenterGeneratorColumn ==
  [CC_OPEN_DATE_ID |-> 10, CC_CLASS |-> 2, CC_EMPLOYEES |-> 1,
   CC_SQ_FT |-> 1, CC_HOURS |-> 1, CC_MANAGER |-> 2, CC_MARKET_ID |-> 1,
   CC_MARKET_CLASS |-> 50, CC_MARKET_DESC |-> 50, CC_MARKET_MANAGER |-> 2,
   CC_COMPANY |-> 2, CC_ADDRESS |-> 15, CC_TAX_PERCENTAGE |-> 1,
   CC_SCD |-> 1, CC_NULLS |-> 2]

CatalogPageGeneratorColumn ==
  [CP_DESCRIPTION |-> 100, CP_NULLS |-> 2]

CatalogReturnsGeneratorColumn ==
  [CR_RETURNED_DATE_SK |-> 28, CR_RETURNED_TIME_SK |-> 28,
   CR_RETURNING_CUSTOMER_SK |-> 28, CR_RETURNING_CDEMO_SK |-> 14,
   CR_RETURNING_HDEMO_SK |-> 14, CR_RETURNING_ADDR_SK |-> 14,
   CR_SHIP_MODE_SK |-> 14, CR_WAREHOUSE_SK |-> 14, CR_REASON_SK |-> 14,
   CR_NULLS |-> 28, CR_PRICING |-> 70]

CatalogSalesGeneratorColumn ==
  [CS_SOLD_TIME_SK |-> 2, CS_SHIP_DATE_SK |-> 14, CS_BILL_CUSTOMER_SK |-> 1,
   CS_BILL_CDEMO_SK |-> 1, CS_BILL_HDEMO_SK |-> 1, CS_BILL_ADDR_SK |-> 1,
   CS_SHIP_CUSTOMER_SK |-> 2, CS_SHIP_CDEMO_SK |-> 1,
   CS_SHIP_HDEMO_SK |-> 1, CS_SHIP_ADDR_SK |-> 1, CS_CALL_CENTER_SK |-> 1,
   CS_CATALOG_PAGE_SK |-> 42, CS_SHIP_MODE_SK |-> 14,
   CS_WAREHOUSE_SK |-> 14, CS_SOLD_ITEM_SK |-> 1, CS_PROMO_SK |-> 14,
   CS_ORDER_NUMBER |-> 1, CS_PRICING |-> 112, CS_PERMUTE |-> 0,
   CS_NULLS |-> 28, CR_IS_RETURNED |-> 14]

CustomerAddressGeneratorColumn ==
  [CA_LOCATION_TYPE |-> 1, CA_NULLS |-> 2, CA_ADDRESS |-> 7]

CustomerDemographicsGeneratorColumn ==
  [CD_NULLS |-> 2]

CustomerGeneratorColumn ==
  [C_CURRENT_CDEMO_SK |-> 1, C_CURRENT_HDEMO_SK |-> 1,
   C_CURRENT_ADDR_SK |-> 1, C_FIRST_SALES_DATE_ID |-> 1, C_SALUTATION |-> 1,
   C_FIRST_NAME |-> 1, C_LAST_NAME |-> 1, C_PREFERRED_CUST_FLAG |-> 2,
   C_BIRTH_DAY |-> 1, C_BIRTH_COUNTRY |-> 1, C_EMAIL_ADDRESS |-> 23,
   C_LAST_REVIEW_DATE |-> 1, C_NULLS |-> 2]

DateDimGeneratorColumn ==
  [D_NULLS |-> 2]

DbgenVersionGeneratorColumn == [s \in {} |-> 0]

HouseholdDemographicsGeneratorColumn ==
  [HD_NULLS |-> 2]

IncomeBandGeneratorColumn ==
  [IB_NULLS |-> 2]

InventoryGeneratorColumn ==
  [INV_QUANTITY_ON_HAND |-> 1, INV_NULLS |-> 2]

ItemGeneratorColumn ==
  [I_ITEM_DESC |-> 200, I_CURRENT_PRICE |-> 2, I_WHOLESALE_COST |-> 1,
   I_CLASS |-> 1, I_CATEGORY |-> 1, I_MANUFACT_ID |-> 2, I_SIZE |-> 1,
   I_FORMULATION |-> 50, I_COLOR |-> 1, I_UNITS |-> 1, I_MANAGER_ID |-> 2,
   I_NULLS |-> 2, I_SCD |-> 1, I_PROMO_SK |-> 2]

PromotionGeneratorColumn ==
  [P_START_DATE_ID |-> 1, P_END_DATE_ID |-> 1, P_ITEM_SK |-> 1,
   P_CHANNEL_DMAIL |-> 1, P_CHANNEL_DETAILS |-> 100, P_PURPOSE |-> 1,
   P_NULLS |-> 2]

ReasonGeneratorColumn ==
  [R_NULLS |-> 2]

ShipModeGeneratorColumn ==
  [SM_CONTRACT |-> 21, SM_NULLS |-> 2]

StoreGeneratorColumn ==
  [W_STORE_CLOSED_DATE_ID |-> 2, W_STORE_EMPLOYEES |-> 1,
   W_STORE_FLOOR_SPACE |-> 1, W_STORE_HOURS |-> 1, W_STORE_MANAGER |-> 2,
   W_STORE_MARKET_ID |-> 1, W_STORE_TAX_PERCENTAGE |-> 1,
   W_STORE_GEOGRAPHY_CLASS |-> 1, W_STORE_MARKET_DESC |-> 100,
   W_STORE_MARKET_MANAGER |-> 2, W_STORE_DIVISION_NAME |-> 1,
   W_STORE_COMPANY_NAME |-> 1, W_STORE_NULLS |-> 2, W_STORE_TYPE |-> 1,
   W_STORE_SCD |-> 1, W_STORE_ADDRESS |-> 7]

StoreReturnsGeneratorColumn ==
  [SR_RETURNED_DATE_SK |-> 32, SR_RETURNED_TIME_SK |-> 32,
   SR_CUSTOMER_SK |-> 16, SR_CDEMO_SK |-> 16, SR_HDEMO_SK |-> 16,
   SR_ADDR_SK |-> 16, SR_STORE_SK |-> 16, SR_REASON_SK |-> 16,
   SR_TICKET_NUMBER |-> 16, SR_PRICING |-> 80, SR_NULLS |-> 32]

StoreSalesGeneratorColumn ==
  [SS_SOLD_DATE_SK |-> 2, SS_SOLD_TIME_SK |-> 2, SS_SOLD_ITEM_SK |-> 1,
   SS_SOLD_CUSTOMER_SK |-> 1, SS_SOLD_CDEMO_SK |-> 1,
   SS_SOLD_HDEMO_SK |-> 1, SS_SOLD_ADDR_SK |-> 1, SS_SOLD_STORE_SK |-> 1,
   SS_SOLD_PROMO_SK |-> 16, SS_TICKET_NUMBER |-> 1, SR_IS_RETURNED |-> 16,
   SS_PRICING |-> 128, SS_NULLS |-> 32, SS_PERMUTATION |-> 0]

TimeDimGeneratorColumn ==
  [T_NULLS |-> 1]

WarehouseGeneratorColumn ==
  [W_WAREHOUSE_NAME |-> 80, W_WAREHOUSE_SQ_FT |-> 1, W_NULLS |-> 2,
   W_WAREHOUSE_ADDRESS |-> 7]

WebPageGeneratorColumn ==
  [WP_CREATION_DATE_SK |-> 2, WP_ACCESS_DATE_SK |-> 1,
   WP_AUTOGEN_FLAG |-> 1, WP_CUSTOMER_SK |-> 1, WP_TYPE |-> 1,
   WP_CHAR_COUNT |-> 1, WP_LINK_COUNT |-> 1, WP_IMAGE_COUNT |-> 1,
   WP_MAX_AD_COUNT |-> 1, WP_NULLS |-> 2, WP_SCD |-> 1]

WebReturnsGeneratorColumn ==
  [WR_RETURNED_DATE_SK |-> 32, WR_RETURNED_TIME_SK |-> 32,
   WR_REFUNDED_CUSTOMER_SK |-> 16, WR_REFUNDED_CDEMO_SK |-> 16,
   WR_REFUNDED_HDEMO_SK |-> 16, WR_REFUNDED_ADDR_SK |-> 16,
   WR_RETURNING_CUSTOMER_SK |-> 16, WR_REASON_SK |-> 16, WR_PRICING |-> 80,
   WR_NULLS |-> 32]

WebSalesGeneratorColumn ==
  [WS_SOLD_DATE_SK |-> 2, WS_SOLD_TIME_SK |-> 2, WS_SHIP_DATE_SK |-> 16,
   WS_ITEM_SK |-> 1, WS_BILL_CUSTOMER_SK |-> 1, WS_BILL_CDEMO_SK |-> 1,
   WS_BILL_HDEMO_SK |-> 1, WS_BILL_ADDR_SK |-> 1, WS_SHIP_CUSTOMER_SK |-> 2,
   WS_SHIP_CDEMO_SK |-> 2, WS_SHIP_HDEMO_SK |-> 1, WS_SHIP_ADDR_SK |-> 1,
   WS_WEB_PAGE_SK |-> 16, WS_WEB_SITE_SK |-> 16, WS_SHIP_MODE_SK |-> 16,
   WS_WAREHOUSE_SK |-> 16, WS_PROMO_SK |-> 16, WS_ORDER_NUMBER |-> 1,
   WS_PRICING |-> 128, WS_NULLS |-> 32, WR_IS_RETURNED |-> 16,
   WS_PERMUTATION |-> 0]

WebSiteGeneratorColumn ==
  [WEB_OPEN_DATE |-> 1, WEB_CLOSE_DATE |-> 1, WEB_MANAGER |-> 2,
   WEB_MARKET_ID |-> 1, WEB_MARKET_CLASS |-> 20, WEB_MARKET_DESC |-> 100,
   WEB_MARKET_MANAGER |-> 2, WEB_COMPANY_ID |-> 1, WEB_TAX_PERCENTAGE |-> 1,
   WEB_NULLS |-> 2, WEB_ADDRESS |-> 7, WEB_SCD |-> 70]

(* The columns of a table (Table.getGeneratorColumns()).                    *)
getGeneratorColumns == [
  CALL_CENTER |-> CallCenterGeneratorColumn,
  CATALOG_PAGE |-> CatalogPageGeneratorColumn,
  CATALOG_RETURNS |-> CatalogReturnsGeneratorColumn,
  CATALOG_SALES |-> CatalogSalesGeneratorColumn,
  CUSTOMER_ADDRESS |-> CustomerAddressGeneratorColumn,
  CUSTOMER_DEMOGRAPHICS |-> CustomerDemographicsGeneratorColumn,
  CUSTOMER |-> CustomerGeneratorColumn,
  DATE_DIM |-> DateDimGeneratorColumn,
  DBGEN_VERSION |-> DbgenVersionGeneratorColumn,
  HOUSEHOLD_DEMOGRAPHICS |-> HouseholdDemographicsGeneratorColumn,
  INCOME_BAND |-> IncomeBandGeneratorColumn,
  INVENTORY |-> InventoryGeneratorColumn,
  ITEM |-> ItemGeneratorColumn,
  PROMOTION |-> PromotionGeneratorColumn,
  REASON |-> ReasonGeneratorColumn,
  SHIP_MODE |-> ShipModeGeneratorColumn,
  STORE |-> StoreGeneratorColumn,
  STORE_RETURNS |-> StoreReturnsGeneratorColumn,
  STORE_SALES |-> StoreSalesGeneratorColumn,
  TIME_DIM |-> TimeDimGeneratorColumn,
  WAREHOUSE |-> WarehouseGeneratorColumn,
  WEB_PAGE |-> WebPageGeneratorColumn,
  WEB_RETURNS |-> WebReturnsGeneratorColumn,
  WEB_SALES |-> WebSalesGeneratorColumn,
  WEB_SITE |-> WebSiteGeneratorColumn]
==============================================================================
