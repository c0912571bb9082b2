------------------------------- MODULE JavaRows -------------------------------
(***************************************************************************)
(* What the row generators of the Java port draw: RowDraws again, from     *)
(* their own source.  The port generates a line item at a time, so that an *)
(* order is begun by the line that finds none remaining; its cases have    *)
(*   c.first     no row was generated yet                                  *)
(*   c.new       the row is the first version of its business key          *)
(*   c.more      texts come out long, orders are gifts                     *)
(*   c.begins    the line item begins an order                             *)
(*   c.returned  a return is generated for it                              *)
(***************************************************************************)
EXTENDS RowDraws

(* A threshold and a bit map.                                              *)
createNullBitMap(s) == Twice({s})

makePermutation(s) == Each(Ids, {s})

(* As many characters as the longest has, whatever the length drawn.       *)
generateRandomCharset(s, max) == Each(1 + max, {s})

generateRandomEmail(s) == Twice({s}) (+) generateRandomCharset(s, 20)

generateRandomText(s, max, c) ==
  Each(IF c.more THEN TextMost[max] ELSE TextLeast[max], {s})

makeAddressForColumn(s) == Each(7, {s})

generatePricingForSalesTable(s)   == Each(8, {s})
generatePricingForReturnsTable(s) == Each(4, {s})

(* generateJoinKey(), by the table joined and the column it is for.        *)
generateJoinKey(S)            == Once(S)
generateScdJoinKey(S)         == Once(S)
generateCatalogPageJoinKey(s) == Twice({s})
generateTimeJoinKey(s)        == Twice({s})
generateDateJoinKey(s)        == Twice({s})    (* the year, then the day   *)
generateWebJoinKey(s) ==
  Once({s}) (+) If(s = "WP_CREATION_DATE_SK", Once({s}))

-----------------------------------------------------------------------------
CallCenterRowGenerator(c) ==
  createNullBitMap("CC_NULLS")
  (+) If(c.new, Once({"CC_OPEN_DATE_ID"}) (+) makeAddressForColumn("CC_ADDRESS"))
  (+) Once({"CC_SCD", "CC_CLASS", "CC_EMPLOYEES", "CC_SQ_FT", "CC_HOURS",
            "CC_MARKET_ID", "CC_TAX_PERCENTAGE"})
  (+) Twice({"CC_MANAGER", "CC_MARKET_MANAGER", "CC_COMPANY"})
  (+) generateRandomText("CC_MARKET_CLASS", 50, c)
  (+) generateRandomText("CC_MARKET_DESC", 100, c)

CatalogPageRowGenerator(c) ==
  createNullBitMap("CP_NULLS") (+) generateRandomText("CP_DESCRIPTION", 99, c)

CustomerRowGenerator(c) ==
  Once({"C_PREFERRED_CUST_FLAG", "C_FIRST_NAME", "C_LAST_NAME", "C_SALUTATION",
        "C_BIRTH_DAY", "C_LAST_REVIEW_DATE", "C_FIRST_SALES_DATE_ID",
        "C_BIRTH_COUNTRY"})
  (+) generateJoinKey({"C_CURRENT_HDEMO_SK", "C_CURRENT_CDEMO_SK",
                       "C_CURRENT_ADDR_SK"})
  (+) generateRandomEmail("C_EMAIL_ADDRESS") (+) createNullBitMap("C_NULLS")

CustomerAddressRowGenerator(c) ==
  createNullBitMap("CA_NULLS") (+) makeAddressForColumn("CA_ADDRESS")
  (+) Once({"CA_LOCATION_TYPE"})

CustomerDemographicsRowGenerator(c)  == createNullBitMap("CD_NULLS")
DateDimRowGenerator(c)               == createNullBitMap("D_NULLS")
HouseholdDemographicsRowGenerator(c) == createNullBitMap("HD_NULLS")
IncomeBandRowGenerator(c)            == createNullBitMap("IB_NULLS")
ReasonRowGenerator(c)                == createNullBitMap("R_NULLS")
TimeDimRowGenerator(c)               == createNullBitMap("T_NULLS")
DbgenVersionRowGenerator(c)          == EmptyBag

InventoryRowGenerator(c) ==
  createNullBitMap("INV_NULLS") (+) Once({"INV_QUANTITY_ON_HAND"})

ItemRowGenerator(c) ==
  createNullBitMap("I_NULLS") (+) generateRandomText("I_ITEM_DESC", 200, c)
  (+) Twice({"I_MANAGER_ID", "I_CURRENT_PRICE", "I_MANUFACT_ID"})
  (+) Once({"I_SCD", "I_WHOLESALE_COST", "I_CATEGORY", "I_CLASS", "I_SIZE",
            "I_COLOR", "I_UNITS"})
  (+) generateRandomCharset("I_FORMULATION", 20) (+) Twice({"I_FORMULATION"})
  (+) generateJoinKey({"I_PROMO_SK"}) (+) Once({"I_PROMO_SK"})

PromotionRowGenerator(c) ==
  createNullBitMap("P_NULLS") (+) generateScdJoinKey({"P_ITEM_SK"})
  (+) Once({"P_START_DATE_ID", "P_END_DATE_ID", "P_CHANNEL_DMAIL"})
  (+) generateRandomText("P_CHANNEL_DETAILS", 60, c)

ShipModeRowGenerator(c) ==
  createNullBitMap("SM_NULLS") (+) generateRandomCharset("SM_CONTRACT", 20)

StoreRowGenerator(c) ==
  createNullBitMap("W_STORE_NULLS") (+) makeAddressForColumn("W_STORE_ADDRESS")
  (+) Twice({"W_STORE_CLOSED_DATE_ID", "W_STORE_MANAGER",
             "W_STORE_MARKET_MANAGER"})
  (+) Once({"W_STORE_SCD", "W_STORE_EMPLOYEES", "W_STORE_FLOOR_SPACE",
            "W_STORE_HOURS", "W_STORE_MARKET_ID", "W_STORE_TAX_PERCENTAGE"})
  (+) generateRandomText("W_STORE_MARKET_DESC", 100, c)

WarehouseRowGenerator(c) ==
  createNullBitMap("W_NULLS") (+) Once({"W_WAREHOUSE_SQ_FT"})
  (+) generateRandomText("W_WAREHOUSE_NAME", 20, c)
  (+) makeAddressForColumn("W_WAREHOUSE_ADDRESS")

WebPageRowGenerator(c) ==
  createNullBitMap("WP_NULLS") (+) generateWebJoinKey("WP_CREATION_DATE_SK")
  (+) generateJoinKey({"WP_CUSTOMER_SK"})
  (+) Once({"WP_SCD", "WP_ACCESS_DATE_SK", "WP_AUTOGEN_FLAG", "WP_TYPE",
            "WP_LINK_COUNT", "WP_IMAGE_COUNT", "WP_MAX_AD_COUNT",
            "WP_CHAR_COUNT"})

WebSiteRowGenerator(c) ==
  createNullBitMap("WEB_NULLS") (+) makeAddressForColumn("WEB_ADDRESS")
  (+) If(c.new, generateWebJoinKey("WEB_OPEN_DATE")
                (+) generateWebJoinKey("WEB_CLOSE_DATE"))
  (+) Twice({"WEB_MANAGER", "WEB_MARKET_MANAGER"})
  (+) Once({"WEB_SCD", "WEB_MARKET_ID", "WEB_COMPANY_ID", "WEB_TAX_PERCENTAGE"})
  (+) generateRandomText("WEB_MARKET_CLASS", 50, c)
  (+) generateRandomText("WEB_MARKET_DESC", 100, c)

-----------------------------------------------------------------------------
(* A line of the sales tables, with the order it begins and its return.    *)
StoreReturnsRow ==
  createNullBitMap("SR_NULLS") (+) generateDateJoinKey("SR_RETURNED_DATE_SK")
  (+) generateJoinKey({"SR_CUSTOMER_SK", "SR_CDEMO_SK", "SR_HDEMO_SK",
                       "SR_ADDR_SK", "SR_REASON_SK"})
  (+) generateScdJoinKey({"SR_STORE_SK"})
  (+) Once({"SR_TICKET_NUMBER", "SR_RETURNED_TIME_SK", "SR_PRICING"})
  (+) generatePricingForReturnsTable("SR_PRICING")

StoreOrderInfo ==
  generateScdJoinKey({"SS_SOLD_STORE_SK"}) (+) generateTimeJoinKey("SS_SOLD_TIME_SK")
  (+) generateDateJoinKey("SS_SOLD_DATE_SK")
  (+) generateJoinKey({"SS_SOLD_CUSTOMER_SK", "SS_SOLD_CDEMO_SK",
                       "SS_SOLD_HDEMO_SK", "SS_SOLD_ADDR_SK"})

StoreSalesRowGenerator(c) ==
  If(c.first, makePermutation("SS_PERMUTATION"))
  (+) If(c.begins, StoreOrderInfo (+) Once({"SS_TICKET_NUMBER", "SS_SOLD_ITEM_SK"}))
  (+) createNullBitMap("SS_NULLS") (+) generateJoinKey({"SS_SOLD_PROMO_SK"})
  (+) generatePricingForSalesTable("SS_PRICING") (+) Once({"SR_IS_RETURNED"})
  (+) If(c.returned, StoreReturnsRow)

CatalogReturnsRow ==
  createNullBitMap("CR_NULLS") (+) generateDateJoinKey("CR_RETURNED_DATE_SK")
  (+) generateTimeJoinKey("CR_RETURNED_TIME_SK")
  (+) generateJoinKey({"CR_RETURNING_CUSTOMER_SK", "CR_RETURNING_CDEMO_SK",
                       "CR_RETURNING_HDEMO_SK", "CR_RETURNING_ADDR_SK",
                       "CR_SHIP_MODE_SK", "CR_WAREHOUSE_SK", "CR_REASON_SK"})
  (+) Once({"CR_RETURNING_CUSTOMER_SK", "CR_PRICING"})
  (+) generatePricingForReturnsTable("CR_PRICING")

(* A gift is shipped to another customer.                                  *)
CatalogOrderInfo(c) ==
  generateTimeJoinKey("CS_SOLD_TIME_SK") (+) generateScdJoinKey({"CS_CALL_CENTER_SK"})
  (+) generateJoinKey({"CS_BILL_CUSTOMER_SK", "CS_BILL_CDEMO_SK",
                       "CS_BILL_HDEMO_SK", "CS_BILL_ADDR_SK"})
  (+) Once({"CS_SHIP_CUSTOMER_SK"})
  (+) If(c.more, generateJoinKey({"CS_SHIP_CUSTOMER_SK", "CS_SHIP_CDEMO_SK",
                                  "CS_SHIP_HDEMO_SK", "CS_SHIP_ADDR_SK"}))

CatalogSalesRowGenerator(c) ==
  If(c.first, makePermutation("CS_PERMUTE"))
  (+) If(c.begins, CatalogOrderInfo(c) (+) Once({"CS_SOLD_ITEM_SK", "CS_ORDER_NUMBER"}))
  (+) createNullBitMap("CS_NULLS") (+) Once({"CS_SHIP_DATE_SK", "CR_IS_RETURNED"})
  (+) generateCatalogPageJoinKey("CS_CATALOG_PAGE_SK")
  (+) generateJoinKey({"CS_SHIP_MODE_SK", "CS_WAREHOUSE_SK", "CS_PROMO_SK"})
  (+) generatePricingForSalesTable("CS_PRICING")
  (+) If(c.returned, CatalogReturnsRow)

WebReturnsRow ==
  createNullBitMap("WR_NULLS") (+) generateDateJoinKey("WR_RETURNED_DATE_SK")
  (+) generateTimeJoinKey("WR_RETURNED_TIME_SK")
  (+) generateJoinKey({"WR_REFUNDED_CUSTOMER_SK", "WR_REFUNDED_CDEMO_SK",
                       "WR_REFUNDED_HDEMO_SK", "WR_REFUNDED_ADDR_SK",
                       "WR_REASON_SK"})
  (+) Once({"WR_RETURNING_CUSTOMER_SK", "WR_PRICING"})
  (+) generatePricingForReturnsTable("WR_PRICING")

WebOrderInfo(c) ==
  generateDateJoinKey("WS_SOLD_DATE_SK") (+) generateTimeJoinKey("WS_SOLD_TIME_SK")
  (+) generateJoinKey({"WS_BILL_CUSTOMER_SK", "WS_BILL_CDEMO_SK",
                       "WS_BILL_HDEMO_SK", "WS_BILL_ADDR_SK"})
  (+) Once({"WS_SHIP_CUSTOMER_SK"})
  (+) If(c.more, generateJoinKey({"WS_SHIP_CUSTOMER_SK", "WS_SHIP_CDEMO_SK",
                                  "WS_SHIP_HDEMO_SK", "WS_SHIP_ADDR_SK"}))

(* Mutant: the ship date's lag is drawn once for the order.                *)
WebSalesLagOnce(c) ==
  If(c.first, makePermutation("WS_PERMUTATION"))
  (+) If(c.begins, WebOrderInfo(c) (+) Once({"WS_ITEM_SK", "WS_ORDER_NUMBER", "WS_SHIP_DATE_SK"}))
  (+) createNullBitMap("WS_NULLS") (+) Once({"WR_IS_RETURNED"})
  (+) generateScdJoinKey({"WS_WEB_PAGE_SK", "WS_WEB_SITE_SK"})
  (+) generateJoinKey({"WS_SHIP_MODE_SK", "WS_WAREHOUSE_SK", "WS_PROMO_SK"})
  (+) generatePricingForSalesTable("WS_PRICING")
  (+) If(c.returned, WebReturnsRow)

WebSalesRowGenerator(c) ==
  If(c.first, makePermutation("WS_PERMUTATION"))
  (+) If(c.begins, WebOrderInfo(c) (+) Once({"WS_ITEM_SK", "WS_ORDER_NUMBER"}))
  (+) createNullBitMap("WS_NULLS") (+) Once({"WS_SHIP_DATE_SK", "WR_IS_RETURNED"})
  (+) generateScdJoinKey({"WS_WEB_PAGE_SK", "WS_WEB_SITE_SK"})
  (+) generateJoinKey({"WS_SHIP_MODE_SK", "WS_WAREHOUSE_SK", "WS_PROMO_SK"})
  (+) generatePricingForSalesTable("WS_PRICING")
  (+) If(c.returned, WebReturnsRow)

-----------------------------------------------------------------------------
(* Table.getRowGeneratorClass(); the returns generators have their parents *)
(* draw, then take the second row.                                         *)
generateRowAndChildRows(t, c) ==
  CASE t = "CALL_CENTER" -> CallCenterRowGenerator(c)
    [] t = "CATALOG_PAGE" -> CatalogPageRowGenerator(c)
    [] t \in {"CATALOG_SALES", "CATALOG_RETURNS"} -> CatalogSalesRowGenerator(c)
    [] t = "CUSTOMER" -> CustomerRowGenerator(c)
    [] t = "CUSTOMER_ADDRESS" -> CustomerAddressRowGenerator(c)
    [] t = "CUSTOMER_DEMOGRAPHICS" -> CustomerDemographicsRowGenerator(c)
    [] t = "DATE_DIM" -> DateDimRowGenerator(c)
    [] t = "HOUSEHOLD_DEMOGRAPHICS" -> HouseholdDemographicsRowGenerator(c)
    [] t = "INCOME_BAND" -> IncomeBandRowGenerator(c)
    [] t = "INVENTORY" -> InventoryRowGenerator(c)
    [] t = "ITEM" -> ItemRowGenerator(c)
    [] t = "PROMOTION" -> PromotionRowGenerator(c)
    [] t = "REASON" -> ReasonRowGenerator(c)
    [] t = "SHIP_MODE" -> ShipModeRowGenerator(c)
    [] t = "STORE" -> StoreRowGenerator(c)
    [] t \in {"STORE_SALES", "STORE_RETURNS"} -> StoreSalesRowGenerator(c)
    [] t = "TIME_DIM" -> TimeDimRowGenerator(c)
    [] t = "WAREHOUSE" -> WarehouseRowGenerator(c)
    [] t = "WEB_PAGE" -> WebPageRowGenerator(c)
    [] t \in {"WEB_SALES", "WEB_RETURNS"} -> WebSalesRowGenerator(c)
    [] t = "WEB_SITE" -> WebSiteRowGenerator(c)
    [] t = "DBGEN_VERSION" -> DbgenVersionRowGenerator(c)
==============================================================================
