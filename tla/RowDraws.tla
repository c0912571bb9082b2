------------------------------- MODULE RowDraws -------------------------------
(***************************************************************************)
(* What the builder of a row draws from the random-number streams, for     *)
(* every table dsdgen builds.  A row's draws are a bag: how many numbers   *)
(* it takes from each stream.  column_list.txt sets aside a budget for     *)
(* each stream; the code that skips to a row relies on every row using up  *)
(* exactly that (see module RowBuilders).                                  *)
(*                                                                         *)
(* A stream has the name of its column.  What a builder does with its      *)
(* numbers is left out but for what decides how many it takes: a case c    *)
(* holds the outcomes that matter                                          *)
(*   c.first     the process builds its first row of the table             *)
(*   c.new       the row is the first version of its business key          *)
(*   c.more      texts come out long, gifts are given, keys have versions  *)
(*   c.lines     the line items of an order                                *)
(*   c.returned  how many of them are returned                             *)
(***************************************************************************)
EXTENDS Naturals, Bags

CONSTANTS
  TextLeast,   (* the numbers the shortest text of a longest length takes  *)
  TextMost,    (* and the longest, by longest length                       *)
  Ids          (* getIDCount(): the ids that are shuffled                  *)

ASSUME TextAssumption ==
  \A len \in {20, 50, 60, 99, 100, 200} :
    TextMost[len] \in Nat /\ TextLeast[len] \in 1 .. TextMost[len]

ASSUME IdsAssumption == Ids \in Nat

Copies(s, bag)  == IF s \in DOMAIN bag THEN bag[s] ELSE 0
Times(n, draws) == IF n = 0 THEN EmptyBag ELSE [s \in DOMAIN draws |-> n * draws[s]]
Each(n, S)      == [s \in S |-> n]
Once(S)         == Each(1, S)
Twice(S)        == Each(2, S)
If(cond, draws) == IF cond THEN draws ELSE EmptyBag

-----------------------------------------------------------------------------
(***************************************************************************)
(* What the builders call.                                                 *)
(***************************************************************************)

(* nullSet(): a threshold and a bit map, always.                           *)
Nulls(s) == Twice({s})

(* gen_text(): the length, a sentence form, a word per part of speech.     *)
Text(s, len, c) == Each(IF c.more THEN TextMost[len] ELSE TextLeast[len], {s})

(* Mutant: the loop over the places goes one too far.                      *)
CharsetInclusive(s, max) == Each(2 + max, {s})

(* gen_charset(): the length, then a character for each of the max places, *)
(* the unused ones too.                                                    *)
Charset(s, max) == Each(1 + max, {s})

(* genrand_email(): a domain, a length, a charset of 20.                   *)
Email(s) == Twice({s}) (+) Charset(s, 20)

(* genrand_ipaddr(): four numbers.                                         *)
IpAddr(s) == Each(4, {s})

(* mk_address(): number, two names, type, suite, city, county; a small     *)
(* table draws the last two from a range, the others from a distribution.  *)
Address(s) == Each(7, {s})

(* A manager's first and last name.                                        *)
Names(S) == Twice(S)

(* set_pricing(): all the parts of a sale; of a warehouse return only      *)
(* three; nothing for the returns of an update.                            *)
SalePricing(s)   == Each(8, {s})
ReturnPricing(s) == Each(4, {s})

(* makePermutation(): a number per id, for the first row of a process.     *)
Shuffle(s, c) == If(c.first, Each(Ids, {s}))

(* mk_join() draws once for most tables.  cp_join() picks the type and the *)
(* page, time_join() the hour and the second; for DATE the year is drawn   *)
(* before date_join() picks the day, or web_join() looks at the site.      *)
Join(S)           == Once(S)
CatalogPageJoin(s) == Twice({s})
TimeJoin(s)       == Twice({s})
DateJoin(s)       == Twice({s})
WebDateJoin(S)    == Once(S)

(* getSKFromID(): the version, when the id has more than one.              *)
Version(s, c) == If(c.more, Once({s}))

-----------------------------------------------------------------------------
(***************************************************************************)
(* The warehouse tables.                                                   *)
(***************************************************************************)
CallCenter(c) ==
  Nulls("CC_NULLS")
  (+) If(c.new, Once({"CC_OPEN_DATE_ID"}) (+) Address("CC_ADDRESS"))
  (+) Once({"CC_SCD", "CC_CLASS", "CC_EMPLOYEES", "CC_SQ_FT", "CC_HOURS",
            "CC_MARKET_ID", "CC_TAX_PERCENTAGE"})
  (+) Names({"CC_MANAGER", "CC_MARKET_MANAGER"})
  (+) Twice({"CC_COMPANY"})                       (* company and division  *)
  (+) Text("CC_MARKET_CLASS", 50, c) (+) Text("CC_MARKET_DESC", 100, c)

CatalogPage(c) == Nulls("CP_NULLS") (+) Text("CP_DESCRIPTION", 99, c)

Customer(c) ==
  Nulls("C_NULLS") (+) Email("C_EMAIL_ADDRESS")
  (+) Join({"C_CURRENT_HDEMO_SK", "C_CURRENT_CDEMO_SK", "C_CURRENT_ADDR_SK"})
  (+) Once({"C_PREFERRED_CUST_FLAG", "C_FIRST_NAME", "C_LAST_NAME",
            "C_SALUTATION", "C_BIRTH_DAY", "C_LAST_REVIEW_DATE",
            "C_FIRST_SALES_DATE_ID", "C_BIRTH_COUNTRY"})

CustomerAddress(c) ==
  Nulls("CA_NULLS") (+) Once({"CA_LOCATION_TYPE"}) (+) Address("CA_ADDRESS")

CustomerDemographics(c)  == Nulls("CD_NULLS")
Date(c)                  == Nulls("D_NULLS")
HouseholdDemographics(c) == Nulls("HD_NULLS")
IncomeBand(c)            == Nulls("IB_NULLS")
Reason(c)                == Nulls("R_NULLS")
Time(c)                  == Nulls("T_NULLS")

Inventory(c) == Nulls("INV_NULLS") (+) Once({"INV_QUANTITY_ON_HAND"})

(* The container is picked from the stream numbered ITEM, which is that of *)
(* column CC_HOURS.                                                        *)
Item(c) ==
  Nulls("I_NULLS") (+) Text("I_ITEM_DESC", 200, c)
  (+) Twice({"I_MANAGER_ID", "I_CURRENT_PRICE", "I_MANUFACT_ID"})
  (+) Once({"I_SCD", "I_WHOLESALE_COST", "I_CATEGORY", "I_CLASS", "I_SIZE",
            "I_COLOR", "I_UNITS"})
  (+) Charset("I_FORMULATION", 20) (+) Twice({"I_FORMULATION"})
  (+) Once({"CC_HOURS"})
  (+) Join({"I_PROMO_SK"}) (+) Once({"I_PROMO_SK"})

Promotion(c) ==
  Nulls("P_NULLS") (+) Join({"P_ITEM_SK"})
  (+) Once({"P_START_DATE_ID", "P_END_DATE_ID", "P_CHANNEL_DMAIL", "P_PURPOSE"})
  (+) Text("P_CHANNEL_DETAILS", 60, c)

ShipMode(c) == Nulls("SM_NULLS") (+) Charset("SM_CONTRACT", 20)

Store(c) ==
  Nulls("W_STORE_NULLS") (+) Address("W_STORE_ADDRESS")
  (+) Twice({"W_STORE_CLOSED_DATE_ID"})
  (+) Names({"W_STORE_MANAGER", "W_STORE_MARKET_MANAGER"})
  (+) Once({"W_STORE_SCD", "W_STORE_TYPE", "W_STORE_EMPLOYEES",
            "W_STORE_FLOOR_SPACE", "W_STORE_HOURS", "W_STORE_MARKET_ID",
            "W_STORE_TAX_PERCENTAGE", "W_STORE_GEOGRAPHY_CLASS",
            "W_STORE_DIVISION_NAME", "W_STORE_COMPANY_NAME"})
  (+) Text("W_STORE_MARKET_DESC", 100, c)

Warehouse(c) ==
  Nulls("W_NULLS") (+) Text("W_WAREHOUSE_NAME", 20, c)
  (+) Once({"W_WAREHOUSE_SQ_FT"}) (+) Address("W_WAREHOUSE_ADDRESS")

(* Every page's site counts as one that is replaced, so that the creation  *)
(* date takes a second number.                                             *)
WebPage(c) ==
  Nulls("WP_NULLS") (+) Join({"WP_CUSTOMER_SK"})
  (+) WebDateJoin({"WP_CREATION_DATE_SK"}) (+) Once({"WP_CREATION_DATE_SK"})
  (+) Once({"WP_SCD", "WP_ACCESS_DATE_SK", "WP_AUTOGEN_FLAG", "WP_TYPE",
            "WP_LINK_COUNT", "WP_IMAGE_COUNT", "WP_MAX_AD_COUNT",
            "WP_CHAR_COUNT"})

WebSite(c) ==
  Nulls("WEB_NULLS") (+) Address("WEB_ADDRESS")
  (+) If(c.new, WebDateJoin({"WEB_OPEN_DATE", "WEB_CLOSE_DATE"}))
  (+) Names({"WEB_MANAGER", "WEB_MARKET_MANAGER"})
  (+) Once({"WEB_SCD", "WEB_MARKET_ID", "WEB_COMPANY_ID", "WEB_TAX_PERCENTAGE"})
  (+) Text("WEB_MARKET_CLASS", 50, c) (+) Text("WEB_MARKET_DESC", 100, c)

-----------------------------------------------------------------------------
(***************************************************************************)
(* The sales of the warehouse: an order draws for itself, its lines draw   *)
(* from the same budget, their returns from that of the returns table.     *)
(***************************************************************************)
StoreSale ==
  DateJoin("SS_SOLD_DATE_SK") (+) TimeJoin("SS_SOLD_TIME_SK")
  (+) Join({"SS_SOLD_STORE_SK", "SS_SOLD_CUSTOMER_SK", "SS_SOLD_CDEMO_SK",
            "SS_SOLD_HDEMO_SK", "SS_SOLD_ADDR_SK"})
  (+) Once({"SS_SOLD_ITEM_SK", "SS_TICKET_NUMBER"})

StoreSaleLine ==
  Nulls("SS_NULLS") (+) SalePricing("SS_PRICING") (+) Join({"SS_SOLD_PROMO_SK"})
  (+) Once({"SR_IS_RETURNED"})

StoreReturn ==
  Nulls("SR_NULLS") (+) DateJoin("SR_RETURNED_DATE_SK")
  (+) Join({"SR_CUSTOMER_SK", "SR_CDEMO_SK", "SR_HDEMO_SK", "SR_ADDR_SK",
            "SR_STORE_SK", "SR_REASON_SK"})
  (+) Once({"SR_TICKET_NUMBER", "SR_RETURNED_TIME_SK", "SR_PRICING"})
  (+) ReturnPricing("SR_PRICING")

StoreSales(c) ==
  Shuffle("SS_PERMUTATION", c) (+) StoreSale
  (+) Times(c.lines, StoreSaleLine) (+) Times(c.returned, StoreReturn)

(* A gift draws another customer and what belongs to them.                 *)
CatalogSale(c) ==
  TimeJoin("CS_SOLD_TIME_SK")
  (+) Join({"CS_CALL_CENTER_SK", "CS_BILL_CUSTOMER_SK", "CS_BILL_CDEMO_SK",
            "CS_BILL_HDEMO_SK", "CS_BILL_ADDR_SK"})
  (+) Once({"CS_SHIP_CUSTOMER_SK", "CS_SOLD_ITEM_SK", "CS_ORDER_NUMBER"})
  (+) If(c.more, Join({"CS_SHIP_CUSTOMER_SK", "CS_SHIP_CDEMO_SK",
                       "CS_SHIP_HDEMO_SK", "CS_SHIP_ADDR_SK"}))

CatalogSaleLine ==
  Nulls("CS_NULLS") (+) SalePricing("CS_PRICING")
  (+) CatalogPageJoin("CS_CATALOG_PAGE_SK")
  (+) Join({"CS_SHIP_MODE_SK", "CS_WAREHOUSE_SK", "CS_PROMO_SK"})
  (+) Once({"CS_SHIP_DATE_SK", "CR_IS_RETURNED"})

CatalogReturn ==
  Nulls("CR_NULLS") (+) DateJoin("CR_RETURNED_DATE_SK")
  (+) TimeJoin("CR_RETURNED_TIME_SK")
  (+) Join({"CR_RETURNING_CUSTOMER_SK", "CR_RETURNING_CDEMO_SK",
            "CR_RETURNING_HDEMO_SK", "CR_RETURNING_ADDR_SK",
            "CR_SHIP_MODE_SK", "CR_WAREHOUSE_SK", "CR_REASON_SK"})
  (+) Once({"CR_RETURNING_CUSTOMER_SK", "CR_PRICING"})
  (+) ReturnPricing("CR_PRICING")

CatalogSales(c) ==
  Shuffle("CS_PERMUTE", c) (+) CatalogSale(c)
  (+) Times(c.lines, CatalogSaleLine) (+) Times(c.returned, CatalogReturn)

WebSale(c) ==
  DateJoin("WS_SOLD_DATE_SK") (+) TimeJoin("WS_SOLD_TIME_SK")
  (+) Join({"WS_BILL_CUSTOMER_SK", "WS_BILL_CDEMO_SK", "WS_BILL_HDEMO_SK",
            "WS_BILL_ADDR_SK"})
  (+) Once({"WS_SHIP_CUSTOMER_SK", "WS_ITEM_SK", "WS_ORDER_NUMBER"})
  (+) If(c.more, Join({"WS_SHIP_CUSTOMER_SK", "WS_SHIP_CDEMO_SK",
                       "WS_SHIP_HDEMO_SK", "WS_SHIP_ADDR_SK"}))

WebSaleLine ==
  Nulls("WS_NULLS") (+) SalePricing("WS_PRICING")
  (+) Join({"WS_WEB_PAGE_SK", "WS_WEB_SITE_SK", "WS_SHIP_MODE_SK",
            "WS_WAREHOUSE_SK", "WS_PROMO_SK"})
  (+) Once({"WS_SHIP_DATE_SK", "WR_IS_RETURNED"})

WebReturn ==
  Nulls("WR_NULLS") (+) DateJoin("WR_RETURNED_DATE_SK")
  (+) TimeJoin("WR_RETURNED_TIME_SK")
  (+) Join({"WR_REFUNDED_CUSTOMER_SK", "WR_REFUNDED_CDEMO_SK",
            "WR_REFUNDED_HDEMO_SK", "WR_REFUNDED_ADDR_SK", "WR_REASON_SK"})
  (+) Once({"WR_RETURNING_CUSTOMER_SK", "WR_PRICING"})
  (+) ReturnPricing("WR_PRICING")

WebSales(c) ==
  Shuffle("WS_PERMUTATION", c) (+) WebSale(c)
  (+) Times(c.lines, WebSaleLine) (+) Times(c.returned, WebReturn)

-----------------------------------------------------------------------------
(***************************************************************************)
(* The source tables of an update.  Most take a shuffled id and fill a row *)
(* of the warehouse table, from that table's streams.                      *)
(***************************************************************************)
SCallCenter(c) ==
  Shuffle("S_CALL_CENTER_ID", c) (+) Version("S_CALL_CENTER_ID", c) (+) CallCenter(c)
SCatalogPage(c) == CatalogPage(c)
SItem(c) ==
  Shuffle("S_ITEM_PERMUTE", c) (+) Version("S_ITEM_ID", c) (+) Item(c)
SPromotion(c) == Shuffle("S_PROMOTION_ID", c) (+) Promotion(c)
SStore(c) == Shuffle("S_STORE_ID", c) (+) Version("S_STORE_ID", c) (+) Store(c)
SWarehouse(c) == Shuffle("S_WRHS_ID", c) (+) Warehouse(c)
SWebPage(c) ==
  Shuffle("S_WPAG_PERMUTE", c) (+) Version("S_WPAG_ID", c) (+) WebPage(c)

(* Rows of the source table of web sites come from mk_w_web_site() itself. *)
SWebSite(c) == WebSite(c)

SInventory(c) == Once({"S_INVN_QUANTITY"})

(* The customer's address is a row of CUSTOMER_ADDRESS.                    *)
SCustomer(c) ==
  Shuffle("S_CUST_ID", c) (+) Join({"S_CUST_GENDER"})
  (+) Once({"S_CUST_FIRST_NAME", "S_CUST_SALUTATION", "S_CUST_LAST_NAME",
            "S_CUST_PREFERRED_FLAG", "S_CUST_BIRTH_DATE",
            "S_CUST_FIRST_PURCHASE_DATE", "S_CUST_FIRST_SHIPTO_DATE",
            "S_CUST_LAST_LOGIN", "S_CUST_LAST_REVIEW", "S_CUST_LOCATION_TYPE",
            "S_CUST_VEHICLE_CNT", "S_CUST_INCOME", "S_CUST_PURCHASE_ESTIMATE"})
  (+) Charset("S_CUST_LOGIN", 13) (+) Email("S_CUST_EMAIL")
  (+) IpAddr("S_CUST_PRIMARY_MACHINE") (+) IpAddr("S_CUST_SECONDARY_MACHINE")
  (+) CustomerAddress(c)

(* A purchase of an update: twelve lines in a table of their own, and      *)
(* their returns in a third.                                               *)
Purchase(c) ==
  Join({"S_PURCHASE_STORE_ID", "S_PURCHASE_CUSTOMER_ID"})
  (+) Once({"S_PURCHASE_REGISTER", "S_PURCHASE_CLERK", "S_PLINE_ITEM_ID"})
  (+) Text("S_PURCHASE_COMMENT", 100, c)

PurchaseLine(c) ==
  Join({"S_PLINE_PROMOTION_ID"}) (+) Once({"S_PLINE_QUANTITY", "S_PLINE_IS_RETURNED"})
  (+) SalePricing("S_PLINE_PRICING") (+) Text("S_PLINE_COMMENT", 100, c)

PurchaseReturn ==
  Once({"S_SRET_RETURN_DATE", "S_SRET_PRICING"}) (+) TimeJoin("S_SRET_RETURN_TIME")
  (+) Join({"S_SRET_REASON_ID"})

SPurchase(c) ==
  Shuffle("S_PLINE_PERMUTE", c) (+) Purchase(c)
  (+) Times(c.lines, PurchaseLine(c)) (+) Times(c.returned, PurchaseReturn)

CatalogOrder(c) ==
  Join({"S_CORD_BILL_CUSTOMER_ID", "S_CORD_SHIP_MODE_ID"})
  (+) Once({"S_CORD_ORDER_TIME", "S_CORD_SHIP_CUSTOMER_ID", "S_CLIN_ITEM_ID"})
  (+) If(c.more, Join({"S_CORD_SHIP_CUSTOMER_ID"}))
  (+) Text("S_CORD_COMMENT", 100, c)

CatalogOrderLine ==
  Join({"S_CLIN_PROMOTION_ID", "S_CLIN_WAREHOUSE_ID"})
  (+) CatalogPageJoin("S_CLIN_CATALOG_PAGE_ID") (+) SalePricing("S_CLIN_PRICING")
  (+) Once({"S_CLIN_SHIP_DATE", "S_CLIN_IS_RETURNED"})

CatalogOrderReturn ==
  TimeJoin("S_CRET_TIME") (+) Once({"S_CRET_DATE", "S_CRET_PRICING"})
  (+) Join({"S_CRET_CALL_CENTER_ID", "S_CRET_REASON_ID", "S_CRET_SHIPMODE_ID",
            "S_CRET_WAREHOUSE_ID"})

SCatalogOrder(c) ==
  Shuffle("S_CLIN_PERMUTE", c) (+) CatalogOrder(c)
  (+) Times(c.lines, CatalogOrderLine) (+) Times(c.returned, CatalogOrderReturn)

WebOrder(c) ==
  Join({"S_WORD_BILL_CUSTOMER_ID", "S_WORD_SHIP_MODE_ID", "S_WORD_WEB_SITE_ID"})
  (+) Once({"S_WORD_ORDER_TIME", "S_WORD_SHIP_CUSTOMER_ID", "S_WLIN_ITEM_ID"})
  (+) If(c.more, Join({"S_WORD_SHIP_CUSTOMER_ID"}))
  (+) Text("S_WORD_COMMENT", 100, c)

WebOrderLine ==
  Join({"S_WLIN_PROMOTION_ID", "S_WLIN_WAREHOUSE_ID", "S_WLIN_WEB_PAGE_ID"})
  (+) SalePricing("S_WLIN_PRICING") (+) Once({"S_WLIN_SHIP_DATE", "S_WLIN_IS_RETURNED"})

(* The reason is joined twice.                                             *)
WebOrderReturn ==
  TimeJoin("S_WRET_RETURN_TIME") (+) Once({"S_WRET_RETURN_DATE", "S_WRET_PRICING"})
  (+) Join({"S_WRET_REASON_ID"}) (+) Join({"S_WRET_REASON_ID"})

SWebOrder(c) ==
  Shuffle("S_WLIN_PERMUTE", c) (+) WebOrder(c)
  (+) Times(c.lines, WebOrderLine) (+) Times(c.returned, WebOrderReturn)

-----------------------------------------------------------------------------
(* The table of builders; S_ZIPG and DBGEN_VERSION draw nothing.           *)
Draws(t, c) ==
  CASE t = "CALL_CENTER" -> CallCenter(c)
    [] t = "CATALOG_PAGE" -> CatalogPage(c)
    [] t = "CATALOG_SALES" -> CatalogSales(c)
    [] t = "CUSTOMER" -> Customer(c)
    [] t \in {"CUSTOMER_ADDRESS", "S_CUSTOMER_ADDRESS"} -> CustomerAddress(c)
    [] t = "CUSTOMER_DEMOGRAPHICS" -> CustomerDemographics(c)
    [] t = "DATE" -> Date(c)
    [] t = "HOUSEHOLD_DEMOGRAPHICS" -> HouseholdDemographics(c)
    [] t = "INCOME_BAND" -> IncomeBand(c)
    [] t = "INVENTORY" -> Inventory(c)
    [] t = "ITEM" -> Item(c)
    [] t = "PROMOTION" -> Promotion(c)
    [] t = "REASON" -> Reason(c)
    [] t = "SHIP_MODE" -> ShipMode(c)
    [] t = "STORE" -> Store(c)
    [] t = "STORE_SALES" -> StoreSales(c)
    [] t = "TIME" -> Time(c)
    [] t = "WAREHOUSE" -> Warehouse(c)
    [] t = "WEB_PAGE" -> WebPage(c)
    [] t = "WEB_SALES" -> WebSales(c)
    [] t = "WEB_SITE" -> WebSite(c)
    [] t = "S_CALL_CENTER" -> SCallCenter(c)
    [] t = "S_CATALOG_ORDER" -> SCatalogOrder(c)
    [] t = "S_CATALOG_PAGE" -> SCatalogPage(c)
    [] t = "S_CUSTOMER" -> SCustomer(c)
    [] t = "S_INVENTORY" -> SInventory(c)
    [] t = "S_ITEM" -> SItem(c)
    [] t = "S_PROMOTION" -> SPromotion(c)
    [] t = "S_PURCHASE" -> SPurchase(c)
    [] t = "S_STORE" -> SStore(c)
    [] t = "S_WAREHOUSE" -> SWarehouse(c)
    [] t = "S_WEB_ORDER" -> SWebOrder(c)
    [] t = "S_WEB_PAGE" -> SWebPage(c)
    [] t = "S_WEB_SITE" -> SWebSite(c)
    [] OTHER -> EmptyBag
==============================================================================
