------------------------------ MODULE ApiMarket ------------------------------
(* The messages and enums the front end exchanges with a server about
   the market's products, purchases, payments and subscriptions.
   A message is the sequence of its fields in the order the codec writes them; an
   enum is the record of its names and numbers (without UNRECOGNIZED, -1). *)
EXTENDS Protobuf

(* market.ts *)

PurchaseType == [
    PURCHASE_TYPE_MEDIA_STORAGE |-> 0, PURCHASE_TYPE_AI_GRANTS |-> 1,
    PURCHASE_TYPE_RELLM_HOSTING |-> 2, PURCHASE_TYPE_PERMISSIONS_ACCESS |-> 3 ]

PurchasePeriod == [
    PURCHASE_PERIOD_INDEFINITE |-> 0, PURCHASE_PERIOD_ANNUAL |-> 1,
    PURCHASE_PERIOD_MONTHLY |-> 2 ]

FulfillmentStatus == [
    FULFILLMENT_STATUS_AWAITING_HOST_ADMIN |-> 0, FULFILLMENT_STATUS_FULFILLED |-> 1,
    FULFILLMENT_STATUS_IN_PROGRESS |-> 2 ]

GetMarketSubscriptionsRequestType == [
    GET_MARKET_SUBSCRIPTIONS_REQUEST_FOR_PURCHASE |-> 0,
    GET_MARKET_SUBSCRIPTIONS_REQUEST_FOR_FULFILLMENT_ADMIN |-> 1 ]

MarketProduct == <<
    Plain(1, "id", Str), Plain(2, "type", Enum("PurchaseType")),
    Plain(3, "period", Enum("PurchasePeriod")), Plain(4, "amount", Uint32),
    Plain(5, "currency", Uint32), Plain(6, "availableCount", Uint32),
    Plain(7, "soldCount", Uint32),
    Opt(10, "mediaStorageSubscriptionDetails", Msg("MediaStorageSubscriptionDetails")),
    Opt(11, "aiGrantSubscriptionDetails", Msg("AIGrantSubscriptionDetails")),
    Opt(12, "rellmHostingSubscriptionDetails", Msg("RellmHostingSubscriptionDetails")),
    Opt(13, "permissionsAccessSubscriptionDetails", Msg("PermissionsAccessSubscriptionDetails")),
    Opt(20, "createdAt", Time), Opt(21, "delistedAt", Time) >>

GetMarketProductsRequest == <<  >>

GetMarketProductsResponse == << Rep(1, "marketProducts", Msg("MarketProduct")) >>

GetMarketSubscriptionsRequest == <<
    Plain(1, "requestType", Enum("GetMarketSubscriptionsRequestType")) >>

GetMarketSubscriptionsResponse == << Rep(1, "marketSubscriptions", Msg("MarketSubscription")) >>

MakeMarketPurchaseRequest == <<
    Plain(1, "marketProductId", Str),
    Opt(2, "rellmHostingDetails", Msg("RellmHostingPurchaseDetails")) >>

MakeMarketPurchaseResponse == << Plain(1, "checkoutUrl", Str) >>

MarketPurchase == <<
    Plain(1, "id", Str), Opt(2, "buyer", Msg("Author")), Plain(3, "type", Enum("PurchaseType")),
    Opt(4, "marketProduct", Msg("MarketProduct")),
    Opt(5, "marketSubscription", Msg("MarketSubscription")),
    Rep(6, "marketPayments", Msg("MarketPayment")),
    Rep(7, "marketRefunds", Msg("MarketRefund")),
    Opt(10, "mediaStoragePurchaseDetails", Msg("MediaStoragePurchaseDetails")),
    Opt(11, "aiGrantPurchaseDetails", Msg("AIGrantPurchaseDetails")),
    Opt(12, "rellmHostingPurchaseDetails", Msg("RellmHostingPurchaseDetails")),
    Opt(13, "permissionsAccessPurchaseDetails", Msg("PermissionsAccessPurchaseDetails")),
    Opt(20, "createdAt", Time) >>

MarketPayment == <<
    Plain(1, "amount", Uint32), Plain(2, "currency", Uint32), Plain(3, "marketPurchaseId", Str),
    Opt(4, "method", Msg("MarketPaymentMethod")), Opt(10, "createdAt", Time) >>

MarketPaymentMethod == <<
    Plain(1, "cardBrand", Str), Plain(2, "cardLast4", Str), Plain(3, "cardExpMonth", Uint32),
    Plain(4, "cardExpYear", Uint32) >>

MarketRefund == <<
    Plain(1, "amount", Uint32), Plain(2, "currency", Uint32), Plain(3, "marketPurchaseId", Str),
    Opt(4, "method", Msg("MarketRefundMethod")), Opt(10, "createdAt", Time) >>

MarketRefundMethod == <<
    Plain(1, "cardBrand", Str), Plain(2, "cardLast4", Str), Plain(3, "cardExpMonth", Uint32),
    Plain(4, "cardExpYear", Uint32) >>

MediaStoragePurchaseDetails == << Plain(1, "allocationBytes", Uint64) >>

AIGrantPurchaseDetails == <<
    Plain(1, "aiProviderId", Str), Rep(2, "modelNames", Str), Plain(3, "tokens", Uint64) >>

RellmHostingPurchaseDetails == <<
    Plain(1, "dbSizeBytes", Uint64), Plain(2, "objectStorageSizeBytes", Uint64),
    Plain(3, "additionalDescription", Str), Plain(4, "domain", Str),
    Plain(5, "contactEmail", Str), Plain(6, "additionalInformation", Str) >>

PermissionsAccessPurchaseDetails == <<
    Packed(1, "permissions", Enum("Permission")), Plain(2, "name", Str),
    Plain(3, "description", Str) >>

MarketSubscription == <<
    Plain(1, "id", Str), Opt(2, "buyer", Msg("Author")), Plain(3, "type", Enum("PurchaseType")),
    Plain(4, "period", Enum("PurchasePeriod")), Plain(5, "amount", Uint32),
    Plain(6, "currency", Uint32), Opt(7, "marketProduct", Msg("MarketProduct")),
    Rep(8, "billingHistory", Msg("MarketPurchase")),
    Opt(10, "mediaStorageSubscriptionDetails", Msg("MediaStorageSubscriptionDetails")),
    Opt(11, "aiGrantSubscriptionDetails", Msg("AIGrantSubscriptionDetails")),
    Opt(12, "rellmHostingSubscriptionDetails", Msg("RellmHostingSubscriptionDetails")),
    Opt(13, "permissionsAccessSubscriptionDetails", Msg("PermissionsAccessSubscriptionDetails")),
    Opt(20, "createdAt", Time), Opt(21, "renewsAt", Time), Opt(22, "canceledAt", Time),
    Opt(23, "serviceTerminatedAt", Time) >>

MediaStorageSubscriptionDetails == << Plain(1, "allocationBytes", Uint64) >>

PermissionsAccessSubscriptionDetails == <<
    Packed(1, "permissions", Enum("Permission")), Plain(2, "name", Str),
    Plain(3, "description", Str) >>

AIGrantSubscriptionDetails == <<
    Plain(1, "aiProviderId", Str), Rep(2, "modelNames", Str), Plain(3, "tokens", Uint64) >>

RellmHostingSubscriptionDetails == <<
    Plain(1, "dbSizeBytes", Uint64), Plain(2, "objectStorageSizeBytes", Uint64),
    Plain(3, "additionalDescription", Str), Plain(4, "domain", Str),
    Plain(5, "contactEmail", Str), Plain(6, "additionalInformation", Str),
    Plain(7, "fulfillmentStatus", Enum("FulfillmentStatus")),
    Rep(8, "fulfillmentNotes", Msg("FulfillmentNote")) >>

FulfillmentNote == <<
    Plain(1, "userId", Str), Plain(2, "note", Str),
    Plain(3, "fulfillmentStatus", Enum("FulfillmentStatus")), Opt(4, "createdAt", Time) >>

-------------------------------------------------------------------------------
MarketMessages == [
    MarketProduct |-> MarketProduct, GetMarketProductsRequest |-> GetMarketProductsRequest,
    GetMarketProductsResponse |-> GetMarketProductsResponse,
    GetMarketSubscriptionsRequest |-> GetMarketSubscriptionsRequest,
    GetMarketSubscriptionsResponse |-> GetMarketSubscriptionsResponse,
    MakeMarketPurchaseRequest |-> MakeMarketPurchaseRequest,
    MakeMarketPurchaseResponse |-> MakeMarketPurchaseResponse,
    MarketPurchase |-> MarketPurchase, MarketPayment |-> MarketPayment,
    MarketPaymentMethod |-> MarketPaymentMethod, MarketRefund |-> MarketRefund,
    MarketRefundMethod |-> MarketRefundMethod,
    MediaStoragePurchaseDetails |-> MediaStoragePurchaseDetails,
    AIGrantPurchaseDetails |-> AIGrantPurchaseDetails,
    RellmHostingPurchaseDetails |-> RellmHostingPurchaseDetails,
    PermissionsAccessPurchaseDetails |-> PermissionsAccessPurchaseDetails,
    MarketSubscription |-> MarketSubscription,
    MediaStorageSubscriptionDetails |-> MediaStorageSubscriptionDetails,
    PermissionsAccessSubscriptionDetails |-> PermissionsAccessSubscriptionDetails,
    AIGrantSubscriptionDetails |-> AIGrantSubscriptionDetails,
    RellmHostingSubscriptionDetails |-> RellmHostingSubscriptionDetails,
    FulfillmentNote |-> FulfillmentNote ]

MarketEnums == [
    PurchaseType |-> PurchaseType, PurchasePeriod |-> PurchasePeriod,
    FulfillmentStatus |-> FulfillmentStatus,
    GetMarketSubscriptionsRequestType |-> GetMarketSubscriptionsRequestType ]
===============================================================================
