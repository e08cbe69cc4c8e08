------------------------------ MODULE Messages ------------------------------
(***************************************************************************)
(* What the shop's services say to each other, as the storefront's gRPC    *)
(* clients know it (src/src/frontend/protos/demo.ts): the fields of every  *)
(* message, with the number, the name and the kind its encode and decode   *)
(* give them, and the calls of every service, with the messages they carry.*)
(*                                                                         *)
(* A field holds one value of its kind, or, when it is repeated, a         *)
(* sequence.  A message inside another may be undefined: it is a sequence  *)
(* of at most one message here, empty when undefined.                      *)
(***************************************************************************)
EXTENDS Integers, Sequences

Field(number, name, kind, of) ==
    [number |-> number, name |-> name, kind |-> kind, of |-> of]

Str(number, name) == Field(number, name, "string", "none")
Int32(number, name) == Field(number, name, "int32", "none")
Int64(number, name) == Field(number, name, "int64", "none")
Bool(number, name) == Field(number, name, "bool", "none")
Strs(number, name) == Field(number, name, "strings", "none")
Msg(number, name, of) == Field(number, name, "message", of)
Msgs(number, name, of) == Field(number, name, "messages", of)

-----------------------------------------------------------------------------
CartItem == <<Str(1, "productId"), Int32(2, "quantity")>>
AddItemRequest == <<Str(1, "userId"), Msg(2, "item", "CartItem")>>
EmptyCartRequest == <<Str(1, "userId")>>
GetCartRequest == <<Str(1, "userId")>>
Cart == <<Str(1, "userId"), Msgs(2, "items", "CartItem")>>
Empty == <<>>
ListRecommendationsRequest == <<Str(1, "userId"), Strs(2, "productIds")>>
ListRecommendationsResponse == <<Strs(1, "productIds")>>
Product == <<
    Str(1, "id"), Str(2, "name"), Str(3, "description"), Str(4, "picture"),
    Msg(5, "priceUsd", "Money"), Strs(6, "categories")>>
ListProductsResponse == <<Msgs(1, "products", "Product")>>
GetProductRequest == <<Str(1, "id")>>
SearchProductsRequest == <<Str(1, "query")>>
SearchProductsResponse == <<Msgs(1, "results", "Product")>>
GetQuoteRequest == <<
    Msg(1, "address", "Address"), Msgs(2, "items", "CartItem")>>
GetQuoteResponse == <<Msg(1, "costUsd", "Money")>>
ShipOrderRequest == <<
    Msg(1, "address", "Address"), Msgs(2, "items", "CartItem")>>
ShipOrderResponse == <<Str(1, "trackingId")>>
Address == <<
    Str(1, "streetAddress"), Str(2, "city"), Str(3, "state"),
    Str(4, "country"), Str(5, "zipCode")>>
Money == <<Str(1, "currencyCode"), Int64(2, "units"), Int32(3, "nanos")>>
GetSupportedCurrenciesResponse == <<Strs(1, "currencyCodes")>>
CurrencyConversionRequest == <<Msg(1, "from", "Money"), Str(2, "toCode")>>
CreditCardInfo == <<
    Str(1, "creditCardNumber"), Int32(2, "creditCardCvv"),
    Int32(3, "creditCardExpirationYear"),
    Int32(4, "creditCardExpirationMonth")>>
ChargeRequest == <<
    Msg(1, "amount", "Money"), Msg(2, "creditCard", "CreditCardInfo")>>
ChargeResponse == <<Str(1, "transactionId")>>
OrderItem == <<Msg(1, "item", "CartItem"), Msg(2, "cost", "Money")>>
OrderResult == <<
    Str(1, "orderId"), Str(2, "shippingTrackingId"),
    Msg(3, "shippingCost", "Money"), Msg(4, "shippingAddress", "Address"),
    Msgs(5, "items", "OrderItem")>>
SendOrderConfirmationRequest == <<
    Str(1, "email"), Msg(2, "order", "OrderResult")>>
PlaceOrderRequest == <<
    Str(1, "userId"), Str(2, "userCurrency"), Msg(3, "address", "Address"),
    Str(5, "email"), Msg(6, "creditCard", "CreditCardInfo")>>
PlaceOrderResponse == <<Msg(1, "order", "OrderResult")>>
AdRequest == <<Strs(1, "contextKeys")>>
AdResponse == <<Msgs(1, "ads", "Ad")>>
Ad == <<Str(1, "redirectUrl"), Str(2, "text")>>
Flag == <<Str(1, "name"), Str(2, "description"), Bool(3, "enabled")>>
GetFlagRequest == <<Str(1, "name")>>
GetFlagResponse == <<Msg(1, "flag", "Flag")>>
CreateFlagRequest == <<
    Str(1, "name"), Str(2, "description"), Bool(3, "enabled")>>
CreateFlagResponse == <<Msg(1, "flag", "Flag")>>
UpdateFlagRequest == <<Str(1, "name"), Bool(2, "enabled")>>
UpdateFlagResponse == <<>>
ListFlagsRequest == <<>>
ListFlagsResponse == <<Msgs(1, "flag", "Flag")>>
DeleteFlagRequest == <<Str(1, "name")>>
DeleteFlagResponse == <<>>
SupportRequest == <<
    Str(1, "id"), Str(2, "userId"), Str(3, "email"), Str(4, "subject"),
    Str(5, "description"), Str(6, "errorMessage"),
    Msgs(7, "failedItems", "OrderItem"), Msg(8, "shippingAddress", "Address"),
    Str(9, "status"), Str(10, "jiraTicketId"), Int64(11, "createdAt")>>
CreateSupportRequestRequest == <<
    Str(1, "userId"), Str(2, "email"), Str(3, "subject"),
    Str(4, "description"), Str(5, "errorMessage"),
    Msgs(6, "failedItems", "OrderItem"), Msg(7, "shippingAddress", "Address")>>
CreateSupportRequestResponse == <<Msg(1, "supportRequest", "SupportRequest")>>
GetSupportRequestRequest == <<Str(1, "id")>>

\* The fields of every message, by its name.
Fields == [
    CartItem |-> CartItem, AddItemRequest |-> AddItemRequest,
    EmptyCartRequest |-> EmptyCartRequest, GetCartRequest |-> GetCartRequest,
    Cart |-> Cart, Empty |-> Empty,
    ListRecommendationsRequest |-> ListRecommendationsRequest,
    ListRecommendationsResponse |-> ListRecommendationsResponse,
    Product |-> Product, ListProductsResponse |-> ListProductsResponse,
    GetProductRequest |-> GetProductRequest,
    SearchProductsRequest |-> SearchProductsRequest,
    SearchProductsResponse |-> SearchProductsResponse,
    GetQuoteRequest |-> GetQuoteRequest, GetQuoteResponse |-> GetQuoteResponse,
    ShipOrderRequest |-> ShipOrderRequest,
    ShipOrderResponse |-> ShipOrderResponse, Address |-> Address,
    Money |-> Money,
    GetSupportedCurrenciesResponse |-> GetSupportedCurrenciesResponse,
    CurrencyConversionRequest |-> CurrencyConversionRequest,
    CreditCardInfo |-> CreditCardInfo, ChargeRequest |-> ChargeRequest,
    ChargeResponse |-> ChargeResponse, OrderItem |-> OrderItem,
    OrderResult |-> OrderResult,
    SendOrderConfirmationRequest |-> SendOrderConfirmationRequest,
    PlaceOrderRequest |-> PlaceOrderRequest,
    PlaceOrderResponse |-> PlaceOrderResponse, AdRequest |-> AdRequest,
    AdResponse |-> AdResponse, Ad |-> Ad, Flag |-> Flag,
    GetFlagRequest |-> GetFlagRequest, GetFlagResponse |-> GetFlagResponse,
    CreateFlagRequest |-> CreateFlagRequest,
    CreateFlagResponse |-> CreateFlagResponse,
    UpdateFlagRequest |-> UpdateFlagRequest,
    UpdateFlagResponse |-> UpdateFlagResponse,
    ListFlagsRequest |-> ListFlagsRequest,
    ListFlagsResponse |-> ListFlagsResponse,
    DeleteFlagRequest |-> DeleteFlagRequest,
    DeleteFlagResponse |-> DeleteFlagResponse,
    SupportRequest |-> SupportRequest,
    CreateSupportRequestRequest |-> CreateSupportRequestRequest,
    CreateSupportRequestResponse |-> CreateSupportRequestResponse,
    GetSupportRequestRequest |-> GetSupportRequestRequest]

-----------------------------------------------------------------------------
Rpc(name, request, response) ==
    [name |-> name, request |-> request, response |-> response]

CartService == {
    Rpc("addItem", "AddItemRequest", "Empty"),
    Rpc("getCart", "GetCartRequest", "Cart"),
    Rpc("emptyCart", "EmptyCartRequest", "Empty")}

RecommendationService == {
    Rpc("listRecommendations", "ListRecommendationsRequest",
        "ListRecommendationsResponse")}

ProductCatalogService == {
    Rpc("listProducts", "Empty", "ListProductsResponse"),
    Rpc("getProduct", "GetProductRequest", "Product"),
    Rpc("searchProducts", "SearchProductsRequest", "SearchProductsResponse")}

ShippingService == {
    Rpc("getQuote", "GetQuoteRequest", "GetQuoteResponse"),
    Rpc("shipOrder", "ShipOrderRequest", "ShipOrderResponse")}

CurrencyService == {
    Rpc("getSupportedCurrencies", "Empty", "GetSupportedCurrenciesResponse"),
    Rpc("convert", "CurrencyConversionRequest", "Money")}

PaymentService == {Rpc("charge", "ChargeRequest", "ChargeResponse")}

EmailService == {
    Rpc("sendOrderConfirmation", "SendOrderConfirmationRequest", "Empty")}

CheckoutService == {
    Rpc("placeOrder", "PlaceOrderRequest", "PlaceOrderResponse")}

AdService == {Rpc("getAds", "AdRequest", "AdResponse")}

FeatureFlagService == {
    Rpc("getFlag", "GetFlagRequest", "GetFlagResponse"),
    Rpc("createFlag", "CreateFlagRequest", "CreateFlagResponse"),
    Rpc("updateFlag", "UpdateFlagRequest", "UpdateFlagResponse"),
    Rpc("listFlags", "ListFlagsRequest", "ListFlagsResponse"),
    Rpc("deleteFlag", "DeleteFlagRequest", "DeleteFlagResponse")}

SupportService == {
    Rpc("createSupportRequest", "CreateSupportRequestRequest",
        "CreateSupportRequestResponse"),
    Rpc("getSupportRequest", "GetSupportRequestRequest", "SupportRequest")}

Rpcs == UNION {CartService, RecommendationService, ProductCatalogService,
               ShippingService, CurrencyService, PaymentService, EmailService,
               CheckoutService, AdService, FeatureFlagService, SupportService}
=============================================================================
