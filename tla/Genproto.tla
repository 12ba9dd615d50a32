------------------------------ MODULE Genproto ------------------------------
(***************************************************************************)
(* What tonic and prost generated from the .proto files                    *)
(* (src/src/deliveryservice/genproto/ihavefood.rs): the fields of every    *)
(* message with their tags and wire types, the numbers of the enums, the   *)
(* methods each client calls and each server answers.  Pure data, and the  *)
(* few questions the other modules ask of it.                              *)
(***************************************************************************)
EXTENDS Naturals, Sequences

Field(tag, name, wire, type) == [tag |-> tag, name |-> name, wire |-> wire, type |-> type]
Str(tag, name)        == Field(tag, name, "len", "string")
Msg(tag, name, type)  == Field(tag, name, "len", type)  \* repeated or not
Int32(tag, name)      == Field(tag, name, "varint", "int32")
Bool(tag, name)       == Field(tag, name, "varint", "bool")
Enum(tag, name, type) == Field(tag, name, "varint", type)
Dbl(tag, name)        == Field(tag, name, "i64", "double")
Time(tag, name)       == Msg(tag, name, "Timestamp")

DeliveryMessages == [
    PickupInfo |-> {Str(1, "pickup_code"), Msg(2, "pickup_location", "Point"),
                    Msg(3, "drop_off_location", "Point")},
    Point |-> {Dbl(1, "latitude"), Dbl(2, "longitude")},
    Rider |-> {Str(1, "rider_id"), Str(2, "name"), Str(3, "email"), Str(4, "phone")},
    TrackingRiderRequest |-> {Str(1, "rider_id")},
    TrackingRiderResponse |-> {Str(1, "rider_id"), Msg(2, "rider_location", "Point"),
                               Time(3, "update_time")},
    GetDeliveryFeeRequest |-> {Str(1, "customer_id"), Str(2, "customer_address_id"),
                               Str(3, "merchant_id")},
    GetDeliveryFeeResponse |-> {Int32(1, "fee")},
    GetDeliveryEstimateRequest |-> {Str(1, "customer_id"), Str(2, "customer_address_id"),
                                    Str(3, "merchant_id")},
    GetDeliveryEstimateResponse |-> {Dbl(1, "distance_km"), Int32(2, "delivery_fee"),
                                     Int32(3, "eta_minutes")},
    ReportDeliveryStatusRequest |-> {Str(1, "order_id"), Str(2, "rider_id"),
                                     Enum(3, "status", "DeliveryStatus")}]

AddressParts == {Str(2, "address_name"), Str(3, "sub_district"), Str(4, "district"),
                 Str(5, "province"), Str(6, "postal_code")}

ProfileMessages == [
    NewAddress |-> AddressParts,
    Address |-> {Str(1, "address_id")} \cup AddressParts,
    Social |-> {Str(1, "facebook"), Str(2, "instagram"), Str(3, "line")}]

MerchantMessages == [
    Merchant |-> {Str(1, "merchant_id"), Str(2, "merchant_name"), Msg(3, "menu", "MenuItem"),
                  Msg(4, "address", "Address"), Str(5, "phone"), Str(6, "email"),
                  Enum(7, "status", "StoreStatus"), Msg(8, "image_info", "ImageInfo")},
    MenuItem |-> {Str(1, "item_id"), Str(2, "food_name"), Int32(3, "price"),
                  Msg(4, "image_info", "ImageInfo")},
    ImageInfo |-> {Str(1, "url"), Str(2, "type")},
    NewMenuItem |-> {Str(1, "food_name"), Int32(2, "price"), Msg(3, "image_info", "ImageInfo")},
    GetMerchantRequest |-> {Str(1, "merchant_id")},
    CreateMerchantRequest |-> {Str(1, "merchant_name"), Msg(2, "menu", "NewMenuItem"),
                               Msg(3, "address", "NewAddress"), Str(4, "phone"), Str(5, "email"),
                               Enum(7, "status", "StoreStatus"), Msg(8, "image_info", "ImageInfo")},
    ListMerchantsResponse |-> {Msg(1, "merchants", "Merchant")},
    UpdateMerchantRequest |-> {Str(1, "merchant_id"), Str(2, "new_merchant_name"),
                               Msg(3, "new_address", "Address")},
    CreateMenuRequest |-> {Str(1, "merchant_id"), Msg(2, "new_menu", "NewMenuItem")},
    CreateMenuResponse |-> {Msg(1, "menu", "MenuItem")},
    UpdateMenuItemRequest |-> {Str(1, "merchant_id"), Str(2, "item_id"), Str(3, "food_name"),
                               Int32(4, "price"), Bool(6, "is_available")},
    UpdateStoreStatusRequest |-> {Str(1, "merchant_id"), Enum(2, "status", "StoreStatus")},
    GetStoreStatusRequest |-> {Str(1, "merchant_id")},
    StoreStatusResponse |-> {Str(1, "merchant_id"), Enum(2, "status", "StoreStatus")}]

CustomerMessages == [
    Customer |-> {Str(1, "customer_id"), Str(2, "username"), Str(3, "email"), Str(4, "phone"),
                  Msg(6, "social", "Social"), Msg(7, "addresses", "Address"),
                  Time(8, "create_time"), Time(9, "update_time")},
    ListCustomersRequest |-> {},
    ListCustomersResponse |-> {Msg(1, "customers", "Customer")},
    GetCustomerRequest |-> {Str(1, "customer_id")},
    CreateAddressRequest |-> {Str(1, "customer_id"), Msg(2, "address", "NewAddress")},
    UpdateCustomerInfoRequest |-> {Str(1, "customer_id"), Str(2, "new_username"),
                                   Str(3, "new_phone")},
    UpdateCustomerSocialRequest |-> {Str(1, "customer_id"), Msg(2, "new_social", "Social")},
    UpdateCustomerAddressRequest |-> {Str(1, "customer_id"), Str(2, "address_id"),
                                      Msg(3, "address", "Address")},
    DeleteCustomerRequest |-> {Str(1, "customer_id")},
    DeleteCustomerAddressRequest |-> {Str(1, "customer_id"), Str(2, "address_id")}]

OrderMessages == [
    PlaceOrder |-> {Str(1, "request_id"), Str(2, "order_id"), Str(3, "customer_id"),
                    Str(4, "merchant_id"), Msg(5, "items", "OrderItem"), Str(6, "coupon_code"),
                    Int32(7, "coupon_discount"), Int32(8, "delivery_fee"), Int32(9, "total"),
                    Msg(10, "customer_address", "Address"), Msg(11, "merchant_address", "Address"),
                    Str(12, "customer_phone"), Enum(13, "payment_methods", "PaymentMethods"),
                    Enum(14, "payment_status", "PaymentStatus"),
                    Enum(15, "order_status", "OrderStatus"),
                    Msg(16, "timestamps", "OrderEventTimestamps")},
    OrderItem |-> {Str(1, "item_id"), Int32(2, "quantity"), Str(3, "note")},
    OrderEventTimestamps |-> {Time(1, "order_placed_time"), Time(2, "merchant_accept_time"),
                              Time(3, "rider_notified_time"), Time(4, "rider_assigned_time"),
                              Time(5, "rider_picked_up_time"), Time(6, "delivered_time"),
                              Time(7, "cancelled_time")},
    ListOrderHistoryRequest |-> {Str(1, "customer_id")},
    ListOrderHistoryResponse |-> {Msg(1, "place_orders", "PlaceOrder")},
    CreatePlaceOrderRequest |-> {Str(1, "request_id"), Str(2, "customer_id"),
                                 Str(3, "merchant_id"), Msg(4, "items", "OrderItem"),
                                 Str(5, "coupon_code"), Int32(6, "discount"),
                                 Str(7, "customer_address_id"),
                                 Enum(8, "payment_methods", "PaymentMethods")}]

EventMessages == [
    OrderPlacedEvent |-> {Msg(1, "order", "PlaceOrder")},
    MerchantAcceptedEvent |-> {Str(1, "order_id"), Str(2, "merchant_id"), Time(3, "accept_time")},
    RiderNotifiedEvent |-> {Str(1, "order_id"), Time(2, "notify_time")},
    RiderAssignedEvent |-> {Str(1, "order_id"), Str(2, "rider_id"), Time(3, "assign_time")},
    RiderPickedUpEvent |-> {Str(1, "order_id"), Str(2, "rider_id"), Time(3, "pickup_time")},
    RiderDeliveredEvent |-> {Str(1, "order_id"), Str(2, "rider_id"), Time(3, "deliver_time")},
    SyncCustomerCreated |-> {Str(1, "customer_id"), Str(2, "email"), Time(4, "create_time")},
    SyncRiderCreated |-> {Str(1, "rider_id"), Str(2, "email"), Time(4, "create_time")},
    SyncMerchantCreated |-> {Str(1, "merchant_id"), Str(2, "email"), Time(4, "create_time")}]

Tables == {DeliveryMessages, ProfileMessages, MerchantMessages, CustomerMessages,
           OrderMessages, EventMessages}

Schema == [T \in UNION {DOMAIN t : t \in Tables} |->
              (CHOOSE t \in Tables : T \in DOMAIN t)[T]]

(***************************************************************************)
(* prost goes by the tag: a field the reader does not know is skipped, and *)
(* one that has another type there, or on the wire, gives a DecodeError    *)
(* (a uuid is not the encoding of a message).                              *)
(***************************************************************************)
Decodes(written, read) ==
    \A f \in Schema[written], g \in Schema[read] :
        f.tag = g.tag => f.wire = g.wire /\ f.type = g.type

-----------------------------------------------------------------------------
\* Enums: the n-th name has the number n - 1; 0 is always "unspecified".
DeliveryStatus == <<"UNSPECIFIED", "RIDER_PENDING", "RIDER_ACCEPTED", "RIDER_PICKED_UP",
                    "RIDER_DELIVERED">>
StoreStatus == <<"UNSPECIFIED", "CLOSED", "OPEN">>
PaymentMethods == <<"UNSPECIFIED", "CASH", "CREDIT_CARD", "PROMPT_PAY">>
PaymentStatus == <<"UNSPECIFIED", "PENDING", "PAID">>
OrderStatus == <<"UNSPECIFIED", "PENDING", "PREPARING_ORDER", "FINDING_RIDER",
                 "WAIT_FOR_PICKUP", "ONGOING", "DELIVERED", "CANCELLED">>
OrderEvent == <<"UNSPECIFIED", "ORDER_PLACED_EVENT", "MERCHANT_ACCEPTED_EVENT",
                "RIDER_NOTIFIED_EVENT", "RIDER_ASSIGNED_EVENT", "RIDER_PICKED_UP_EVENT",
                "RIDER_DELIVERED_EVENT", "ORDER_CANCELLED_EVENT">>

\* The getter of an enum field: a number without a name reads as the first one.
Getter(enum, n) == IF n + 1 \in DOMAIN enum THEN enum[n + 1] ELSE enum[1]

-----------------------------------------------------------------------------
\* Methods: what a request and a reply are encoded as, and who streams.
Unary(request, reply) == [request |-> request, reply |-> reply, streams |-> FALSE]
ServerStreaming(request, reply) == [request |-> request, reply |-> reply, streams |-> TRUE]

DeliveryClient == [
    TrackingRider |-> ServerStreaming("TrackingRiderRequest", "TrackingRiderResponse"),
    GetDeliveryFee |-> Unary("GetDeliveryFeeRequest", "GetDeliveryFeeResponse"),
    GetDeliveryEstimate |-> Unary("GetDeliveryEstimateRequest", "GetDeliveryEstimateResponse"),
    ReportDeliveryStatus |-> Unary("ReportDeliveryStatusRequest", "Empty")]

DeliveryServer == [
    TrackingRider |-> ServerStreaming("TrackingRiderRequest", "TrackingRiderResponse"),
    GetDeliveryFee |-> Unary("GetDeliveryFeeRequest", "GetDeliveryFeeResponse"),
    GetDeliveryEstimate |-> Unary("GetDeliveryEstimateRequest", "GetDeliveryEstimateResponse"),
    ReportDeliveryStatus |-> Unary("ReportDeliveryStatusRequest", "Empty")]

MerchantClient == [
    ListMerchants |-> Unary("Empty", "ListMerchantsResponse"),
    GetMerchant |-> Unary("GetMerchantRequest", "Merchant"),
    CreateMerchant |-> Unary("CreateMerchantRequest", "Merchant"),
    UpdateMerchant |-> Unary("UpdateMerchantRequest", "Merchant"),
    CreateMenu |-> Unary("CreateMenuRequest", "CreateMenuResponse"),
    UpdateMenuItem |-> Unary("UpdateMenuItemRequest", "MenuItem"),
    UpdateStoreStatus |-> Unary("UpdateStoreStatusRequest", "StoreStatusResponse"),
    GetStoreStatus |-> Unary("GetStoreStatusRequest", "StoreStatusResponse")]

CustomerClient == [
    ListCustomers |-> Unary("ListCustomersRequest", "ListCustomersResponse"),
    GetCustomer |-> Unary("GetCustomerRequest", "Customer"),
    CreateAddress |-> Unary("CreateAddressRequest", "Address"),
    UpdateCustomerInfo |-> Unary("UpdateCustomerInfoRequest", "Customer"),
    UpdateCustomerSocial |-> Unary("UpdateCustomerSocialRequest", "Customer"),
    UpdateCustomerAddress |-> Unary("UpdateCustomerAddressRequest", "Address"),
    DeleteCustomer |-> Unary("DeleteCustomerRequest", "Empty"),
    DeleteCustomerAddress |-> Unary("DeleteCustomerAddressRequest", "Empty")]

OrderClient == [
    ListOrderHistory |-> Unary("ListOrderHistoryRequest", "ListOrderHistoryResponse"),
    CreatePlaceOrder |-> Unary("CreatePlaceOrderRequest", "PlaceOrder")]

MerchantServer == [
    ListMerchants |-> Unary("Empty", "ListMerchantsResponse"),
    GetMerchant |-> Unary("GetMerchantRequest", "Merchant"),
    CreateMerchant |-> Unary("CreateMerchantRequest", "Merchant"),
    UpdateMerchant |-> Unary("UpdateMerchantRequest", "Merchant"),
    CreateMenu |-> Unary("CreateMenuRequest", "CreateMenuResponse"),
    UpdateMenuItem |-> Unary("UpdateMenuItemRequest", "MenuItem"),
    UpdateStoreStatus |-> Unary("UpdateStoreStatusRequest", "StoreStatusResponse"),
    GetStoreStatus |-> Unary("GetStoreStatusRequest", "StoreStatusResponse")]

CustomerServer == [
    ListCustomers |-> Unary("ListCustomersRequest", "ListCustomersResponse"),
    GetCustomer |-> Unary("GetCustomerRequest", "Customer"),
    CreateAddress |-> Unary("CreateAddressRequest", "Address"),
    UpdateCustomerInfo |-> Unary("UpdateCustomerInfoRequest", "Customer"),
    UpdateCustomerSocial |-> Unary("UpdateCustomerSocialRequest", "Customer"),
    UpdateCustomerAddress |-> Unary("UpdateCustomerAddressRequest", "Address"),
    DeleteCustomer |-> Unary("DeleteCustomerRequest", "Empty"),
    DeleteCustomerAddress |-> Unary("DeleteCustomerAddressRequest", "Empty")]

OrderServer == [
    ListOrderHistory |-> Unary("ListOrderHistoryRequest", "ListOrderHistoryResponse"),
    CreatePlaceOrder |-> Unary("CreatePlaceOrderRequest", "PlaceOrder")]

\* A stub's call reaches a handler that reads the request, and is read back.
Speaks(client, server, method) ==
    /\ method \in DOMAIN client \cap DOMAIN server
    /\ client[method] = server[method]

ASSUME TagsAreDistinct ==
    \A T \in DOMAIN Schema : \A f, g \in Schema[T] : f.tag = g.tag => f = g

ASSUME ClientsMatchServers ==
    /\ DeliveryClient = DeliveryServer
    /\ MerchantClient = MerchantServer
    /\ CustomerClient = CustomerServer
    /\ OrderClient = OrderServer
=============================================================================
