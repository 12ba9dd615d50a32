--------------------------- MODULE OrderPlacement ---------------------------
(***************************************************************************)
(* CreatePlaceOrder of the order service                                   *)
(* (src/src/orderservice/internal/order.go), composed with the coupon      *)
(* service it calls.  Every call of the RPC is a process; calls run        *)
(* concurrently, one goroutine each, and meet in three shared places: the  *)
(* orders collection with its unique index on requestId, the coupon        *)
(* documents, and the message broker.                                      *)
(*                                                                         *)
(* toDbPlaceOrder draws a fresh uuid each time it is called, once per      *)
(* call, so an order is named after the call that made it.                 *)
(***************************************************************************)
EXTENDS Integers, FiniteSets

CONSTANTS
    Calls,      \* invocations of CreatePlaceOrder
    Requests,   \* values of request_id
    Codes, NoCoupon,
    Faults,     \* the kinds of fault that can happen, see FaultKinds
    Hours, MaxStock, MaxTime    \* bounds of module Coupon

(***************************************************************************)
(* "rpc"    a unary call to another service returns a transport error      *)
(* "store"  a Mongo command returns an error, applied or not               *)
(* "broker" a publish returns an error, or returns nil and is lost         *)
(* "cancel" the caller's context ends: it hung up or its deadline passed   *)
(* "crash"  the order service's process dies and starts again              *)
(***************************************************************************)
FaultKinds == {"rpc", "store", "broker", "cancel", "crash"}

ASSUME FaultsAssumption == Faults \subseteq FaultKinds
ASSUME CouponAssumption ==
    NoCoupon \notin Codes /\ Hours \subseteq Int /\ MaxStock \in Nat /\ MaxTime \in Nat

VARIABLES
    request,    \* request[c]: the request_id of call c
    coupon,     \* coupon[c]: its coupon_code, or NoCoupon
    pc,         \* where the call stands in CreatePlaceOrder
    cancelled,  \* calls whose context has ended
    dbErrors,   \* history: calls that got an error from a command on orders
    orders,     \* orders in the collection
    events,     \* orders whose order.placed.event the broker took
    redeemed,   \* history: calls whose RedeemCoupon took a coupon
    present, quantity, expiration, now, added, used     \* module Coupon

inputVars == <<request, coupon>>
faultVars == <<cancelled, dbErrors>>
couponVars == <<present, quantity, expiration, now, added, used>>
vars == <<inputVars, pc, faultVars, orders, events, redeemed, couponVars>>

CouponService == INSTANCE Coupon

Running == {"lookup", "redeem", "create", "get", "publish", "cleanup"}
Done == {"ok", "failed", "crashed"}
Labels == {"idle"} \cup Running \cup Done

Init ==
    /\ request \in [Calls -> Requests]
    /\ coupon \in [Calls -> Codes \cup {NoCoupon}]
    /\ pc = [c \in Calls |-> "idle"]
    /\ cancelled = {}
    /\ dbErrors = {}
    /\ orders = {}
    /\ events = {}
    /\ redeemed = {}
    /\ CouponService!Init

Goto(c, label) == pc' = [pc EXCEPT ![c] = label]

-----------------------------------------------------------------------------
\* ValidateStruct lets the request through or answers InvalidArgument.
Validate(c) ==
    /\ pc[c] = "idle"
    /\ \/ Goto(c, "lookup")
       \/ Goto(c, "failed")
    /\ UNCHANGED <<inputVars, faultVars, orders, events, redeemed, couponVars>>

(***************************************************************************)
(* prepareNewOrder: GetCustomer, GetMerchant and GetDeliveryFee read; each *)
(* may refuse (not found, out of range) or fail.  They run under           *)
(* context.TODO(), so that the end of the caller's context stops none.     *)
(***************************************************************************)
LookUp(c) ==
    /\ pc[c] = "lookup"
    /\ \/ Goto(c, IF coupon[c] = NoCoupon THEN "create" ELSE "redeem")
       \/ Goto(c, "failed")
    /\ UNCHANGED <<inputVars, faultVars, orders, events, redeemed, couponVars>>

\* The coupon service runs RedeemCoupon for call c.
TakeCoupon(c) ==
    /\ CouponService!RedeemCoupon(coupon[c])
    /\ redeemed' = IF CouponService!Matches(coupon[c])
                   THEN redeemed \cup {c} ELSE redeemed

Redeem(c) ==
    /\ pc[c] = "redeem"
    /\ TakeCoupon(c)
    /\ Goto(c, "create")
    /\ UNCHANGED <<inputVars, faultVars, orders, events>>

\* The RPC fails, before or after the coupon service has run it.
RedeemFails(c) ==
    /\ pc[c] = "redeem"
    /\ "rpc" \in Faults
    /\ \/ TakeCoupon(c)
       \/ UNCHANGED <<redeemed, couponVars>>
    /\ Goto(c, "failed")
    /\ UNCHANGED <<inputVars, faultVars, orders, events>>

-----------------------------------------------------------------------------
\* Mutant: the index on requestId is not unique.
TakenNever(r) == FALSE

\* The unique index on requestId refuses the insert.
Taken(r) == \E o \in orders : request[o] = r

\* Mutant: an upsert by requestId replaces the order that is there.
CreateReplaces(c) ==
    /\ pc[c] = "create"
    /\ c \notin cancelled
    /\ orders' = {o \in orders : request[o] # request[c]} \cup {c}
    /\ Goto(c, "get")
    /\ UNCHANGED <<inputVars, faultVars, events, redeemed, couponVars>>

Create(c) ==
    /\ pc[c] = "create"
    /\ c \notin cancelled
    /\ ~Taken(request[c])
    /\ orders' = orders \cup {c}
    /\ Goto(c, "get")
    /\ UNCHANGED <<inputVars, faultVars, events, redeemed, couponVars>>

\* Duplicate key, or a context that had already ended: nothing was stored.
CreateRefused(c) ==
    /\ pc[c] = "create"
    /\ c \in cancelled \/ Taken(request[c])
    /\ Goto(c, "failed")
    /\ UNCHANGED <<inputVars, faultVars, orders, events, redeemed, couponVars>>

\* The connection breaks, or the caller's context ends, while c waits for Mongo.
StoreFails(c) ==
    /\ "store" \in Faults
    /\ dbErrors' = dbErrors \cup {c}
    /\ UNCHANGED cancelled

ContextEnds(c) ==
    /\ "cancel" \in Faults
    /\ cancelled' = cancelled \cup {c}
    /\ UNCHANGED dbErrors

(***************************************************************************)
(* InsertOne returns an error for either reason: the insert may have been  *)
(* applied.  The deferred delete is not registered yet.                    *)
(***************************************************************************)
CreateCutOff(c) ==
    /\ pc[c] = "create"
    /\ c \notin cancelled
    /\ StoreFails(c) \/ ContextEnds(c)
    /\ \/ ~Taken(request[c]) /\ orders' = orders \cup {c}
       \/ UNCHANGED orders
    /\ Goto(c, "failed")
    /\ UNCHANGED <<inputVars, events, redeemed, couponVars>>

GetOrder(c) ==
    /\ pc[c] = "get"
    /\ c \notin cancelled
    /\ c \in orders
    /\ Goto(c, "publish")
    /\ UNCHANGED <<inputVars, faultVars, orders, events, redeemed, couponVars>>

\* Nothing was written: a read that ends with its context is a Cancel first.
GetFails(c) ==
    /\ pc[c] = "get"
    /\ \/ (c \in cancelled \/ c \notin orders) /\ UNCHANGED faultVars
       \/ StoreFails(c)
    /\ Goto(c, "cleanup")
    /\ UNCHANGED <<inputVars, orders, events, redeemed, couponVars>>

\* Mutant: "success = true" is missing.
PublishForgetsSuccess(c) ==
    /\ pc[c] = "publish"
    /\ events' = events \cup {c}
    /\ Goto(c, "cleanup")
    /\ UNCHANGED <<inputVars, faultVars, orders, redeemed, couponVars>>

(***************************************************************************)
(* Publish opens a channel, declares the exchange and publishes without a  *)
(* confirmation.  amqp091-go does not look at the context it is given.  An *)
(* error means the frames were not all written: the broker has no message. *)
(***************************************************************************)
Publish(c) ==
    /\ pc[c] = "publish"
    /\ events' = events \cup {c}
    /\ Goto(c, "ok")
    /\ UNCHANGED <<inputVars, faultVars, orders, redeemed, couponVars>>

\* No queue was bound, or the connection broke after the write.
PublishLost(c) ==
    /\ pc[c] = "publish"
    /\ "broker" \in Faults
    /\ Goto(c, "ok")
    /\ UNCHANGED <<inputVars, faultVars, orders, events, redeemed, couponVars>>

\* Mutant: the error is returned but the delete is not deferred.
PublishFailsKeeps(c) ==
    /\ pc[c] = "publish"
    /\ "broker" \in Faults
    /\ Goto(c, "failed")
    /\ UNCHANGED <<inputVars, faultVars, orders, events, redeemed, couponVars>>

PublishFails(c) ==
    /\ pc[c] = "publish"
    /\ "broker" \in Faults
    /\ Goto(c, "cleanup")
    /\ UNCHANGED <<inputVars, faultVars, orders, events, redeemed, couponVars>>

-----------------------------------------------------------------------------
\* The deferred function: it deletes under the caller's own context.
DeleteOrder(c) ==
    /\ pc[c] = "cleanup"
    /\ c \notin cancelled
    /\ orders' = orders \ {c}
    /\ Goto(c, "failed")
    /\ UNCHANGED <<inputVars, faultVars, events, redeemed, couponVars>>

\* Mutant: the delete is repeated under the context that has ended.
DeleteRetries(c) ==
    /\ pc[c] = "cleanup"
    /\ c \in cancelled \/ "store" \in Faults
    /\ UNCHANGED vars

(***************************************************************************)
(* The error of the delete is logged and nobody tries again.  A delete     *)
(* that is cut off may have been applied.                                  *)
(***************************************************************************)
DeleteFails(c) ==
    /\ pc[c] = "cleanup"
    /\ \/ c \in cancelled /\ UNCHANGED <<faultVars, orders>>
       \/ /\ c \notin cancelled
          /\ StoreFails(c) \/ ContextEnds(c)
          /\ orders' \in {orders, orders \ {c}}
    /\ Goto(c, "failed")
    /\ UNCHANGED <<inputVars, events, redeemed, couponVars>>

-----------------------------------------------------------------------------
Cancel(c) ==
    /\ "cancel" \in Faults
    /\ pc[c] \in Running
    /\ c \notin cancelled
    /\ cancelled' = cancelled \cup {c}
    /\ UNCHANGED <<inputVars, pc, dbErrors, orders, events, redeemed, couponVars>>

\* Deferred functions do not run; nothing is looked up at the next start.
Crash ==
    /\ "crash" \in Faults
    /\ \E c \in Calls : pc[c] \in Running
    /\ pc' = [c \in Calls |-> IF pc[c] \in Running THEN "crashed" ELSE pc[c]]
    /\ UNCHANGED <<inputVars, faultVars, orders, events, redeemed, couponVars>>

\* The coupon service's own steps, driven by administrators and its ticker.
CouponStep ==
    /\ \/ \E k \in Codes, n \in 1..MaxStock, hours \in Hours :
             CouponService!AddCoupon(k, n, hours)
       \/ CouponService!CleanUpCoupons
       \/ CouponService!Tick
    /\ UNCHANGED <<inputVars, pc, faultVars, orders, events, redeemed>>

PrepareStep(c) == Validate(c) \/ LookUp(c) \/ Redeem(c) \/ RedeemFails(c)

StoreStep(c) ==
    \/ Create(c) \/ CreateRefused(c) \/ CreateCutOff(c)
    \/ GetOrder(c) \/ GetFails(c)
    \/ Publish(c) \/ PublishLost(c) \/ PublishFails(c)
    \/ DeleteOrder(c) \/ DeleteFails(c)

Next ==
    \/ \E c \in Calls : PrepareStep(c) \/ StoreStep(c) \/ Cancel(c)
    \/ Crash
    \/ CouponStep

Spec == Init /\ [][Next]_vars

(***************************************************************************)
(* Mongo commands end after 30 seconds at the latest (SetTimeout in        *)
(* main.go) and a dead broker connection ends by its heartbeat, so a call  *)
(* that has reached storage.Create keeps moving.  The calls of             *)
(* prepareNewOrder have no deadline: nothing is assumed of them.           *)
(***************************************************************************)
FairSpec == Spec /\ \A c \in Calls : WF_vars(StoreStep(c))
-----------------------------------------------------------------------------
\* The variables range over what the code can hold.
TypeOK ==
    /\ request \in [Calls -> Requests]
    /\ coupon \in [Calls -> Codes \cup {NoCoupon}]
    /\ pc \in [Calls -> Labels]
    /\ cancelled \subseteq Calls
    /\ dbErrors \subseteq Calls
    /\ orders \subseteq Calls
    /\ events \subseteq Calls
    /\ redeemed \subseteq Calls
    /\ CouponService!TypeOK

(***************************************************************************)
(* However many calls carry one request_id, at once or one after another,  *)
(* and whatever fails, the collection never holds two orders for it (the   *)
(* unique index of orderservice/main.go, "preventing duplicate order").    *)
(***************************************************************************)
OneOrderPerRequest ==
    \A c, d \in orders : request[c] = request[d] => c = d

(***************************************************************************)
(* The merchant and delivery services are never told of an order that is   *)
(* not there: no path deletes an order whose event left, and none sends    *)
(* the event of an order it did not keep (success flag, deferred delete).  *)
(***************************************************************************)
AnnouncedIsStored == events \subseteq orders

(***************************************************************************)
(* Books of the two services agree: for each code, what was ever added is  *)
(* what the coupon document still holds and what calls took of it, through *)
(* lost replies, crashes of the order service and clean-ups.               *)
(***************************************************************************)
Takers(k) == {c \in redeemed : coupon[c] = k}
BooksBalance ==
    \A k \in Codes : added[k] = quantity[k] + Cardinality(Takers(k))

(***************************************************************************)
(* A call answered with an error leaves an order behind, which then blocks *)
(* its request for ever, only if a command on the collection failed for it *)
(* or its context ended: failures of the other services and of the broker  *)
(* are undone by the deferred delete, in every interleaving.               *)
(***************************************************************************)
FailedLeavesNoOrder ==
    \A c \in orders : pc[c] = "failed" => c \in cancelled \cup dbErrors

(***************************************************************************)
(* order_test.go:255, TestCreatePlaceOrder_Failure_DeletesOrder "ensures a *)
(* created order is deleted if subsequent operations fail": when the       *)
(* deferred function is done, the order is gone.                           *)
(***************************************************************************)
CleanupDeletes ==
    [][\A c \in Calls : pc[c] = "cleanup" /\ pc'[c] = "failed" => c \notin orders']_vars

(***************************************************************************)
(* Of all calls that carry one request_id, retries and duplicates, at most *)
(* one is ever answered with an order: what the handler read back and what *)
(* it published belong to the one insert that the index let through.       *)
(***************************************************************************)
Confirmed == {c \in Calls : pc[c] = "ok"}
OneOkPerRequest ==
    \A c, d \in Confirmed : request[c] = request[d] => c = d

(***************************************************************************)
(* Detailed against promised: the RPC implements OrderLifecycle.           *)
(***************************************************************************)
stageOf == [c \in Calls |-> IF c \in events THEN "announced"
                            ELSE IF c \in orders THEN "stored" ELSE "absent"]
replyOf == [c \in Calls |-> IF pc[c] = "ok" THEN "ok"
                            ELSE IF pc[c] \in {"failed", "crashed"} THEN "error"
                            ELSE "none"]

Lifecycle == INSTANCE OrderLifecycle
                WITH Orders <- Calls, stage <- stageOf, reply <- replyOf
\* Every step of the code is a step the promise allows.
ImplementsLifecycle == Lifecycle!Spec

(***************************************************************************)
(* A call that has reached the database is answered, whatever fails on the *)
(* way: no path of the handler waits for something that need not come.     *)
(***************************************************************************)
CallsFinish == \A c \in Calls : pc[c] = "create" ~> pc[c] \in Done

(***************************************************************************)
(* orderservice.proto:33, "request_id for idempotency": repeating a        *)
(* request has no further effect, in particular it takes no second coupon. *)
(***************************************************************************)
OneCouponPerRequest ==
    \A c, d \in redeemed : request[c] = request[d] => c = d
=============================================================================
