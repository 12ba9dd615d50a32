-------------------------- MODULE OrderStatusEvents --------------------------
(***************************************************************************)
(* The event consumers of the order service: StartConsume, its handlers    *)
(* and UpdateOrderStatus (src/src/orderservice/internal).                  *)
(*                                                                         *)
(* StartConsume subscribes once per routing key.  All status keys share    *)
(* one queue, so the broker spreads its messages over their consumers,     *)
(* whatever their keys; behind each consumer runs a handler of its own.    *)
(* Messages are acknowledged when they are sent to the process.            *)
(*                                                                         *)
(* The events of one order come from services that do not wait for one     *)
(* another, in any order.  A message is named by its place in "published". *)
(***************************************************************************)
EXTENDS Integers, Sequences

CONSTANTS
    Orders,
    Subscribed, \* the routing keys StartConsume subscribes
    Bodies,     \* what publishers outside this repository put into events
    Faults,     \* the kinds of fault that can happen, see FaultKinds
    MaxEvents   \* bound: events ever published

StatusKeys == {"merchant.accepted.event", "rider.finding.event",
               "rider.assigned.event", "rider.delivered.event"}
PaidKey == "order.paid.event"
AllKeys == StatusKeys \cup {PaidKey}

\* The JSON string of an order id, which the handlers read; the bare uuid of
\* the merchant service; the protobuf message of the delivery service.
BodyKinds == {"id", "uuid", "protobuf"}

(***************************************************************************)
(* "broker"     a subscription fails                                       *)
(* "store"      the update of an order returns an error, and is applied    *)
(*              before, later or never                                     *)
(* "disconnect" the connection to the broker breaks; nothing restores it   *)
(* "crash"      the process dies and starts again                          *)
(***************************************************************************)
FaultKinds == {"broker", "store", "disconnect", "crash"}

ASSUME KeysAssumption == Subscribed \subseteq AllKeys
ASSUME BodiesAssumption == Bodies \subseteq BodyKinds
ASSUME FaultsAssumption == Faults \subseteq FaultKinds
ASSUME MaxEventsAssumption == MaxEvents \in Nat

VARIABLES
    published,  \* every event published so far
    bound,      \* keys the exchange routes to their queue
    queue,      \* queue[q]: messages waiting in it
    sub,        \* sub[h]: how far the subscription of key h has come
    buffer,     \* buffer[h]: messages sent to consumer h, the first in hand
    status,     \* status[o]: field orderStatus, or Absent
    late,       \* updates given up by their handler that Mongo may still apply
    applied,    \* history: messages whose update was applied
    writer      \* history: who wrote status[o] last, with which message

brokerVars == <<published, bound, queue>>
docVars == <<status, late, applied, writer>>
vars == <<brokerVars, sub, buffer, docVars>>

Queues == {"order_status_update_queue", "payment_status_update_queue"}
QueueOf(h) == IF h = PaidKey THEN "payment_status_update_queue"
                             ELSE "order_status_update_queue"
Empty == [q \in Queues |-> << >>]

\* Mutant: dbOrderStatus's own numbers (model.go), without the cast.
OwnNumber(key) == IF key = "merchant.accepted.event" THEN 1
                  ELSE IF key = "rider.finding.event" THEN 2
                  ELSE IF key = "rider.assigned.event" THEN 3 ELSE 4

(***************************************************************************)
(* The value a handler stores: the number pb.OrderStatus has, cast to      *)
(* dbOrderStatus, whose own numbers differ.  So DELIVERED is stored as 6,  *)
(* which UpdateOrderStatus does not take for OrderStatus_DELIVERED (4).    *)
(***************************************************************************)
NewStatus(key) == IF key = "merchant.accepted.event" THEN 2
                  ELSE IF key = "rider.finding.event" THEN 3
                  ELSE IF key = "rider.assigned.event" THEN 5 ELSE 6

Absent == -1
Pending == 0    \* OrderStatus_PENDING, written by toDbPlaceOrder
Nobody == [by |-> "nobody", event |-> 0]

Init ==
    /\ published = << >>
    /\ bound = {}
    /\ queue = Empty
    /\ sub = [h \in Subscribed |-> "idle"]
    /\ buffer = [h \in Subscribed |-> << >>]
    /\ status \in [Orders -> {Absent, Pending}]
    /\ late = {}
    /\ applied = {}
    /\ writer = [o \in Orders |-> Nobody]

-----------------------------------------------------------------------------
\* Subscribe: the queue is declared and bound to the key ...
Bind(h) ==
    /\ sub[h] = "idle"
    /\ bound' = bound \cup {h}
    /\ sub' = [sub EXCEPT ![h] = "bound"]
    /\ UNCHANGED <<published, queue, buffer, docVars>>

\* ... and then a consumer is registered.
Consume(h) ==
    /\ sub[h] = "bound"
    /\ sub' = [sub EXCEPT ![h] = "consuming"]
    /\ UNCHANGED <<brokerVars, buffer, docVars>>

\* The error is logged; the goroutine ranges over a nil channel for ever.
SubscribeFails(h) ==
    /\ "broker" \in Faults
    /\ sub[h] \in {"idle", "bound"}
    /\ sub' = [sub EXCEPT ![h] = "gone"]
    /\ UNCHANGED <<brokerVars, buffer, docVars>>

-----------------------------------------------------------------------------
\* A direct exchange: an event goes to the queue bound to its key, or nowhere.
Publish(o, key, body) ==
    /\ Len(published) < MaxEvents
    /\ published' = Append(published, [order |-> o, key |-> key, body |-> body])
    /\ queue' = IF key \in bound
                THEN [queue EXCEPT ![QueueOf(key)] = Append(@, Len(published) + 1)]
                ELSE queue
    /\ UNCHANGED <<bound, sub, buffer, docVars>>

\* The merchant service, ten seconds after it read the order: a bare uuid.
MerchantAccepts(o) == Publish(o, "merchant.accepted.event", "uuid")

\* The delivery service, on every report of a rider, the merchant's
\* acceptance or no: an encoded RiderAssignedEvent.
RiderReports(o) == Publish(o, "rider.assigned.event", "protobuf")

\* Nobody in this repository publishes the other keys; whoever does may do so
\* in any order and more than once.
OthersPublish(o, key, body) ==
    /\ key \in {"rider.finding.event", "rider.delivered.event", PaidKey}
    /\ Publish(o, key, body)
-----------------------------------------------------------------------------
\* Mutant: the broker keeps the message until it is acknowledged, and sends
\* it to another consumer as well.
DeliverKeeps(h) ==
    /\ sub[h] = "consuming"
    /\ queue[QueueOf(h)] # << >>
    /\ buffer' = [buffer EXCEPT ![h] = Append(@, Head(queue[QueueOf(h)]))]
    /\ UNCHANGED <<brokerVars, sub, docVars>>

\* The broker picks the consumer; with auto-ack it forgets the message.
Deliver(h) ==
    /\ sub[h] = "consuming"
    /\ queue[QueueOf(h)] # << >>
    /\ buffer' = [buffer EXCEPT ![h] = Append(@, Head(queue[QueueOf(h)]))]
    /\ queue' = [queue EXCEPT ![QueueOf(h)] = Tail(@)]
    /\ UNCHANGED <<published, bound, sub, docVars>>
-----------------------------------------------------------------------------
InHand(h) == published[Head(buffer[h])]
Next1(h) == buffer' = [buffer EXCEPT ![h] = Tail(@)]

\* Mutant: the error of json.Unmarshal is not looked at.
AcceptsAny(h) == h # PaidKey /\ status[InHand(h).order] # Absent

\* Mutant: the update inserts the document when there is none (an upsert).
AcceptsMissing(h) == h # PaidKey /\ InHand(h).body = "id"

\* handleOrderStatus updates only for a body that is an id, and UpdateByID
\* only an order that is there.
Accepts(h) == /\ h # PaidKey
              /\ InHand(h).body = "id"
              /\ status[InHand(h).order] # Absent

\* The update in hand, and UpdateOrderStatus, which sets the status whatever
\* it was.
Update(h) == [by |-> h, event |-> Head(buffer[h])]
UpdateOrderStatus(w) ==
    LET m == published[w.event] IN
    /\ status' = [status EXCEPT ![m.order] = NewStatus(m.key)]
    /\ applied' = applied \cup {w.event}
    /\ writer' = [writer EXCEPT ![m.order] = w]

\* Mutant: the messages of a consumer are handled in goroutines of their own.
HandleConcurrently(h) ==
    /\ \E i \in 1..Len(buffer[h]) :
         LET m == published[buffer[h][i]] IN
         /\ h # PaidKey /\ m.body = "id" /\ status[m.order] # Absent
         /\ UpdateOrderStatus([by |-> h, event |-> buffer[h][i]])
         /\ buffer' = [buffer EXCEPT ![h] = SubSeq(@, 1, i - 1) \o SubSeq(@, i + 1, Len(@))]
    /\ UNCHANGED <<brokerVars, sub, late>>

Handle(h) ==
    /\ buffer[h] # << >>
    /\ Accepts(h)
    /\ UpdateOrderStatus(Update(h))
    /\ Next1(h)
    /\ UNCHANGED <<brokerVars, sub, late>>

\* Mutant: the handler returns where the code continues.
DiscardStops(h) ==
    /\ buffer[h] # << >>
    /\ ~Accepts(h)
    /\ UNCHANGED vars

(***************************************************************************)
(* Every error is logged and the loop continues with the next message.     *)
(* handlePaymentStatus drops all it gets: it waits for the routing key     *)
(* customer.paid.event, and its queue is bound to order.paid.event.        *)
(***************************************************************************)
Discard(h) ==
    /\ buffer[h] # << >>
    /\ ~Accepts(h)
    /\ Next1(h)
    /\ UNCHANGED <<brokerVars, sub, docVars>>

\* The update answers an error: it was applied, or may be after the 30
\* seconds are over and the next message is handled, or is not.
UpdateFails(h) ==
    /\ "store" \in Faults
    /\ buffer[h] # << >>
    /\ Accepts(h)
    /\ \/ UpdateOrderStatus(Update(h)) /\ UNCHANGED late
       \/ late' \in {late, late \cup {Update(h)}} /\ UNCHANGED <<status, applied, writer>>
    /\ Next1(h)
    /\ UNCHANGED <<brokerVars, sub>>

\* Mongo comes to an update nobody waits for any more.
ApplyLate(w) ==
    /\ UpdateOrderStatus(w)
    /\ late' = late \ {w}
    /\ UNCHANGED <<brokerVars, sub, buffer>>
-----------------------------------------------------------------------------
(***************************************************************************)
(* The connection breaks: the queues are exclusive to it and go with it.   *)
(* Consumers already handed over some of their messages; amqp091-go drops  *)
(* the rest.                                                               *)
(***************************************************************************)
Disconnect ==
    /\ "disconnect" \in Faults
    /\ \E h \in Subscribed : sub[h] # "gone"
    /\ bound' = {}
    /\ queue' = Empty
    /\ sub' = [h \in Subscribed |-> "gone"]
    /\ UNCHANGED <<published, buffer, docVars>>

DropRest(h) ==
    /\ sub[h] = "gone"
    /\ buffer[h] # << >>
    /\ buffer' = [buffer EXCEPT ![h] = << >>]
    /\ UNCHANGED <<brokerVars, sub, docVars>>

\* Some of the updates under way reach Mongo all the same.
InFlight == {Update(h) : h \in {g \in Subscribed : buffer[g] # << >> /\ Accepts(g)}}
Crash ==
    /\ "crash" \in Faults
    /\ \E h \in Subscribed : sub[h] # "idle"
    /\ \E cut \in SUBSET InFlight : late' = late \cup cut
    /\ bound' = {}
    /\ queue' = Empty
    /\ sub' = [h \in Subscribed |-> "idle"]
    /\ buffer' = [h \in Subscribed |-> << >>]
    /\ UNCHANGED <<published, status, applied, writer>>

SubscribeStep(h) == Bind(h) \/ Consume(h) \/ SubscribeFails(h)
HandlerStep(h) == Handle(h) \/ Discard(h) \/ UpdateFails(h)

Next ==
    \/ \E o \in Orders : MerchantAccepts(o) \/ RiderReports(o)
    \/ \E o \in Orders, key \in AllKeys, body \in Bodies : OthersPublish(o, key, body)
    \/ \E h \in Subscribed :
          SubscribeStep(h) \/ Deliver(h) \/ HandlerStep(h) \/ DropRest(h)
    \/ \E w \in late : ApplyLate(w)
    \/ Disconnect
    \/ Crash

Spec == Init /\ [][Next]_vars

\* An update ends after 30 seconds at the latest (SetTimeout in main.go), and
\* then the handler takes the next message.
FairSpec == Spec /\ \A h \in Subscribed : WF_vars(HandlerStep(h))
-----------------------------------------------------------------------------
\* The variables range over what the documents and the broker can hold.
Messages == 1..MaxEvents
Events == [order : Orders, key : AllKeys, body : {"uuid", "protobuf"} \cup Bodies]
TypeOK ==
    /\ published \in Seq(Events)
    /\ bound \subseteq Subscribed
    /\ queue \in [Queues -> Seq(Messages)]
    /\ sub \in [Subscribed -> {"idle", "bound", "consuming", "gone"}]
    /\ buffer \in [Subscribed -> Seq(Messages)]
    /\ status \in [Orders -> {Absent, Pending, 2, 3, 5, 6}]
    /\ late \subseteq [by : Subscribed, event : Messages]
    /\ applied \subseteq Messages
    /\ writer \in [Orders -> {Nobody} \cup [by : Subscribed, event : Messages]]

(***************************************************************************)
(* No order ever shows a status that nobody announced for it, through lost *)
(* updates, broken connections and restarts: whatever a handler stores     *)
(* comes from one readable message about that order.                       *)
(***************************************************************************)
Announces(i, o) == /\ published[i].order = o
                   /\ published[i].body = "id"
                   /\ NewStatus(published[i].key) = status[o]
StatusIsAnnounced ==
    \A o \in Orders : status[o] \notin {Absent, Pending} =>
        \E i \in DOMAIN published : Announces(i, o)

(***************************************************************************)
(* A message reaches one handler, once: what was applied waits nowhere,    *)
(* nothing waits in two places, and an update the store is late with is no *)
(* longer with a handler.  That is what auto-ack buys, and why a crash     *)
(* loses messages.                                                         *)
(***************************************************************************)
In(i, s) == \E n \in 1..Len(s) : s[n] = i
AtMostOnce ==
    \A i \in Messages :
        /\ \A h \in Subscribed : In(i, buffer[h]) =>
              /\ i \notin applied
              /\ \A q \in Queues : ~In(i, queue[q])
              /\ \A g \in Subscribed : In(i, buffer[g]) => g = h
        /\ \A q \in Queues : In(i, queue[q]) =>
              /\ i \notin applied
              /\ \A r \in Queues : In(i, queue[r]) => r = q
        /\ \A w \in late : w.event = i =>
              /\ i \notin applied
              /\ \A h \in Subscribed : ~In(i, buffer[h])
              /\ \A q \in Queues : ~In(i, queue[q])
              /\ \A v \in late : v.event = i => v = w

(***************************************************************************)
(* An older event overwrites a newer one of its order only when the        *)
(* handlers of two keys race or the store is late with an update: a single *)
(* handler applies what it gets in the order of publication, and loses no  *)
(* ground, whatever is lost or fails between.  Nothing here makes the      *)
(* order of publication that of the happy path: see StatusNeverRegresses.  *)
(***************************************************************************)
OneHandlerKeepsOrder ==
    \A o \in Orders : writer'[o].event < writer[o].event =>
        writer'[o].by # writer[o].by \/ writer'[o] \in late
StaleWriteNeedsARace == [][OneHandlerKeepsOrder]_vars

(***************************************************************************)
(* One bad message does not stop a consumer: every message in its buffer   *)
(* is taken, also behind unreadable ones and failing updates.              *)
(***************************************************************************)
ReceivedIsTaken ==
    \A h \in Subscribed : \A i \in Messages : In(i, buffer[h]) ~> ~In(i, buffer[h])

(***************************************************************************)
(* events.proto:10-27, "Order Happy Path": the column ORDER STATUS goes    *)
(* from PREPARING over FINDING_RIDER and ONGOING to DELIVERED.  Events     *)
(* published in that order never take a status back.  (The publishers do   *)
(* not keep it: a rider's report does not wait for the merchant.)          *)
(***************************************************************************)
HappyPath(o) ==
    \A i, j \in DOMAIN published :
        /\ i < j /\ published[i].order = o /\ published[j].order = o
        /\ published[i].key \in StatusKeys /\ published[j].key \in StatusKeys
        => NewStatus(published[i].key) <= NewStatus(published[j].key)
StatusNeverRegresses ==
    [][\A o \in Orders : HappyPath(o) => status'[o] >= status[o]]_vars

-----------------------------------------------------------------------------
(***************************************************************************)
(* Detailed against promised: what waits in the queues and buffers, or at  *)
(* the store, is open, and says what a status handler would store for it.  *)
(***************************************************************************)
Says(e) ==
    [order |-> e.order,
     shows |-> IF e.body = "id" /\ e.key \in StatusKeys THEN NewStatus(e.key) ELSE Absent]
Waiting ==
    {i \in Messages : \/ \E q \in Queues : In(i, queue[q])
                      \/ \E h \in Subscribed : In(i, buffer[h])
                      \/ \E w \in late : w.event = i}

Board == INSTANCE StatusBoard WITH
    Statuses <- {Absent, Pending, 2, 3, 5, 6}, Missing <- Absent, Nothing <- Absent,
    said <- [i \in DOMAIN published |-> Says(published[i])],
    open <- Waiting

\* The consumers keep every promise of StatusBoard, through repeated events,
\* failing updates, broken connections and restarts.
ImplementsBoard == Board!Spec
=============================================================================
