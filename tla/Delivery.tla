------------------------------ MODULE Delivery ------------------------------
(***************************************************************************)
(* The delivery service (src/src/deliveryservice/src): the consumer of     *)
(* order.placed.event, the RPC report_delivery_status, the status of each  *)
(* order in Redis where they meet, and the broker they talk to.            *)
(*                                                                         *)
(* A report is one call of the RPC.  It reads the status (HGET), compares, *)
(* and writes (HSET); nothing ties the two commands together, so reports   *)
(* for one order interleave.                                               *)
(***************************************************************************)
EXTENDS Genproto

CONSTANTS
    Orders,
    Reports,    \* invocations of report_delivery_status
    Bodies,     \* what publishers outside this repository put into
                \* order.placed.event, see BodyKinds
    Faults      \* the kinds of fault that can happen, see FaultKinds

\* What events.proto declares for it, and what the order service sends.
BodyKinds == {"OrderPlacedEvent", "PlaceOrder"}

(***************************************************************************)
(* "redis"   a Redis command returns an error, applied or not              *)
(* "broker"  no channel can be opened, so nothing is declared or sent, and *)
(*           the stream of messages ends                                   *)
(* "address" an order comes without the merchant's or customer's address   *)
(* "caller"  a caller hangs up: tonic drops the report where it waits      *)
(* "restart" the delivery service's process dies and starts again          *)
(***************************************************************************)
FaultKinds == {"redis", "broker", "address", "caller", "restart"}

ASSUME BodiesAssumption == Bodies \subseteq BodyKinds
ASSUME FaultsAssumption == Faults \subseteq FaultKinds

VARIABLES
    status,     \* Redis: the field "status" of the order's hash, or "none"
    exchange,   \* my_exchange at the broker: "none", "durable", "transient"
    queue,      \* messages in the queue the running process subscribed
    consumer,   \* where the task that reads the queue stands
    current,    \* the message it handles
    placed,     \* orders whose order.placed.event was published
    order, target,  \* order[r], target[r]: what report r asks for
    pc,         \* where report r stands
    seen,       \* the status report r read
    sent,       \* events the broker took from this service
    silenced    \* history: orders of reports whose event never left after
                \* their status was, or may have been, written

inputVars == <<order, target>>
taskVars == <<queue, consumer, current>>
vars == <<status, exchange, taskVars, placed, inputVars, pc, seen, sent, silenced>>

\* DeliveryStatus without its UNSPECIFIED value, which is never stored.
Stored == {"pending", "accepted", "picked_up", "delivered"}
Targets == Stored \cup {"unspecified"}
Messages == [order : Orders, body : {"PlaceOrder"} \cup Bodies]
Running == {"write", "publish"}
Done == {"refused", "error"}
TaskStates == {"starting", "unsubscribed", "listening", "hset", "prepare",
               "publish", "dead"}
Event(key, o) == [key |-> key, order |-> o]
Keys == {"rider.notified.event", "rider.assigned.event"}

(***************************************************************************)
(* Redis outlives the service and the broker: an earlier deployment may    *)
(* have left orders there.  The exchange is there when another service     *)
(* came up first.                                                          *)
(***************************************************************************)
Init ==
    /\ status \in [Orders -> {"none", "pending"}]
    /\ exchange \in {"none", "durable"}
    /\ queue = << >>
    /\ consumer = "starting"
    /\ current \in Messages
    /\ placed = {o \in Orders : status[o] # "none"}
    /\ order \in [Reports -> Orders]
    /\ target \in [Reports -> Targets]
    /\ pc = [r \in Reports |-> "idle"]
    /\ seen = [r \in Reports |-> "none"]
    /\ sent = {}
    /\ silenced = {}

-----------------------------------------------------------------------------
(***************************************************************************)
(* EventBus::publish declares my_exchange with the default options, that   *)
(* is not durable.  The broker refuses this for an exchange that exists as *)
(* durable and publish returns the error.  Otherwise the message leaves,   *)
(* but the channel is not in confirm mode: the confirmation is             *)
(* NotRequested, is_ack is false, and publish returns an error here too.   *)
(***************************************************************************)
Publish(event) ==
    \/ /\ exchange # "durable"
       /\ exchange' = "transient"
       /\ sent' = sent \cup {event}
    \/ /\ exchange = "durable" \/ "broker" \in Faults
       /\ UNCHANGED <<exchange, sent>>

\* Another service declares the exchange, always as durable.
OthersDeclare ==
    /\ exchange = "none"
    /\ exchange' = "durable"
    /\ UNCHANGED <<status, taskVars, placed, inputVars, pc, seen, sent, silenced>>

\* subscribe declares the exchange as durable; run logs a failure and goes on.
Subscribe ==
    /\ consumer = "starting"
    /\ \/ /\ exchange # "transient"
          /\ exchange' = "durable"
          /\ consumer' = "listening"
       \/ /\ exchange = "transient" \/ "broker" \in Faults
          /\ consumer' = "unsubscribed"
          /\ UNCHANGED exchange
    /\ UNCHANGED <<status, queue, current, placed, inputVars, pc, seen, sent, silenced>>

\* The queue keeps filling when the task that reads it is gone.
HasQueue == consumer \notin {"starting", "unsubscribed"}

\* An order is announced once; without a queue the message is lost.
Enqueue(o, body) ==
    /\ o \notin placed
    /\ placed' = placed \cup {o}
    /\ queue' = IF HasQueue THEN Append(queue, [order |-> o, body |-> body])
                            ELSE queue
    /\ UNCHANGED <<status, exchange, consumer, current, inputVars, pc, seen, sent, silenced>>

\* CreatePlaceOrder of the order service sends the bare PlaceOrder.
Place(o) == Enqueue(o, "PlaceOrder")

\* Nobody in this repository sends what events.proto declares.
OthersPlace(o, body) == Enqueue(o, body)

-----------------------------------------------------------------------------
\* The task of run takes the next message and decodes an OrderPlacedEvent.
Take ==
    /\ consumer = "listening"
    /\ queue # << >>
    /\ current' = Head(queue)
    /\ queue' = Tail(queue)
    /\ consumer' = IF Decodes(Head(queue).body, "OrderPlacedEvent") THEN "hset" ELSE "dead"
    /\ UNCHANGED <<status, exchange, placed, inputVars, pc, seen, sent, silenced>>

\* The stream ends, or yields an error and unwrap panics: the task is gone.
StreamEnds ==
    /\ consumer = "listening"
    /\ "broker" \in Faults
    /\ consumer' = "dead"
    /\ UNCHANGED <<status, exchange, queue, current, placed, inputVars, pc, seen, sent, silenced>>

SetPending ==
    /\ consumer = "hset"
    /\ status' = [status EXCEPT ![current.order] = "pending"]
    /\ consumer' = "prepare"
    /\ UNCHANGED <<exchange, queue, current, placed, inputVars, pc, seen, sent, silenced>>

\* The command fails, applied or not: the task logs the error and returns.
SetPendingFails ==
    /\ consumer = "hset"
    /\ "redis" \in Faults
    /\ \/ status' = [status EXCEPT ![current.order] = "pending"]
       \/ UNCHANGED status
    /\ consumer' = "dead"
    /\ UNCHANGED <<exchange, queue, current, placed, inputVars, pc, seen, sent, silenced>>

\* prepare_order_delivery and notify_riders keep nothing of what they make up.
Prepare ==
    /\ consumer = "prepare"
    /\ consumer' = "publish"
    /\ UNCHANGED <<status, exchange, queue, current, placed, inputVars, pc, seen, sent, silenced>>

\* generate_order_pickup refuses an order without an address; the task returns.
PrepareFails ==
    /\ consumer = "prepare"
    /\ "address" \in Faults
    /\ consumer' = "dead"
    /\ UNCHANGED <<status, exchange, queue, current, placed, inputVars, pc, seen, sent, silenced>>

\* publish returns an error, handle_order_placed too, and the task returns.
Notify ==
    /\ consumer = "publish"
    /\ Publish(Event("rider.notified.event", current.order))
    /\ consumer' = "dead"
    /\ UNCHANGED <<status, queue, current, placed, inputVars, pc, seen, silenced>>

-----------------------------------------------------------------------------
Goto(r, label) == pc' = [pc EXCEPT ![r] = label]

\* Mutants: an order that is picked up or delivered may be accepted again;
\* pending is not refused; unspecified is not refused.
RefusesTwiceOnly(t, s) == t \in {"unspecified", "pending", s}
AllowsPending(t, s) ==
    \/ t = "unspecified"
    \/ t = "accepted" /\ s \in {"accepted", "picked_up", "delivered"}
    \/ t = "picked_up" /\ s \in {"picked_up", "delivered"}
    \/ t = "delivered" /\ s = "delivered"
AllowsUnspecified(t, s) ==
    \/ t = "pending"
    \/ t = "accepted" /\ s \in {"accepted", "picked_up", "delivered"}
    \/ t = "picked_up" /\ s \in {"picked_up", "delivered"}
    \/ t = "delivered" /\ s = "delivered"

\* The match: may a report of t for an order at status s not go through?
Refuses(t, s) ==
    \/ t \in {"unspecified", "pending"}
    \/ t = "accepted" /\ s \in {"accepted", "picked_up", "delivered"}
    \/ t = "picked_up" /\ s \in {"picked_up", "delivered"}
    \/ t = "delivered" /\ s = "delivered"

\* Mutant: the event is published without the status having been written.
ReadAndAnnounce(r) ==
    /\ pc[r] = "idle"
    /\ seen' = [seen EXCEPT ![r] = status[order[r]]]
    /\ Goto(r, IF status[order[r]] = "none" THEN "error"
               ELSE IF Refuses(target[r], status[order[r]]) THEN "refused"
               ELSE "publish")
    /\ UNCHANGED <<status, exchange, taskVars, placed, inputVars, sent, silenced>>

\* HGET and the match; an order without a status gives an error.
Read(r) ==
    /\ pc[r] = "idle"
    /\ seen' = [seen EXCEPT ![r] = status[order[r]]]
    /\ Goto(r, IF status[order[r]] = "none" THEN "error"
               ELSE IF Refuses(target[r], status[order[r]]) THEN "refused"
               ELSE "write")
    /\ UNCHANGED <<status, exchange, taskVars, placed, inputVars, sent, silenced>>

ReadFails(r) ==
    /\ pc[r] = "idle"
    /\ Faults \cap {"redis", "caller"} # {}
    /\ Goto(r, "error")
    /\ UNCHANGED <<status, exchange, taskVars, placed, inputVars, seen, sent, silenced>>

\* Mutant: RiderAssignedEvent is sent by the reports that assign a rider.
WriteAnnouncesAccepted(r) ==
    /\ pc[r] = "write"
    /\ status' = [status EXCEPT ![order[r]] = target[r]]
    /\ Goto(r, IF target[r] = "accepted" THEN "publish" ELSE "error")
    /\ UNCHANGED <<exchange, taskVars, placed, inputVars, seen, sent, silenced>>

\* HSET, whatever the status has become since it was read.
Write(r) ==
    /\ pc[r] = "write"
    /\ status' = [status EXCEPT ![order[r]] = target[r]]
    /\ Goto(r, "publish")
    /\ UNCHANGED <<exchange, taskVars, placed, inputVars, seen, sent, silenced>>

\* HSET gives an error, or the caller does not wait for it; applied or not.
WriteFails(r) ==
    /\ pc[r] = "write"
    /\ Faults \cap {"redis", "caller"} # {}
    /\ \/ /\ status' = [status EXCEPT ![order[r]] = target[r]]
          /\ silenced' = silenced \cup {order[r]}
       \/ UNCHANGED <<status, silenced>>
    /\ Goto(r, "error")
    /\ UNCHANGED <<exchange, taskVars, placed, inputVars, seen, sent>>

\* The event's key is the same for every status; publish returns an error.
Announce(r) ==
    /\ pc[r] = "publish"
    /\ LET event == Event("rider.assigned.event", order[r]) IN
       /\ Publish(event)
       /\ silenced' = IF event \in sent' THEN silenced ELSE silenced \cup {order[r]}
    /\ Goto(r, "error")
    /\ UNCHANGED <<status, taskVars, placed, inputVars, seen>>

\* The caller hangs up before the event is out: it never will be.
DropReport(r) ==
    /\ pc[r] = "publish"
    /\ "caller" \in Faults
    /\ silenced' = silenced \cup {order[r]}
    /\ Goto(r, "error")
    /\ UNCHANGED <<status, exchange, taskVars, placed, inputVars, seen, sent>>

-----------------------------------------------------------------------------
(***************************************************************************)
(* The process dies and starts again.  Its queue had a name of the         *)
(* broker's choosing; the next run declares another one, and what the old  *)
(* one holds (nothing is ever acknowledged) is not read again.             *)
(***************************************************************************)
Restart ==
    /\ "restart" \in Faults
    /\ consumer # "starting" \/ \E r \in Reports : pc[r] \in Running
    /\ consumer' = "starting"
    /\ queue' = << >>
    /\ pc' = [r \in Reports |-> IF pc[r] \in Running THEN "error" ELSE pc[r]]
    /\ silenced' = silenced \cup {order[r] : r \in {q \in Reports : pc[q] = "publish"}}
    /\ UNCHANGED <<status, exchange, current, placed, inputVars, seen, sent>>

TaskStep == Subscribe \/ Take \/ SetPending \/ SetPendingFails \/ Prepare \/ PrepareFails
            \/ Notify

ReportStep(r) == Read(r) \/ ReadFails(r) \/ Write(r) \/ WriteFails(r) \/ Announce(r)
                 \/ DropReport(r)

Next ==
    \/ OthersDeclare
    \/ \E o \in Orders : Place(o) \/ \E body \in Bodies : OthersPlace(o, body)
    \/ TaskStep
    \/ StreamEnds
    \/ \E r \in Reports : ReportStep(r)
    \/ Restart

Spec == Init /\ [][Next]_vars

\* The runtime keeps polling the task while Redis and the broker answer it.
FairSpec == Spec /\ WF_vars(TaskStep)
-----------------------------------------------------------------------------
\* The variables range over what Redis, the broker and the calls can hold.
TypeOK ==
    /\ status \in [Orders -> Stored \cup {"none"}]
    /\ exchange \in {"none", "durable", "transient"}
    /\ queue \in Seq(Messages)
    /\ consumer \in TaskStates
    /\ current \in Messages
    /\ placed \subseteq Orders
    /\ order \in [Reports -> Orders]
    /\ target \in [Reports -> Targets]
    /\ pc \in [Reports -> {"idle"} \cup Running \cup Done]
    /\ seen \in [Reports -> Stored \cup {"none"}]
    /\ sent \subseteq [key : Keys, order : Orders]
    /\ silenced \subseteq Orders

\* How far a delivery has come.
Rank == [none |-> 0, pending |-> 1, accepted |-> 2, picked_up |-> 3, delivered |-> 4]

(***************************************************************************)
(* A delivery goes backwards only through a race: a report that moves an   *)
(* order to an earlier status read it before another report moved it on    *)
(* (HGET and HSET of report_delivery_status).  One rider reporting one     *)
(* step after the other never loses ground.                                *)
(***************************************************************************)
RegressIsStale(o) ==
    Rank[status'[o]] < Rank[status[o]] =>
        \E r \in Reports : /\ pc[r] = "write" /\ order[r] = o
                           /\ Rank[seen[r]] < Rank[status[o]]
OnlyStaleReportsRegress == [][\A o \in Orders : RegressIsStale(o)]_vars

(***************************************************************************)
(* Whatever races, restarts and failures do, an order on its way never     *)
(* goes back to looking for a rider and is never forgotten: pending is     *)
(* only written by handle_order_placed, and before any report can pass.    *)
(***************************************************************************)
NeverPendingAgain ==
    [][\A o \in Orders : Rank[status[o]] >= 2 => Rank[status'[o]] >= 2]_vars

(***************************************************************************)
(* The other services hear of a rider only when Redis knows of one, and of *)
(* a search for riders only when the order is there: the status is written *)
(* before the event is sent, and no later step takes it back.              *)
(***************************************************************************)
EventsFollowStatus ==
    \A e \in sent : Rank[status[e.order]] >= IF e.key = "rider.assigned.event" THEN 2 ELSE 1

(***************************************************************************)
(* And the other way round: when Redis knows of a rider, the others have   *)
(* been told, or a report is just about to tell them, or one was cut off   *)
(* between the two: by an error after HSET took effect, by its caller, by  *)
(* a restart, or because the broker did not take the event.                *)
(***************************************************************************)
Announcing(o) == \E r \in Reports : order[r] = o /\ pc[r] = "publish"
SilenceHasAReason ==
    \A o \in Orders :
        Rank[status[o]] >= 2 /\ Event("rider.assigned.event", o) \notin sent
            => o \in silenced \/ Announcing(o)

(***************************************************************************)
(* delivery_impl.rs:249, "order has already accepted": once a report has   *)
(* made the order accepted, no other report can accept it.                 *)
(***************************************************************************)
Accepters(o) == {r \in Reports : /\ order[r] = o /\ target[r] = "accepted"
                                 /\ pc[r] = "publish"}
OneRiderAccepts ==
    \A o \in Orders : \A r, s \in Accepters(o) : r = s

(***************************************************************************)
(* events.proto:16 and 19: an order.placed.event comes to Delivery, and    *)
(* Delivery publishes rider.notified.event.  When a message about an order *)
(* has reached the service's queue, in the form the task can decode,       *)
(* riders are looked for.  (The task declares one exchange with two        *)
(* different options, and dies publishing.  Of the PlaceOrder the order    *)
(* service really sends it dies before, decoding: see NobodyIsNotified in  *)
(* DeliveryProofs.)                                                        *)
(***************************************************************************)
QueuedReadable(o) ==
    \E i \in 1..Len(queue) : queue[i] = [order |-> o, body |-> "OrderPlacedEvent"]
ReadableIsNotified ==
    \A o \in Orders : QueuedReadable(o) ~> Event("rider.notified.event", o) \in sent
=============================================================================
