----------------------------- MODULE DeliveryRpc -----------------------------
(***************************************************************************)
(* The delivery service as a gRPC server: main brings it up, the generated *)
(* router (genproto/ihavefood.rs) hands each call to a method of           *)
(* MyDelivery, and get_delivery_fee and tracking_rider are followed to     *)
(* their end.  (Delivery follows report_delivery_status, which ends in an  *)
(* error every time.)                                                      *)
(*                                                                         *)
(* A call has two ends.  client[c] is what its caller knows, server[c]     *)
(* where the server's future stands; between them is a connection that may *)
(* break at any time.  tracking_rider returns at once and leaves a task    *)
(* behind, task[c], which outlives the call.                               *)
(***************************************************************************)
EXTENDS Genproto

CONSTANTS
    Calls,
    Tries,      \* how often main dials each upstream service: 0..5 is 5 times
    Points,     \* how many locations a tracking task sends: 1..6 is 5
    Capacity    \* of the channel between that task and the reply stream: 4

ASSUME CountsAssumption ==
    Tries \in Nat \ {0} /\ Points \in Nat \ {0} /\ Capacity \in Nat \ {0}

VARIABLES
    phase,      \* of the server's process
    dialed,     \* how many upstream services it has reached while dialing
    tries,      \* how often it has failed to reach the next one
    up,         \* the upstream services that answer
    method,     \* method[c]: which of the client's stubs call c is
    client, server, task,
    sent, buffer, got,  \* locations sent by c's task, in the channel, received
    handler     \* history: has a method of MyDelivery run for c, and to its end?

processVars == <<phase, dialed, tries>>
streamVars == <<task, sent, buffer, got>>
vars == <<processVars, up, method, client, server, streamVars, handler>>

\* init_customer_client, then init_merchant_client.
Upstreams == <<"CustomerService", "MerchantService">>

\* MyDelivery: get_delivery_estimate has a route but no implementation.
Implemented == {"TrackingRider", "GetDeliveryFee", "ReportDeliveryStatus"}
Routes == DOMAIN DeliveryServer \cap Implemented

ClientStates == {"idle", "waiting", "ok", "failed", "refused"}
Awaiting == {"running", "ask_customer", "ask_merchant"}
Answers == {"answer_ok", "answer_error", "answer_unimplemented"}
Live == {"arrived", "streaming"} \cup Awaiting \cup Answers
TaskStates == {"none", "sleeping", "sending", "over"}

Init ==
    /\ phase = "down" /\ dialed = 0 /\ tries = 0
    /\ up \in SUBSET {Upstreams[i] : i \in DOMAIN Upstreams}
    /\ method \in [Calls -> DOMAIN DeliveryClient]
    /\ client = [c \in Calls |-> "idle"]
    /\ server = [c \in Calls |-> "none"]
    /\ task = [c \in Calls |-> "none"]
    /\ sent = [c \in Calls |-> 0]
    /\ buffer = [c \in Calls |-> 0]
    /\ got = [c \in Calls |-> 0]
    /\ handler = [c \in Calls |-> "not_run"]

-----------------------------------------------------------------------------
\* The process.  Somebody starts it; nothing in compose.yaml restarts it.
Start ==
    /\ phase = "down"
    /\ phase' = "dialing" /\ dialed' = 0 /\ tries' = 0
    /\ UNCHANGED <<up, method, client, server, streamVars, handler>>

\* One turn of the loop of init_customer_client or init_merchant_client.
DialReaches ==
    /\ phase = "dialing"
    /\ Upstreams[dialed + 1] \in up
    /\ dialed' = dialed + 1 /\ tries' = 0
    /\ phase' = IF dialed + 1 = Len(Upstreams) THEN "serving" ELSE "dialing"
    /\ UNCHANGED <<up, method, client, server, streamVars, handler>>

\* Mutant: the loop counts only the services it has reached.
DialFailsForever ==
    /\ phase = "dialing"
    /\ Upstreams[dialed + 1] \notin up
    /\ tries' = (tries + 1) % Tries
    /\ UNCHANGED <<phase, dialed, up, method, client, server, streamVars, handler>>

\* After the last turn main panics.
DialFails ==
    /\ phase = "dialing"
    /\ Upstreams[dialed + 1] \notin up
    /\ tries' = tries + 1
    /\ phase' = IF tries + 1 = Tries THEN "down" ELSE "dialing"
    /\ UNCHANGED <<dialed, up, method, client, server, streamVars, handler>>

Dial == DialReaches \/ DialFails

\* Every future and every task of the process goes with it.
Crash ==
    /\ phase # "down"
    /\ phase' = "down"
    /\ server' = [c \in Calls |-> IF server[c] \in Live THEN "gone" ELSE server[c]]
    /\ task' = [c \in Calls |-> IF task[c] = "none" THEN "none" ELSE "over"]
    /\ buffer' = [c \in Calls |-> 0]
    /\ UNCHANGED <<dialed, tries, up, method, client, sent, got, handler>>

UpstreamFlips(u) ==
    /\ up' = IF u \in up THEN up \ {u} ELSE up \cup {u}
    /\ UNCHANGED <<processVars, method, client, server, streamVars, handler>>

-----------------------------------------------------------------------------
\* A stub sends its request: it reaches a serving process or is lost.
Call(c) ==
    /\ client[c] = "idle"
    /\ client' = [client EXCEPT ![c] = "waiting"]
    /\ \/ phase = "serving" /\ server' = [server EXCEPT ![c] = "arrived"]
       \/ UNCHANGED server
    /\ UNCHANGED <<processVars, up, method, streamVars, handler>>

\* The caller gives up, its deadline passes, or its connection breaks.
HangUp(c) ==
    /\ client[c] = "waiting"
    /\ client' = [client EXCEPT ![c] = "failed"]
    /\ UNCHANGED <<processVars, up, method, server, streamVars, handler>>

\* The server hears of it: what it had for the call is dropped where it stands.
Reset(c) ==
    /\ client[c] \notin {"idle", "waiting"}
    /\ server[c] \in Live
    /\ server' = [server EXCEPT ![c] = "gone"]
    /\ buffer' = [buffer EXCEPT ![c] = 0]
    /\ UNCHANGED <<processVars, up, method, client, task, sent, got, handler>>

\* The router: a match on the path, one arm for each method with a handler.
DispatchUnary(c) ==
    /\ server[c] = "arrived"
    /\ method[c] \in Routes /\ ~ DeliveryServer[method[c]].streams
    /\ server' = [server EXCEPT ![c] = "running"]
    /\ handler' = [handler EXCEPT ![c] = "begun"]
    /\ UNCHANGED <<processVars, up, method, client, streamVars>>

\* tracking_rider spawns its task and returns the receiver as the reply.
DispatchStreaming(c) ==
    /\ server[c] = "arrived"
    /\ method[c] \in Routes /\ DeliveryServer[method[c]].streams
    /\ server' = [server EXCEPT ![c] = "streaming"]
    /\ task' = [task EXCEPT ![c] = "sleeping"]
    /\ handler' = [handler EXCEPT ![c] = "begun"]
    /\ UNCHANGED <<processVars, up, method, client, sent, buffer, got>>

DispatchUnknown(c) ==
    /\ server[c] = "arrived"
    /\ method[c] \notin Routes
    /\ server' = [server EXCEPT ![c] = "answer_unimplemented"]
    /\ UNCHANGED <<processVars, up, method, client, streamVars, handler>>

-----------------------------------------------------------------------------
\* report_delivery_status comes back with an error, see Announce of Delivery.
Report(c) ==
    /\ server[c] = "running" /\ method[c] = "ReportDeliveryStatus"
    /\ server' = [server EXCEPT ![c] = "answer_error"]
    /\ UNCHANGED <<processVars, up, method, client, streamVars, handler>>

\* get_delivery_fee waits for two other services, one after the other.
AskCustomer(c) ==
    /\ server[c] = "running" /\ method[c] = "GetDeliveryFee"
    /\ server' = [server EXCEPT ![c] = "ask_customer"]
    /\ UNCHANGED <<processVars, up, method, client, streamVars, handler>>

\* Mutant: the fee is answered without the merchant.
CustomerAnswersAlone(c) ==
    /\ server[c] = "ask_customer"
    /\ "CustomerService" \in up /\ Speaks(CustomerClient, CustomerServer, "GetCustomer")
    /\ server' = [server EXCEPT ![c] = "answer_ok"]
    /\ UNCHANGED <<processVars, up, method, client, streamVars, handler>>

\* get_customer answers, and find has the address among the customer's.
CustomerAnswers(c) ==
    /\ server[c] = "ask_customer"
    /\ "CustomerService" \in up /\ Speaks(CustomerClient, CustomerServer, "GetCustomer")
    /\ server' = [server EXCEPT ![c] = "ask_merchant"]
    /\ UNCHANGED <<processVars, up, method, client, streamVars, handler>>

\* get_merchant answers, the merchant has an address, the distance is in range.
MerchantAnswers(c) ==
    /\ server[c] = "ask_merchant"
    /\ "MerchantService" \in up /\ Speaks(MerchantClient, MerchantServer, "GetMerchant")
    /\ server' = [server EXCEPT ![c] = "answer_ok"]
    /\ handler' = [handler EXCEPT ![c] = "complete"]
    /\ UNCHANGED <<processVars, up, method, client, streamVars>>

\* An upstream call fails, or what it brings does not do.
AskFails(c) ==
    /\ server[c] \in {"ask_customer", "ask_merchant"}
    /\ server' = [server EXCEPT ![c] = "answer_error"]
    /\ UNCHANGED <<processVars, up, method, client, streamVars, handler>>

\* The answer reaches a caller that still waits for it.
Reply(c) ==
    /\ server[c] \in Answers /\ client[c] = "waiting"
    /\ client' = [client EXCEPT ![c] = IF server[c] = "answer_ok" THEN "ok"
                                        ELSE IF server[c] = "answer_error" THEN "failed"
                                        ELSE "refused"]
    /\ server' = [server EXCEPT ![c] = "gone"]
    /\ UNCHANGED <<processVars, up, method, streamVars, handler>>

-----------------------------------------------------------------------------
\* The tracking task: five seconds of sleep, one location, five times over.
Wake(c) ==
    /\ task[c] = "sleeping"
    /\ task' = [task EXCEPT ![c] = "sending"]
    /\ UNCHANGED <<processVars, up, method, client, server, sent, buffer, got, handler>>

\* Mutant: the channel has no bound.
PushUnbounded(c) ==
    /\ task[c] = "sending" /\ server[c] = "streaming"
    /\ buffer' = [buffer EXCEPT ![c] = @ + 1]
    /\ sent' = [sent EXCEPT ![c] = @ + 1]
    /\ task' = [task EXCEPT ![c] = IF sent[c] + 1 = Points THEN "over" ELSE "sleeping"]
    /\ UNCHANGED <<processVars, up, method, client, server, got, handler>>

\* send waits for room in the channel.
Push(c) ==
    /\ task[c] = "sending" /\ server[c] = "streaming"
    /\ buffer[c] < Capacity
    /\ buffer' = [buffer EXCEPT ![c] = @ + 1]
    /\ sent' = [sent EXCEPT ![c] = @ + 1]
    /\ task' = [task EXCEPT ![c] = IF sent[c] + 1 = Points THEN "over" ELSE "sleeping"]
    /\ UNCHANGED <<processVars, up, method, client, server, got, handler>>

\* Mutant: the task goes on with the next location.
PushFailsRetries(c) ==
    /\ task[c] = "sending" /\ server[c] # "streaming"
    /\ task' = [task EXCEPT ![c] = "sleeping"]
    /\ UNCHANGED <<processVars, up, method, client, server, sent, buffer, got, handler>>

\* The receiver was dropped with the call.
PushFails(c) ==
    /\ task[c] = "sending" /\ server[c] # "streaming"
    /\ task' = [task EXCEPT ![c] = "over"]
    /\ UNCHANGED <<processVars, up, method, client, server, sent, buffer, got, handler>>

\* The server takes a location for the caller, who gets it if still there.
Pull(c) ==
    /\ server[c] = "streaming" /\ buffer[c] > 0
    /\ buffer' = [buffer EXCEPT ![c] = @ - 1]
    /\ got' = [got EXCEPT ![c] = IF client[c] = "waiting" THEN @ + 1 ELSE @]
    /\ UNCHANGED <<processVars, up, method, client, server, task, sent, handler>>

\* Mutant: the stream ends with the task.
EndStreamEarly(c) ==
    /\ server[c] = "streaming" /\ task[c] = "over"
    /\ server' = [server EXCEPT ![c] = "answer_ok"]
    /\ buffer' = [buffer EXCEPT ![c] = 0]
    /\ handler' = [handler EXCEPT ![c] = "complete"]
    /\ UNCHANGED <<processVars, up, method, client, task, sent, got>>

\* The stream ends when the task has dropped its sender and nothing is left.
EndStream(c) ==
    /\ server[c] = "streaming" /\ task[c] = "over" /\ buffer[c] = 0
    /\ server' = [server EXCEPT ![c] = "answer_ok"]
    /\ handler' = [handler EXCEPT ![c] = "complete"]
    /\ UNCHANGED <<processVars, up, method, client, streamVars>>

-----------------------------------------------------------------------------
CallerStep(c) == Call(c) \/ HangUp(c) \/ Reset(c) \/ Reply(c)
RouterStep(c) == DispatchUnary(c) \/ DispatchStreaming(c) \/ DispatchUnknown(c)
UnaryStep(c) == Report(c) \/ AskCustomer(c) \/ CustomerAnswers(c) \/ MerchantAnswers(c)
                \/ AskFails(c)
TaskStep(c) == Wake(c) \/ Push(c) \/ PushFails(c)
StreamStep(c) == Pull(c) \/ EndStream(c)

Next ==
    \/ Start \/ Dial \/ Crash
    \/ \E u \in {"CustomerService", "MerchantService"} : UpstreamFlips(u)
    \/ \E c \in Calls : CallerStep(c) \/ RouterStep(c) \/ UnaryStep(c)
                        \/ TaskStep(c) \/ StreamStep(c)

Spec == Init /\ [][Next]_vars

(***************************************************************************)
(* tokio runs the timers and the tasks.  A dial is answered or refused.    *)
(* Locations are empty messages, far from any flow-control window, so the  *)
(* server takes them off the channel whether or not the caller reads, or   *)
(* it finds the connection broken.                                         *)
(***************************************************************************)
FairSpec ==
    /\ Spec
    /\ WF_vars(Dial)
    /\ \A c \in Calls : WF_vars(TaskStep(c)) /\ WF_vars(StreamStep(c))
-----------------------------------------------------------------------------
\* The process, both ends of every call and the channel between task and stream.
TypeOK ==
    /\ phase \in {"down", "dialing", "serving"}
    /\ dialed \in 0..Len(Upstreams)
    /\ phase = "dialing" => dialed < Len(Upstreams)
    /\ tries \in 0..Tries
    /\ up \subseteq {"CustomerService", "MerchantService"}
    /\ method \in [Calls -> DOMAIN DeliveryClient]
    /\ client \in [Calls -> ClientStates]
    /\ server \in [Calls -> {"none", "gone"} \cup Live]
    /\ task \in [Calls -> TaskStates]
    /\ sent \in [Calls -> 0..Points]
    /\ buffer \in [Calls -> 0..Capacity]
    /\ got \in [Calls -> 0..Points]
    /\ handler \in [Calls -> {"not_run", "begun", "complete"}]

(***************************************************************************)
(* The generated code and the handlers behind it keep what gRPC promises   *)
(* (router of DeliveryServiceServer, drop of the futures, main).           *)
(***************************************************************************)
KnownTo(c) == IF client[c] \in {"idle", "waiting"} THEN "nothing" ELSE client[c]
Contract == INSTANCE CallContract WITH known <- [c \in Calls |-> KnownTo(c)]
ImplementsContract == Contract!Spec

(***************************************************************************)
(* A stream that ends well is complete: the task of tracking_rider may run *)
(* ahead of the caller, end before the last location is taken off the      *)
(* channel, or die with the process, but only a caller who has all         *)
(* locations is told that this was the end.                                *)
(***************************************************************************)
CompleteStream ==
    \A c \in Calls :
        client[c] = "ok" /\ method[c] = "TrackingRider" => got[c] = Points

(***************************************************************************)
(* The task spawned by tracking_rider belongs to no call; it ends all the  *)
(* same, whether the caller stays, reads nothing, hangs up, or the process *)
(* dies.                                                                   *)
(***************************************************************************)
TrackersEnd == \A c \in Calls : task[c] = "sleeping" ~> task[c] = "over"

(***************************************************************************)
(* main does not dial for ever: with upstream services that come and go it *)
(* serves or gives up.                                                     *)
(***************************************************************************)
StartupSettles == phase = "dialing" ~> phase \in {"serving", "down"}
=============================================================================
