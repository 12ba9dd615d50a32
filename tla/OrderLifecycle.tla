--------------------------- MODULE OrderLifecycle ---------------------------
(***************************************************************************)
(* What placing an order promises, without saying how it is done: per      *)
(* request at most one order is kept, an order the rest of the platform    *)
(* was told of is never taken back, and a caller who was answered "ok" has *)
(* an order for good.  It promises nothing to a caller who got an error:   *)
(* an order may be left behind (Abandon).                                  *)
(***************************************************************************)
CONSTANTS Orders, Requests

VARIABLES
    request,    \* the request each order answers
    stage,      \* "absent", "stored" or "announced"
    reply       \* "none", "ok" or "error"

vars == <<request, stage, reply>>

Init ==
    /\ request \in [Orders -> Requests]
    /\ stage = [o \in Orders |-> "absent"]
    /\ reply = [o \in Orders |-> "none"]

\* Keeping o breaks no other order's claim to the same request.
MayStore(o) ==
    /\ stage[o] = "absent"
    /\ \A p \in Orders : stage[p] # "absent" => request[p] # request[o]

Store(o) ==
    /\ reply[o] = "none"
    /\ MayStore(o)
    /\ stage' = [stage EXCEPT ![o] = "stored"]
    /\ UNCHANGED <<request, reply>>

\* The caller gets the order; its announcement may be lost on the way.
Confirm(o) ==
    /\ reply[o] = "none"
    /\ stage[o] = "stored"
    /\ \/ stage' = [stage EXCEPT ![o] = "announced"]
       \/ UNCHANGED stage
    /\ reply' = [reply EXCEPT ![o] = "ok"]
    /\ UNCHANGED request

\* The caller gets an error and the order, if any, is taken back.
Withdraw(o) ==
    /\ reply[o] = "none"
    /\ stage[o] \in {"absent", "stored"}
    /\ stage' = [stage EXCEPT ![o] = "absent"]
    /\ reply' = [reply EXCEPT ![o] = "error"]
    /\ UNCHANGED request

\* The caller gets an error although the order has just been stored.
StoreUnseen(o) ==
    /\ reply[o] = "none"
    /\ MayStore(o)
    /\ stage' = [stage EXCEPT ![o] = "stored"]
    /\ reply' = [reply EXCEPT ![o] = "error"]
    /\ UNCHANGED request

\* Some callers lose their connection; whatever is stored stays.
Abandon(lost) ==
    /\ \A o \in lost : reply[o] = "none"
    /\ reply' = [o \in Orders |-> IF o \in lost THEN "error" ELSE reply[o]]
    /\ UNCHANGED <<request, stage>>

Next ==
    \/ \E o \in Orders : Store(o) \/ Confirm(o) \/ Withdraw(o) \/ StoreUnseen(o)
    \/ \E lost \in SUBSET Orders : Abandon(lost)

Spec == Init /\ [][Next]_vars
=============================================================================
