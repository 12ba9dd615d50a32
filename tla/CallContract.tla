---------------------------- MODULE CallContract ----------------------------
(***************************************************************************)
(* What a gRPC call promises its caller, whatever connections break and    *)
(* processes die: the handler runs at most once; "ok" means that it came   *)
(* to its end; "refused" (UNIMPLEMENTED) means that it never ran and never *)
(* will, so the call may be sent elsewhere.  After "failed" the caller     *)
(* knows nothing: the handler may not have run, run to its end, or run     *)
(* later still.                                                            *)
(***************************************************************************)
EXTENDS Naturals

CONSTANT Calls

VARIABLES
    known,      \* what the caller of each call knows
    handler     \* what has become of the handler

vars == <<known, handler>>

Init ==
    /\ known = [c \in Calls |-> "nothing"]
    /\ handler = [c \in Calls |-> "not_run"]

Begin(c) ==
    /\ handler[c] = "not_run"
    /\ known[c] # "refused"
    /\ handler' = [handler EXCEPT ![c] = "begun"]
    /\ UNCHANGED known

Complete(c) ==
    /\ handler[c] = "begun"
    /\ handler' = [handler EXCEPT ![c] = "complete"]
    /\ UNCHANGED known

Learn(c, what) ==
    /\ known[c] = "nothing"
    /\ known' = [known EXCEPT ![c] = what]
    /\ UNCHANGED handler

Succeed(c) == handler[c] = "complete" /\ Learn(c, "ok")
Refuse(c) == handler[c] = "not_run" /\ Learn(c, "refused")
Fail(c) == Learn(c, "failed")

Next == \E c \in Calls :
            Begin(c) \/ Complete(c) \/ Succeed(c) \/ Refuse(c) \/ Fail(c)

Spec == Init /\ [][Next]_vars
=============================================================================
