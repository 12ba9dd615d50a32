---------------------------- MODULE StatusBoard ----------------------------
(***************************************************************************)
(* What the event consumers promise, without queues, consumers or          *)
(* connections: an announcement shows its status for its own order, once   *)
(* or not at all; until then it is open, and any number of open ones may   *)
(* be lost.  Nothing else changes a status, and an order that is not there *)
(* does not come into being.  It promises no order among the               *)
(* announcements that are shown, and not that any is.                      *)
(***************************************************************************)
EXTENDS Naturals, Sequences

CONSTANTS
    Orders, Statuses,
    Missing,        \* the status of an order that is not there
    Nothing,        \* what an unreadable announcement says
    MaxEvents       \* bound: announcements ever made

VARIABLES
    said,           \* the announcements so far
    open,           \* the places in it of those that may still be shown
    status          \* status[o]: what order o shows

vars == <<said, open, status>>

Init ==
    /\ said = << >> /\ open = {}
    /\ status \in [Orders -> Statuses]

\* Nobody may be listening.
Announce(o, shows) ==
    /\ Len(said) < MaxEvents
    /\ said' = Append(said, [order |-> o, shows |-> shows])
    /\ open' \in {open, open \cup {Len(said) + 1}}
    /\ UNCHANGED status

Show(i) ==
    /\ i \in open
    /\ said[i].shows # Nothing
    /\ status[said[i].order] # Missing
    /\ status' = [status EXCEPT ![said[i].order] = said[i].shows]
    /\ open' = open \ {i}
    /\ UNCHANGED said

Lose(which) ==
    /\ open' = open \ which
    /\ UNCHANGED <<said, status>>

Next ==
    \/ \E o \in Orders, shows \in Statuses \cup {Nothing} : Announce(o, shows)
    \/ \E i \in 1..MaxEvents : Show(i)
    \/ \E which \in SUBSET (1..MaxEvents) : Lose(which)

Spec == Init /\ [][Next]_vars
=============================================================================
