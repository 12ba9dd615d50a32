---------------------------- MODULE Replication ----------------------------
(***************************************************************************)
(* What the replication of accounts promises, without saying how it is     *)
(* done: an account is for good; one that is to be copied is kept only     *)
(* once its copy has been ordered; a copy is ordered once, arrives at most *)
(* once, and one that is gone never comes back; neither two accounts nor   *)
(* two copies share an email.  It does not promise that a copy arrives,    *)
(* nor that a copy which arrives has an account.                           *)
(***************************************************************************)
CONSTANTS Accounts, Emails

VARIABLES
    email,      \* of each account
    copied,     \* the accounts that are to have a copy
    kept,       \* the accounts there are
    copy        \* "none", "coming", "there" or "gone"

vars == <<email, copied, kept, copy>>

Init ==
    /\ email \in [Accounts -> Emails]
    /\ copied \subseteq Accounts
    /\ kept = {}
    /\ copy = [a \in Accounts |-> "none"]

Keep(a) ==
    /\ a \notin kept
    /\ \A b \in kept : email[b] # email[a]
    /\ a \in copied => copy[a] # "none"
    /\ kept' = kept \cup {a}
    /\ UNCHANGED <<email, copied, copy>>

\* The copy of an account that is not kept yet; it may be lost at once.
Order(a) ==
    /\ a \in copied \ kept
    /\ copy[a] = "none"
    /\ \/ copy' = [copy EXCEPT ![a] = "coming"]
       \/ copy' = [copy EXCEPT ![a] = "gone"]
    /\ UNCHANGED <<email, copied, kept>>

Arrive(a) ==
    /\ copy[a] = "coming"
    /\ \A b \in Accounts : copy[b] = "there" => email[b] # email[a]
    /\ copy' = [copy EXCEPT ![a] = "there"]
    /\ UNCHANGED <<email, copied, kept>>

\* Copies are lost on their way, or taken away.
Vanish(which) ==
    /\ \A a \in which : copy[a] \in {"coming", "there"}
    /\ copy' = [a \in Accounts |-> IF a \in which THEN "gone" ELSE copy[a]]
    /\ UNCHANGED <<email, copied, kept>>

Next ==
    \/ \E a \in Accounts : Keep(a) \/ Order(a) \/ Arrive(a)
    \/ \E which \in SUBSET Accounts : Vanish(which)

Spec == Init /\ [][Next]_vars
=============================================================================
