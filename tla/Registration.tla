---------------------------- MODULE Registration ----------------------------
(***************************************************************************)
(* How a new account spreads.  AuthService inserts the credentials and     *)
(* announces the account inside one transaction, before it commits;        *)
(* CustomerService makes a profile of the announcement, the delivery       *)
(* service handles it for riders (and stores nothing: create_rider builds  *)
(* an insert and never awaits it).                                         *)
(*                                                                         *)
(* As an account gets a fresh uuid with its INSERT, it carries the name of *)
(* the call that made it; accounts and profiles are sets of calls.         *)
(***************************************************************************)
EXTENDS Genproto

CONSTANTS
    Calls,          \* of Register and CreateAdmin
    Emails,
    Malformed,      \* the emails that are none
    Suffixes,       \* the last four digits of a uuid
    Faults          \* see FaultKinds

(***************************************************************************)
(* "store"   a statement returns an error, applied or not                  *)
(* "broker"  a message or a connection is lost, a channel cannot be opened *)
(* "restart" a process dies and starts again                               *)
(***************************************************************************)
FaultKinds == {"store", "broker", "restart"}

ASSUME FaultsAssumption == Faults \subseteq FaultKinds
ASSUME EmailsAssumption == Malformed \subseteq Emails

VARIABLES
    email, role,    \* what a call asks for
    suffix,         \* of the uuid it draws
    pc,             \* where it stands
    accounts,       \* committed rows of credentials
    profiles,       \* rows of customers
    queue,          \* queue[s]: announcements on their way to service s
    consumer,       \* the task of s that reads it
    broken,         \* history: announced, then not known to be committed
    lost, clashed, deleted  \* history: what became of announcements, profiles

inputVars == <<email, role, suffix>>
brokerVars == <<queue, consumer>>
historyVars == <<broken, lost, clashed, deleted>>
vars == <<inputVars, pc, accounts, profiles, brokerVars, historyVars>>

Roles == {"customer", "rider", "admin"}     \* "admin": any that nobody hears of
Services == {"customer", "rider"}           \* who hears of which role
InQueue(s) == {queue[s][i] : i \in 1..Len(queue[s])}

Init ==
    /\ email \in [Calls -> Emails]
    /\ role \in [Calls -> Roles]
    /\ suffix \in [Calls -> Suffixes]
    /\ pc = [c \in Calls |-> "idle"]
    /\ accounts = {} /\ profiles = {}
    /\ queue = [s \in Services |-> << >>]
    /\ consumer = [s \in Services |-> "starting"]
    /\ broken = {} /\ lost = {} /\ clashed = {} /\ deleted = {}

-----------------------------------------------------------------------------
Goto(c, label) == pc' = [pc EXCEPT ![c] = label]

\* Mutant: no rule for the email.
ValidAnything(c) == TRUE

\* ValidateStruct: "required,email" (and any role that has a name).
Valid(c) == email[c] \notin Malformed

\* A transaction that has inserted and neither committed nor rolled back.
Open(c) == pc[c] \in {"dispatch", "commit"}

(***************************************************************************)
(* The unique index: an insert waits for every open transaction with the   *)
(* same email, and is refused by a committed one.                          *)
(***************************************************************************)
Waits(c) == \E d \in Calls : Open(d) /\ email[d] = email[c]
TakenEmail(c) == \E d \in accounts : email[d] = email[c]

\* Mutant: the transaction does not see the others' rows and has no index.
InsertBlindly(c) ==
    /\ pc[c] = "idle" /\ Valid(c)
    /\ Goto(c, "dispatch")
    /\ UNCHANGED <<inputVars, accounts, profiles, brokerVars, historyVars>>

\* Mutant: the row is committed at once (Create instead of CreateTx).
InsertCommits(c) ==
    /\ pc[c] = "idle" /\ Valid(c)
    /\ ~ Waits(c)
    /\ ~ TakenEmail(c)
    /\ accounts' = accounts \cup {c}
    /\ Goto(c, "dispatch")
    /\ UNCHANGED <<inputVars, profiles, brokerVars, historyVars>>

\* Register up to CreateTx.
Insert(c) ==
    /\ pc[c] = "idle" /\ Valid(c)
    /\ ~ Waits(c)
    /\ ~ TakenEmail(c)
    /\ Goto(c, "dispatch")
    /\ UNCHANGED <<inputVars, accounts, profiles, brokerVars, historyVars>>

\* Not valid, the email is taken, or a statement fails.
RegisterRefused(c) ==
    /\ pc[c] = "idle"
    /\ ~ Valid(c) \/ (~ Waits(c) /\ TakenEmail(c)) \/ "store" \in Faults
    /\ Goto(c, "failed")
    /\ UNCHANGED <<inputVars, accounts, profiles, brokerVars, historyVars>>

\* CreateAdmin validates nothing and tells nobody: one INSERT.
CreateAdmin(c) ==
    /\ pc[c] = "idle" /\ role[c] = "admin"
    /\ ~ Waits(c)
    /\ ~ TakenEmail(c)
    /\ accounts' = accounts \cup {c}
    /\ Goto(c, "ok")
    /\ UNCHANGED <<inputVars, profiles, brokerVars, historyVars>>

\* The customers' queue is exclusive to its connection, the riders' is not.
HasQueue(s) == consumer[s] \in (IF s = "customer" THEN {"listening"}
                                ELSE {"listening", "dead"})

\* dispatchCreation; a message nobody waits for comes back to a closed channel.
Dispatch(c) ==
    /\ pc[c] = "dispatch" /\ role[c] \in Services
    /\ \/ /\ HasQueue(role[c])
          /\ queue' = [queue EXCEPT ![role[c]] = Append(@, c)]
          /\ UNCHANGED lost
       \/ /\ ~ HasQueue(role[c]) \/ "broker" \in Faults
          /\ lost' = lost \cup {c}
          /\ UNCHANGED queue
    /\ Goto(c, "commit")
    /\ UNCHANGED <<inputVars, accounts, profiles, consumer, broken, clashed, deleted>>

\* Mutant: the error may come when the message has left.
DispatchFailsLate(c) ==
    /\ pc[c] = "dispatch"
    /\ role[c] \in Services /\ HasQueue(role[c])
    /\ queue' = [queue EXCEPT ![role[c]] = Append(@, c)]
    /\ Goto(c, "failed")
    /\ UNCHANGED <<inputVars, accounts, profiles, consumer, historyVars>>

\* "invalid role", or the message is not sent; the deferred Rollback runs.
DispatchFails(c) ==
    /\ pc[c] = "dispatch"
    /\ role[c] \notin Services \/ "broker" \in Faults
    /\ Goto(c, "failed")
    /\ UNCHANGED <<inputVars, accounts, profiles, brokerVars, historyVars>>

Commit(c) ==
    /\ pc[c] = "commit"
    /\ accounts' = accounts \cup {c}
    /\ Goto(c, "ok")
    /\ UNCHANGED <<inputVars, profiles, brokerVars, historyVars>>

\* The commit fails, or its answer does not come (the caller may have gone).
CommitFails(c) ==
    /\ pc[c] = "commit" /\ "store" \in Faults
    /\ accounts' \in {accounts, accounts \cup {c}}
    /\ broken' = broken \cup {c}
    /\ Goto(c, "failed")
    /\ UNCHANGED <<inputVars, profiles, brokerVars, lost, clashed, deleted>>

\* AuthService dies: Postgres rolls its open transactions back.
AuthCrash ==
    /\ "restart" \in Faults
    /\ \E c \in Calls : Open(c)
    /\ pc' = [c \in Calls |-> IF Open(c) THEN "failed" ELSE pc[c]]
    /\ broken' = broken \cup {c \in Calls : pc[c] = "commit"}
    /\ UNCHANGED <<inputVars, accounts, profiles, brokerVars, lost, clashed, deleted>>

-----------------------------------------------------------------------------
\* Start of the customer service and run of the delivery service's dispatcher.
Subscribe(s) ==
    /\ consumer[s] = "starting"
    /\ \/ consumer' = [consumer EXCEPT ![s] = "listening"]
       \/ /\ "broker" \in Faults
          /\ consumer' = [consumer EXCEPT ![s] = "unsubscribed"]
    /\ UNCHANGED <<inputVars, pc, accounts, profiles, queue, historyVars>>

\* The connection breaks.  Nobody reconnects; the riders' task panics.
Disconnect(s) ==
    /\ "broker" \in Faults
    /\ consumer[s] = "listening"
    /\ consumer' = [consumer EXCEPT ![s] = IF s = "customer" THEN "unsubscribed" ELSE "dead"]
    /\ queue' = [queue EXCEPT ![s] = IF s = "customer" THEN << >> ELSE @]
    /\ lost' = IF s = "customer" THEN lost \cup InQueue(s) ELSE lost
    /\ UNCHANGED <<inputVars, pc, accounts, profiles, broken, clashed, deleted>>

\* The service restarts, with a new queue.
Restart(s) ==
    /\ "restart" \in Faults
    /\ consumer[s] # "starting"
    /\ consumer' = [consumer EXCEPT ![s] = "starting"]
    /\ queue' = [queue EXCEPT ![s] = << >>]
    /\ lost' = lost \cup InQueue(s)
    /\ UNCHANGED <<inputVars, pc, accounts, profiles, broken, clashed, deleted>>

\* What the two services take a message for, and what AuthService writes.
Written(s) == IF s = "customer" THEN "SyncCustomerCreated" ELSE "SyncRiderCreated"
Read(s) == IF s = "customer" THEN "SyncCustomerCreated" ELSE "SyncRiderCreated"

Received(s) == Head(queue[s])
TakeFrom(s) ==
    /\ consumer[s] = "listening"
    /\ queue[s] # << >>
    /\ queue' = [queue EXCEPT ![s] = Tail(@)]

\* Mutant: the default username may occur twice.
ClashesById(c) ==
    \E p \in profiles : p = c \/ email[p] = email[c]

\* HandleCustomerCreation's INSERT: id, username ("customer" and the suffix)
\* and email are unique in customers.
Clashes(c) ==
    \E p \in profiles : p = c \/ suffix[p] = suffix[c] \/ email[p] = email[c]

\* Mutant: the message stays until it is acknowledged, and comes again.
CreateProfileAgain ==
    /\ consumer["customer"] = "listening"
    /\ queue["customer"] # << >>
    /\ ~ Clashes(Received("customer"))
    /\ profiles' = profiles \cup {Received("customer")}
    /\ UNCHANGED <<inputVars, pc, accounts, brokerVars, historyVars>>

CreateProfile ==
    /\ TakeFrom("customer")
    /\ ~ Clashes(Received("customer"))
    /\ profiles' = profiles \cup {Received("customer")}
    /\ UNCHANGED <<inputVars, pc, accounts, consumer, historyVars>>

\* Mutant: the message goes back into the queue.
ProfileClashesRequeues ==
    /\ consumer["customer"] = "listening"
    /\ queue["customer"] # << >>
    /\ Clashes(Received("customer"))
    /\ queue' = [queue EXCEPT !["customer"] = Append(Tail(@), Head(@))]
    /\ UNCHANGED <<inputVars, pc, accounts, profiles, consumer, historyVars>>

\* The error is logged, and the loop goes on with the next message.
ProfileClashes ==
    /\ TakeFrom("customer")
    /\ Clashes(Received("customer"))
    /\ clashed' = clashed \cup {Received("customer")}
    /\ UNCHANGED <<inputVars, pc, accounts, profiles, consumer, broken, lost, deleted>>

\* So is one of the database, applied or not.
ProfileFails ==
    /\ "store" \in Faults
    /\ TakeFrom("customer")
    /\ \/ /\ ~ Clashes(Received("customer"))
          /\ profiles' = profiles \cup {Received("customer")}
          /\ UNCHANGED lost
       \/ /\ lost' = lost \cup {Received("customer")}
          /\ UNCHANGED profiles
    /\ UNCHANGED <<inputVars, pc, accounts, consumer, broken, clashed, deleted>>

HandleCustomer == CreateProfile \/ ProfileClashes

\* handle_rider_created wants an "@" in the email, or the task returns.
HandleRider ==
    /\ TakeFrom("rider")
    /\ consumer' = IF /\ Decodes(Written("rider"), Read("rider"))
                      /\ email[Received("rider")] \notin Malformed
                   THEN consumer ELSE [consumer EXCEPT !["rider"] = "dead"]
    /\ UNCHANGED <<inputVars, pc, accounts, profiles, historyVars>>

\* DeleteCustomer; the account stays.
DeleteCustomer(c) ==
    /\ c \in profiles
    /\ profiles' = profiles \ {c}
    /\ deleted' = deleted \cup {c}
    /\ UNCHANGED <<inputVars, pc, accounts, brokerVars, broken, lost, clashed>>

-----------------------------------------------------------------------------
CallStep(c) == Insert(c) \/ RegisterRefused(c) \/ CreateAdmin(c) \/ Dispatch(c)
               \/ DispatchFails(c) \/ Commit(c) \/ CommitFails(c) \/ DeleteCustomer(c)
ServiceStep(s) == Subscribe(s) \/ Disconnect(s) \/ Restart(s)

Next ==
    \/ \E c \in Calls : CallStep(c)
    \/ AuthCrash
    \/ \E s \in Services : ServiceStep(s)
    \/ HandleCustomer \/ ProfileFails
    \/ HandleRider

Spec == Init /\ [][Next]_vars

(***************************************************************************)
(* The loop of Start runs on while Postgres answers; no error is needed to *)
(* get a message out of the way.                                           *)
(***************************************************************************)
FairSpec == Spec /\ WF_vars(HandleCustomer)
-----------------------------------------------------------------------------
\* Types, and the unique columns of both tables.
TypeOK ==
    /\ email \in [Calls -> Emails]
    /\ role \in [Calls -> Roles]
    /\ suffix \in [Calls -> Suffixes]
    /\ pc \in [Calls -> {"idle", "dispatch", "commit", "ok", "failed"}]
    /\ accounts \subseteq Calls
    /\ profiles \subseteq Calls
    /\ queue \in [Services -> Seq(Calls)]
    /\ consumer \in [Services -> {"starting", "listening", "unsubscribed", "dead"}]
    /\ broken \subseteq Calls /\ lost \subseteq Calls
    /\ clashed \subseteq Calls /\ deleted \subseteq Calls
    /\ \A p, q \in profiles :
          p = q \/ (suffix[p] # suffix[q] /\ email[p] # email[q])

(***************************************************************************)
(* events.proto, "Data Replication": a customer's account has its profile, *)
(* or the reason is known: the announcement is on its way, was lost, hit   *)
(* the username or the email of another profile, or the profile was        *)
(* deleted.  No account is committed unannounced.                          *)
(***************************************************************************)
MissingIsExplained ==
    \A c \in accounts :
        role[c] = "customer" =>
            c \in profiles \cup InQueue("customer") \cup lost \cup clashed \cup deleted

(***************************************************************************)
(* "Auth act as a source of truth": a profile without an account is there  *)
(* only while the account's transaction is open, or when that transaction  *)
(* ended between the announcement and the commit (auth.go:105).            *)
(***************************************************************************)
OrphansHaveAReason ==
    \A c \in profiles \cup InQueue("customer") \cup InQueue("rider") :
        c \in accounts \/ c \in broken \/ pc[c] = "commit"

(***************************************************************************)
(* An account and a profile with one email belong together.  They are      *)
(* different people's only when the profile was left behind by a broken    *)
(* registration; then the email is blocked for the later account.          *)
(***************************************************************************)
EmailIsOnePersons ==
    \A a \in accounts, p \in profiles :
        email[a] = email[p] => a = p \/ p \in broken

(***************************************************************************)
(* A customer who was deleted stays deleted: no announcement that is still *)
(* under way, late or repeated, makes the profile again.                   *)
(***************************************************************************)
DeletedStaysDeleted == deleted \cap (profiles \cup InQueue("customer")) = {}

(***************************************************************************)
(* The delivery service's task, which ends at the first email without an   *)
(* "@" (event_impl.rs:233), is never sent one: only Register announces,    *)
(* and it validates.  It ends with its connection, not with a message.     *)
(***************************************************************************)
RiderTaskSurvives ==
    [][HandleRider => consumer'["rider"] = "listening"]_vars

(***************************************************************************)
(* An announcement that reaches the customer service's queue is handled or *)
(* lost with the queue; one that clashes or fails does not hold up those   *)
(* behind it.                                                              *)
(***************************************************************************)
QueuedIsHandled ==
    \A c \in Calls : c \in InQueue("customer") ~> c \notin InQueue("customer")

-----------------------------------------------------------------------------
(***************************************************************************)
(* Detailed against promised: a profile is the copy of a customer's        *)
(* account.                                                                *)
(***************************************************************************)
CopyOf(c) ==
    IF role[c] # "customer" THEN "none"
    ELSE IF c \in profiles THEN "there"
    ELSE IF c \in InQueue("customer") THEN "coming"
    ELSE IF c \in lost \cup clashed \cup deleted THEN "gone"
    ELSE "none"

Promise == INSTANCE Replication WITH
    Accounts <- Calls,
    copied <- {c \in Calls : role[c] = "customer"},
    kept <- accounts,
    copy <- [c \in Calls |-> CopyOf(c)]

\* Registration keeps every promise of Replication: a profile is made once,
\* of an announced account, and never again once it is lost or deleted.
ImplementsReplication == Promise!Spec
=============================================================================
