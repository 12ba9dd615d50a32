------------------------- MODULE RegistrationProofs -------------------------
(***************************************************************************)
(* Proofs about module Registration, for any number of calls, emails and   *)
(* suffixes, and any of the faults.                                        *)
(*                                                                         *)
(* Accounts and open transactions never share an email (ClaimInv); only    *)
(* valid emails are announced (ValidInv); a customer's transaction commits *)
(* only after its announcement (TellInv).  What the services that hear of  *)
(* an account do with it can disturb none of this: they spread nothing     *)
(* that was not announced, and lose nothing without a trace (Hears).       *)
(* What was told of a customer is in one place (OnceInv); from that follow *)
(* the refinement of Replication and what becomes of deleted profiles.     *)
(***************************************************************************)
EXTENDS Registration, SequenceTheorems, TLAPS

Announced == profiles \cup InQueue("customer") \cup lost \cup clashed \cup deleted
Spread == profiles \cup InQueue("customer") \cup InQueue("rider")

\* Who has an email for himself.
Claims(c) == c \in accounts \/ Open(c)

ClaimInv ==
    /\ \A c \in Calls : pc[c] = "idle" \/ Open(c) => c \notin accounts
    /\ \A c, d \in Calls : Claims(c) /\ Claims(d) /\ email[c] = email[d] => c = d

ValidInv ==
    /\ \A c \in Calls : Open(c) => Valid(c)
    /\ \A c \in InQueue("rider") : Valid(c)

TellInv ==
    \A c \in Calls :
        role[c] = "customer" /\ (c \in accounts \/ pc[c] = "commit") => c \in Announced

IInv == TypeOK /\ ClaimInv /\ ValidInv /\ TellInv /\ OrphansHaveAReason

-----------------------------------------------------------------------------
\* Queues: what is in them after an append and without the head.
SetOf(q) == {q[i] : i \in 1..Len(q)}

LEMMA SetOfAppend ==
    ASSUME NEW S, NEW q \in Seq(S), NEW x \in S
    PROVE  SetOf(Append(q, x)) = SetOf(q) \cup {x}
BY DEF SetOf

LEMMA SetOfTail ==
    ASSUME NEW S, NEW q \in Seq(S), q # << >>
    PROVE  /\ Tail(q) \in Seq(S) /\ Head(q) \in S
           /\ SetOf(q) = SetOf(Tail(q)) \cup {Head(q)}
<1>1. Tail(q) \in Seq(S) /\ Head(q) \in S
  BY HeadTailProperties
<1>2. /\ Len(Tail(q)) = Len(q) - 1 /\ Len(q) \in Nat \ {0} /\ Head(q) = q[1]
      /\ \A i \in 1..Len(Tail(q)) : Tail(q)[i] = q[i + 1]
  BY HeadTailProperties
<1>3. ASSUME NEW x \in SetOf(q) PROVE x \in SetOf(Tail(q)) \cup {Head(q)}
  <2>1. PICK i \in 1..Len(q) : x = q[i]
    BY DEF SetOf
  <2>2. CASE i = 1
    BY <1>2, <2>1, <2>2
  <2>3. CASE i # 1
    <3>1. i - 1 \in 1..Len(Tail(q)) /\ (i - 1) + 1 = i
      BY <1>2, <2>3
    <3> QED
      BY <1>2, <2>1, <3>1 DEF SetOf
  <2> QED
    BY <2>2, <2>3
<1>4. SetOf(Tail(q)) \cup {Head(q)} \subseteq SetOf(q)
  BY <1>2 DEF SetOf
<1> QED
  BY <1>1, <1>3, <1>4

\* A service takes the first announcement of its queue.
LEMMA Takes ==
    ASSUME TypeOK, NEW s \in Services, TakeFrom(s)
    PROVE  /\ queue' \in [Services -> Seq(Calls)]
           /\ Received(s) \in InQueue(s) /\ Received(s) \in Calls
           /\ InQueue(s) = InQueue(s)' \cup {Received(s)}
           /\ \A t \in Services : t # s => InQueue(t)' = InQueue(t)
<1>1. queue[s] \in Seq(Calls) /\ queue[s] # << >> /\ queue' = [queue EXCEPT ![s] = Tail(queue[s])]
  BY DEF TypeOK, TakeFrom
<1>2. /\ Tail(queue[s]) \in Seq(Calls) /\ Head(queue[s]) \in Calls
      /\ SetOf(queue[s]) = SetOf(Tail(queue[s])) \cup {Head(queue[s])}
  BY <1>1, SetOfTail
<1>3. /\ queue' \in [Services -> Seq(Calls)] /\ queue'[s] = Tail(queue[s])
      /\ \A t \in Services : t # s => queue'[t] = queue[t]
  BY <1>1, <1>2 DEF TypeOK
<1> QED
  BY <1>2, <1>3 DEF Received, InQueue, SetOf

\* A queue is emptied.
LEMMA Empties ==
    ASSUME TypeOK, NEW s \in Services, queue' = [queue EXCEPT ![s] = << >>]
    PROVE  /\ queue' \in [Services -> Seq(Calls)]
           /\ InQueue(s)' = {}
           /\ \A t \in Services : t # s => InQueue(t)' = InQueue(t)
<1>1. /\ queue' \in [Services -> Seq(Calls)] /\ queue'[s] = << >>
      /\ \A t \in Services : t # s => queue'[t] = queue[t]
  BY DEF TypeOK
<1> QED
  BY <1>1 DEF InQueue

LEMMA QueuesHoldCalls ==
    ASSUME TypeOK, NEW s \in Services
    PROVE  InQueue(s) \subseteq Calls
BY DEF TypeOK, InQueue

\* A profile gets in only where none clashes with it.
LEMMA ProfilesStayUnique ==
    ASSUME TypeOK, NEW c \in Calls, ~ Clashes(c), UNCHANGED <<email, suffix>>,
           profiles' = profiles \cup {c}
    PROVE  /\ profiles' \subseteq Calls
           /\ \A p, q \in profiles' :
                 p = q \/ (suffix'[p] # suffix'[q] /\ email'[p] # email'[q])
BY DEF TypeOK, Clashes

-----------------------------------------------------------------------------
\* The steps of those who hear of an account.
Hearing(s) == Subscribe(s) \/ Disconnect(s) \/ Restart(s)
Hears ==
    \/ \E s \in Services : Hearing(s)
    \/ CreateProfile \/ ProfileClashes \/ ProfileFails \/ HandleRider
    \/ \E c \in Calls : DeleteCustomer(c)

\* What they leave alone.
Kept ==
    /\ TypeOK'
    /\ UNCHANGED <<email, role, pc, accounts, broken>>
    /\ Spread' \subseteq Spread /\ InQueue("rider")' \subseteq InQueue("rider")
    /\ Announced \subseteq Announced'

LEMMA BrokerKeeps ==
    ASSUME TypeOK, NEW s \in Services, Hearing(s)
    PROVE  Kept
<1> USE DEF inputVars, historyVars, brokerVars
<1>1. CASE Subscribe(s)
  BY <1>1 DEF Subscribe, Kept, TypeOK, Spread, Announced, InQueue
<1>2. ASSUME queue' = [queue EXCEPT ![s] = << >>], lost' = lost \cup InQueue(s),
             UNCHANGED <<email, role, suffix, pc, accounts, profiles, broken, clashed, deleted>>,
             consumer' \in [Services -> {"starting", "listening", "unsubscribed", "dead"}]
      PROVE  Kept
  <2>1. /\ queue' \in [Services -> Seq(Calls)] /\ InQueue(s)' = {}
        /\ \A t \in Services : t # s => InQueue(t)' = InQueue(t)
    BY <1>2, Empties
  <2>2. lost' \subseteq Calls
    BY <1>2, QueuesHoldCalls DEF TypeOK
  <2>3. TypeOK'
    BY <1>2, <2>1, <2>2 DEF TypeOK
  <2> QED
    BY <1>2, <2>1, <2>3 DEF Kept, Spread, Announced, Services
<1>3. CASE Restart(s)
  BY <1>2, <1>3 DEF Restart, TypeOK
<1>4. CASE Disconnect(s)
  <2>1. CASE s = "customer"
    BY <1>2, <1>4, <2>1 DEF Disconnect, TypeOK
  <2>2. CASE s # "customer"
    <3>1. queue' = queue /\ lost' = lost
      BY <1>4, <2>2 DEF Disconnect, TypeOK
    <3> QED
      BY <1>4, <2>2, <3>1 DEF Disconnect, Kept, TypeOK, Spread, Announced, InQueue
  <2> QED
    BY <2>1, <2>2
<1> QED
  BY <1>1, <1>3, <1>4 DEF Hearing

LEMMA HandlersKeep ==
    ASSUME TypeOK, CreateProfile \/ ProfileClashes \/ ProfileFails
    PROVE  Kept
<1> DEFINE c == Received("customer")
<1>1. TakeFrom("customer") /\ UNCHANGED <<email, role, suffix, pc, accounts, consumer, broken, deleted>>
  BY DEF CreateProfile, ProfileClashes, ProfileFails, inputVars, historyVars
<1>2. /\ queue' \in [Services -> Seq(Calls)]
      /\ c \in Calls /\ InQueue("customer") = InQueue("customer")' \cup {c}
      /\ InQueue("rider")' = InQueue("rider")
  BY <1>1, Takes DEF Services
<1>3. ASSUME ~ Clashes(c), profiles' = profiles \cup {c}, UNCHANGED <<lost, clashed>>
      PROVE  Kept
  <2>1. /\ profiles' \subseteq Calls
        /\ \A p, q \in profiles' :
              p = q \/ (suffix'[p] # suffix'[q] /\ email'[p] # email'[q])
    BY <1>1, <1>2, <1>3, ProfilesStayUnique
  <2>2. TypeOK'
    BY <1>1, <1>2, <1>3, <2>1 DEF TypeOK
  <2> QED
    BY <1>1, <1>2, <1>3, <2>2 DEF Kept, Spread, Announced
<1>4. ASSUME UNCHANGED profiles,
             \/ lost' = lost \cup {c} /\ clashed' = clashed
             \/ clashed' = clashed \cup {c} /\ lost' = lost
      PROVE  Kept
  <2>1. TypeOK'
    BY <1>1, <1>2, <1>4 DEF TypeOK
  <2> QED
    BY <1>1, <1>2, <1>4, <2>1 DEF Kept, Spread, Announced
<1> QED
  BY <1>3, <1>4 DEF CreateProfile, ProfileClashes, ProfileFails, historyVars

LEMMA HearsKeeps == ASSUME TypeOK, Hears PROVE Kept
<1>1. CASE HandleRider
  <2>1. TakeFrom("rider") /\ UNCHANGED <<email, role, suffix, pc, accounts, profiles,
                                         broken, lost, clashed, deleted>>
    BY <1>1 DEF HandleRider, inputVars, historyVars
  <2>2. /\ queue' \in [Services -> Seq(Calls)]
        /\ InQueue("rider") = InQueue("rider")' \cup {Received("rider")}
        /\ InQueue("customer")' = InQueue("customer")
    BY <2>1, Takes DEF Services
  <2>3. consumer' \in [Services -> {"starting", "listening", "unsubscribed", "dead"}]
    BY <1>1 DEF HandleRider, TypeOK
  <2>4. TypeOK'
    BY <2>1, <2>2, <2>3 DEF TypeOK
  <2> QED
    BY <2>1, <2>2, <2>4 DEF Kept, Spread, Announced
<1>2. ASSUME NEW c \in Calls, DeleteCustomer(c) PROVE Kept
  <2>1. TypeOK'
    BY <1>2 DEF DeleteCustomer, TypeOK, inputVars, brokerVars
  <2> QED
    BY <1>2, <2>1 DEF DeleteCustomer, Kept, Spread, Announced, InQueue, inputVars, brokerVars
<1> QED
  BY <1>1, <1>2, BrokerKeeps, HandlersKeep DEF Hears

LEMMA HearsStep == ASSUME IInv, Hears PROVE IInv'
<1>1. Kept /\ TypeOK
  BY HearsKeeps DEF IInv
<1>2. ClaimInv'
  BY <1>1 DEF Kept, IInv, ClaimInv, Claims, Open
<1>3. ValidInv'
  BY <1>1 DEF Kept, IInv, ValidInv, Open, Valid
<1>4. TellInv'
  BY <1>1 DEF Kept, IInv, TellInv
<1>5. OrphansHaveAReason'
  BY <1>1 DEF Kept, IInv, OrphansHaveAReason, Spread
<1> QED
  BY <1>1, <1>2, <1>3, <1>4, <1>5 DEF Kept, IInv

-----------------------------------------------------------------------------
\* The steps of AuthService.
Registers(c) == Insert(c) \/ RegisterRefused(c) \/ CreateAdmin(c) \/ Dispatch(c)
                \/ DispatchFails(c) \/ Commit(c) \/ CommitFails(c)

LEMMA StepKinds ==
    [Next]_vars => (\E c \in Calls : Registers(c)) \/ AuthCrash \/ Hears \/ UNCHANGED vars
BY DEF Next, CallStep, Registers, ServiceStep, Hears, Hearing, HandleCustomer

LEMMA RegistersTypes ==
    ASSUME TypeOK, NEW c \in Calls, Registers(c)
    PROVE  TypeOK'
<1> USE DEF TypeOK, inputVars, brokerVars, historyVars, Goto
<1>1. CASE Insert(c) \/ RegisterRefused(c) \/ CreateAdmin(c) \/ DispatchFails(c) \/ Commit(c)
  BY <1>1 DEF Insert, RegisterRefused, CreateAdmin, DispatchFails, Commit
<1>2. CASE CommitFails(c)
  BY <1>2 DEF CommitFails
<1>3. CASE Dispatch(c)
  <2>1. queue' \in [Services -> Seq(Calls)]
    <3>1. CASE queue' = [queue EXCEPT ![role[c]] = Append(@, c)]
      BY <1>3, <3>1 DEF Dispatch
    <3>2. CASE queue' = queue
      BY <3>2
    <3> QED
      BY <1>3, <3>1, <3>2 DEF Dispatch
  <2>2. lost' \subseteq Calls
    BY <1>3 DEF Dispatch
  <2> QED
    BY <1>3, <2>1, <2>2 DEF Dispatch
<1> QED
  BY <1>1, <1>2, <1>3 DEF Registers

\* What is in the queues after a call's step.
LEMMA RegistersQueues ==
    ASSUME TypeOK, NEW c \in Calls, Registers(c)
    PROVE  /\ UNCHANGED <<email, role, suffix, profiles>>
           /\ \/ UNCHANGED <<InQueue("customer"), InQueue("rider"), lost, clashed, deleted>>
              \/ /\ pc[c] = "dispatch" /\ Goto(c, "commit")
                 /\ UNCHANGED <<accounts, broken, clashed, deleted>>
                 /\ \A s \in Services : InQueue(s)' \in {InQueue(s), InQueue(s) \cup {c}}
                 /\ lost \subseteq lost'
<1>1. CASE Dispatch(c)
  <2>1. /\ pc[c] = "dispatch" /\ Goto(c, "commit") /\ role[c] \in Services
        /\ UNCHANGED <<email, role, suffix, profiles, accounts, broken, clashed, deleted>>
    BY <1>1 DEF Dispatch, inputVars
  <2>2. CASE queue' = [queue EXCEPT ![role[c]] = Append(@, c)] /\ lost' = lost
    <3>1. /\ queue'[role[c]] = Append(queue[role[c]], c)
          /\ \A s \in Services : s # role[c] => queue'[s] = queue[s]
      BY <2>1, <2>2 DEF TypeOK
    <3>2. SetOf(Append(queue[role[c]], c)) = SetOf(queue[role[c]]) \cup {c}
      BY <2>1, SetOfAppend DEF TypeOK
    <3>3. InQueue(role[c])' = InQueue(role[c]) \cup {c}
      BY <2>1, <3>1, <3>2 DEF InQueue, SetOf
    <3>4. \A s \in Services : s # role[c] => InQueue(s)' = InQueue(s)
      BY <3>1 DEF InQueue
    <3> QED
      BY <2>1, <2>2, <3>3, <3>4
  <2>3. CASE queue' = queue /\ lost' = lost \cup {c}
    BY <2>1, <2>3 DEF InQueue
  <2> QED
    BY <1>1, <2>2, <2>3 DEF Dispatch
<1>2. CASE ~ Dispatch(c)
  BY <1>2 DEF Registers, Insert, RegisterRefused, CreateAdmin, DispatchFails, Commit,
     CommitFails, inputVars, brokerVars, historyVars, InQueue
<1> QED
  BY <1>1, <1>2

\* A customer's announcement is queued or lost.
LEMMA DispatchTells ==
    ASSUME TypeOK, NEW c \in Calls, Dispatch(c), role[c] = "customer"
    PROVE  c \in InQueue("customer")' \cup lost'
<1>1. CASE queue' = [queue EXCEPT !["customer"] = Append(@, c)]
  <2>1. queue'["customer"] = Append(queue["customer"], c) /\ queue["customer"] \in Seq(Calls)
    BY <1>1 DEF TypeOK, Services
  <2>2. SetOf(queue'["customer"]) = SetOf(queue["customer"]) \cup {c}
    BY <2>1, SetOfAppend
  <2> QED
    BY <2>2 DEF InQueue, SetOf
<1>2. CASE lost' = lost \cup {c}
  BY <1>2
<1> QED
  BY <1>1, <1>2 DEF Dispatch

\* Where the call stands, and whose accounts there are, by case.
LEMMA RegistersAccounts ==
    ASSUME TypeOK, NEW c \in Calls, Registers(c)
    PROVE  /\ \A d \in Calls : d # c => pc'[d] = pc[d] /\ (d \in accounts' <=> d \in accounts)
           /\ \/ /\ pc[c] = "idle" /\ pc'[c] = "dispatch" /\ UNCHANGED <<accounts, broken>>
                 /\ Valid(c) /\ ~ Waits(c) /\ ~ TakenEmail(c)
              \/ /\ pc[c] \in {"idle", "dispatch"} /\ pc'[c] = "failed"
                 /\ UNCHANGED <<accounts, broken>>
              \/ /\ pc[c] = "idle" /\ pc'[c] = "ok" /\ role[c] = "admin"
                 /\ ~ Waits(c) /\ ~ TakenEmail(c)
                 /\ accounts' = accounts \cup {c} /\ broken' = broken
              \/ /\ pc[c] = "dispatch" /\ pc'[c] = "commit" /\ UNCHANGED <<accounts, broken>>
              \/ /\ pc[c] = "commit" /\ pc'[c] \in {"ok", "failed"}
                 /\ accounts' \in {accounts, accounts \cup {c}}
                 /\ broken \subseteq broken'
                 /\ c \in accounts' \/ c \in broken'
BY DEF TypeOK, Registers, Insert, RegisterRefused, CreateAdmin, Dispatch, DispatchFails,
       Commit, CommitFails, Goto, inputVars, brokerVars, historyVars

LEMMA RegistersStep ==
    ASSUME IInv, NEW c \in Calls, Registers(c)
    PROVE  IInv'
<1>1. TypeOK /\ TypeOK' /\ UNCHANGED <<email, role, suffix, profiles>>
  BY RegistersTypes, RegistersQueues DEF IInv
<1>2. /\ \A d \in Calls : d # c => pc'[d] = pc[d] /\ (d \in accounts' <=> d \in accounts)
      /\ accounts \subseteq accounts' /\ broken \subseteq broken'
  BY <1>1, RegistersAccounts
<1>3. ClaimInv'
  <2>1. ASSUME NEW d \in Calls, pc'[d] = "idle" \/ Open(d)' PROVE d \notin accounts'
    BY <1>1, <1>2, <2>1, RegistersAccounts DEF IInv, ClaimInv, Open
  <2>2. \A d \in Calls : d # c => (Claims(d)' <=> Claims(d))
    BY <1>2 DEF Claims, Open
  <2>3. Claims(c)' => Claims(c) \/ (~ Waits(c) /\ ~ TakenEmail(c))
    BY <1>1, RegistersAccounts DEF Claims, Open
  <2>4. ASSUME NEW d \in Calls, d # c, Claims(c)', Claims(d)' PROVE email[c] # email[d]
    <3>1. Claims(d)
      BY <2>2, <2>4
    <3>2. CASE Claims(c)
      BY <2>4, <3>1, <3>2 DEF IInv, ClaimInv
    <3>3. CASE ~ Waits(c) /\ ~ TakenEmail(c)
      BY <3>1, <3>3 DEF Claims, Waits, TakenEmail
    <3> QED
      BY <2>3, <2>4, <3>2, <3>3
  <2>5. ASSUME NEW d \in Calls, NEW f \in Calls, Claims(d)', Claims(f)', email'[d] = email'[f]
        PROVE  d = f
    <3>1. CASE d # c /\ f # c
      BY <1>1, <2>2, <2>5, <3>1 DEF IInv, ClaimInv
    <3>2. CASE d = c \/ f = c
      BY <1>1, <2>4, <2>5, <3>2
    <3> QED
      BY <3>1, <3>2
  <2> QED
    BY <2>1, <2>5 DEF ClaimInv
<1>4. ValidInv'
  <2>1. ASSUME NEW d \in Calls, Open(d)' PROVE Valid(d)'
    BY <1>1, <1>2, <2>1, RegistersAccounts DEF IInv, ValidInv, Open, Valid
  <2>2. ASSUME NEW d \in InQueue("rider")' PROVE Valid(d)'
    <3>1. CASE d \in InQueue("rider")
      BY <1>1, <3>1 DEF IInv, ValidInv, Valid
    <3>2. CASE d \notin InQueue("rider")
      <4>1. d = c /\ pc[c] = "dispatch"
        BY <1>1, <2>2, <3>2, RegistersQueues DEF Services
      <4> QED
        BY <1>1, <4>1 DEF IInv, ValidInv, Open, Valid
    <3> QED
      BY <3>1, <3>2
  <2> QED
    BY <2>1, <2>2 DEF ValidInv
<1>5. Announced \subseteq Announced'
  BY <1>1, RegistersQueues DEF Announced, Services
<1>6. TellInv'
  <2> SUFFICES ASSUME NEW d \in Calls, role'[d] = "customer",
                      d \in accounts' \/ pc'[d] = "commit"
               PROVE  d \in Announced'
    BY DEF TellInv
  <2>1. CASE d \in accounts \/ pc[d] = "commit"
    BY <1>1, <1>5, <2>1 DEF IInv, TellInv
  <2>2. CASE ~ (d \in accounts \/ pc[d] = "commit")
    <3>1. d = c /\ pc[c] = "dispatch" /\ pc'[c] = "commit"
      BY <1>1, <1>2, <2>2, RegistersAccounts
    <3>2. Dispatch(c)
      BY <1>1, <3>1 DEF Registers, Insert, RegisterRefused, CreateAdmin, DispatchFails, Commit,
         CommitFails, Goto, TypeOK
    <3>3. c \in InQueue("customer")' \cup lost'
      BY <1>1, <3>1, <3>2, DispatchTells
    <3> QED
      BY <3>1, <3>3 DEF Announced
  <2> QED
    BY <2>1, <2>2
<1>7. OrphansHaveAReason'
  <2> SUFFICES ASSUME NEW d \in Spread'
               PROVE  d \in accounts' \/ d \in broken' \/ pc'[d] = "commit"
    BY DEF OrphansHaveAReason, Spread
  <2>1. CASE d \in Spread
    <3>1. d \in Calls /\ (d \in accounts \/ d \in broken \/ pc[d] = "commit")
      BY <1>1, <2>1, QueuesHoldCalls DEF IInv, OrphansHaveAReason, Spread, TypeOK, Services
    <3> QED
      BY <1>1, <1>2, <3>1, RegistersAccounts
  <2>2. CASE d \notin Spread
    <3>1. d = c /\ Goto(c, "commit")
      BY <1>1, <2>2, RegistersQueues DEF Spread, Services
    <3> QED
      BY <1>1, <3>1 DEF Goto, TypeOK
  <2> QED
    BY <2>1, <2>2
<1> QED
  BY <1>1, <1>3, <1>4, <1>6, <1>7 DEF IInv

\* A crash of AuthService opens nothing and commits nothing.
LEMMA AuthCrashStep == ASSUME IInv, AuthCrash PROVE IInv'
<1>1. /\ \A c \in Calls : pc'[c] = IF Open(c) THEN "failed" ELSE pc[c]
      /\ broken' = broken \cup {c \in Calls : pc[c] = "commit"}
      /\ UNCHANGED <<email, role, suffix, accounts, profiles, queue, consumer, lost, clashed, deleted>>
  BY DEF AuthCrash, inputVars, brokerVars
<1>2. TypeOK'
  BY <1>1 DEF IInv, TypeOK, AuthCrash
<1>3. \A c \in Calls : ~ Open(c)' /\ (pc'[c] = "idle" => pc[c] = "idle") /\ pc'[c] # "commit"
  BY <1>1 DEF Open
<1>4. ClaimInv'
  BY <1>1, <1>3 DEF IInv, ClaimInv, Claims
<1>5. UNCHANGED <<InQueue("customer"), InQueue("rider")>>
  BY <1>1 DEF InQueue
<1>6. ValidInv' /\ TellInv'
  BY <1>1, <1>3, <1>5 DEF IInv, ValidInv, TellInv, Valid, Announced
<1>7. OrphansHaveAReason'
  BY <1>1, <1>5, QueuesHoldCalls DEF IInv, OrphansHaveAReason, TypeOK, Services
<1> QED
  BY <1>2, <1>4, <1>6, <1>7 DEF IInv

LEMMA InitIInv == Init => IInv
<1> SUFFICES ASSUME Init PROVE IInv
  OBVIOUS
<1>1. \A s \in Services : InQueue(s) = {}
  BY DEF Init, InQueue
<1>2. queue \in [Services -> Seq(Calls)]
  BY DEF Init
<1>3. TypeOK
  BY <1>2 DEF Init, TypeOK
<1>4. ClaimInv /\ ValidInv /\ TellInv /\ OrphansHaveAReason
  BY <1>1 DEF Init, ClaimInv, Claims, Open, ValidInv, TellInv, OrphansHaveAReason, Services
<1> QED
  BY <1>3, <1>4 DEF IInv

LEMMA Inductive == IInv /\ [Next]_vars => IInv'
<1> SUFFICES ASSUME IInv, [Next]_vars PROVE IInv'
  OBVIOUS
<1>1. CASE UNCHANGED vars
  BY <1>1 DEF vars, inputVars, brokerVars, historyVars, IInv, TypeOK, ClaimInv, Claims, Open,
     ValidInv, Valid, TellInv, Announced, OrphansHaveAReason, InQueue
<1> QED
  BY <1>1, StepKinds, RegistersStep, AuthCrashStep, HearsStep

LEMMA Invariance == Spec => []IInv
BY InitIInv, Inductive, PTL DEF Spec

-----------------------------------------------------------------------------
\* The calls, the tables, the queues and the tasks keep their types.
THEOREM TypeCorrect == Spec => []TypeOK
BY Invariance, PTL DEF IInv

(***************************************************************************)
(* No customer's account is committed unannounced, and an announcement     *)
(* leaves a trace (Register, HandleCustomerCreation).                      *)
(***************************************************************************)
THEOREM MissingExplained == Spec => []MissingIsExplained
<1>1. IInv => MissingIsExplained
  BY DEF IInv, TypeOK, TellInv, Announced, MissingIsExplained
<1> QED
  BY Invariance, <1>1, PTL

(***************************************************************************)
(* Only a registration that breaks between its announcement and its commit *)
(* leaves a profile without an account (auth.go:105).                      *)
(***************************************************************************)
THEOREM OrphansExplained == Spec => []OrphansHaveAReason
BY Invariance, PTL DEF IInv

(***************************************************************************)
(* Two people share an email only where a broken registration left its     *)
(* profile behind.                                                         *)
(***************************************************************************)
THEOREM EmailsAreOnePersons == Spec => []EmailIsOnePersons
<1>1. ASSUME IInv, NEW a \in accounts, NEW p \in profiles, email[a] = email[p]
      PROVE  a = p \/ p \in broken
  <2>1. a \in Calls /\ p \in Calls
    BY <1>1 DEF IInv, TypeOK
  <2>2. p \in broken \/ Claims(p)
    BY <1>1 DEF IInv, OrphansHaveAReason, Claims, Open
  <2> QED
    BY <1>1, <2>1, <2>2 DEF IInv, ClaimInv, Claims
<1>2. IInv => EmailIsOnePersons
  BY <1>1 DEF EmailIsOnePersons
<1> QED
  BY Invariance, <1>2, PTL

\* A message read as what it was written as always decodes.
LEMMA RiderDecodes == Decodes(Written("rider"), Read("rider"))
<1>1. "SyncRiderCreated" \in DOMAIN EventMessages
  BY DEF EventMessages
<1>2. "SyncRiderCreated" \in DOMAIN Schema
  BY <1>1 DEF Schema, Tables
<1> QED
  BY <1>2, TagsAreDistinct DEF Decodes, Written, Read

(***************************************************************************)
(* handle_rider_created never ends the riders' task: whatever is announced *)
(* has been validated by Register.                                         *)
(***************************************************************************)
THEOREM RiderTaskLives == Spec => RiderTaskSurvives
<1>1. ASSUME IInv, HandleRider PROVE consumer'["rider"] = "listening"
  <2>1. TakeFrom("rider") /\ Received("rider") \in InQueue("rider")
    BY <1>1, Takes DEF IInv, HandleRider, Services
  <2>2. email[Received("rider")] \notin Malformed
    BY <1>1, <2>1 DEF IInv, ValidInv, Valid
  <2>3. consumer' = consumer
    BY <1>1, <2>2, RiderDecodes DEF HandleRider
  <2> QED
    BY <2>1, <2>3 DEF TakeFrom
<1>2. IInv /\ [Next]_vars => [HandleRider => consumer'["rider"] = "listening"]_vars
  BY <1>1
<1> QED
  BY Invariance, <1>2, PTL DEF Spec, RiderTaskSurvives

-----------------------------------------------------------------------------
(***************************************************************************)
(* Registration keeps the promises of Replication.  For that, nothing is   *)
(* announced twice (OnceInv): an announcement is in the queue once, or it  *)
(* has become a profile, or it is gone.                                    *)
(***************************************************************************)
Gone == lost \cup clashed \cup deleted
Customers == {c \in Calls : role[c] = "customer"}
Distinct(q) == \A i, j \in 1..Len(q) : q[i] = q[j] => i = j

OnceInv ==
    /\ Distinct(queue["customer"])
    /\ \A c \in InQueue("rider") : role[c] = "rider"
    /\ profiles \cup InQueue("customer") \subseteq Customers
    /\ profiles \cap InQueue("customer") = {}
    /\ (profiles \cup InQueue("customer")) \cap Gone = {}
    /\ \A c \in Customers : pc[c] \in {"idle", "dispatch"} => c \notin Announced

\* A queue without repetitions stays one, and its head leaves it.
LEMMA DistinctAppend ==
    ASSUME NEW S, NEW q \in Seq(S), NEW x \in S, Distinct(q), x \notin SetOf(q)
    PROVE  Distinct(Append(q, x))
BY DEF Distinct, SetOf

LEMMA DistinctTail ==
    ASSUME NEW S, NEW q \in Seq(S), q # << >>, Distinct(q)
    PROVE  Distinct(Tail(q)) /\ SetOf(Tail(q)) = SetOf(q) \ {Head(q)}
<1>1. /\ Len(Tail(q)) = Len(q) - 1 /\ Len(q) \in Nat \ {0} /\ Head(q) = q[1]
      /\ \A i \in 1..Len(Tail(q)) : Tail(q)[i] = q[i + 1]
  BY HeadTailProperties
<1>2. ASSUME NEW i \in 1..Len(Tail(q)), NEW j \in 1..Len(Tail(q)), Tail(q)[i] = Tail(q)[j]
      PROVE  i = j
  <2>1. i + 1 \in 1..Len(q) /\ j + 1 \in 1..Len(q) /\ q[i + 1] = q[j + 1]
    BY <1>1, <1>2
  <2>2. i + 1 = j + 1
    BY <2>1 DEF Distinct
  <2> QED
    BY <2>2
<1>3. Head(q) \notin SetOf(Tail(q))
  <2> SUFFICES ASSUME NEW i \in 1..Len(Tail(q)), Tail(q)[i] = Head(q) PROVE FALSE
    BY DEF SetOf
  <2>1. i + 1 \in 1..Len(q) /\ 1 \in 1..Len(q) /\ q[i + 1] = q[1] /\ i + 1 # 1
    BY <1>1
  <2> QED
    BY <2>1 DEF Distinct
<1> QED
  BY <1>2, <1>3, SetOfTail DEF Distinct

-----------------------------------------------------------------------------
\* What those who hear of accounts do to the copies: one arrives, or some vanish.
Arrival(c) ==
    /\ c \in InQueue("customer") /\ ~ Clashes(c)
    /\ profiles' = profiles \cup {c}
    /\ InQueue("customer")' = InQueue("customer") \ {c}
    /\ Gone' = Gone

Loss(which) ==
    /\ which \subseteq profiles \cup InQueue("customer")
    /\ profiles' = profiles \ which
    /\ InQueue("customer")' = InQueue("customer") \ which
    /\ Gone' \cap Customers = (Gone \cup which) \cap Customers

Moves == (\E c \in Calls : Arrival(c)) \/ (\E which \in SUBSET Calls : Loss(which))

LEMMA BrokerMoves ==
    ASSUME TypeOK, OnceInv, NEW s \in Services, Hearing(s)
    PROVE  Distinct(queue'["customer"]) /\ Moves
<1> USE DEF inputVars, historyVars, brokerVars
<1>1. CASE UNCHANGED queue /\ UNCHANGED <<profiles, lost, clashed, deleted>>
  <2>1. Loss({})
    BY <1>1 DEF Loss, Gone, InQueue
  <2> QED
    BY <1>1, <2>1 DEF Moves, OnceInv
<1>2. ASSUME queue' = [queue EXCEPT ![s] = << >>], lost' = lost \cup InQueue(s),
             UNCHANGED <<profiles, clashed, deleted>>
      PROVE  Distinct(queue'["customer"]) /\ Moves
  <2>1. /\ InQueue(s)' = {}
        /\ \A t \in Services : t # s => InQueue(t)' = InQueue(t)
    BY <1>2, Empties
  <2>2. CASE s = "customer"
    <3>1. queue'["customer"] = << >>
      BY <1>2, <2>2 DEF TypeOK
    <3>2. Loss(InQueue("customer"))
      BY <1>2, <2>1, <2>2 DEF Loss, Gone, OnceInv
    <3> QED
      BY <3>1, <3>2, <2>2, QueuesHoldCalls DEF Moves, Distinct
  <2>3. CASE s = "rider"
    <3>1. queue'["customer"] = queue["customer"] /\ InQueue("customer")' = InQueue("customer")
      BY <1>2, <2>1, <2>3 DEF TypeOK, Services
    <3>2. InQueue("rider") \cap Customers = {}
      BY DEF OnceInv, Customers
    <3>3. Loss({})
      BY <1>2, <2>3, <3>1, <3>2 DEF Loss, Gone
    <3> QED
      BY <3>1, <3>3 DEF Moves, OnceInv
  <2> QED
    BY <2>2, <2>3 DEF Services
<1>3. CASE Restart(s)
  BY <1>2, <1>3 DEF Restart
<1>4. CASE Disconnect(s)
  <2>1. CASE s = "customer"
    BY <1>2, <1>4, <2>1 DEF Disconnect
  <2>2. CASE s # "customer"
    <3>1. queue' = queue /\ lost' = lost
      BY <1>4, <2>2 DEF Disconnect, TypeOK
    <3> QED
      BY <1>1, <1>4, <3>1 DEF Disconnect
  <2> QED
    BY <2>1, <2>2
<1>5. CASE Subscribe(s)
  BY <1>1, <1>5 DEF Subscribe
<1> QED
  BY <1>3, <1>4, <1>5 DEF Hearing

LEMMA HandlersMove ==
    ASSUME TypeOK, OnceInv, CreateProfile \/ ProfileClashes \/ ProfileFails
    PROVE  Distinct(queue'["customer"]) /\ Moves
<1> DEFINE c == Received("customer")
<1>1. TakeFrom("customer") /\ UNCHANGED deleted
  BY DEF CreateProfile, ProfileClashes, ProfileFails, inputVars, historyVars
<1>2. queue["customer"] \in Seq(Calls) /\ queue["customer"] # << >>
      /\ queue'["customer"] = Tail(queue["customer"])
  BY <1>1 DEF TakeFrom, TypeOK, Services
<1>3. /\ Distinct(queue'["customer"])
      /\ SetOf(queue'["customer"]) = SetOf(queue["customer"]) \ {c}
  BY <1>2, DistinctTail DEF OnceInv, Received
<1>4. c \in Calls /\ c \in InQueue("customer")
  BY <1>1, Takes DEF Services
<1>5. InQueue("customer")' = InQueue("customer") \ {c}
  BY <1>3 DEF InQueue, SetOf
<1>6. c \notin profiles
  BY <1>4 DEF OnceInv
<1>7. ASSUME ~ Clashes(c), profiles' = profiles \cup {c}, UNCHANGED <<lost, clashed>>
      PROVE  Moves
  <2>1. Arrival(c)
    BY <1>1, <1>4, <1>5, <1>7 DEF Arrival, Gone
  <2> QED
    BY <1>4, <2>1 DEF Moves
<1>8. ASSUME UNCHANGED profiles,
             \/ lost' = lost \cup {c} /\ clashed' = clashed
             \/ clashed' = clashed \cup {c} /\ lost' = lost
      PROVE  Moves
  <2>1. Loss({c})
    BY <1>1, <1>4, <1>5, <1>6, <1>8 DEF Loss, Gone
  <2> QED
    BY <1>4, <2>1 DEF Moves
<1> QED
  BY <1>3, <1>7, <1>8 DEF CreateProfile, ProfileClashes, ProfileFails, historyVars

LEMMA HearsMoves ==
    ASSUME TypeOK, OnceInv, Hears
    PROVE  Distinct(queue'["customer"]) /\ Moves
<1>1. CASE HandleRider
  <2>1. TakeFrom("rider") /\ UNCHANGED <<profiles, lost, clashed, deleted>>
    BY <1>1 DEF HandleRider, inputVars, historyVars
  <2>2. InQueue("customer")' = InQueue("customer") /\ queue'["customer"] = queue["customer"]
    BY <2>1, Takes DEF Services, TakeFrom, TypeOK
  <2>3. Loss({})
    BY <2>1, <2>2 DEF Loss, Gone
  <2> QED
    BY <2>2, <2>3 DEF Moves, OnceInv
<1>2. ASSUME NEW c \in Calls, DeleteCustomer(c) PROVE Distinct(queue'["customer"]) /\ Moves
  <2>1. Loss({c})
    BY <1>2 DEF DeleteCustomer, Loss, Gone, InQueue, OnceInv, brokerVars
  <2> QED
    BY <1>2, <2>1 DEF Moves, OnceInv, DeleteCustomer, brokerVars
<1> QED
  BY <1>1, <1>2, BrokerMoves, HandlersMove DEF Hears

LEMMA HearsOnce == ASSUME TypeOK, OnceInv, Hears PROVE OnceInv'
<1>1. Kept /\ Distinct(queue'["customer"]) /\ Moves
  BY HearsKeeps, HearsMoves
<1>2. Announced = profiles \cup InQueue("customer") \cup Gone
  BY DEF Announced, Gone
<1>3. Announced' = profiles' \cup InQueue("customer")' \cup Gone'
  BY DEF Announced, Gone
<1>4. Customers' = Customers
  BY <1>1 DEF Kept, Customers
<1>5. \A c \in InQueue("rider")' : role'[c] = "rider"
  BY <1>1 DEF Kept, OnceInv
<1>6. ASSUME NEW c \in Calls, Arrival(c) PROVE OnceInv'
  BY <1>1, <1>2, <1>3, <1>4, <1>5, <1>6 DEF Arrival, OnceInv, Kept
<1>7. ASSUME NEW which \in SUBSET Calls, Loss(which) PROVE OnceInv'
  BY <1>1, <1>2, <1>3, <1>4, <1>5, <1>7 DEF Loss, OnceInv, Kept
<1> QED
  BY <1>1, <1>6, <1>7 DEF Moves

-----------------------------------------------------------------------------
\* AuthService's steps: only a customer's Dispatch concerns the copies.
LEMMA DispatchMoves ==
    ASSUME TypeOK, NEW c \in Calls, Dispatch(c)
    PROVE  /\ UNCHANGED <<profiles, clashed, deleted>>
           /\ IF role[c] = "customer"
              THEN /\ InQueue("rider")' = InQueue("rider")
                   /\ \/ /\ queue'["customer"] = Append(queue["customer"], c)
                         /\ InQueue("customer")' = InQueue("customer") \cup {c} /\ lost' = lost
                      \/ /\ queue'["customer"] = queue["customer"]
                         /\ InQueue("customer")' = InQueue("customer") /\ lost' = lost \cup {c}
              ELSE /\ role[c] = "rider" /\ queue'["customer"] = queue["customer"]
                   /\ InQueue("customer")' = InQueue("customer")
                   /\ InQueue("rider")' \subseteq InQueue("rider") \cup {c}
                   /\ lost' \subseteq lost \cup {c} /\ lost \subseteq lost'
<1>1. role[c] \in {"customer", "rider"} /\ UNCHANGED <<role, profiles, clashed, deleted>>
  BY DEF Dispatch, Services, inputVars
<1>2. CASE queue' = queue /\ lost' = lost \cup {c}
  BY <1>1, <1>2 DEF InQueue
<1>3. CASE queue' = [queue EXCEPT ![role[c]] = Append(@, c)] /\ lost' = lost
  <2>1. /\ queue'[role[c]] = Append(queue[role[c]], c) /\ queue[role[c]] \in Seq(Calls)
        /\ \A s \in Services : s # role[c] => queue'[s] = queue[s]
    BY <1>1, <1>3 DEF TypeOK, Services
  <2>2. SetOf(queue'[role[c]]) = SetOf(queue[role[c]]) \cup {c}
    BY <2>1, SetOfAppend
  <2>3. /\ InQueue(role[c])' = InQueue(role[c]) \cup {c}
        /\ \A s \in Services : s # role[c] => InQueue(s)' = InQueue(s)
    BY <1>1, <2>1, <2>2 DEF InQueue, SetOf
  <2> QED
    BY <1>1, <1>3, <2>1, <2>3 DEF Services
<1> QED
  BY <1>2, <1>3 DEF Dispatch

LEMMA OthersMoveNothing ==
    ASSUME NEW c \in Calls, Registers(c), ~ Dispatch(c)
    PROVE  UNCHANGED <<profiles, queue, lost, clashed, deleted>>
BY DEF Registers, Insert, RegisterRefused, CreateAdmin, DispatchFails, Commit,
   CommitFails, inputVars, brokerVars, historyVars

LEMMA RegistersOnce ==
    ASSUME TypeOK, OnceInv, NEW c \in Calls, Registers(c)
    PROVE  OnceInv'
<1>1. UNCHANGED role /\ Customers' = Customers
  BY RegistersQueues DEF Customers
<1>2. \A d \in Calls : pc'[d] \in {"idle", "dispatch"} =>
          /\ pc[d] \in {"idle", "dispatch"}
          /\ d = c => pc[c] = "idle"
  BY RegistersAccounts
<1>3. CASE Dispatch(c)
  <2>1. pc[c] = "dispatch" /\ \A d \in Calls : pc'[d] \in {"idle", "dispatch"} => d # c
    BY <1>2, <1>3 DEF Dispatch
  <2>2. CASE role[c] = "customer"
    <3>1. c \in Customers /\ c \notin Announced
      BY <2>1, <2>2 DEF OnceInv, Customers
    <3>2. c \notin InQueue("customer") /\ c \notin profiles /\ c \notin Gone
      BY <3>1 DEF Announced, Gone
    <3>3. Distinct(queue'["customer"])
      <4>1. queue["customer"] \in Seq(Calls) /\ c \notin SetOf(queue["customer"])
        BY <3>2 DEF TypeOK, Services, InQueue, SetOf
      <4>2. Distinct(Append(queue["customer"], c)) /\ Distinct(queue["customer"])
        BY <4>1, DistinctAppend DEF OnceInv
      <4> QED
        BY <1>3, <2>2, <4>2, DispatchMoves
    <3>4. UNCHANGED <<profiles, InQueue("rider")>>
          /\ \/ InQueue("customer")' = InQueue("customer") \cup {c} /\ Gone' = Gone
             \/ InQueue("customer")' = InQueue("customer") /\ Gone' = Gone \cup {c}
      BY <1>3, <2>2, DispatchMoves DEF Gone
    <3>5. \A d \in Calls : d # c /\ d \in Announced' => d \in Announced
      BY <3>4 DEF Announced, Gone
    <3>6. \A d \in Customers' : pc'[d] \in {"idle", "dispatch"} => d \notin Announced'
      BY <1>1, <1>2, <2>1, <3>5 DEF OnceInv, Customers
    <3>7. /\ profiles' \cup InQueue("customer")' \subseteq Customers'
          /\ profiles' \cap InQueue("customer")' = {}
          /\ (profiles' \cup InQueue("customer")') \cap Gone' = {}
      BY <1>1, <3>1, <3>2, <3>4 DEF OnceInv
    <3>8. \A d \in InQueue("rider")' : role'[d] = "rider"
      BY <1>1, <3>4 DEF OnceInv
    <3> QED
      BY <3>3, <3>6, <3>7, <3>8 DEF OnceInv
  <2>3. CASE role[c] # "customer"
    <3>1. /\ role[c] = "rider" /\ c \notin Customers
          /\ queue'["customer"] = queue["customer"]
          /\ UNCHANGED <<profiles, InQueue("customer")>>
          /\ InQueue("rider")' \subseteq InQueue("rider") \cup {c}
          /\ Gone' \subseteq Gone \cup {c}
      BY <1>3, <2>3, DispatchMoves DEF Gone, Customers
    <3>2. \A d \in Calls : d # c /\ d \in Announced' => d \in Announced
      BY <3>1 DEF Announced, Gone
    <3>3. \A d \in Customers' : pc'[d] \in {"idle", "dispatch"} => d \notin Announced'
      BY <1>1, <1>2, <3>1, <3>2 DEF OnceInv, Customers
    <3>4. \A d \in InQueue("rider")' : role'[d] = "rider"
      BY <1>1, <3>1 DEF OnceInv
    <3>5. (profiles' \cup InQueue("customer")') \cap Gone' = {}
      BY <3>1 DEF OnceInv
    <3> QED
      BY <1>1, <3>1, <3>3, <3>4, <3>5 DEF OnceInv
  <2> QED
    BY <2>2, <2>3
<1>4. CASE ~ Dispatch(c)
  <2>1. UNCHANGED <<profiles, queue, InQueue("customer"), InQueue("rider"), Gone, Announced>>
    BY <1>4, OthersMoveNothing DEF InQueue, Gone, Announced
  <2> QED
    BY <1>1, <1>2, <2>1 DEF OnceInv, Customers
<1> QED
  BY <1>3, <1>4

LEMMA OnceInductive == TypeOK /\ OnceInv /\ [Next]_vars => OnceInv'
<1> SUFFICES ASSUME TypeOK, OnceInv, [Next]_vars PROVE OnceInv'
  OBVIOUS
<1>1. CASE AuthCrash
  <2>1. /\ UNCHANGED <<role, profiles, queue, lost, clashed, deleted>>
        /\ \A c \in Calls : pc'[c] \in {"idle", "dispatch"} => pc[c] \in {"idle", "dispatch"}
    BY <1>1 DEF AuthCrash, Open, inputVars, brokerVars
  <2>2. UNCHANGED <<InQueue("customer"), InQueue("rider"), Gone, Announced, Customers>>
    BY <2>1 DEF InQueue, Gone, Announced, Customers
  <2> QED
    BY <2>1, <2>2 DEF OnceInv, Customers
<1>2. CASE UNCHANGED vars
  BY <1>2 DEF vars, inputVars, brokerVars, historyVars, OnceInv, InQueue, Gone, Announced, Customers
<1> QED
  BY <1>1, <1>2, StepKinds, RegistersOnce, HearsOnce

-----------------------------------------------------------------------------
\* The step of Replication behind each step.
copies == [c \in Calls |-> CopyOf(c)]

LEMMA CopyIs ==
    ASSUME OnceInv, NEW c \in Calls
    PROVE  CopyOf(c) = IF c \in profiles THEN "there"
                       ELSE IF c \in InQueue("customer") THEN "coming"
                       ELSE IF c \in Gone \cap Customers THEN "gone"
                       ELSE "none"
BY DEF OnceInv, CopyOf, Customers, Gone

LEMMA CopyIsNext ==
    ASSUME OnceInv', NEW c \in Calls
    PROVE  CopyOf(c)' = IF c \in profiles' THEN "there"
                        ELSE IF c \in InQueue("customer")' THEN "coming"
                        ELSE IF c \in Gone' \cap Customers' THEN "gone"
                        ELSE "none"
BY DEF OnceInv, CopyOf, Customers, Gone

LEMMA ArrivalArrives ==
    ASSUME TypeOK, OnceInv, OnceInv', UNCHANGED <<email, role, accounts>>,
           NEW c \in Calls, Arrival(c)
    PROVE  Promise!Arrive(c)
<1>1. Customers' = Customers
  BY DEF Customers
<1>2. copies[c] = "coming"
  BY CopyIs DEF copies, Arrival, OnceInv
<1>3. \A d \in Calls : copies[d] = "there" => email[d] # email[c]
  BY CopyIs DEF copies, Arrival, Clashes
<1>4. copies' = [copies EXCEPT ![c] = "there"]
  <2>1. \A d \in Calls : CopyOf(d)' = IF d = c THEN "there" ELSE CopyOf(d)
    BY <1>1, CopyIs, CopyIsNext DEF Arrival
  <2> QED
    BY <2>1 DEF copies
<1> QED
  BY <1>2, <1>3, <1>4 DEF Promise!Arrive, copies, Customers

LEMMA LossVanishes ==
    ASSUME TypeOK, OnceInv, OnceInv', UNCHANGED <<email, role, accounts>>,
           NEW which \in SUBSET Calls, Loss(which)
    PROVE  Promise!Vanish(which)
<1>1. Customers' = Customers
  BY DEF Customers
<1>2. \A a \in which : copies[a] \in {"coming", "there"}
  BY CopyIs DEF copies, Loss
<1>3. copies' = [a \in Calls |-> IF a \in which THEN "gone" ELSE copies[a]]
  <2>1. \A d \in Calls : CopyOf(d)' = IF d \in which THEN "gone" ELSE CopyOf(d)
    BY <1>1, CopyIs, CopyIsNext DEF Loss, OnceInv
  <2> QED
    BY <2>1 DEF copies
<1> QED
  BY <1>2, <1>3 DEF Promise!Vanish, copies, Customers

\* With the copies as they were, an account is kept or nothing happens.
LEMMA SameCopies ==
    ASSUME UNCHANGED <<role, profiles, InQueue("customer"), lost, clashed, deleted>>
    PROVE  copies' = copies
<1>1. \A c \in Calls : CopyOf(c)' = CopyOf(c)
  BY DEF CopyOf
<1> QED
  BY <1>1 DEF copies

\* AuthService announces a customer's account, and keeps an account.
LEMMA DispatchOrders ==
    ASSUME TypeOK, ClaimInv, OnceInv, OnceInv', NEW c \in Calls, Dispatch(c)
    PROVE  [Promise!Next]_(Promise!vars)
<1>1. pc[c] = "dispatch" /\ UNCHANGED <<email, role, accounts>>
  BY DEF Dispatch, inputVars
<1>2. UNCHANGED <<Customers, profiles, clashed, deleted>>
  BY <1>1, DispatchMoves DEF Customers
<1>3. CASE role[c] = "customer"
  <2>1. c \in Customers /\ c \notin accounts /\ c \notin Announced
    BY <1>1, <1>3 DEF Customers, ClaimInv, Open, OnceInv
  <2>2. c \notin profiles \cup InQueue("customer") \cup Gone
    BY <2>1 DEF Announced, Gone
  <2>3. copies[c] = "none"
    BY <2>2, CopyIs DEF copies
  <2>4. \/ InQueue("customer")' = InQueue("customer") \cup {c} /\ Gone' = Gone
        \/ InQueue("customer")' = InQueue("customer") /\ Gone' = Gone \cup {c}
    BY <1>3, DispatchMoves DEF Gone
  <2>5. \/ \A d \in Calls : CopyOf(d)' = IF d = c THEN "coming" ELSE CopyOf(d)
        \/ \A d \in Calls : CopyOf(d)' = IF d = c THEN "gone" ELSE CopyOf(d)
    BY <1>2, <2>1, <2>2, <2>4, CopyIs, CopyIsNext
  <2>6. \/ copies' = [copies EXCEPT ![c] = "coming"]
        \/ copies' = [copies EXCEPT ![c] = "gone"]
    BY <2>5 DEF copies
  <2>7. Promise!Order(c)
    BY <1>1, <1>2, <2>1, <2>3, <2>6 DEF Promise!Order, copies, Customers
  <2> QED
    BY <2>7 DEF Promise!Next
<1>4. CASE role[c] # "customer"
  <2>1. /\ c \notin Customers /\ InQueue("customer")' = InQueue("customer")
        /\ Gone' \cap Customers = Gone \cap Customers
    BY <1>4, DispatchMoves DEF Customers, Gone
  <2>2. \A d \in Calls : CopyOf(d)' = CopyOf(d)
    BY <1>2, <2>1, CopyIs, CopyIsNext
  <2>3. copies' = copies
    BY <2>2 DEF copies
  <2> QED
    BY <1>1, <1>2, <2>3 DEF Promise!vars, copies, Customers
<1> QED
  BY <1>3, <1>4

LEMMA RegistersKeeps ==
    ASSUME IInv, IInv', OnceInv, OnceInv', NEW c \in Calls, Registers(c)
    PROVE  [Promise!Next]_(Promise!vars)
<1>1. TypeOK /\ ClaimInv /\ ClaimInv' /\ TellInv'
  BY DEF IInv
<1>2. CASE ~ Dispatch(c)
  <2>1. /\ UNCHANGED <<email, role, profiles, queue, lost, clashed, deleted>>
        /\ UNCHANGED <<InQueue("customer"), Customers>>
    BY <1>1, <1>2, OthersMoveNothing, RegistersQueues DEF InQueue, Customers
  <2>2. copies' = copies
    BY <2>1, SameCopies
  <2>3. CASE accounts' = accounts
    BY <2>1, <2>2, <2>3 DEF Promise!vars, copies, Customers
  <2>4. CASE accounts' # accounts
    <3>1. /\ pc[c] = "idle" \/ Open(c)
          /\ accounts' = accounts \cup {c}
      BY <1>1, <2>4, RegistersAccounts DEF Open
    <3>2. c \notin accounts
      BY <1>1, <3>1 DEF ClaimInv
    <3>3. \A b \in accounts : email[b] # email[c]
      <4> SUFFICES ASSUME NEW b \in accounts, email[b] = email[c] PROVE FALSE
        OBVIOUS
      <4>1. b \in Calls /\ Claims(b)' /\ Claims(c)' /\ b # c
        BY <1>1, <3>1, <3>2 DEF TypeOK, Claims
      <4> QED
        BY <1>1, <2>1, <4>1 DEF ClaimInv
    <3>4. c \in Customers => copies[c] # "none"
      <4> SUFFICES ASSUME c \in Customers PROVE copies[c] # "none"
        OBVIOUS
      <4>1. c \in Announced'
        BY <1>1, <2>1, <3>1 DEF TellInv, Customers
      <4>2. c \in profiles \cup InQueue("customer") \cup (Gone \cap Customers)
        BY <2>1, <4>1 DEF Announced, Gone
      <4> QED
        BY <4>2, CopyIs DEF copies
    <3>5. Promise!Keep(c)
      BY <2>1, <2>2, <3>1, <3>2, <3>3, <3>4 DEF Promise!Keep, copies, Customers
    <3> QED
      BY <3>5 DEF Promise!Next
  <2> QED
    BY <2>3, <2>4
<1> QED
  BY <1>1, <1>2, DispatchOrders

LEMMA StepKeeps ==
    ASSUME IInv, IInv', OnceInv, OnceInv', [Next]_vars
    PROVE  [Promise!Next]_(Promise!vars)
<1>1. CASE AuthCrash \/ UNCHANGED vars
  <2>1. UNCHANGED <<email, role, accounts, profiles, queue, lost, clashed, deleted>>
    BY <1>1 DEF AuthCrash, vars, inputVars, brokerVars, historyVars
  <2>2. UNCHANGED <<InQueue("customer"), Customers>>
    BY <2>1 DEF InQueue, Customers
  <2>3. copies' = copies
    BY <2>1, <2>2, SameCopies
  <2> QED
    BY <2>1, <2>2, <2>3 DEF Promise!vars, copies, Customers
<1>2. CASE Hears
  <2>1. Moves /\ TypeOK /\ UNCHANGED <<email, role, accounts>>
    BY <1>2, HearsKeeps, HearsMoves DEF IInv, Kept
  <2>2. ASSUME NEW c \in Calls, Arrival(c) PROVE Promise!Next
    BY <2>1, <2>2, ArrivalArrives DEF Promise!Next
  <2>3. ASSUME NEW which \in SUBSET Calls, Loss(which) PROVE Promise!Next
    BY <2>1, <2>3, LossVanishes DEF Promise!Next
  <2> QED
    BY <2>1, <2>2, <2>3 DEF Moves
<1> QED
  BY <1>1, <1>2, StepKinds, RegistersKeeps

(***************************************************************************)
(* The registration of AuthService and CustomerService keeps every promise *)
(* of Replication, whatever breaks: an account is committed only once its  *)
(* announcement has left (auth.go:105), it is for good, a profile is made  *)
(* once of its announcement, and none that was deleted or lost returns.    *)
(***************************************************************************)
THEOREM Replicates == Spec => ImplementsReplication
<1>1. Init => OnceInv
  BY DEF Init, OnceInv, Distinct, InQueue, Services, Announced, Gone, Customers
<1>2. IInv /\ OnceInv /\ [Next]_vars => IInv' /\ OnceInv'
  BY Inductive, OnceInductive DEF IInv
<1>3. Init => Promise!Init
  <2> SUFFICES ASSUME Init PROVE Promise!Init
    OBVIOUS
  <2>1. \A c \in Calls : CopyOf(c) = "none"
    BY DEF Init, CopyOf, InQueue, Services
  <2> QED
    BY <2>1 DEF Init, Promise!Init
<1>4. IInv /\ OnceInv /\ [Next]_vars => [Promise!Next]_(Promise!vars)
  BY <1>2, StepKeeps
<1> QED
  BY InitIInv, <1>1, <1>2, <1>3, <1>4, PTL DEF Spec, ImplementsReplication, Promise!Spec
-----------------------------------------------------------------------------
\* What was told of a customer is in one place: deleted, it is nowhere else
\* (DeleteCustomer, HandleCustomerCreation).
THEOREM DeletedStayDeleted == Spec => []DeletedStaysDeleted
<1>1. Init => OnceInv
  BY DEF Init, OnceInv, Distinct, InQueue, Services, Announced, Gone, Customers
<1>2. IInv /\ OnceInv /\ [Next]_vars => OnceInv'
  BY OnceInductive DEF IInv
<1>3. OnceInv => DeletedStaysDeleted
  BY DEF OnceInv, Gone, DeletedStaysDeleted
<1> QED
  BY <1>1, <1>2, <1>3, Invariance, PTL DEF Spec

(***************************************************************************)
(* Where neither a commit fails nor a process dies, whatever the broker    *)
(* loses, no registration breaks: a profile without an account is one      *)
(* whose account is about to be committed, and an email is one person's.   *)
(***************************************************************************)
SourceOfTruth ==
    /\ \A c \in profiles \cup InQueue("customer") \cup InQueue("rider") :
          c \in accounts \/ pc[c] = "commit"
    /\ \A a \in accounts, p \in profiles : email[a] = email[p] => a = p

LEMMA NothingBreaks ==
    ASSUME {"store", "restart"} \cap Faults = {}, broken = {}, [Next]_vars
    PROVE  broken' = {}
<1>1. "store" \notin Faults /\ "restart" \notin Faults
  OBVIOUS
<1>2. ASSUME NEW c \in Calls, CallStep(c) PROVE broken' = broken
  BY <1>1, <1>2
  DEF CallStep, Insert, RegisterRefused, CreateAdmin, Dispatch, DispatchFails, Commit,
      CommitFails, DeleteCustomer, historyVars
<1>3. ASSUME NEW s \in Services, ServiceStep(s) PROVE broken' = broken
  BY <1>3 DEF ServiceStep, Subscribe, Disconnect, Restart, historyVars
<1>4. HandleCustomer \/ ProfileFails \/ HandleRider => broken' = broken
  BY DEF HandleCustomer, CreateProfile, ProfileClashes, ProfileFails, HandleRider, historyVars
<1>5. ~ AuthCrash
  BY <1>1 DEF AuthCrash
<1> QED
  BY <1>2, <1>3, <1>4, <1>5 DEF Next, vars, historyVars

\* Auth is the source of truth as long as it neither fails nor dies between
\* its announcement and its commit; the broker's failures do no harm to that.
THEOREM AuthIsTheSource ==
    ASSUME {"store", "restart"} \cap Faults = {}
    PROVE  Spec => []SourceOfTruth
<1>1. Init => broken = {}
  BY DEF Init
<1>2. broken = {} /\ [Next]_vars => (broken = {})'
  BY NothingBreaks
<1>3. OrphansHaveAReason /\ EmailIsOnePersons /\ broken = {} => SourceOfTruth
  BY DEF OrphansHaveAReason, EmailIsOnePersons, SourceOfTruth
<1> QED
  BY <1>1, <1>2, <1>3, OrphansExplained, EmailsAreOnePersons, PTL DEF Spec

-----------------------------------------------------------------------------
(***************************************************************************)
(* Towards the handling of every announcement (QueuedIsHandled).  Fairness *)
(* needs ENABLED; that whatever happens the announcement is handled, lost, *)
(* or still not farther back, does not.                                    *)
(***************************************************************************)
At(c, i) == i \in 1..Len(queue["customer"]) /\ queue["customer"][i] = c

MovesUp(c, i) ==
    At(c, i) =>
        \/ c \notin InQueue("customer")'
        \/ At(c, i)' /\ ~ HandleCustomer
        \/ i > 1 /\ At(c, i - 1)'

LEMMA TailMovesUp ==
    ASSUME TypeOK, OnceInv, NEW c \in Calls, NEW i \in Nat, At(c, i), TakeFrom("customer")
    PROVE  c \notin InQueue("customer")' \/ (i > 1 /\ At(c, i - 1)')
<1> DEFINE q == queue["customer"]
<1>1. /\ q \in Seq(Calls) /\ q # << >> /\ Distinct(q) /\ queue'["customer"] = Tail(q)
      /\ i \in 1..Len(q) /\ q[i] = c
  BY DEF TypeOK, OnceInv, TakeFrom, At, Services
<1>2. /\ Len(Tail(q)) = Len(q) - 1 /\ Len(q) \in Nat \ {0} /\ Head(q) = q[1]
      /\ \A j \in 1..Len(Tail(q)) : Tail(q)[j] = q[j + 1]
  BY <1>1, HeadTailProperties
<1>3. CASE i = 1
  <2>1. SetOf(Tail(q)) = SetOf(q) \ {c}
    BY <1>1, <1>2, <1>3, DistinctTail
  <2> QED
    BY <1>1, <2>1 DEF InQueue, SetOf
<1>4. CASE i > 1
  <2>1. i - 1 \in 1..Len(Tail(q)) /\ Tail(q)[i - 1] = c
    <3>1. i - 1 \in 1..Len(Tail(q)) /\ (i - 1) + 1 = i
      BY <1>1, <1>2, <1>4
    <3> QED
      BY <1>1, <1>2, <3>1
  <2> QED
    BY <1>1, <1>4, <2>1 DEF At
<1> QED
  BY <1>1, <1>3, <1>4

\* Who does not take from the queue leaves it, adds to its end or empties it.
LEMMA OthersKeepPlaces ==
    ASSUME TypeOK, [Next]_vars, ~ TakeFrom("customer")
    PROVE  \/ queue'["customer"] = queue["customer"]
           \/ \E d \in Calls : queue'["customer"] = Append(queue["customer"], d)
           \/ queue'["customer"] = << >>
<1>1. ASSUME NEW d \in Calls, Dispatch(d)
      PROVE  \/ queue'["customer"] = queue["customer"]
             \/ queue'["customer"] = Append(queue["customer"], d)
  BY <1>1 DEF Dispatch, TypeOK, Services
<1>2. ASSUME NEW d \in Calls, CallStep(d), ~ Dispatch(d) PROVE queue' = queue
  BY <1>2
  DEF CallStep, Insert, RegisterRefused, CreateAdmin, DispatchFails, Commit, CommitFails,
      DeleteCustomer, brokerVars
<1>3. ASSUME NEW s \in Services, ServiceStep(s)
      PROVE  queue'["customer"] \in {queue["customer"], << >>}
  BY <1>3 DEF ServiceStep, Subscribe, Disconnect, Restart, TypeOK, Services
<1>4. HandleRider => queue'["customer"] = queue["customer"]
  BY DEF HandleRider, TakeFrom, TypeOK, Services
<1>5. ~ HandleCustomer /\ ~ ProfileFails
  BY DEF HandleCustomer, CreateProfile, ProfileClashes, ProfileFails
<1>6. AuthCrash \/ UNCHANGED vars => queue' = queue
  BY DEF AuthCrash, vars, brokerVars
<1> QED
  BY <1>1, <1>2, <1>3, <1>4, <1>5, <1>6 DEF Next

\* The queue of the customer service is first in, first out: each message
\* that is handled brings those behind it forward, and nothing sends one back.
THEOREM QueueMovesUp == Spec => [][\A c \in Calls, i \in Nat : MovesUp(c, i)]_vars
<1>1. ASSUME TypeOK, OnceInv, [Next]_vars, NEW c \in Calls, NEW i \in Nat, At(c, i)
      PROVE  MovesUp(c, i)
  <2>1. CASE TakeFrom("customer")
    BY <1>1, <2>1, TailMovesUp DEF MovesUp
  <2>2. CASE ~ TakeFrom("customer")
    <3>1. ~ HandleCustomer
      BY <2>2 DEF HandleCustomer, CreateProfile, ProfileClashes
    <3>2. CASE queue'["customer"] = << >>
      BY <3>2 DEF MovesUp, InQueue
    <3>3. CASE queue'["customer"] = queue["customer"]
      BY <1>1, <3>1, <3>3 DEF MovesUp, At
    <3>4. ASSUME NEW d \in Calls, queue'["customer"] = Append(queue["customer"], d)
          PROVE  At(c, i)'
      <4>1. queue["customer"] \in Seq(Calls)
        BY <1>1 DEF TypeOK, Services
      <4> QED
        BY <1>1, <3>4, <4>1 DEF At
    <3> QED
      BY <1>1, <2>2, <3>1, <3>2, <3>3, <3>4, OthersKeepPlaces DEF MovesUp
  <2> QED
    BY <2>1, <2>2
<1>2. TypeOK /\ OnceInv /\ [Next]_vars => [\A c \in Calls, i \in Nat : MovesUp(c, i)]_vars
  BY <1>1 DEF MovesUp
<1>3. Init => OnceInv
  BY DEF Init, OnceInv, Distinct, InQueue, Services, Announced, Gone, Customers
<1>4. IInv /\ OnceInv /\ [Next]_vars => OnceInv'
  BY OnceInductive DEF IInv
<1>5. IInv => TypeOK
  BY DEF IInv
<1> QED
  BY <1>2, <1>3, <1>4, <1>5, Invariance, PTL DEF Spec
=============================================================================
