-------------------------- MODULE DeliveryRpcProofs --------------------------
(***************************************************************************)
(* Proofs about module DeliveryRpc, for any number of calls and locations, *)
(* any capacity of the channel and any number of attempts to dial.         *)
(*                                                                         *)
(* A location is on exactly one side of the channel.  While a caller waits *)
(* and the server streams, what it has got and what is in the channel make *)
(* up all that was sent; and the stream ends only when the task is over    *)
(* and the channel empty.  StreamInv says so; EndsInv ties the two ends of *)
(* a call together, which is what CallContract is about.                   *)
(***************************************************************************)
EXTENDS DeliveryRpc, TLAPS

\* The dialing loops stop in time.
DialInv == phase = "dialing" => tries < Tries

\* What the two ends of a call and its handler can be, seen together.
Ends(c) ==
    /\ client[c] = "idle" => server[c] = "none"
    /\ server[c] \in {"none", "arrived", "answer_unimplemented"} => handler[c] = "not_run"
    /\ server[c] \in Awaiting \cup {"streaming"} => handler[c] = "begun"
    /\ server[c] \in {"ask_customer", "ask_merchant"} => method[c] = "GetDeliveryFee"
    /\ server[c] = "answer_ok" => handler[c] = "complete"
    /\ client[c] = "ok" => server[c] = "gone" /\ handler[c] = "complete"
    /\ client[c] = "refused" => server[c] = "gone" /\ handler[c] = "not_run"

\* What has become of the locations sent for a call.
Stream(c) ==
    /\ server[c] \in {"none", "arrived"} =>
          task[c] = "none" /\ sent[c] = 0 /\ buffer[c] = 0 /\ got[c] = 0
    /\ task[c] \in {"sleeping", "sending"} => sent[c] < Points
    /\ server[c] = "streaming" =>
          /\ got[c] + buffer[c] <= sent[c]
          /\ client[c] = "waiting" => got[c] + buffer[c] = sent[c]
          /\ task[c] = "over" => sent[c] = Points
          /\ task[c] # "none"
    /\ server[c] = "answer_ok" /\ client[c] = "waiting" /\ method[c] = "TrackingRider" =>
          got[c] = Points
    /\ client[c] = "ok" /\ method[c] = "TrackingRider" => got[c] = Points

EndsInv == \A c \in Calls : Ends(c)
StreamInv == \A c \in Calls : Stream(c)
IInv == TypeOK /\ DialInv /\ EndsInv /\ StreamInv

-----------------------------------------------------------------------------
LEMMA TwoUpstreams == Len(Upstreams) = 2
BY DEF Upstreams

LEMMA InitIInv == Init => IInv
<1> SUFFICES ASSUME Init PROVE IInv
  OBVIOUS
<1>1. up \subseteq {"CustomerService", "MerchantService"}
  BY DEF Init, Upstreams
<1>2. TypeOK /\ DialInv
  BY <1>1, CountsAssumption, TwoUpstreams DEF Init, TypeOK, DialInv, ClientStates, TaskStates
<1>3. EndsInv /\ StreamInv
  BY CountsAssumption
  DEF Init, EndsInv, Ends, StreamInv, Stream, Awaiting
<1> QED
  BY <1>2, <1>3 DEF IInv

\* What a step does for the process and for all calls at once.
ProcessStep == Start \/ Dial \/ (\E u \in {"CustomerService", "MerchantService"} : UpstreamFlips(u))
CallStep(c) == CallerStep(c) \/ RouterStep(c) \/ UnaryStep(c) \/ TaskStep(c) \/ StreamStep(c)

LEMMA StepKinds ==
    [Next]_vars => ProcessStep \/ Crash \/ (\E c \in Calls : CallStep(c)) \/ UNCHANGED vars
BY DEF Next, ProcessStep, CallStep

LEMMA ProcessKeeps ==
    ASSUME IInv, ProcessStep
    PROVE  IInv'
<1> USE CountsAssumption, TwoUpstreams DEF IInv, TypeOK, DialInv
<1>1. CASE Start
  BY <1>1 DEF Start, streamVars, EndsInv, Ends, StreamInv, Stream
<1>2. CASE DialReaches
  BY <1>2 DEF DialReaches, streamVars, EndsInv, Ends, StreamInv, Stream
<1>3. CASE DialFails
  BY <1>3 DEF DialFails, streamVars, EndsInv, Ends, StreamInv, Stream
<1>4. ASSUME NEW u \in {"CustomerService", "MerchantService"}, UpstreamFlips(u) PROVE IInv'
  BY <1>4 DEF UpstreamFlips, processVars, streamVars, EndsInv, Ends, StreamInv, Stream
<1> QED
  BY <1>1, <1>2, <1>3, <1>4 DEF ProcessStep, Dial

LEMMA CrashKeeps ==
    ASSUME IInv, Crash
    PROVE  IInv'
<1>1. TypeOK' /\ DialInv'
  BY CountsAssumption DEF Crash, IInv, TypeOK, DialInv, TaskStates
<1>2. ASSUME NEW c \in Calls PROVE Ends(c)' /\ Stream(c)'
  <2>1. /\ server'[c] = IF server[c] \in Live THEN "gone" ELSE server[c]
        /\ task'[c] = IF task[c] = "none" THEN "none" ELSE "over"
        /\ buffer'[c] = 0
        /\ UNCHANGED <<client, method, sent, got, handler>>
    BY DEF Crash
  <2>2. Ends(c) /\ Stream(c) /\ server[c] \in {"none", "gone"} \cup Live
    BY DEF IInv, EndsInv, StreamInv, TypeOK
  <2> QED
    BY <2>1, <2>2 DEF Ends, Stream, Live, Awaiting, Answers
<1> QED
  BY <1>1, <1>2 DEF IInv, EndsInv, StreamInv

-----------------------------------------------------------------------------
\* One call's step: the types it keeps ...
LEMMA CallTypes ==
    ASSUME IInv, NEW c \in Calls, CallStep(c)
    PROVE  TypeOK' /\ DialInv'
<1> USE DEF IInv, TypeOK, DialInv, processVars, streamVars
<1>1. CASE CallerStep(c)
  <2>1. CASE Call(c)
    BY <2>1 DEF Call, ClientStates, Live
  <2>2. CASE HangUp(c)
    BY <2>2 DEF HangUp, ClientStates
  <2>3. CASE Reset(c)
    BY <2>3, CountsAssumption DEF Reset
  <2>4. CASE Reply(c)
    BY <2>4 DEF Reply, ClientStates
  <2> QED
    BY <1>1, <2>1, <2>2, <2>3, <2>4 DEF CallerStep
<1>2. CASE RouterStep(c)
  BY <1>2 DEF RouterStep, DispatchUnary, DispatchStreaming, DispatchUnknown,
              Live, Awaiting, Answers, TaskStates
<1>3. CASE UnaryStep(c)
  BY <1>3 DEF UnaryStep, Report, AskCustomer, CustomerAnswers, MerchantAnswers, AskFails,
              Live, Awaiting, Answers
<1>4. CASE TaskStep(c)
  <2>1. CASE Wake(c) \/ PushFails(c)
    BY <2>1 DEF Wake, PushFails, TaskStates
  <2>2. CASE Push(c)
    <3>1. sent[c] + 1 \in 0..Points /\ buffer[c] + 1 \in 0..Capacity
      BY <2>2, CountsAssumption DEF Push, StreamInv, Stream
    <3> QED
      BY <2>2, <3>1 DEF Push, TaskStates
  <2> QED
    BY <1>4, <2>1, <2>2 DEF TaskStep
<1>5. CASE StreamStep(c)
  <2>1. CASE Pull(c)
    <3>1. buffer[c] - 1 \in 0..Capacity /\ got[c] + 1 \in 0..Points
      BY <2>1, CountsAssumption DEF Pull, StreamInv, Stream
    <3> QED
      BY <2>1, <3>1 DEF Pull
  <2>2. CASE EndStream(c)
    BY <2>2 DEF EndStream, Live, Answers
  <2> QED
    BY <1>5, <2>1, <2>2 DEF StreamStep
<1> QED
  BY <1>1, <1>2, <1>3, <1>4, <1>5 DEF CallStep

\* ... and what holds of its two ends and its locations.
LEMMA CallKeeps ==
    ASSUME IInv, NEW c \in Calls, CallStep(c)
    PROVE  Ends(c)' /\ Stream(c)'
<1>1. TypeOK /\ Ends(c) /\ Stream(c)
  BY DEF IInv, EndsInv, StreamInv
<1> USE <1>1, CountsAssumption DEF TypeOK, Ends, Stream, processVars, streamVars
<1>2. CASE CallerStep(c)
  <2>1. CASE Call(c)
    BY <2>1 DEF Call, Awaiting
  <2>2. CASE HangUp(c)
    BY <2>2 DEF HangUp, Awaiting
  <2>3. CASE Reset(c)
    BY <2>3 DEF Reset, Live, Awaiting, Answers
  <2>4. CASE Reply(c)
    BY <2>4 DEF Reply, Awaiting, Answers
  <2> QED
    BY <1>2, <2>1, <2>2, <2>3, <2>4 DEF CallerStep
<1>3. CASE RouterStep(c)
  BY <1>3 DEF RouterStep, DispatchUnary, DispatchStreaming, DispatchUnknown, Awaiting
<1>4. CASE UnaryStep(c)
  BY <1>4 DEF UnaryStep, Report, AskCustomer, CustomerAnswers, MerchantAnswers, AskFails,
              Awaiting
<1>5. CASE TaskStep(c)
  <2>1. CASE Wake(c) \/ PushFails(c)
    BY <2>1 DEF Wake, PushFails, Awaiting
  <2>2. CASE Push(c)
    BY <2>2 DEF Push, Awaiting
  <2> QED
    BY <1>5, <2>1, <2>2 DEF TaskStep
<1>6. CASE StreamStep(c)
  <2>1. CASE Pull(c)
    <3>1. /\ server[c] = "streaming" /\ buffer'[c] = buffer[c] - 1
          /\ got'[c] = IF client[c] = "waiting" THEN got[c] + 1 ELSE got[c]
          /\ UNCHANGED <<method, client, server, task, sent, handler>>
      BY <2>1 DEF Pull
    <3> QED
      BY <3>1 DEF Awaiting
  <2>2. CASE EndStream(c)
    BY <2>2 DEF EndStream, Awaiting
  <2> QED
    BY <1>6, <2>1, <2>2 DEF StreamStep
<1> QED
  BY <1>2, <1>3, <1>4, <1>5, <1>6 DEF CallStep

\* The other calls do not notice.
LEMMA OthersKeep ==
    ASSUME IInv, NEW c \in Calls, CallStep(c), NEW d \in Calls, d # c
    PROVE  UNCHANGED <<method[d], client[d], server[d], task[d], sent[d], buffer[d],
                       got[d], handler[d]>>
BY DEF IInv, TypeOK, CallStep, CallerStep, RouterStep, UnaryStep, TaskStep, StreamStep,
       Call, HangUp, Reset, Reply, DispatchUnary, DispatchStreaming, DispatchUnknown,
       Report, AskCustomer, CustomerAnswers, MerchantAnswers, AskFails, Wake, Push,
       PushFails, Pull, EndStream, processVars, streamVars

LEMMA Inductive == IInv /\ [Next]_vars => IInv'
<1> SUFFICES ASSUME IInv, [Next]_vars PROVE IInv'
  OBVIOUS
<1>1. ASSUME NEW c \in Calls, CallStep(c) PROVE IInv'
  <2>1. TypeOK' /\ DialInv'
    BY <1>1, CallTypes
  <2>2. ASSUME NEW d \in Calls PROVE Ends(d)' /\ Stream(d)'
    <3>1. CASE d = c
      BY <1>1, <3>1, CallKeeps
    <3>2. CASE d # c
      <4>1. Ends(d) /\ Stream(d)
        BY DEF IInv, EndsInv, StreamInv
      <4> QED
        BY <1>1, <3>2, <4>1, OthersKeep DEF Ends, Stream
    <3> QED
      BY <3>1, <3>2
  <2> QED
    BY <2>1, <2>2 DEF IInv, EndsInv, StreamInv
<1>2. CASE UNCHANGED vars
  BY <1>2 DEF vars, processVars, streamVars, IInv, TypeOK, DialInv, EndsInv, Ends,
              StreamInv, Stream
<1> QED
  BY <1>1, <1>2, StepKinds, ProcessKeeps, CrashKeeps

LEMMA Invariance == Spec => []IInv
BY InitIInv, Inductive, PTL DEF Spec

\* The process, both ends of every call and the channel keep their types.
THEOREM TypeCorrect == Spec => []TypeOK
BY Invariance, PTL DEF IInv

(***************************************************************************)
(* tracking_rider: whoever is told that the stream has ended well has all  *)
(* its locations, for every capacity and number of locations.              *)
(***************************************************************************)
THEOREM StreamsAreComplete == Spec => []CompleteStream
<1>1. IInv => CompleteStream
  BY DEF IInv, StreamInv, Stream, CompleteStream
<1> QED
  BY Invariance, <1>1, PTL

-----------------------------------------------------------------------------
Known == [c \in Calls |-> KnownTo(c)]

LEMMA InitContract == Init => Contract!Init
BY DEF Init, Contract!Init, KnownTo

\* Steps that neither the caller nor the handler takes.
LEMMA Stutter ==
    ASSUME UNCHANGED <<client, handler>>
    PROVE  UNCHANGED Contract!vars
BY DEF Contract!vars, KnownTo

\* The caller learns something, and the handler does not move.
LEMMA LearnImplements ==
    ASSUME TypeOK, NEW c \in Calls, NEW what \in {"ok", "failed", "refused"},
           client[c] = "waiting", client' = [client EXCEPT ![c] = what], UNCHANGED handler
    PROVE  Contract!Learn(c, what)
<1>1. Known' = [Known EXCEPT ![c] = what]
  BY DEF TypeOK, Known, KnownTo
<1>2. Known[c] = "nothing"
  BY DEF Known, KnownTo
<1> QED
  BY <1>1, <1>2 DEF Contract!Learn, Known

LEMMA CallImplements ==
    ASSUME IInv, NEW c \in Calls, CallStep(c)
    PROVE  [Contract!Next]_(Contract!vars)
<1>1. TypeOK /\ Ends(c)
  BY DEF IInv, EndsInv
<1>2. ASSUME UNCHANGED client, handler[c] = "not_run", client[c] # "refused",
             handler' = [handler EXCEPT ![c] = "begun"]
      PROVE  Contract!Next
  BY <1>2 DEF Contract!Next, Contract!Begin, KnownTo
<1>3. ASSUME UNCHANGED client, handler[c] = "begun",
             handler' = [handler EXCEPT ![c] = "complete"]
      PROVE  Contract!Next
  BY <1>3 DEF Contract!Next, Contract!Complete, KnownTo
<1>4. CASE Call(c)
  <2>1. Known' = Known /\ handler' = handler
    BY <1>1, <1>4 DEF Call, streamVars, Known, KnownTo, TypeOK
  <2> QED
    BY <2>1 DEF Known, Contract!vars
<1>5. CASE HangUp(c)
  <2>1. Contract!Learn(c, "failed")
    BY <1>1, <1>5, LearnImplements DEF HangUp
  <2> QED
    BY <2>1 DEF Contract!Next, Contract!Fail
<1>6. CASE Reply(c)
  <2>1. server[c] \in Answers /\ client[c] = "waiting" /\ UNCHANGED handler
    BY <1>6 DEF Reply
  <2>2. CASE server[c] = "answer_ok"
    <3>1. Contract!Learn(c, "ok") /\ handler[c] = "complete"
      BY <1>1, <1>6, <2>1, <2>2, LearnImplements DEF Reply, Ends
    <3> QED
      BY <3>1 DEF Contract!Next, Contract!Succeed
  <2>3. CASE server[c] = "answer_error"
    <3>1. Contract!Learn(c, "failed")
      BY <1>1, <1>6, <2>1, <2>3, LearnImplements DEF Reply
    <3> QED
      BY <3>1 DEF Contract!Next, Contract!Fail
  <2>4. CASE server[c] = "answer_unimplemented"
    <3>1. Contract!Learn(c, "refused") /\ handler[c] = "not_run"
      BY <1>1, <1>6, <2>1, <2>4, LearnImplements DEF Reply, Ends
    <3> QED
      BY <3>1 DEF Contract!Next, Contract!Refuse
  <2> QED
    BY <2>1, <2>2, <2>3, <2>4 DEF Answers
<1>7. CASE DispatchUnary(c) \/ DispatchStreaming(c)
  BY <1>1, <1>2, <1>7 DEF DispatchUnary, DispatchStreaming, Ends
<1>8. CASE MerchantAnswers(c) \/ EndStream(c)
  BY <1>1, <1>3, <1>8 DEF MerchantAnswers, EndStream, Ends, Awaiting
<1>9. CASE Reset(c) \/ DispatchUnknown(c) \/ Report(c) \/ AskCustomer(c)
           \/ CustomerAnswers(c) \/ AskFails(c) \/ TaskStep(c) \/ Pull(c)
  BY <1>9, Stutter DEF Reset, DispatchUnknown, Report, AskCustomer, CustomerAnswers,
     AskFails, TaskStep, Wake, Push, PushFails, Pull
<1> QED
  BY <1>4, <1>5, <1>6, <1>7, <1>8, <1>9
  DEF CallStep, CallerStep, RouterStep, UnaryStep, StreamStep

LEMMA StepImplements == IInv /\ [Next]_vars => [Contract!Next]_(Contract!vars)
<1> SUFFICES ASSUME IInv, [Next]_vars PROVE [Contract!Next]_(Contract!vars)
  OBVIOUS
<1>1. CASE ProcessStep \/ Crash \/ UNCHANGED vars
  BY <1>1, Stutter DEF ProcessStep, Start, Dial, DialReaches, DialFails, UpstreamFlips,
     Crash, vars
<1> QED
  BY <1>1, StepKinds, CallImplements

(***************************************************************************)
(* The router and the handlers keep the contract of a call, through        *)
(* crashes, broken connections and callers that give up: at most one run   *)
(* of the handler, "ok" only after its end, UNIMPLEMENTED only without it. *)
(***************************************************************************)
THEOREM KeepsContract == Spec => ImplementsContract
BY InitContract, StepImplements, Invariance, PTL
DEF Spec, ImplementsContract, Contract!Spec
-----------------------------------------------------------------------------
(***************************************************************************)
(* Answers are true: "ok" follows the end of the handler, and after        *)
(* UNIMPLEMENTED it has not run, so that a caller may try elsewhere.       *)
(***************************************************************************)
THEOREM AnswersAreTrue ==
    Spec => [](\A c \in Calls : /\ client[c] = "ok" => handler[c] = "complete"
                                /\ client[c] = "refused" => handler[c] = "not_run")
<1>1. IInv => \A c \in Calls : /\ client[c] = "ok" => handler[c] = "complete"
                               /\ client[c] = "refused" => handler[c] = "not_run"
  BY DEF IInv, EndsInv, Ends
<1> QED
  BY <1>1, Invariance, PTL

\* Only the router starts a handler, and only one that it has an arm for.
Unrouted == \A c \in Calls : method[c] \notin Routes => handler[c] = "not_run"

LEMMA StaysUnrouted == IInv /\ Unrouted /\ [Next]_vars => Unrouted'
<1> SUFFICES ASSUME IInv, Unrouted, [Next]_vars PROVE Unrouted'
  OBVIOUS
<1>1. ASSUME UNCHANGED <<method, handler>> PROVE Unrouted'
  BY <1>1 DEF Unrouted
<1>2. Start \/ Dial \/ Crash \/ UNCHANGED vars => UNCHANGED <<method, handler>>
  BY DEF Start, Dial, DialReaches, DialFails, Crash, vars
<1>3. ASSUME NEW c \in Calls,
             CallerStep(c) \/ RouterStep(c) \/ UnaryStep(c) \/ TaskStep(c) \/ StreamStep(c)
      PROVE  Unrouted'
  <2>1. CASE DispatchUnary(c) \/ DispatchStreaming(c)
    <3>1. method[c] \in Routes /\ UNCHANGED method
          /\ handler' = [handler EXCEPT ![c] = "begun"]
      BY <2>1 DEF DispatchUnary, DispatchStreaming
    <3> QED
      BY <3>1 DEF Unrouted, IInv, TypeOK
  <2>2. CASE MerchantAnswers(c) \/ EndStream(c)
    <3>1. handler[c] = "begun"
      BY <2>2 DEF MerchantAnswers, EndStream, IInv, EndsInv, Ends, Awaiting
    <3>2. method[c] \in Routes
      BY <3>1 DEF Unrouted
    <3>3. UNCHANGED method /\ handler' = [handler EXCEPT ![c] = "complete"]
      BY <2>2 DEF MerchantAnswers, EndStream
    <3> QED
      BY <3>2, <3>3 DEF Unrouted, IInv, TypeOK
  <2>3. CASE UNCHANGED <<method, handler>>
    BY <1>1, <2>3
  <2> QED
    BY <1>3, <2>1, <2>2, <2>3
    DEF CallerStep, Call, HangUp, Reset, Reply, RouterStep, DispatchUnknown, UnaryStep,
        Report, AskCustomer, CustomerAnswers, AskFails, TaskStep, Wake, Push, PushFails,
        StreamStep, Pull
<1>4. (\E u \in {"CustomerService", "MerchantService"} : UpstreamFlips(u))
      => UNCHANGED <<method, handler>>
  BY DEF UpstreamFlips
<1> QED
  BY <1>1, <1>2, <1>3, <1>4 DEF Next

\* get_delivery_estimate: the generated client has it, MyDelivery does not, so
\* that no caller is ever answered and no handler begins.
THEOREM UnroutedIsNeverServed ==
    Spec => [](\A c \in Calls :
                 method[c] \notin Routes => handler[c] = "not_run" /\ client[c] # "ok")
<1>1. Init => Unrouted
  BY DEF Init, Unrouted
<1>2. IInv /\ Unrouted =>
        \A c \in Calls : method[c] \notin Routes => handler[c] = "not_run" /\ client[c] # "ok"
  BY DEF Unrouted, IInv, EndsInv, Ends
<1> QED
  BY <1>1, <1>2, StaysUnrouted, Invariance, PTL DEF Spec
-----------------------------------------------------------------------------
(***************************************************************************)
(* Towards the end of a tracking task (TrackersEnd) and of the dialing     *)
(* (StartupSettles).  Fairness needs ENABLED; what is left to do, and that *)
(* nothing ever adds to it, does not.  Work counts the locations still to  *)
(* be sent and those in the channel, each with the steps it takes.         *)
(***************************************************************************)
Left(c) == IF task[c] = "sleeping" THEN 2 * (Points - sent[c])
           ELSE IF task[c] = "sending" THEN 2 * (Points - sent[c]) - 1
           ELSE 0
Work(c) == 2 * Left(c) + buffer[c] + IF server[c] = "streaming" THEN 1 ELSE 0

TrackerMovesOn(c) ==
    task[c] # "none" =>
        /\ Work(c)' <= Work(c)
        /\ TaskStep(c) \/ StreamStep(c) => Work(c)' < Work(c)

\* Every number that Work is made of.
LEMMA WorkNumbers ==
    ASSUME IInv, NEW c \in Calls
    PROVE  /\ Points \in Nat /\ sent[c] \in 0..Points /\ buffer[c] \in Nat
           /\ task[c] \in {"sleeping", "sending"} => sent[c] < Points
           /\ Left(c) \in Nat /\ Work(c) \in Nat
<1>1. /\ Points \in Nat /\ sent[c] \in 0..Points /\ buffer[c] \in Nat
      /\ task[c] \in {"sleeping", "sending"} => sent[c] < Points
  BY CountsAssumption DEF IInv, TypeOK, StreamInv, Stream
<1> QED
  BY <1>1 DEF Left, Work

LEMMA OwnWork ==
    ASSUME IInv, NEW c \in Calls, TaskStep(c) \/ StreamStep(c)
    PROVE  Work(c)' < Work(c)
<1>0. /\ Points \in Nat /\ sent[c] \in 0..Points /\ buffer[c] \in Nat
      /\ task[c] \in {"sleeping", "sending"} => sent[c] < Points
      /\ Left(c) \in Nat
  BY WorkNumbers
<1>1. CASE Wake(c)
  <2>1. /\ task[c] = "sleeping" /\ task'[c] = "sending"
        /\ UNCHANGED <<sent[c], buffer[c], server[c]>>
    BY <1>1 DEF Wake, IInv, TypeOK
  <2>2. Left(c)' = Left(c) - 1
    BY <1>0, <2>1 DEF Left
  <2> QED
    BY <1>0, <2>1, <2>2 DEF Work
<1>2. CASE Push(c)
  <2>1. /\ task[c] = "sending" /\ UNCHANGED server[c]
        /\ sent'[c] = sent[c] + 1 /\ buffer'[c] = buffer[c] + 1
        /\ task'[c] = IF sent[c] + 1 = Points THEN "over" ELSE "sleeping"
    BY <1>2 DEF Push, IInv, TypeOK
  <2>2. Left(c)' = Left(c) - 1
    BY <1>0, <2>1 DEF Left
  <2> QED
    BY <1>0, <2>1, <2>2 DEF Work
<1>3. CASE PushFails(c)
  <2>1. /\ task[c] = "sending" /\ task'[c] = "over"
        /\ UNCHANGED <<buffer[c], server[c]>>
    BY <1>3 DEF PushFails, IInv, TypeOK
  <2>2. Left(c)' = 0 /\ Left(c) > 0
    BY <1>0, <2>1 DEF Left
  <2> QED
    BY <1>0, <2>1, <2>2 DEF Work
<1>4. CASE Pull(c)
  <2>1. buffer'[c] = buffer[c] - 1 /\ UNCHANGED <<task[c], sent[c], server[c]>>
    BY <1>4 DEF Pull, IInv, TypeOK
  <2>2. Left(c)' = Left(c)
    BY <2>1 DEF Left
  <2> QED
    BY <1>0, <2>1, <2>2 DEF Work
<1>5. CASE EndStream(c)
  <2>1. /\ server[c] = "streaming" /\ server'[c] = "answer_ok"
        /\ UNCHANGED <<task[c], sent[c], buffer[c]>>
    BY <1>5 DEF EndStream, streamVars, IInv, TypeOK
  <2>2. Left(c)' = Left(c)
    BY <2>1 DEF Left
  <2> QED
    BY <1>0, <2>1, <2>2 DEF Work
<1> QED
  BY <1>1, <1>2, <1>3, <1>4, <1>5 DEF TaskStep, StreamStep

\* Once the task is there, nobody else's step gives it more to do.
LEMMA NobodyAddsWork ==
    ASSUME IInv, NEW c \in Calls, task[c] # "none", [Next]_vars,
           ~ (TaskStep(c) \/ StreamStep(c))
    PROVE  Work(c)' <= Work(c)
<1>1. ASSUME UNCHANGED <<task[c], sent[c]>>, buffer'[c] \in {0, buffer[c]},
             server'[c] = "streaming" => server[c] = "streaming"
      PROVE  Work(c)' <= Work(c)
  <2>1. Left(c)' = Left(c)
    BY <1>1 DEF Left
  <2> QED
    BY <1>1, <2>1, WorkNumbers DEF Work
<1>2. CASE Crash
  <2>1. task'[c] = "over" /\ buffer'[c] = 0
        /\ (server'[c] = "streaming" => server[c] = "streaming")
    BY <1>2 DEF Crash
  <2> QED
    BY <2>1, WorkNumbers DEF Left, Work
<1>3. CASE ProcessStep \/ UNCHANGED vars
  BY <1>1, <1>3
  DEF ProcessStep, Start, Dial, DialReaches, DialFails, UpstreamFlips, vars, streamVars
<1>4. ASSUME NEW d \in Calls, d # c, CallStep(d) PROVE Work(c)' <= Work(c)
  BY <1>1, <1>4, OthersKeep
<1>5. CASE CallStep(c)
  <2>1. server[c] \notin {"none", "arrived"}
    BY DEF IInv, StreamInv, Stream
  <2>2. CallerStep(c) \/ UnaryStep(c)
    BY <1>5, <2>1 DEF CallStep, RouterStep, DispatchUnary, DispatchStreaming, DispatchUnknown
  <2>3. client[c] # "idle"
    BY <2>1 DEF IInv, EndsInv, Ends
  <2> QED
    BY <1>1, <2>2, <2>3
    DEF IInv, TypeOK, CallerStep, Call, HangUp, Reset, Reply, UnaryStep, Report,
        AskCustomer, CustomerAnswers, MerchantAnswers, AskFails, streamVars
<1> QED
  BY <1>2, <1>3, <1>4, <1>5, StepKinds

\* A tracking task and its stream take a bounded number of steps, whoever
\* reads, hangs up or dies meanwhile (tracking_rider).
THEOREM TrackersMoveOn == Spec => [][\A c \in Calls : TrackerMovesOn(c)]_vars
<1>1. ASSUME IInv, IInv', [Next]_vars, NEW c \in Calls PROVE TrackerMovesOn(c)
  <2>1. Work(c) \in Nat /\ Work(c)' \in Nat
    <3>1. Work(c) \in Nat
      BY <1>1, WorkNumbers
    <3>2. Left(c)' \in Nat /\ buffer'[c] \in Nat
      BY <1>1, CountsAssumption DEF IInv, TypeOK, Left, StreamInv, Stream
    <3> QED
      BY <3>1, <3>2 DEF Work
  <2>2. CASE TaskStep(c) \/ StreamStep(c)
    BY <1>1, <2>1, <2>2, OwnWork DEF TrackerMovesOn
  <2>3. CASE ~ (TaskStep(c) \/ StreamStep(c))
    BY <1>1, <2>3, NobodyAddsWork DEF TrackerMovesOn
  <2> QED
    BY <2>2, <2>3
<1>2. IInv /\ IInv' /\ [Next]_vars => [\A c \in Calls : TrackerMovesOn(c)]_vars
  BY <1>1
<1> QED
  BY <1>2, Invariance, PTL DEF Spec

\* How often main may still turn a dialing loop.
Turns == IF dialed = 0 THEN 2 * Tries - tries ELSE Tries - tries

DialingMovesOn ==
    phase = "dialing" /\ phase' = "dialing" =>
        Turns' <= Turns /\ (Dial => Turns' < Turns)

\* main dials each upstream service a bounded number of times, whatever
\* becomes of them meanwhile.
THEOREM DialingIsBounded == Spec => [][DialingMovesOn]_vars
<1>1. ASSUME IInv, phase = "dialing", phase' = "dialing"
      PROVE  /\ DialReaches \/ DialFails =>
                   Turns \in Nat /\ Turns' \in Nat /\ Turns' < Turns
             /\ UNCHANGED <<dialed, tries>> => Turns' <= Turns
  <2>1. /\ Tries \in Nat /\ tries \in Nat /\ tries < Tries
        /\ dialed \in {0, 1}
    BY <1>1, CountsAssumption, TwoUpstreams DEF IInv, TypeOK, DialInv
  <2> QED
    BY <1>1, <2>1, TwoUpstreams DEF DialReaches, DialFails, Turns
<1>2. ASSUME [Next]_vars, phase = "dialing", phase' = "dialing", ~ Dial
      PROVE  UNCHANGED <<dialed, tries>>
  <2>1. ~ Start /\ ~ Crash
    BY <1>2 DEF Start, Crash
  <2>2. ASSUME NEW c \in Calls, CallStep(c) PROVE UNCHANGED <<dialed, tries>>
    BY <2>2
    DEF CallStep, CallerStep, RouterStep, UnaryStep, TaskStep, StreamStep, Call, HangUp,
        Reset, Reply, DispatchUnary, DispatchStreaming, DispatchUnknown, Report,
        AskCustomer, CustomerAnswers, MerchantAnswers, AskFails, Wake, Push, PushFails,
        Pull, EndStream, processVars
  <2> QED
    BY <1>2, <2>1, <2>2, StepKinds DEF ProcessStep, UpstreamFlips, vars, processVars
<1>3. IInv /\ [Next]_vars => [DialingMovesOn]_vars
  <2> SUFFICES ASSUME IInv, [Next]_vars, phase = "dialing", phase' = "dialing"
               PROVE  Turns' <= Turns /\ (Dial => Turns' < Turns)
    BY DEF DialingMovesOn
  <2>1. CASE Dial
    <3>1. Turns \in Nat /\ Turns' \in Nat /\ Turns' < Turns
      BY <1>1, <2>1 DEF Dial
    <3> QED
      BY <3>1
  <2>2. CASE ~ Dial
    BY <1>1, <1>2, <2>2
  <2> QED
    BY <2>1, <2>2
<1> QED
  BY <1>3, Invariance, PTL DEF Spec
=============================================================================
