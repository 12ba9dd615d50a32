------------------------ MODULE OrderPlacementProofs ------------------------
(***************************************************************************)
(* Proofs about module OrderPlacement, for any sets of calls, requests and *)
(* codes and any combination of faults.                                    *)
(*                                                                         *)
(* Neither OneOrderPerRequest nor AnnouncedIsStored is inductive: that an  *)
(* order is inserted once, and deleted only while nobody was told of it,   *)
(* follows from where its call stands.  PlaceInv adds that.                *)
(***************************************************************************)
EXTENDS OrderPlacement, FiniteSetTheorems, TLAPS

BeforeInsert == {"idle", "lookup", "redeem", "create"}
AfterInsert == {"get", "publish", "cleanup", "ok"}

\* What the program counter of a call says about its order.
PlaceInv ==
    /\ \A c \in orders : pc[c] \notin BeforeInsert
    /\ \A c \in Calls : pc[c] \in AfterInsert => c \in orders
    /\ \A c \in events : pc[c] = "ok"

IInv == TypeOK /\ OneOrderPerRequest /\ AnnouncedIsStored /\ PlaceInv

-----------------------------------------------------------------------------
(***************************************************************************)
(* Types.  The coupon service's part is one lemma for its three own steps  *)
(* and one for the redemption that a call makes.                           *)
(***************************************************************************)
LEMMA InitType == Init => TypeOK
  BY CouponAssumption DEF Init, TypeOK, Labels, CouponService!Init, CouponService!TypeOK

LEMMA RedeemCouponType ==
  ASSUME NEW k, CouponService!TypeOK, CouponService!RedeemCoupon(k)
  PROVE  CouponService!TypeOK'
<1>1. CASE CouponService!Matches(k) /\ CouponService!Decrement(k)
  BY <1>1 DEF CouponService!TypeOK, CouponService!Matches, CouponService!Decrement
<1>2. CASE UNCHANGED CouponService!vars
  BY <1>2 DEF CouponService!TypeOK, CouponService!vars
<1> QED
  BY <1>1, <1>2 DEF CouponService!RedeemCoupon

LEMMA CouponStepType ==
  ASSUME TypeOK, CouponStep
  PROVE  TypeOK'
<1>1. CouponService!TypeOK
  BY DEF TypeOK
<1>2. ASSUME NEW k \in Codes, NEW n \in 1..MaxStock, NEW hours \in Hours,
             CouponService!AddCoupon(k, n, hours)
      PROVE  CouponService!TypeOK'
  <2>1. n \in Nat /\ hours \in Int
    BY CouponAssumption
  <2> QED
    BY <1>1, <1>2, <2>1 DEF CouponService!TypeOK, CouponService!AddCoupon, CouponService!Max2
<1>3. ASSUME CouponService!CleanUpCoupons PROVE CouponService!TypeOK'
  BY <1>1, <1>3
  DEF CouponService!TypeOK, CouponService!CleanUpCoupons, CouponService!CleanUpFilter
<1>4. ASSUME CouponService!Tick PROVE CouponService!TypeOK'
  BY <1>1, <1>4 DEF CouponService!TypeOK, CouponService!Tick
<1>5. CouponService!TypeOK'
  BY <1>2, <1>3, <1>4 DEF CouponStep
<1> QED
  BY <1>5 DEF TypeOK, CouponStep, inputVars, faultVars

\* A step of one call keeps the types.
LEMMA CallStepType ==
  ASSUME TypeOK, NEW c \in Calls, PrepareStep(c) \/ StoreStep(c) \/ Cancel(c)
  PROVE  TypeOK'
<1>1. ASSUME UNCHANGED couponVars PROVE CouponService!TypeOK'
  BY <1>1 DEF TypeOK, couponVars, CouponService!TypeOK
<1>2. CASE Validate(c) \/ LookUp(c)
  BY <1>1, <1>2
  DEF TypeOK, Validate, LookUp, Goto, Labels, Running, Done, inputVars, faultVars
<1>3. CASE Redeem(c) \/ RedeemFails(c)
  <2>1. CASE TakeCoupon(c)
    <3>1. CouponService!TypeOK'
      BY <2>1, RedeemCouponType DEF TypeOK, TakeCoupon
    <3> QED
      BY <1>3, <2>1, <3>1
      DEF TypeOK, Redeem, RedeemFails, TakeCoupon, Goto, Labels, Running, Done,
          inputVars, faultVars
  <2>2. CASE UNCHANGED <<redeemed, couponVars>> /\ RedeemFails(c)
    BY <1>1, <2>2
    DEF TypeOK, RedeemFails, Goto, Labels, Running, Done, inputVars, faultVars
  <2> QED
    BY <1>3, <2>1, <2>2 DEF Redeem, RedeemFails
<1>4. CASE Create(c) \/ CreateRefused(c) \/ CreateCutOff(c)
  BY <1>1, <1>4
  DEF TypeOK, Create, CreateRefused, CreateCutOff, StoreFails, ContextEnds, Goto,
      Labels, Running, Done, inputVars, faultVars
<1>5. CASE GetOrder(c) \/ GetFails(c)
  BY <1>1, <1>5
  DEF TypeOK, GetOrder, GetFails, StoreFails, Goto, Labels, Running, Done,
      inputVars, faultVars
<1>6. CASE Publish(c) \/ PublishLost(c) \/ PublishFails(c)
  BY <1>1, <1>6
  DEF TypeOK, Publish, PublishLost, PublishFails, Goto, Labels, Running, Done,
      inputVars, faultVars
<1>7. CASE DeleteOrder(c) \/ DeleteFails(c)
  BY <1>1, <1>7
  DEF TypeOK, DeleteOrder, DeleteFails, StoreFails, ContextEnds, Goto,
      Labels, Running, Done, inputVars, faultVars
<1>8. CASE Cancel(c)
  BY <1>1, <1>8 DEF TypeOK, Cancel, inputVars
<1> QED
  BY <1>2, <1>3, <1>4, <1>5, <1>6, <1>7, <1>8 DEF PrepareStep, StoreStep

LEMMA NextType == TypeOK /\ [Next]_vars => TypeOK'
<1> SUFFICES ASSUME TypeOK, [Next]_vars
             PROVE  TypeOK'
  OBVIOUS
<1>1. CASE \E c \in Calls : PrepareStep(c) \/ StoreStep(c) \/ Cancel(c)
  BY <1>1, CallStepType
<1>2. CASE Crash
  BY <1>2
  DEF TypeOK, Crash, Labels, Done, Running, inputVars, faultVars, couponVars,
      CouponService!TypeOK
<1>3. CASE CouponStep
  BY <1>3, CouponStepType
<1>4. CASE UNCHANGED vars
  BY <1>4 DEF TypeOK, vars, inputVars, faultVars, couponVars, CouponService!TypeOK
<1> QED
  BY <1>1, <1>2, <1>3, <1>4 DEF Next

\* Types of the composed system, quantities of coupons included.
THEOREM TypeCorrect == Spec => []TypeOK
  BY InitType, NextType, PTL DEF Spec
-----------------------------------------------------------------------------
(***************************************************************************)
(* One order per request, and announced orders are stored.                 *)
(***************************************************************************)
LEMMA InitPlace == Init => IInv
<1> SUFFICES ASSUME Init PROVE IInv
  OBVIOUS
<1>1. TypeOK
  BY InitType
<1>2. OneOrderPerRequest /\ AnnouncedIsStored /\ PlaceInv
  BY DEF Init, OneOrderPerRequest, AnnouncedIsStored, PlaceInv, AfterInsert
<1> QED
  BY <1>1, <1>2 DEF IInv

\* Before the insert nothing is stored for the call, and nothing is touched.
LEMMA PrepareStepPlace ==
  ASSUME IInv, NEW c \in Calls, PrepareStep(c)
  PROVE  OneOrderPerRequest' /\ AnnouncedIsStored' /\ PlaceInv'
<1>1. /\ pc[c] \in {"idle", "lookup", "redeem"}
      /\ \E l \in {"lookup", "redeem", "create", "failed"} : pc' = [pc EXCEPT ![c] = l]
      /\ UNCHANGED <<request, orders, events>>
  BY DEF PrepareStep, Validate, LookUp, Redeem, RedeemFails, Goto, inputVars
<1>2. c \notin orders /\ c \notin events
  BY <1>1 DEF IInv, PlaceInv, AnnouncedIsStored, BeforeInsert
<1> QED
  BY <1>1, <1>2
  DEF IInv, TypeOK, OneOrderPerRequest, AnnouncedIsStored, PlaceInv, BeforeInsert, AfterInsert

\* The insert is the only step that adds an order, and the index guards it.
LEMMA CreatePlace ==
  ASSUME IInv, NEW c \in Calls, Create(c) \/ CreateRefused(c) \/ CreateCutOff(c)
  PROVE  OneOrderPerRequest' /\ AnnouncedIsStored' /\ PlaceInv'
<1>1. /\ pc[c] = "create"
      /\ UNCHANGED <<request, events>>
  BY DEF Create, CreateRefused, CreateCutOff, inputVars
<1>2. c \notin orders /\ c \notin events
  BY <1>1 DEF IInv, PlaceInv, AnnouncedIsStored, BeforeInsert
<1>3. CASE ~Taken(request[c]) /\ orders' = orders \cup {c}
           /\ \E l \in {"get", "failed"} : pc' = [pc EXCEPT ![c] = l]
  BY <1>1, <1>2, <1>3
  DEF IInv, TypeOK, OneOrderPerRequest, AnnouncedIsStored, PlaceInv,
      BeforeInsert, AfterInsert, Taken
<1>4. CASE orders' = orders /\ pc' = [pc EXCEPT ![c] = "failed"]
  BY <1>1, <1>2, <1>4
  DEF IInv, TypeOK, OneOrderPerRequest, AnnouncedIsStored, PlaceInv,
      BeforeInsert, AfterInsert
<1> QED
  BY <1>3, <1>4 DEF Create, CreateRefused, CreateCutOff, Goto

\* Reading the order back and publishing it find it stored.
LEMMA PublishPlace ==
  ASSUME IInv, NEW c \in Calls,
         GetOrder(c) \/ GetFails(c) \/ Publish(c) \/ PublishLost(c) \/ PublishFails(c)
  PROVE  OneOrderPerRequest' /\ AnnouncedIsStored' /\ PlaceInv'
<1>1. /\ pc[c] \in {"get", "publish"}
      /\ \E l \in {"publish", "cleanup", "ok"} :
           /\ pc' = [pc EXCEPT ![c] = l]
           /\ events' = events \/ (events' = events \cup {c} /\ l = "ok")
      /\ UNCHANGED <<request, orders>>
  BY DEF GetOrder, GetFails, Publish, PublishLost, PublishFails, Goto, inputVars
<1>2. c \in orders /\ c \notin events
  BY <1>1 DEF IInv, PlaceInv, AfterInsert
<1>3. PICK l \in {"publish", "cleanup", "ok"} :
        /\ pc' = [pc EXCEPT ![c] = l]
        /\ events' = events \/ (events' = events \cup {c} /\ l = "ok")
  BY <1>1
<1>4. OneOrderPerRequest'
  BY <1>1 DEF IInv, OneOrderPerRequest
<1>5. AnnouncedIsStored'
  BY <1>1, <1>2, <1>3 DEF IInv, AnnouncedIsStored
<1>6. PlaceInv'
  BY <1>1, <1>2, <1>3 DEF IInv, TypeOK, PlaceInv, BeforeInsert, AfterInsert
<1> QED
  BY <1>4, <1>5, <1>6

\* What the deferred delete removes was not announced.
LEMMA DeletePlace ==
  ASSUME IInv, NEW c \in Calls, DeleteOrder(c) \/ DeleteFails(c)
  PROVE  OneOrderPerRequest' /\ AnnouncedIsStored' /\ PlaceInv'
<1>1. /\ pc[c] = "cleanup"
      /\ pc' = [pc EXCEPT ![c] = "failed"]
      /\ orders' = orders \/ orders' = orders \ {c}
      /\ UNCHANGED <<request, events>>
  BY DEF DeleteOrder, DeleteFails, Goto, inputVars
<1>2. c \notin events
  BY <1>1 DEF IInv, PlaceInv
<1> QED
  BY <1>1, <1>2
  DEF IInv, TypeOK, OneOrderPerRequest, AnnouncedIsStored, PlaceInv, BeforeInsert, AfterInsert

LEMMA CrashPlace ==
  ASSUME IInv, Crash
  PROVE  OneOrderPerRequest' /\ AnnouncedIsStored' /\ PlaceInv'
  BY DEF Crash, IInv, TypeOK, OneOrderPerRequest, AnnouncedIsStored, PlaceInv,
         BeforeInsert, AfterInsert, Running, inputVars

LEMMA NextPlace == IInv /\ [Next]_vars => IInv'
<1> SUFFICES ASSUME IInv, [Next]_vars
             PROVE  IInv'
  OBVIOUS
<1>1. TypeOK'
  BY NextType DEF IInv
<1>2. ASSUME NEW c \in Calls, PrepareStep(c) \/ StoreStep(c)
      PROVE  OneOrderPerRequest' /\ AnnouncedIsStored' /\ PlaceInv'
  BY <1>2, PrepareStepPlace, CreatePlace, PublishPlace, DeletePlace DEF StoreStep
<1>3. ASSUME UNCHANGED <<request, pc, orders, events>>
      PROVE  OneOrderPerRequest' /\ AnnouncedIsStored' /\ PlaceInv'
  BY <1>3 DEF IInv, OneOrderPerRequest, AnnouncedIsStored, PlaceInv
<1>4. ASSUME NEW c \in Calls, Cancel(c)
      PROVE  UNCHANGED <<request, pc, orders, events>>
  BY <1>4 DEF Cancel, inputVars
<1>5. CouponStep \/ UNCHANGED vars => UNCHANGED <<request, pc, orders, events>>
  BY DEF CouponStep, vars, inputVars
<1>6. OneOrderPerRequest' /\ AnnouncedIsStored' /\ PlaceInv'
  BY <1>2, <1>3, <1>4, <1>5, CrashPlace DEF Next
<1> QED
  BY <1>1, <1>6 DEF IInv

THEOREM Invariance == Spec => []IInv
  BY InitPlace, NextPlace, PTL DEF Spec

\* The unique index on requestId keeps one order per request, with retries,
\* concurrent duplicates and every fault.
THEOREM OrdersAreUnique == Spec => []OneOrderPerRequest
<1>1. IInv => OneOrderPerRequest
  BY DEF IInv
<1> QED
  BY <1>1, Invariance, PTL

\* No order whose order.placed.event left is ever missing.
THEOREM AnnouncedOrdersStay == Spec => []AnnouncedIsStored
<1>1. IInv => AnnouncedIsStored
  BY DEF IInv
<1> QED
  BY <1>1, Invariance, PTL
-----------------------------------------------------------------------------
(***************************************************************************)
(* The books of the two services.  A call takes its coupon in one step,    *)
(* after which it is past "redeem": no call is counted twice.              *)
(***************************************************************************)
BooksInv ==
    /\ IsFiniteSet(redeemed)
    /\ \A c \in redeemed : pc[c] \notin {"idle", "lookup", "redeem"}
    /\ \A c \in Calls : pc[c] = "redeem" => coupon[c] \in Codes
    /\ BooksBalance

LEMMA InitBooks == Init => BooksInv
<1> SUFFICES ASSUME Init PROVE BooksInv
  OBVIOUS
<1>1. \A k \in Codes : Takers(k) = {}
  BY DEF Init, Takers
<1> QED
  BY <1>1, FS_EmptySet DEF Init, BooksInv, BooksBalance, CouponService!Init

\* Takers is a finite set whose size is a number.
LEMMA TakersFinite ==
  ASSUME IsFiniteSet(redeemed), NEW k
  PROVE  IsFiniteSet(Takers(k)) /\ Cardinality(Takers(k)) \in Nat
<1>1. Takers(k) \subseteq redeemed
  BY DEF Takers
<1> QED
  BY <1>1, FS_Subset, FS_CardinalityType

\* A redemption moves one coupon from the document to the call.
LEMMA TakeCouponBooks ==
  ASSUME TypeOK, BooksInv, NEW c \in Calls, pc[c] = "redeem", TakeCoupon(c),
         UNCHANGED coupon
  PROVE  IsFiniteSet(redeemed)' /\ BooksBalance'
<1> DEFINE j == coupon[c]
<1>1. c \notin redeemed /\ j \in Codes
  BY DEF BooksInv
<1>2. CASE CouponService!Matches(j)
  <2>1. redeemed' = redeemed \cup {c}
    BY <1>2 DEF TakeCoupon
  <2>2. /\ quantity' = [quantity EXCEPT ![j] = @ - 1]
        /\ UNCHANGED added
    BY <1>2 DEF TakeCoupon, CouponService!RedeemCoupon, CouponService!Decrement
  <2>3. IsFiniteSet(redeemed')
    BY <2>1, FS_AddElement DEF BooksInv
  <2>4. ASSUME NEW k \in Codes
        PROVE  added'[k] = quantity'[k] + Cardinality(Takers(k)')
    <3>1. /\ IsFiniteSet(Takers(k)) /\ Cardinality(Takers(k)) \in Nat
          /\ c \notin Takers(k)
      BY <1>1, TakersFinite DEF BooksInv, Takers
    <3>2. added[k] = quantity[k] + Cardinality(Takers(k)) /\ quantity[k] \in Nat
      BY DEF BooksInv, BooksBalance, TypeOK, CouponService!TypeOK
    <3>3. CASE k = j
      <4>1. Takers(k)' = Takers(k) \cup {c}
        BY <2>1, <3>3 DEF Takers
      <4>2. Cardinality(Takers(k)') = Cardinality(Takers(k)) + 1
        BY <3>1, <4>1, FS_AddElement
      <4>3. quantity'[k] = quantity[k] - 1
        BY <2>2, <3>3 DEF TypeOK, CouponService!TypeOK
      <4> QED
        BY <2>2, <3>1, <3>2, <4>2, <4>3
    <3>4. CASE k # j
      <4>1. Takers(k)' = Takers(k)
        BY <2>1, <3>4 DEF Takers
      <4>2. quantity'[k] = quantity[k]
        BY <2>2, <3>4 DEF TypeOK, CouponService!TypeOK
      <4> QED
        BY <2>2, <3>2, <4>1, <4>2
    <3> QED
      BY <3>3, <3>4
  <2> QED
    BY <2>3, <2>4 DEF BooksBalance
<1>3. CASE ~CouponService!Matches(j)
  <2>1. UNCHANGED <<redeemed, quantity, added>>
    BY <1>3 DEF TakeCoupon, CouponService!RedeemCoupon, CouponService!vars
  <2> QED
    BY <2>1 DEF BooksInv, BooksBalance, Takers
<1> QED
  BY <1>2, <1>3

\* The coupon service's own steps keep its side of the account.
LEMMA CouponStepBooks ==
  ASSUME TypeOK, BooksBalance, IsFiniteSet(redeemed), CouponStep
  PROVE  BooksBalance'
<1>1. UNCHANGED <<redeemed, coupon>>
  BY DEF CouponStep, inputVars
<1>2. \A k \in Codes : /\ Takers(k)' = Takers(k) /\ Cardinality(Takers(k)) \in Nat
                       /\ quantity[k] \in Nat /\ added[k] \in Nat
  BY <1>1, TakersFinite DEF Takers, TypeOK, CouponService!TypeOK
<1>3. \A k \in Codes : added'[k] - quantity'[k] = added[k] - quantity[k] /\ quantity'[k] \in Nat
  <2>1. ASSUME NEW j \in Codes, NEW n \in 1..MaxStock, NEW hours \in Hours,
               CouponService!AddCoupon(j, n, hours)
        PROVE  \A k \in Codes : added'[k] - quantity'[k] = added[k] - quantity[k]
                                /\ quantity'[k] \in Nat
    <3>1. n \in Nat
      BY CouponAssumption
    <3> QED
      BY <2>1, <3>1 DEF TypeOK, CouponService!TypeOK, CouponService!AddCoupon
  <2>2. CASE CouponService!CleanUpCoupons
    <3>1. \A k \in CouponService!CleanUpFilter : quantity[k] = 0
      BY DEF TypeOK, CouponService!TypeOK, CouponService!CleanUpFilter
    <3> QED
      BY <2>2, <3>1 DEF TypeOK, CouponService!TypeOK, CouponService!CleanUpCoupons
  <2>3. CASE CouponService!Tick
    BY <2>3 DEF TypeOK, CouponService!TypeOK, CouponService!Tick
  <2> QED
    BY <2>1, <2>2, <2>3 DEF CouponStep
<1>4. \A k \in Codes : added'[k] \in Nat
  BY CouponStepType DEF TypeOK, CouponService!TypeOK
<1>5. ASSUME NEW k \in Codes
      PROVE  added'[k] = quantity'[k] + Cardinality(Takers(k)')
  BY <1>2, <1>3, <1>4 DEF BooksBalance
<1> QED
  BY <1>5 DEF BooksBalance

LEMMA NextBooks == TypeOK /\ BooksInv /\ [Next]_vars => BooksInv'
<1> SUFFICES ASSUME TypeOK, BooksInv, [Next]_vars
             PROVE  BooksInv'
  OBVIOUS
<1>1. ASSUME UNCHANGED <<redeemed, coupon, quantity, added>>
      PROVE  IsFiniteSet(redeemed)' /\ BooksBalance'
  BY <1>1 DEF BooksInv, BooksBalance, Takers
<1>2. ASSUME NEW c \in Calls, PrepareStep(c)
      PROVE  BooksInv'
  <2>1. CASE Validate(c) \/ LookUp(c)
    <3>1. UNCHANGED <<redeemed, coupon, quantity, added>>
      BY <2>1 DEF Validate, LookUp, inputVars, couponVars
    <3> QED
      BY <1>1, <2>1, <3>1
      DEF BooksInv, TypeOK, Validate, LookUp, Goto, inputVars
  <2>2. CASE Redeem(c) \/ RedeemFails(c)
    <3>1. /\ pc[c] = "redeem"
          /\ UNCHANGED coupon
          /\ \E l \in {"create", "failed"} : pc' = [pc EXCEPT ![c] = l]
          /\ redeemed' \subseteq redeemed \cup {c}
      BY <2>2 DEF Redeem, RedeemFails, TakeCoupon, Goto, inputVars
    <3>2. IsFiniteSet(redeemed)' /\ BooksBalance'
      BY <1>1, <2>2, <3>1, TakeCouponBooks DEF Redeem, RedeemFails, couponVars
    <3> QED
      BY <3>1, <3>2 DEF BooksInv, TypeOK
  <2> QED
    BY <1>2, <2>1, <2>2 DEF PrepareStep
<1>3. ASSUME NEW c \in Calls, StoreStep(c)
      PROVE  BooksInv'
  <2>1. /\ pc[c] \in {"create", "get", "publish", "cleanup"}
        /\ UNCHANGED <<redeemed, coupon, quantity, added>>
        /\ \E l \in {"get", "publish", "cleanup", "ok", "failed"} :
              pc' = [pc EXCEPT ![c] = l]
    BY <1>3 DEF StoreStep, Create, CreateRefused, CreateCutOff, GetOrder, GetFails, Publish,
                PublishLost, PublishFails, DeleteOrder, DeleteFails, Goto, inputVars, couponVars
  <2> QED
    BY <1>1, <2>1 DEF BooksInv, TypeOK
<1>4. CASE \E c \in Calls : Cancel(c)
  BY <1>1, <1>4 DEF BooksInv, Cancel, inputVars, couponVars
<1>5. CASE Crash
  BY <1>1, <1>5 DEF BooksInv, TypeOK, Crash, Running, inputVars, couponVars
<1>6. CASE CouponStep
  BY <1>6, CouponStepBooks DEF BooksInv, CouponStep, inputVars
<1>7. CASE UNCHANGED vars
  BY <1>1, <1>7 DEF BooksInv, vars, inputVars, couponVars
<1> QED
  BY <1>2, <1>3, <1>4, <1>5, <1>6, <1>7 DEF Next

\* Stock added = stock left + coupons calls took, whatever the faults.
THEOREM BooksAlwaysBalance == Spec => []BooksBalance
<1>1. BooksInv => BooksBalance
  BY DEF BooksInv
<1> QED
  BY <1>1, InitBooks, NextBooks, TypeCorrect, PTL DEF Spec
-----------------------------------------------------------------------------
(***************************************************************************)
(* Who leaves an order behind an error.  The step that fails the call      *)
(* either removed the order, or never stored it, or is charged with a      *)
(* failed command or an ended context; neither charge is ever dropped.     *)
(***************************************************************************)
LEMMA NextClean ==
  ASSUME IInv, FailedLeavesNoOrder, [Next]_vars
  PROVE  FailedLeavesNoOrder'
<1>1. ASSUME UNCHANGED <<orders, pc>>,
             cancelled \subseteq cancelled', dbErrors \subseteq dbErrors'
      PROVE  FailedLeavesNoOrder'
  BY <1>1 DEF FailedLeavesNoOrder
<1>2. ASSUME NEW c \in Calls, PrepareStep(c)
      PROVE  FailedLeavesNoOrder'
  <2>1. /\ pc[c] \in BeforeInsert
        /\ \E l \in Labels : pc' = [pc EXCEPT ![c] = l]
        /\ UNCHANGED <<cancelled, dbErrors, orders>>
    BY <1>2 DEF PrepareStep, Validate, LookUp, Redeem, RedeemFails, Goto,
                BeforeInsert, Labels, Running, Done, faultVars
  <2>2. c \notin orders
    BY <2>1 DEF IInv, PlaceInv
  <2> QED
    BY <2>1, <2>2 DEF IInv, TypeOK, FailedLeavesNoOrder
<1>3. ASSUME NEW c \in Calls, StoreStep(c)
      PROVE  FailedLeavesNoOrder'
  <2>1. ASSUME NEW l \in Labels \ {"failed"}, Goto(c, l), orders' \subseteq orders \cup {c},
               cancelled \subseteq cancelled', dbErrors \subseteq dbErrors'
        PROVE  FailedLeavesNoOrder'
    BY <2>1 DEF IInv, TypeOK, FailedLeavesNoOrder, Goto
  <2>2. CASE Create(c) \/ GetOrder(c) \/ GetFails(c)
    BY <2>1, <2>2 DEF Create, GetOrder, GetFails, StoreFails, faultVars, Labels, Running, Done
  <2>3. CASE Publish(c) \/ PublishLost(c) \/ PublishFails(c)
    BY <2>1, <2>3 DEF Publish, PublishLost, PublishFails, faultVars, Labels, Running, Done
  <2>4. ASSUME Goto(c, "failed"), orders' \subseteq orders \cup {c},
               cancelled \subseteq cancelled', dbErrors \subseteq dbErrors',
               c \notin orders' \/ c \in cancelled' \cup dbErrors'
        PROVE  FailedLeavesNoOrder'
    BY <2>4 DEF IInv, TypeOK, FailedLeavesNoOrder, Goto
  <2>5. CASE CreateRefused(c) \/ CreateCutOff(c)
    <3>1. c \notin orders
      BY <2>5 DEF CreateRefused, CreateCutOff, IInv, PlaceInv, BeforeInsert
    <3> QED
      BY <2>4, <2>5, <3>1 DEF CreateRefused, CreateCutOff, StoreFails, ContextEnds, faultVars
  <2>6. CASE DeleteOrder(c) \/ DeleteFails(c)
    BY <2>4, <2>6 DEF DeleteOrder, DeleteFails, StoreFails, ContextEnds, faultVars
  <2> QED
    BY <1>3, <2>2, <2>3, <2>5, <2>6 DEF StoreStep
<1>4. CASE \E c \in Calls : Cancel(c)
  BY <1>1, <1>4 DEF Cancel
<1>5. CASE Crash
  BY <1>5 DEF Crash, IInv, TypeOK, FailedLeavesNoOrder, faultVars
<1>6. CASE CouponStep \/ UNCHANGED vars
  BY <1>1, <1>6 DEF CouponStep, vars, faultVars
<1> QED
  BY <1>2, <1>3, <1>4, <1>5, <1>6 DEF Next

\* Outages of the called services and of the broker leave no orphan; one that
\* is there comes from a failed command on orders or an ended context.
THEOREM OutagesLeaveNoOrphan == Spec => []FailedLeavesNoOrder
<1>1. Init => FailedLeavesNoOrder
  BY DEF Init, FailedLeavesNoOrder
<1> QED
  BY <1>1, NextClean, Invariance, PTL DEF Spec

-----------------------------------------------------------------------------
(***************************************************************************)
(* Answers.  A call that answered "ok" has its order, and the orders of    *)
(* one request are one order.                                              *)
(***************************************************************************)
\* Retries and duplicates of a request are confirmed once (unique index).
THEOREM OneConfirmation == Spec => []OneOkPerRequest
<1>1. IInv => OneOkPerRequest
  BY DEF IInv, TypeOK, PlaceInv, AfterInsert, OneOrderPerRequest, OneOkPerRequest, Confirmed
<1> QED
  BY <1>1, Invariance, PTL

(***************************************************************************)
(* What the deferred delete needs.  It deletes under the caller's context: *)
(* when no context ends and no command on orders fails, nothing is ever    *)
(* charged, and the step that leaves "cleanup" is the delete itself.       *)
(***************************************************************************)
NothingCharged == cancelled = {} /\ dbErrors = {}

LEMMA StaysUncharged ==
  ASSUME {"store", "cancel"} \cap Faults = {}, NothingCharged, [Next]_vars
  PROVE  NothingCharged'
<1>1. "store" \notin Faults /\ "cancel" \notin Faults
  OBVIOUS
<1>2. UNCHANGED faultVars
  BY <1>1
  DEF Next, PrepareStep, Validate, LookUp, Redeem, RedeemFails, StoreStep, Create,
      CreateRefused, CreateCutOff, StoreFails, ContextEnds, GetOrder, GetFails, Publish,
      PublishLost, PublishFails, DeleteOrder, DeleteFails, Cancel, Crash, CouponStep, vars
<1> QED
  BY <1>2 DEF NothingCharged, faultVars

LEMMA UnchargedDeletes ==
  ASSUME {"store", "cancel"} \cap Faults = {}, TypeOK, NothingCharged, [Next]_vars,
         NEW c \in Calls, pc[c] = "cleanup", pc'[c] = "failed"
  PROVE  c \notin orders'
<1>1. "store" \notin Faults /\ "cancel" \notin Faults
  OBVIOUS
<1>2. ASSUME NEW d \in Calls, PrepareStep(d) \/ StoreStep(d) \/ Cancel(d)
      PROVE  c \notin orders'
  <2>1. CASE pc[d] # "cleanup"
    <3>1. d # c
      BY <2>1
    <3>2. pc'[c] = pc[c]
      BY <1>2, <2>1, <3>1
      DEF PrepareStep, Validate, LookUp, Redeem, RedeemFails, StoreStep, Create,
          CreateRefused, CreateCutOff, GetOrder, GetFails, Publish, PublishLost,
          PublishFails, DeleteOrder, DeleteFails, Cancel, Goto, TypeOK
    <3> QED
      BY <3>2
  <2>2. CASE pc[d] = "cleanup"
    <3>1. DeleteOrder(d) \/ DeleteFails(d)
      BY <1>1, <1>2, <2>2
      DEF PrepareStep, Validate, LookUp, Redeem, RedeemFails, StoreStep, Create,
          CreateRefused, CreateCutOff, GetOrder, GetFails, Publish, PublishLost,
          PublishFails, Cancel
    <3>2. DeleteOrder(d)
      BY <1>1, <3>1 DEF DeleteFails, StoreFails, ContextEnds, NothingCharged
    <3>3. pc' = [pc EXCEPT ![d] = "failed"] /\ orders' = orders \ {d}
      BY <3>2 DEF DeleteOrder, Goto
    <3> QED
      BY <3>3 DEF TypeOK
  <2> QED
    BY <2>1, <2>2
<1>3. Crash \/ CouponStep \/ UNCHANGED vars => pc'[c] # "failed"
  BY DEF Crash, CouponStep, vars, Running, TypeOK
<1> QED
  BY <1>2, <1>3 DEF Next

\* The promise of TestCreatePlaceOrder_Failure_DeletesOrder holds when no
\* context ends and no command fails: run placement_orphan needs the one or
\* the other, and no third fault breaks it.
THEOREM OnlyStoreOrCancelOrphans ==
  ASSUME {"store", "cancel"} \cap Faults = {}
  PROVE  Spec => CleanupDeletes
<1>1. Init => NothingCharged
  BY DEF Init, NothingCharged
<1>2. NothingCharged /\ [Next]_vars => NothingCharged'
  BY StaysUncharged
<1>3. ASSUME TypeOK, NothingCharged, [Next]_vars
      PROVE  [\A c \in Calls : pc[c] = "cleanup" /\ pc'[c] = "failed" => c \notin orders']_vars
  BY <1>3, UnchargedDeletes
<1> QED
  BY <1>1, <1>2, <1>3, TypeCorrect, PTL DEF Spec, CleanupDeletes

\* In those systems an error means that there is no order, in every state.
THEOREM ErrorsMeanNoOrder ==
  ASSUME {"store", "cancel"} \cap Faults = {}
  PROVE  Spec => [](\A c \in orders : pc[c] # "failed")
<1>1. Init => NothingCharged
  BY DEF Init, NothingCharged
<1>2. NothingCharged /\ [Next]_vars => NothingCharged'
  BY StaysUncharged
<1>3. NothingCharged /\ FailedLeavesNoOrder => \A c \in orders : pc[c] # "failed"
  BY DEF NothingCharged, FailedLeavesNoOrder
<1> QED
  BY <1>1, <1>2, <1>3, OutagesLeaveNoOrphan, PTL DEF Spec

-----------------------------------------------------------------------------
(***************************************************************************)
(* The composition.  Whatever calls, crashes and faults do, a step of the  *)
(* composed system is a step of the coupon service or leaves it alone, so  *)
(* that what module Coupon promises carries over.  A call redeems only     *)
(* after it was found to carry a code (BooksInv).                          *)
(***************************************************************************)
LEMMA StepIsCoupons ==
  ASSUME BooksInv, [Next]_vars
  PROVE  [CouponService!Next]_(CouponService!vars)
<1>1. couponVars = CouponService!vars /\ couponVars' = CouponService!vars'
  BY DEF couponVars, CouponService!vars
<1>2. ASSUME NEW c \in Calls, PrepareStep(c) \/ StoreStep(c) \/ Cancel(c)
      PROVE  UNCHANGED couponVars \/ \E k \in Codes : CouponService!RedeemCoupon(k)
  <2>1. CASE Redeem(c) \/ RedeemFails(c)
    BY <2>1 DEF Redeem, RedeemFails, TakeCoupon, BooksInv
  <2>2. CASE ~Redeem(c) /\ ~RedeemFails(c)
    BY <1>2, <2>2
    DEF PrepareStep, Validate, LookUp, StoreStep, Create, CreateRefused, CreateCutOff,
        GetOrder, GetFails, Publish, PublishLost, PublishFails, DeleteOrder, DeleteFails,
        Cancel
  <2> QED
    BY <2>1, <2>2
<1>3. CouponStep => CouponService!Next
  BY DEF CouponStep, CouponService!Next
<1>4. Crash \/ UNCHANGED vars => UNCHANGED couponVars
  BY DEF Crash, vars
<1> QED
  BY <1>1, <1>2, <1>3, <1>4 DEF Next, CouponService!Next

\* The composed system is a coupon service with a client: no path of the
\* order service touches a document except through RedeemCoupon.
THEOREM CouponServiceRuns ==
  Spec => CouponService!Init /\ [][CouponService!Next]_(CouponService!vars)
<1>1. Init => CouponService!Init
  BY DEF Init
<1>2. BooksInv /\ [Next]_vars => [CouponService!Next]_(CouponService!vars)
  BY StepIsCoupons
<1> QED
  BY <1>1, <1>2, InitBooks, NextBooks, TypeCorrect, PTL DEF Spec

-----------------------------------------------------------------------------
(***************************************************************************)
(* The RPC implements OrderLifecycle.  One lemma per group of steps says   *)
(* which abstract step it is.                                              *)
(***************************************************************************)
LEMMA InitLifecycle == Init => Lifecycle!Init
  BY DEF Init, Lifecycle!Init, stageOf, replyOf

\* A step that moves a call between labels of the same answer and leaves
\* orders and events alone is invisible.
LEMMA Stutter ==
  ASSUME IInv, NEW c \in Calls, NEW l \in Labels, Goto(c, l),
         pc[c] \notin Done, l \notin Done, UNCHANGED <<request, orders, events>>
  PROVE  UNCHANGED Lifecycle!vars
<1>1. stageOf' = stageOf
  BY DEF stageOf
<1>2. replyOf' = replyOf
  BY DEF IInv, TypeOK, Goto, replyOf, Done
<1> QED
  BY <1>1, <1>2 DEF Lifecycle!vars

\* A call that ends in "failed" and whose order is not stored (any more).
LEMMA FailIsWithdraw ==
  ASSUME IInv, NEW c \in Calls, pc[c] \notin Done, Goto(c, "failed"),
         c \notin events, orders' = orders \ {c}, UNCHANGED <<request, events>>
  PROVE  Lifecycle!Withdraw(c)
<1>1. replyOf[c] = "none" /\ stageOf[c] \in {"absent", "stored"}
  BY DEF replyOf, stageOf, IInv, TypeOK, Labels, Done
<1>2. stageOf' = [stageOf EXCEPT ![c] = "absent"]
  BY DEF stageOf, IInv, TypeOK
<1>3. replyOf' = [replyOf EXCEPT ![c] = "error"]
  BY DEF replyOf, Goto, IInv, TypeOK
<1> QED
  BY <1>1, <1>2, <1>3 DEF Lifecycle!Withdraw

\* The insert that the unique index lets through.
LEMMA InsertMayStore ==
  ASSUME IInv, NEW c \in Calls, pc[c] = "create", ~Taken(request[c])
  PROVE  /\ Lifecycle!MayStore(c) /\ replyOf[c] = "none"
         /\ c \notin events
<1>1. c \notin orders /\ c \notin events
  BY DEF IInv, PlaceInv, AnnouncedIsStored, BeforeInsert
<1>2. \A d \in Calls : stageOf[d] # "absent" => d \in orders
  BY DEF stageOf, IInv, AnnouncedIsStored
<1> QED
  BY <1>1, <1>2 DEF Lifecycle!MayStore, Taken, stageOf, replyOf

LEMMA CreateImplements ==
  ASSUME IInv, NEW c \in Calls, Create(c) \/ CreateRefused(c) \/ CreateCutOff(c)
  PROVE  [Lifecycle!Next]_(Lifecycle!vars)
<1>1. pc[c] = "create" /\ UNCHANGED <<request, events>>
  BY DEF Create, CreateRefused, CreateCutOff, inputVars
<1>2. c \notin orders /\ c \notin events
  BY <1>1 DEF IInv, PlaceInv, AnnouncedIsStored, BeforeInsert
<1>3. ASSUME ~Taken(request[c]), orders' = orders \cup {c}
      PROVE  stageOf' = [stageOf EXCEPT ![c] = "stored"]
  BY <1>1, <1>2, <1>3 DEF stageOf, IInv, TypeOK
<1>4. CASE Create(c)
  <2>1. ~Taken(request[c]) /\ orders' = orders \cup {c} /\ Goto(c, "get")
    BY <1>4 DEF Create
  <2>2. replyOf' = replyOf
    BY <1>1, <2>1 DEF replyOf, Goto, IInv, TypeOK
  <2>3. Lifecycle!Store(c)
    BY <1>1, <1>3, <2>1, <2>2, InsertMayStore DEF Lifecycle!Store
  <2> QED
    BY <2>3 DEF Lifecycle!Next
<1>5. CASE Goto(c, "failed") /\ ~Taken(request[c]) /\ orders' = orders \cup {c}
  <2>1. replyOf' = [replyOf EXCEPT ![c] = "error"]
    BY <1>5 DEF replyOf, Goto, IInv, TypeOK
  <2>2. Lifecycle!StoreUnseen(c)
    BY <1>1, <1>3, <1>5, <2>1, InsertMayStore DEF Lifecycle!StoreUnseen
  <2> QED
    BY <2>2 DEF Lifecycle!Next
<1>6. CASE Goto(c, "failed") /\ orders' = orders
  <2>1. orders' = orders \ {c} /\ pc[c] \notin Done
    BY <1>1, <1>2, <1>6 DEF Done
  <2>2. Lifecycle!Withdraw(c)
    BY <1>1, <1>2, <1>6, <2>1, FailIsWithdraw
  <2> QED
    BY <2>2 DEF Lifecycle!Next
<1> QED
  BY <1>4, <1>5, <1>6 DEF CreateRefused, CreateCutOff

LEMMA PublishImplements ==
  ASSUME IInv, NEW c \in Calls, Publish(c) \/ PublishLost(c)
  PROVE  Lifecycle!Confirm(c)
<1>1. /\ pc[c] = "publish" /\ Goto(c, "ok") /\ UNCHANGED <<request, orders>>
      /\ events' = events \cup {c} \/ events' = events
  BY DEF Publish, PublishLost, inputVars
<1>2. c \in orders /\ c \notin events
  BY <1>1 DEF IInv, PlaceInv, AfterInsert
<1>3. stageOf[c] = "stored" /\ replyOf[c] = "none"
  BY <1>1, <1>2 DEF stageOf, replyOf
<1>4. stageOf' = [stageOf EXCEPT ![c] = "announced"] \/ stageOf' = stageOf
  BY <1>1 DEF stageOf, IInv, TypeOK
<1>5. replyOf' = [replyOf EXCEPT ![c] = "ok"]
  BY <1>1 DEF replyOf, Goto, IInv, TypeOK
<1> QED
  BY <1>1, <1>3, <1>4, <1>5 DEF Lifecycle!Confirm

\* The order stays behind, or the process dies: callers are abandoned.
LEMMA AbandonImplements ==
  ASSUME IInv, NEW lost \in SUBSET Calls, \A c \in lost : pc[c] \notin Done,
         NEW l \in {"failed", "crashed"},
         pc' = [c \in Calls |-> IF c \in lost THEN l ELSE pc[c]],
         UNCHANGED <<request, orders, events>>
  PROVE  Lifecycle!Abandon(lost)
<1>1. stageOf' = stageOf
  BY DEF stageOf
<1>2. replyOf' = [o \in Calls |-> IF o \in lost THEN "error" ELSE replyOf[o]]
  BY DEF replyOf
<1>3. \A o \in lost : replyOf[o] = "none"
  BY DEF replyOf, Done
<1> QED
  BY <1>1, <1>2, <1>3 DEF Lifecycle!Abandon

LEMMA StepImplements ==
  ASSUME IInv, [Next]_vars
  PROVE  [Lifecycle!Next]_(Lifecycle!vars)
<1>1. ASSUME NEW c \in Calls, PrepareStep(c)
      PROVE  [Lifecycle!Next]_(Lifecycle!vars)
  <2>1. /\ pc[c] \in {"idle", "lookup", "redeem"} /\ UNCHANGED <<request, orders, events>>
        /\ Goto(c, "failed") \/ \E l \in {"lookup", "redeem", "create"} : Goto(c, l)
    BY <1>1 DEF PrepareStep, Validate, LookUp, Redeem, RedeemFails, inputVars
  <2>2. c \notin orders /\ c \notin events
    BY <2>1 DEF IInv, PlaceInv, AnnouncedIsStored, BeforeInsert
  <2>3. CASE Goto(c, "failed")
    <3>1. orders' = orders \ {c} /\ pc[c] \notin Done
      BY <2>1, <2>2 DEF Done
    <3>2. Lifecycle!Withdraw(c)
      BY <2>1, <2>2, <2>3, <3>1, FailIsWithdraw
    <3> QED
      BY <3>2 DEF Lifecycle!Next
  <2>4. ASSUME NEW l \in {"lookup", "redeem", "create"}, Goto(c, l)
        PROVE  UNCHANGED Lifecycle!vars
    <3>1. l \in Labels /\ l \notin Done /\ pc[c] \notin Done
      BY <2>1 DEF Labels, Running, Done
    <3> QED
      BY <2>1, <2>4, <3>1, Stutter
  <2> QED
    BY <2>1, <2>3, <2>4
<1>2. ASSUME NEW c \in Calls, StoreStep(c)
      PROVE  [Lifecycle!Next]_(Lifecycle!vars)
  <2>1. CASE Create(c) \/ CreateRefused(c) \/ CreateCutOff(c)
    BY <2>1, CreateImplements
  <2>2. CASE Publish(c) \/ PublishLost(c)
    BY <2>2, PublishImplements DEF Lifecycle!Next
  <2>3. CASE GetOrder(c) \/ GetFails(c) \/ PublishFails(c)
    <3>1. /\ pc[c] \in {"get", "publish"} /\ UNCHANGED <<request, orders, events>>
          /\ \E l \in {"publish", "cleanup"} : Goto(c, l)
      BY <2>3 DEF GetOrder, GetFails, PublishFails, inputVars
    <3>2. ASSUME NEW l \in {"publish", "cleanup"}, Goto(c, l)
          PROVE  UNCHANGED Lifecycle!vars
      <4>1. l \in Labels /\ l \notin Done /\ pc[c] \notin Done
        BY <3>1 DEF Labels, Running, Done
      <4> QED
        BY <3>1, <3>2, <4>1, Stutter
    <3> QED
      BY <3>1, <3>2
  <2>4. CASE DeleteOrder(c)
    <3>1. /\ pc[c] = "cleanup" /\ Goto(c, "failed") /\ orders' = orders \ {c}
          /\ UNCHANGED <<request, events>>
      BY <2>4 DEF DeleteOrder, inputVars
    <3>2. c \notin events /\ pc[c] \notin Done
      BY <3>1 DEF IInv, PlaceInv, Done
    <3> QED
      BY <3>1, <3>2, FailIsWithdraw DEF Lifecycle!Next
  <2>5. CASE DeleteFails(c)
    <3>1. /\ pc[c] = "cleanup" /\ Goto(c, "failed") /\ UNCHANGED <<request, events>>
          /\ orders' = orders \/ orders' = orders \ {c}
      BY <2>5 DEF DeleteFails, inputVars
    <3>2. c \notin events /\ pc[c] \notin Done
      BY <3>1 DEF IInv, PlaceInv, Done
    <3>3. CASE orders' = orders
      <4>1. pc' = [d \in Calls |-> IF d \in {c} THEN "failed" ELSE pc[d]]
        BY <3>1 DEF Goto, IInv, TypeOK
      <4>2. \A d \in {c} : pc[d] \notin Done
        BY <3>2
      <4>3. Lifecycle!Abandon({c})
        BY <3>1, <3>3, <4>1, <4>2, AbandonImplements
      <4> QED
        BY <4>3 DEF Lifecycle!Next
    <3>4. CASE orders' = orders \ {c}
      BY <3>1, <3>2, <3>4, FailIsWithdraw DEF Lifecycle!Next
    <3> QED
      BY <3>1, <3>3, <3>4
  <2> QED
    BY <1>2, <2>1, <2>2, <2>3, <2>4, <2>5 DEF StoreStep
<1>3. CASE Crash
  <2> DEFINE lost == {c \in Calls : pc[c] \in Running}
  <2>1. /\ UNCHANGED <<request, orders, events>>
        /\ pc' = [c \in Calls |-> IF c \in lost THEN "crashed" ELSE pc[c]]
    BY <1>3 DEF Crash, inputVars
  <2>2. \A c \in lost : pc[c] \notin Done
    BY DEF Running, Done
  <2>3. Lifecycle!Abandon(lost)
    BY <2>1, <2>2, AbandonImplements
  <2> QED
    BY <2>3 DEF Lifecycle!Next
<1>4. ASSUME UNCHANGED <<request, pc, orders, events>>
      PROVE  UNCHANGED Lifecycle!vars
  BY <1>4 DEF Lifecycle!vars, stageOf, replyOf
<1>5. CASE (\E c \in Calls : Cancel(c)) \/ CouponStep \/ UNCHANGED vars
  <2>1. UNCHANGED <<request, pc, orders, events>>
    BY <1>5 DEF Cancel, CouponStep, vars, inputVars
  <2> QED
    BY <1>4, <2>1
<1> QED
  BY <1>1, <1>2, <1>3, <1>5 DEF Next

\* CreatePlaceOrder keeps the promise of OrderLifecycle under every fault.
THEOREM Refinement == Spec => ImplementsLifecycle
  BY InitLifecycle, StepImplements, Invariance, PTL
  DEF Spec, ImplementsLifecycle, Lifecycle!Spec
-----------------------------------------------------------------------------
(***************************************************************************)
(* Towards an answer for every call (CallsFinish).  That fairness makes a  *)
(* call take its next step needs ENABLED; that the steps are few, and that *)
(* no other call takes any of them back, does not.                         *)
(***************************************************************************)
Stage == [idle |-> 0, lookup |-> 1, redeem |-> 2, create |-> 3, get |-> 4, publish |-> 5,
          cleanup |-> 6, ok |-> 7, failed |-> 7, crashed |-> 7]

MovesOn(c) ==
    /\ Stage[pc'[c]] >= Stage[pc[c]]
    /\ StoreStep(c) => Stage[pc'[c]] > Stage[pc[c]]
    /\ pc[c] \in Done => pc'[c] = pc[c]

LEMMA StageFacts ==
    /\ Stage["idle"] = 0 /\ Stage["lookup"] = 1 /\ Stage["redeem"] = 2 /\ Stage["create"] = 3
    /\ Stage["get"] = 4 /\ Stage["publish"] = 5 /\ Stage["cleanup"] = 6
    /\ Stage["ok"] = 7 /\ Stage["failed"] = 7 /\ Stage["crashed"] = 7
    /\ \A l \in Labels : Stage[l] \in 0..7
  BY DEF Stage, Labels, Running, Done

\* A step of one call advances it, in its own program, and no other.
LEMMA OwnStepsAdvance ==
  ASSUME TypeOK, NEW d \in Calls, PrepareStep(d) \/ StoreStep(d)
  PROVE  /\ pc[d] \notin Done
         /\ Stage[pc'[d]] \in 0..7 /\ Stage[pc'[d]] > Stage[pc[d]]
         /\ \A c \in Calls \ {d} : pc'[c] = pc[c]
<1>1. ASSUME NEW l \in Labels, Goto(d, l), pc[d] \notin Done, Stage[l] > Stage[pc[d]]
      PROVE  /\ pc[d] \notin Done
             /\ Stage[pc'[d]] \in 0..7 /\ Stage[pc'[d]] > Stage[pc[d]]
             /\ \A c \in Calls \ {d} : pc'[c] = pc[c]
  BY <1>1, StageFacts DEF Goto, TypeOK
<1>2. CASE PrepareStep(d)
  <2>1. /\ pc[d] \in {"idle", "lookup", "redeem"}
        /\ \/ Goto(d, "failed")
           \/ pc[d] = "idle" /\ Goto(d, "lookup")
           \/ pc[d] = "lookup" /\ (Goto(d, "redeem") \/ Goto(d, "create"))
           \/ pc[d] = "redeem" /\ Goto(d, "create")
    BY <1>2 DEF PrepareStep, Validate, LookUp, Redeem, RedeemFails
  <2> QED
    BY <1>1, <2>1, StageFacts DEF Labels, Running, Done
<1>3. CASE StoreStep(d)
  <2>1. /\ pc[d] \in {"create", "get", "publish", "cleanup"}
        /\ \/ Goto(d, "failed")
           \/ pc[d] = "create" /\ Goto(d, "get")
           \/ pc[d] = "get" /\ (Goto(d, "publish") \/ Goto(d, "cleanup"))
           \/ pc[d] = "publish" /\ (Goto(d, "ok") \/ Goto(d, "cleanup"))
    BY <1>3 DEF StoreStep, Create, CreateRefused, CreateCutOff, GetOrder, GetFails, Publish,
                PublishLost, PublishFails, DeleteOrder, DeleteFails
  <2> QED
    BY <1>1, <2>1, StageFacts DEF Labels, Running, Done
<1> QED
  BY <1>2, <1>3

\* From the insert on a call takes at most four steps of its own, and an
\* answer that was given is not changed (CreatePlaceOrder).
THEOREM CallsMoveOn == Spec => [][\A c \in Calls : MovesOn(c)]_vars
<1>1. ASSUME TypeOK, NEW c \in Calls, NEW d \in Calls, PrepareStep(d) \/ StoreStep(d)
      PROVE  MovesOn(c)
  <2>1. CASE c = d
    BY <1>1, <2>1, OwnStepsAdvance, StageFacts DEF MovesOn, TypeOK
  <2>2. CASE c # d
    <3>1. pc'[c] = pc[c]
      BY <1>1, <2>2, OwnStepsAdvance
    <3>2. ~ StoreStep(c)
      BY <1>1, <3>1, OwnStepsAdvance, StageFacts DEF TypeOK
    <3> QED
      BY <1>1, <3>1, <3>2, StageFacts DEF MovesOn, TypeOK
  <2> QED
    BY <2>1, <2>2
<1>2. ASSUME TypeOK, NEW c \in Calls, pc' = pc
      PROVE  MovesOn(c)
  <2>1. ~ StoreStep(c)
    BY <1>2, OwnStepsAdvance, StageFacts DEF TypeOK
  <2> QED
    BY <1>2, <2>1, StageFacts DEF MovesOn, TypeOK
<1>3. ASSUME TypeOK, NEW c \in Calls, Crash
      PROVE  MovesOn(c)
  <2>1. pc'[c] = IF pc[c] \in Running THEN "crashed" ELSE pc[c]
    BY <1>3 DEF Crash
  <2>2. StoreStep(c) => pc[c] \in Running /\ Stage[pc[c]] < 7
    BY StageFacts
    DEF StoreStep, Create, CreateRefused, CreateCutOff, GetOrder, GetFails, Publish,
        PublishLost, PublishFails, DeleteOrder, DeleteFails, Running
  <2>3. Running \cap Done = {}
    BY DEF Running, Done
  <2> QED
    BY <1>3, <2>1, <2>2, <2>3, StageFacts DEF MovesOn, TypeOK
<1>4. TypeOK /\ [Next]_vars => [\A c \in Calls : MovesOn(c)]_vars
  <2> SUFFICES ASSUME TypeOK, [Next]_vars, NEW c \in Calls PROVE MovesOn(c)
    OBVIOUS
  <2>1. (\E d \in Calls : Cancel(d)) \/ CouponStep \/ UNCHANGED vars => pc' = pc
    BY DEF Cancel, CouponStep, vars
  <2> QED
    BY <1>1, <1>2, <1>3, <2>1 DEF Next
<1> QED
  BY <1>4, TypeCorrect, PTL DEF Spec
=============================================================================
