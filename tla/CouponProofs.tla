---------------------------- MODULE CouponProofs ----------------------------
(***************************************************************************)
(* Proofs about module Coupon: types, conservation of the stock and the    *)
(* expiration that is never shortened, for any set of codes.               *)
(***************************************************************************)
EXTENDS Coupon, TLAPS

USE HoursAssumption, BoundsAssumption

Inv == TypeOK /\ StockConserved

\* A freshly started service has no documents and balanced books.
LEMMA InitInv == Init => Inv
  BY DEF Init, Inv, TypeOK, StockConserved

\* Adding n coupons adds n to both sides of the account of that code.
LEMMA AddCouponInv ==
  ASSUME Inv, NEW k \in Codes, NEW n \in 1..MaxStock, NEW hours \in Hours,
         AddCoupon(k, n, hours)
  PROVE  Inv'
<1>1. hours \in Int /\ n \in Nat
  OBVIOUS
<1>2. TypeOK'
  BY <1>1 DEF Inv, TypeOK, AddCoupon, Max2
<1>3. StockConserved'
  BY <1>1 DEF Inv, TypeOK, StockConserved, AddCoupon
<1> QED
  BY <1>2, <1>3 DEF Inv

\* A redemption moves one coupon from the document to the redeemed ones, or
\* changes nothing; the filter keeps the quantity from going below zero.
LEMMA RedeemCouponInv ==
  ASSUME Inv, NEW k \in Codes, RedeemCoupon(k)
  PROVE  Inv'
<1>1. CASE Matches(k) /\ Decrement(k)
  BY <1>1 DEF Inv, TypeOK, StockConserved, Matches, Decrement
<1>2. CASE ~Matches(k) /\ UNCHANGED vars
  BY <1>2 DEF Inv, TypeOK, StockConserved, vars
<1> QED
  BY <1>1, <1>2 DEF RedeemCoupon

\* The job removes documents that hold nothing.
LEMMA CleanUpInv ==
  ASSUME Inv, CleanUpCoupons
  PROVE  Inv'
<1>1. \A k \in CleanUpFilter : quantity[k] = 0
  BY DEF Inv, TypeOK, CleanUpFilter
<1>2. quantity' = quantity
  BY <1>1 DEF Inv, TypeOK, CleanUpCoupons
<1> QED
  BY <1>2 DEF Inv, TypeOK, StockConserved, CleanUpCoupons

LEMMA NextInv == Inv /\ [Next]_vars => Inv'
<1> SUFFICES ASSUME Inv, [Next]_vars
             PROVE  Inv'
  OBVIOUS
<1>1. CASE \E k \in Codes, n \in 1..MaxStock, hours \in Hours : AddCoupon(k, n, hours)
  BY <1>1, AddCouponInv
<1>2. CASE \E k \in Codes : RedeemCoupon(k)
  BY <1>2, RedeemCouponInv
<1>3. CASE CleanUpCoupons
  BY <1>3, CleanUpInv
<1>4. CASE Tick
  BY <1>4 DEF Inv, TypeOK, StockConserved, Tick
<1>5. CASE UNCHANGED vars
  BY <1>5 DEF Inv, TypeOK, StockConserved, vars
<1> QED
  BY <1>1, <1>2, <1>3, <1>4, <1>5 DEF Next

\* Every reachable state is well typed and its books balance.
THEOREM Invariance == Spec => []Inv
  BY InitInv, NextInv, PTL DEF Spec

\* Types: no quantity is ever negative (the $gt filter of UpdateQuantity).
THEOREM TypeCorrect == Spec => []TypeOK
<1>1. Inv => TypeOK
  BY DEF Inv
<1> QED
  BY <1>1, Invariance, PTL

\* No coupon is lost or invented (Add, UpdateQuantity, cleanUpCoupons).
THEOREM StockIsConserved == Spec => []StockConserved
<1>1. Inv => StockConserved
  BY DEF Inv
<1> QED
  BY <1>1, Invariance, PTL

\* One step shortens no expiration of a document that stays.
LEMMA StepKeepsExpiration ==
  ASSUME TypeOK, [Next]_vars
  PROVE  [\A k \in present \cap present' : expiration'[k] >= expiration[k]]_vars
<1> SUFFICES ASSUME NEW j \in present \cap present'
             PROVE  expiration'[j] >= expiration[j]
  OBVIOUS
<1>0. j \in Codes /\ expiration[j] \in Int /\ now \in Int
  BY DEF TypeOK
<1>1. CASE \E k \in Codes, n \in 1..MaxStock, hours \in Hours : AddCoupon(k, n, hours)
  <2> PICK k \in Codes, n \in 1..MaxStock, hours \in Hours : AddCoupon(k, n, hours)
    BY <1>1
  <2>1. hours \in Int
    OBVIOUS
  <2>2. CASE j = k
    BY <1>0, <2>1, <2>2 DEF TypeOK, AddCoupon, Max2
  <2>3. CASE j # k
    BY <1>0, <2>3 DEF TypeOK, AddCoupon
  <2> QED
    BY <2>2, <2>3
<1>2. CASE \E k \in Codes : RedeemCoupon(k)
  BY <1>0, <1>2 DEF RedeemCoupon, Decrement, vars
<1>3. CASE CleanUpCoupons
  BY <1>0, <1>3 DEF CleanUpCoupons, CleanUpFilter
<1>4. CASE Tick \/ UNCHANGED vars
  BY <1>0, <1>4 DEF Tick, vars
<1> QED
  BY <1>1, <1>2, <1>3, <1>4 DEF Next

\* Topping up a code never shortens its life ($max in Add).
THEOREM ExpirationIsNeverShortened == Spec => ExpirationNeverShortened
  BY TypeCorrect, StepKeepsExpiration, PTL DEF Spec, ExpirationNeverShortened
=============================================================================
