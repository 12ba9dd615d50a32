------------------------------- MODULE Coupon -------------------------------
(***************************************************************************)
(* The coupon service (src/src/couponservice): one Mongo document per      *)
(* coupon code, changed by AddCoupon, RedeemCoupon and the clean-up job.   *)
(*                                                                         *)
(* Each operation is one Mongo command on one document and is atomic       *)
(* there; what interleaves is the order in which administrators, the order *)
(* service and the ticker issue them.  GetCoupon and ListCoupons change    *)
(* nothing: IsRedeemable says what GetCoupon answers.                      *)
(***************************************************************************)
EXTENDS Integers

CONSTANTS
    Codes,      \* coupon codes: SAVE<percent> and FREEDELIVERY
    Hours,      \* values of expire_in_hour, which nothing validates
    MaxStock,   \* bound: coupons of one code that are ever added
    MaxTime     \* bound: the clock, in hours

ASSUME HoursAssumption == Hours \subseteq Int
ASSUME BoundsAssumption == MaxStock \in Nat /\ MaxTime \in Nat

VARIABLES
    present,    \* codes that have a document in the collection
    quantity,   \* field "quantity"; 0 for a code without a document
    expiration, \* field "expiration"; 0 for a code without a document
    now,        \* the wall clock
    added,      \* history: coupons ever added, per code
    used        \* history: decrements ever applied, per code

vars == <<present, quantity, expiration, now, added, used>>

\* Mutant: the last expiration written wins ($set for $max).
LatestWins(a, b) == b

Max2(a, b) == IF a >= b THEN a ELSE b

Init ==
    /\ present = {}
    /\ quantity = [k \in Codes |-> 0]
    /\ expiration = [k \in Codes |-> 0]
    /\ now = 0
    /\ added = [k \in Codes |-> 0]
    /\ used = [k \in Codes |-> 0]

(***************************************************************************)
(* AddCoupon: the upsert creates the document or tops it up, and keeps the *)
(* later of the two expirations ($inc, $max).  A request for a percentage  *)
(* outside 1..99 or for a quantity below 1 is refused and changes nothing. *)
(***************************************************************************)
AddCoupon(k, n, hours) ==
    /\ n >= 1
    /\ added[k] + n <= MaxStock
    /\ present' = present \cup {k}
    /\ quantity' = [quantity EXCEPT ![k] = @ + n]
    /\ expiration' = [expiration EXCEPT ![k] =
                        IF k \in present THEN Max2(@, now + hours)
                                         ELSE now + hours]
    /\ added' = [added EXCEPT ![k] = @ + n]
    /\ UNCHANGED <<now, used>>

\* Mutant: the filter forgets the quantity.
MatchesByCode(k) == k \in present

\* The filter of UpdateQuantity: {_id: code, quantity: {$gt: 0}}.
Matches(k) == k \in present /\ quantity[k] > 0

(***************************************************************************)
(* RedeemCoupon answers OK whether or not the filter matched a document:   *)
(* MatchedCount is dropped, and the expiration is not looked at.           *)
(***************************************************************************)
Decrement(k) ==
    /\ quantity' = [quantity EXCEPT ![k] = @ - 1]
    /\ used' = [used EXCEPT ![k] = @ + 1]
    /\ UNCHANGED <<present, expiration, now, added>>

RedeemCoupon(k) ==
    \/ Matches(k) /\ Decrement(k)
    \/ ~Matches(k) /\ UNCHANGED vars

\* What GetCoupon answers without an error: a stored, unexpired, unspent code.
IsRedeemable(k) == /\ k \in present
                   /\ expiration[k] >= now
                   /\ quantity[k] >= 1

\* Mutants: the last coupon counts as none; only negative stock is cleared.
CleanUpLastCoupon == {k \in present : quantity[k] <= 1}
CleanUpNegative == {k \in present : quantity[k] < 0}

(***************************************************************************)
(* The clean-up job.  Its filter compares the date field "expiration" with *)
(* an integer, and Mongo compares only values of the same type, so that    *)
(* half of the $or never matches: what matches is an exhausted quantity.   *)
(***************************************************************************)
CleanUpFilter == {k \in present : quantity[k] < 1}

CleanUpCoupons ==
    /\ present' = present \ CleanUpFilter
    /\ quantity' = [k \in Codes |-> IF k \in CleanUpFilter THEN 0 ELSE quantity[k]]
    /\ expiration' = [k \in Codes |-> IF k \in CleanUpFilter THEN 0 ELSE expiration[k]]
    /\ UNCHANGED <<now, added, used>>

Tick ==
    /\ now < MaxTime
    /\ now' = now + 1
    /\ UNCHANGED <<present, quantity, expiration, added, used>>

Next ==
    \/ \E k \in Codes, n \in 1..MaxStock, hours \in Hours : AddCoupon(k, n, hours)
    \/ \E k \in Codes : RedeemCoupon(k)
    \/ CleanUpCoupons
    \/ Tick

\* The ticker of cleanUpCoupons fires for as long as the process runs.
Spec == Init /\ [][Next]_vars /\ WF_vars(CleanUpCoupons)

-----------------------------------------------------------------------------
\* The documents and the clock have the types of dbCoupon.
TypeOK ==
    /\ present \subseteq Codes
    /\ quantity \in [Codes -> Nat]
    /\ expiration \in [Codes -> Int]
    /\ now \in Nat
    /\ added \in [Codes -> Nat]
    /\ used \in [Codes -> Nat]

(***************************************************************************)
(* No coupon is lost or invented: what was added is either still in the    *)
(* document or was redeemed, whatever redemptions raced for the last one   *)
(* and however often the clean-up removed the document and an              *)
(* administrator added the code again (UpdateQuantity, Add, cleanUpCoupons).*)
(***************************************************************************)
StockConserved == \A k \in Codes : added[k] = quantity[k] + used[k]

(***************************************************************************)
(* While a code has a document nothing shortens its life: topping up a     *)
(* code with a shorter expire_in_hour keeps the later date ($max in Add).  *)
(***************************************************************************)
ExpirationNeverShortened ==
    [][\A k \in present \cap present' : expiration'[k] >= expiration[k]]_vars

(***************************************************************************)
(* An exhausted document does not stay: it is removed by the ticker of     *)
(* cleanUpCoupons or filled up again by Add.                               *)
(***************************************************************************)
Exhausted(k) == k \in present /\ quantity[k] = 0
ExhaustedIsCleared == \A k \in Codes : Exhausted(k) ~> ~Exhausted(k)
=============================================================================
