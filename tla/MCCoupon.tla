------------------------------ MODULE MCCoupon ------------------------------
(***************************************************************************)
(* Two codes, three coupons of each at most, three hours, and an           *)
(* expire_in_hour that may be zero, positive or negative.                  *)
(***************************************************************************)
EXTENDS Coupon

const_Hours == {-1, 0, 2}
=============================================================================
