--------------------------- MODULE MCDeliveryFee ---------------------------
(***************************************************************************)
(* Values for checking DeliveryFee: the corners of the square that points  *)
(* are drawn from, which are 0, 22 or 31 kilometres apart: the last is too *)
(* far for a fee.  Nothing tells two customers, two ids or two calls       *)
(* apart, and only invariants are checked.                                 *)
(***************************************************************************)
EXTENDS DeliveryFee, TLC

corners == {-10, 10}
alike == Permutations(Creates) \cup Permutations(Customers)
         \cup Permutations(AddressIds) \cup Permutations(Contents)
=============================================================================
