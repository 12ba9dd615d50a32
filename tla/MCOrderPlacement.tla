-------------------------- MODULE MCOrderPlacement --------------------------
(***************************************************************************)
(* Values for checking OrderPlacement.  Requests and calls are model       *)
(* values; the initial state assigns every call a request and a coupon in  *)
(* every way, so two calls may repeat one request.                         *)
(***************************************************************************)
EXTENDS OrderPlacement

const_Hours == {0}
all_Faults == FaultKinds
no_Faults == {}
cancel_Faults == {"cancel"}
=============================================================================
