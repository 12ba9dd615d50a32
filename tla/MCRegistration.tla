--------------------------- MODULE MCRegistration ---------------------------
(***************************************************************************)
(* Values for checking Registration.                                       *)
(***************************************************************************)
EXTENDS Registration

all_Faults == FaultKinds
=============================================================================
