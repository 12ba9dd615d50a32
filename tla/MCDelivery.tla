----------------------------- MODULE MCDelivery -----------------------------
(***************************************************************************)
(* Values for checking Delivery.  The initial state gives every report an  *)
(* order and a status in every way.                                        *)
(***************************************************************************)
EXTENDS Delivery

all_Faults == FaultKinds
no_Faults == {}
event_Bodies == {"OrderPlacedEvent"}
=============================================================================
