--------------------------- MODULE MCDeliveryRpc ---------------------------
(***************************************************************************)
(* DeliveryRpc with two calls of any methods; all its constants are plain  *)
(* numbers and model values, given in the configuration.                   *)
(***************************************************************************)
EXTENDS DeliveryRpc
=============================================================================
