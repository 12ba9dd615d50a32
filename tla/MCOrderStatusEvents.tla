------------------------ MODULE MCOrderStatusEvents ------------------------
(***************************************************************************)
(* Values for checking OrderStatusEvents: the two status keys that can     *)
(* carry readable bodies, so that two consumers share the status queue,    *)
(* and the payment key.  A fourth subscription is out of reach; events of  *)
(* the keys left out find no queue.                                        *)
(***************************************************************************)
EXTENDS OrderStatusEvents

const_Subscribed == {"rider.finding.event", "rider.delivered.event", PaidKey}
status_Subscribed == {"rider.finding.event", "rider.delivered.event"}
all_Bodies == BodyKinds
id_Bodies == {"id"}
all_Faults == FaultKinds
no_Faults == {}
=============================================================================
