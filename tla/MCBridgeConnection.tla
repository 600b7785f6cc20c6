------------------------- MODULE MCBridgeConnection -------------------------
(* Model values for BridgeConnection: a request that may be cancelled, a    *)
(* control request of any kind, shutdown, and ids for all but one of them,  *)
(* so that the id limit is met as well.                                     *)
EXTENDS BridgeConnection
=============================================================================
