--------------------------- MODULE MCHeartbeatLease ---------------------------
(* HeartbeatLease on small instances.                                      *)
EXTENDS HeartbeatLease
=============================================================================
