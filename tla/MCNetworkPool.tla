---------------------------- MODULE MCNetworkPool ----------------------------
(* NetworkPool for TLC: two slots, two sandboxes, channels of capacity one. The *)
(* liveness property excludes a symmetry reduction.                           *)
EXTENDS NetworkPool
=============================================================================
