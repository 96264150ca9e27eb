-------------------------- MODULE MCExpirationIndex --------------------------
(* ExpirationIndex for TLC. Its liveness properties rule out symmetry.     *)
EXTENDS ExpirationIndex
=============================================================================
