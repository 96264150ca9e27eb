--------------------------- MODULE MCSandboxServer ---------------------------
(* SandboxServer for TLC: one sandbox ID, two lifecycles, two calls at a time. *)
(* The liveness property excludes a symmetry reduction.                       *)
EXTENDS SandboxServer
=============================================================================
