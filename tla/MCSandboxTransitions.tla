------------------------ MODULE MCSandboxTransitions ------------------------
(* Small instances of SandboxTransitions for TLC. *)
EXTENDS SandboxTransitions, TLC

Symmetry ==
    Permutations(Requests \ Evictors) \cup Permutations(Evictors) \cup Permutations(Executions)
=============================================================================
