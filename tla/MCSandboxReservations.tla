------------------------ MODULE MCSandboxReservations ------------------------
EXTENDS SandboxReservations, TLC

\* SandboxReservations for TLC: IDs, creators and removers are interchangeable.
Symmetry == Permutations(Ids) \cup Permutations(Creators) \cup Permutations(Removers)
=============================================================================
