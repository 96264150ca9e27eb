-------------------------- MODULE MCSnapshotUploads --------------------------
(* SnapshotUploads for TLC: First breaks the symmetry of the nodes, which a  *)
(* SYMMETRY set could not do for the liveness property.                     *)
EXTENDS SnapshotUploads
=============================================================================
