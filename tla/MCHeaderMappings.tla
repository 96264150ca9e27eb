-------------------------- MODULE MCHeaderMappings --------------------------
(***************************************************************************)
(* HeaderMappings for TLC: a device of four pages in blocks of two, and    *)
(* two snapshots after the template.                                       *)
(***************************************************************************)
EXTENDS HeaderMappings
=============================================================================
