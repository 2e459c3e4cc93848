--------------------------- MODULE MCConnectionForm ---------------------------
(* Small instances of ConnectionForm for TLC. *)
EXTENDS ConnectionForm, TLC

\* VLANs are opaque ids.
Symmetry == Permutations(VlanIds)
=============================================================================
