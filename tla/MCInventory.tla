---------------------------- MODULE MCInventory -----------------------------
(* Small instances of Inventory for TLC. *)
EXTENDS Inventory, TLC

\* The columns' contents and the port names are opaque.
Symmetry == Permutations(Values) \cup Permutations(Ports)
=============================================================================
