-------------------------- MODULE MCTopologyEditor --------------------------
(* Small instances of TopologyEditor for TLC. *)
EXTENDS TopologyEditor, TLC

CONSTANTS d1, Untidy, Invalid   \* a diagram, one that is stored as d1, one refused

\* With d1 and Blank each their own normal form.
Tidied == [d \in Docs |-> CASE d = Untidy  -> d1
                             [] d = Invalid -> None
                             [] OTHER       -> d]

\* Tokens and requests may be renamed.
Symmetry == Permutations(Tokens) \cup Permutations(Reqs)
=============================================================================
