----------------------------- MODULE MCNodeIds -----------------------------
(* Three nodes and two identifiers besides the root's: identifiers are     *)
(* drawn again, and a node may be below another.                           *)
EXTENDS NodeIds, TLC

Symmetry == Permutations(Node)
=============================================================================
