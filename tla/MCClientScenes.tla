---------------------------- MODULE MCClientScenes ----------------------------
(* Two clients and two scenes: of one client, one in the other, or of both.    *)
EXTENDS ClientScenes, TLC
CONSTANTS s1, s2
TwoOfOne == (s1 :> 2) @@ (s2 :> 0)
Symmetry == Permutations(Clients)
==============================================================================
