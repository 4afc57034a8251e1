---------------------------- MODULE MCVisibility ----------------------------
(* A small instance of Visibility: a scene with one packed node, a scripted *)
(* node that can enter below either of them, and one peer.                  *)
EXTENDS Visibility, Naturals, FiniteSets, TLC

CONSTANTS scene, part, script

MCNode    == {scene, part, script}
MCSceneOf == (scene :> scene) @@ (part :> scene) @@ (script :> script)

\* Bound: at most one call waits per node, none for a packed node (which the
\* setters still register once it is in the tree), and only calls that show a
\* node wait (one that hides it leaves it as it entered).
OneWaits == \A n \in Node :
              Len(pend[n]) <= (IF n \in Roots THEN 1 ELSE 0)
              /\ \A i \in DOMAIN pend[n] : pend[n][i][2] = "show"

\* Bound: once the peer has left, only the scene is explored, without the script.
LeftAlone == gone # {} => script \notin InTree /\ pend[script] = NoCalls
=============================================================================
