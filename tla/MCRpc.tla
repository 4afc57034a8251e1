------------------------------- MODULE MCRpc -------------------------------
(* Three clients, one of which owns the node: a call has a caller, a target *)
(* and a client that is neither.  The configurations are the defaults, the  *)
(* calls of an owner, and those of every peer.                              *)
EXTENDS Rpc

Everyone == {"Server", "Owner", "Client"}
Config(send, recv, call_local) == [send |-> send, recv |-> recv, call_local |-> call_local]

MCConfigs ==
  {Config({"Server"}, Everyone, FALSE), Config({"Owner"}, {"Server"}, TRUE),
   Config({"Owner"}, {"Client"}, FALSE), Config(Everyone, {"Server", "Client"}, TRUE),
   Config(Everyone, {"Owner"}, TRUE), Config(Everyone, Everyone, TRUE)}

\* What the calls of this program's own services and demos are for.
MCTargets  == Peer \cup {0}
AllTargets == Targets

\* Bound: the third client sees the node, and calls, while there is one call only.
Bystander == Len(calls) < 2 \/ (4 \notin observers /\ \A k \in 1 .. 2 : calls[k].from # 4)
=============================================================================
