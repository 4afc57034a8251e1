------------------------------ MODULE SceneView -----------------------------
(***************************************************************************)
(* What ReplicationService promises a peer: its view of the tree is a      *)
(* function of the visibility settings on the path of each node.  There is *)
(* no cache here, there are no differences and no messages.  A step says   *)
(* which views may change: a per-peer setting touches one view, a node     *)
(* that enters the tree or moves in it touches none, a peer that joins or  *)
(* quits touches its own.                                                  *)
(***************************************************************************)
CONSTANTS Node, Peer, Server, SceneOf

VARIABLES
  path,     \* path[n]: n and its ancestors; {} outside the tree
  setting,  \* setting[n][q]: "show", "hide" or "unset"; the default at Server
  online,   \* the connected peers
  view      \* view[p]: the nodes peer p has a copy of

vars == <<path, setting, online, view>>

Key == Peer \cup {Server}
Under(n) == {m \in Node : n \in path[m]}

ShownTo(s, a, p) ==
  \/ s[a][p] = "show"
  \/ s[a][p] = "unset" /\ s[a][Server] \in {"show", "unset"}

ViewOf(s, p) == {m \in Node : path[m] # {} /\ \A a \in path[m] :
                                s[a][Server] # "unset" => ShownTo(s, a, p)}

Init ==
  /\ path = [n \in Node |-> {}]
  /\ setting = [n \in Node |-> [q \in Key |-> "unset"]]
  /\ online = {}
  /\ view = [p \in Peer |-> {}]

\* The setting of n for q becomes v; a node without a default gets "hide".
Set(n, q, v) ==
  /\ path[n] # {}
  /\ setting' = [setting EXCEPT
       ![n] = [k \in Key |-> CASE k = q -> v
                               [] k = Server /\ k # q /\ @[Server] = "unset" -> "hide"
                               [] OTHER -> @[k]]]
  /\ view' = [p \in Peer |-> IF p \in online /\ q \in {Server, p}
                               THEN ViewOf(setting', p) ELSE view[p]]
  /\ UNCHANGED <<path, online>>

\* A scene enters; the nodes H of it that have a visibility enter hidden.
Enter(n, above, H) ==
  /\ n \in H
  /\ path[n] = {}
  /\ H \subseteq {m \in Node : SceneOf[m] = n}
  /\ path' = [m \in Node |-> IF SceneOf[m] = n THEN above \cup {n, m} ELSE path[m]]
  /\ setting' = [m \in Node |->
       IF m \in H THEN [q \in Key |-> IF q = Server THEN "hide" ELSE "unset"]
                  ELSE setting[m]]
  /\ UNCHANGED <<online, view>>

\* A scene leaves with everything below it, from every view.
Leave(n) ==
  /\ path[n] # {}
  /\ path' = [m \in Node |-> IF m \in Under(n) THEN {} ELSE path[m]]
  /\ setting' = [m \in Node |-> IF m \in Under(n) THEN [q \in Key |-> "unset"]
                                                  ELSE setting[m]]
  /\ view' = [p \in Peer |-> view[p] \ Under(n)]
  /\ UNCHANGED online

Move(n, above) ==
  /\ path' = [m \in Node |-> IF m \in Under(n)
                               THEN (path[m] \ path[n]) \cup {n} \cup above
                               ELSE path[m]]
  /\ UNCHANGED <<setting, online, view>>

Join(p) ==
  /\ p \notin online
  /\ online' = online \cup {p}
  /\ view' = [view EXCEPT ![p] = ViewOf(setting, p)]
  /\ UNCHANGED <<path, setting>>

Quit(p) ==
  /\ p \in online
  /\ online' = online \ {p}
  /\ setting' = [n \in Node |-> [setting[n] EXCEPT ![p] = "unset"]]
  /\ view' = [view EXCEPT ![p] = {}]
  /\ UNCHANGED path

Next ==
  \/ \E n \in Node, q \in Key, v \in {"show", "hide"} : Set(n, q, v)
  \/ \E n \in Node, p \in Peer : Set(n, p, "unset")
  \/ \E n \in Node, above, H \in SUBSET Node : Enter(n, above, H)
  \/ \E n \in Node : Leave(n)
  \/ \E n \in Node, above \in SUBSET Node : Move(n, above)
  \/ \E p \in Peer : Join(p) \/ Quit(p)

Spec == Init /\ [][Next]_vars
=============================================================================
