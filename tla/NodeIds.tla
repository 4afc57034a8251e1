------------------------------- MODULE NodeIds -------------------------------
(***************************************************************************)
(* Node identifiers between the server and one client.  The server draws   *)
(* an identifier when a node enters its tree and gives it up when the node *)
(* is freed; the client learns it with the node and gives it up when its   *)
(* own copy is freed, at the end of the frame that removed it.  Calls name *)
(* nodes by identifier both ways.                                          *)
(*                                                                         *)
(* A copy on the client is a pair <<n, k>>: the k-th time node n was sent. *)
(* Which nodes the client is sent is left open: Visibility decides it.     *)
(* Messages to the client are on the default reliable channel.             *)
(***************************************************************************)
EXTENDS Integers, Sequences, FiniteSets, SequencesExt

CONSTANTS
  Node,    \* the nodes the server creates
  Root,    \* the MultiplayerRoot, identifier 0 in both processes
  None,    \* null
  MaxId,   \* MAX_ID
  MaxSent, \* bound: how often a node becomes visible
  MaxNet,  \* bound: messages under way
  Batch    \* bound: messages the client handles in one frame

VARIABLES
  parent,   \* the server's tree: the parent of each node in it
  dead,     \* the nodes the server has freed
  ids,      \* the server's repository
  sent,     \* the nodes the client is or will be shown
  count,    \* how often each node has been sent
  down,     \* messages to the client
  up,       \* calls to the server
  copies,   \* the client's copies that have not been freed
  under,    \* the client's nodes: the parent of each copy that has one
  entered,  \* the copies that have been in the client's tree
  queued,   \* the copies in queue_free
  cids,     \* the client's repository
  handled   \* messages handled this frame

server == <<parent, dead, ids, sent, count>>
client == <<copies, under, entered, queued, cids>>
vars   == <<parent, dead, ids, sent, count, down, up,
            copies, under, entered, queued, cids, handled>>

Copy == Node \X (1 .. MaxSent)

ASSUME BoundAssumption == MaxId \in Nat \ {0} /\ {MaxSent, MaxNet, Batch} \subseteq Nat
ASSUME NamesDiffer     == None \notin Node \cup Copy \cup {Root} /\ Root \notin Node \cup Copy

\* The two repositories, which the operators take as their first argument.
Server == INSTANCE Repository WITH Object <- Node \cup {Root}, repo <- ids,
                                   live <- (Node \ dead) \cup {Root}
Client == INSTANCE Repository WITH Object <- Copy \cup {Root}, repo <- cids,
                                   live <- copies \cup {Root}

Id == 0 .. MaxId - 1

\* The nodes below S in a tree given by its parent function, S included: the
\* least set that has the children of what it has.
Closure(f, S) ==
  LET Nodes  == S \cup {n \in DOMAIN f : f[n] # None}
      Closed == {T \in SUBSET Nodes : S \subseteq T /\ \A n \in DOMAIN f : f[n] \in T => n \in T}
  IN  {n \in Nodes : \A T \in Closed : n \in T}

InTree       == {n \in Node : parent[n] # None}
Below(n)     == Closure(parent, {n})
InClientTree == Closure(under, {Root}) \ {Root}

Current(n) == <<n, count[n]>>

\* The messages of update_visibility, and the calls.  `to' names the node a
\* call is for; the program sends only the identifier.
Added(S) == [type |-> "add",
           nodes |-> {[id     |-> ids.object_to_id[n],
                       parent |-> ids.object_to_id[parent[n]],
                       copy   |-> <<n, count[n] + 1>>] : n \in S}]
Removal(S) == [type |-> "remove", nodes |-> {ids.object_to_id[n] : n \in S}]
Call(n)   == [type |-> "call", id |-> ids.object_to_id[n], to |-> n]

Message ==
  [type : {"add"}, nodes : SUBSET [id : Id, parent : Id, copy : Copy]]
    \cup [type : {"remove"}, nodes : SUBSET Id]
    \cup [type : {"call"}, id : Id, to : Node]

-----------------------------------------------------------------------------
Init ==
  /\ parent = [n \in Node |-> None]
  /\ dead = {}
  /\ ids = Server!Registered(Server!EmptyRepository, Root, 0)
  /\ sent = {}
  /\ count = [n \in Node |-> 0]
  /\ down = << >>
  /\ up = << >>
  /\ copies = {}
  /\ under = [c \in Copy |-> None]
  /\ entered = {}
  /\ queued = {}
  /\ cids = Client!Registered(Client!EmptyRepository, Root, 0)
  /\ handled = 0

\* _replication_search: a node enters the server's tree below p.
Spawn(n, p) ==
  /\ n \notin InTree \cup dead
  /\ parent' = [parent EXCEPT ![n] = p]
  /\ \E i \in Server!NextIds(ids) :
       ids' = [Server!Registered(ids, n, i) EXCEPT !.current_id = i]
  /\ UNCHANGED <<dead, sent, count, down, up, client, handled>>

\* Fault: nodes the client is already shown are sent again.
ShowAgain(S) ==
  /\ S # {} /\ S \subseteq InTree
  /\ \E n \in S : /\ parent[n] \in sent \cup {Root}
                  /\ \A m \in S \ {n} : parent[m] \in S
  /\ \A n \in S : count[n] < MaxSent
  /\ Len(down) < MaxNet
  /\ down' = Append(down, Added(S))
  /\ sent' = sent \cup S
  /\ count' = [n \in Node |-> IF n \in S THEN count[n] + 1 ELSE count[n]]
  /\ UNCHANGED <<parent, dead, ids, up, client, handled>>

\* _update_visibility, nodes added: n and some of those below it, each with
\* its parent, become visible to the client.
Show(S) ==
  /\ S # {} /\ S \subseteq InTree \ sent
  /\ \E n \in S : /\ parent[n] \in sent \cup {Root}
                  /\ \A m \in S \ {n} : parent[m] \in S
  /\ \A n \in S : count[n] < MaxSent
  /\ Len(down) < MaxNet
  /\ down' = Append(down, Added(S))
  /\ sent' = sent \cup S
  /\ count' = [n \in Node |-> IF n \in S THEN count[n] + 1 ELSE count[n]]
  /\ UNCHANGED <<parent, dead, ids, up, client, handled>>

\* _update_visibility, nodes removed: n and all below it stop being visible.
Hide(n) ==
  /\ n \in sent
  /\ Len(down) < MaxNet
  /\ down' = Append(down, Removal(Below(n) \cap sent))
  /\ sent' = sent \ Below(n)
  /\ UNCHANGED <<parent, dead, ids, count, up, client, handled>>

\* The orders in which the nodes of S are freed: a node before those below it.
Downwards(S) ==
  {q \in Bijection(1 .. Cardinality(S), S) :
     \A i, j \in DOMAIN q : q[i] \in Below(q[j]) => j <= i}

\* Fault: the removals are not sent.
FreeUnsent(n) ==
  /\ n \in InTree
  /\ parent' = [m \in Node |-> IF m \in Below(n) THEN None ELSE parent[m]]
  /\ dead' = dead \cup Below(n)
  /\ sent' = sent \ Below(n)
  /\ ids' = Server!RemovedAll(ids, Below(n))
  /\ UNCHANGED <<count, down, up, client, handled>>

\* _node_tree_exiting, for n and then for all below it: a removal for each
\* node the client is shown, and also for some that were hidden by a node
\* freed before them; the identifiers are free again.
Free(n) ==
  /\ n \in InTree
  /\ \E S \in SUBSET Below(n) : \E q \in Downwards(S) :
       /\ Below(n) \cap sent \subseteq S
       /\ n \in S => n \in sent
       /\ Len(down) + Len(q) <= MaxNet
       /\ down' = down \o [i \in 1 .. Len(q) |-> Removal({q[i]})]
  /\ parent' = [m \in Node |-> IF m \in Below(n) THEN None ELSE parent[m]]
  /\ dead' = dead \cup Below(n)
  /\ sent' = sent \ Below(n)
  /\ ids' = Server!RemovedAll(ids, Below(n))
  /\ UNCHANGED <<count, up, client, handled>>

\* Fault: the nodes the client cannot see are not filtered out.
CallUnfiltered(n) ==
  /\ n \in InTree
  /\ Len(down) < MaxNet
  /\ down' = Append(down, Call(n))
  /\ UNCHANGED <<server, up, client, handled>>

\* outbound_rpc on the server, for a node the client can see.
CallClient(n) ==
  /\ n \in sent
  /\ Len(down) < MaxNet
  /\ down' = Append(down, Call(n))
  /\ UNCHANGED <<server, up, client, handled>>

\* inbound_rpc on the server.
RecvCall ==
  /\ up # << >>
  /\ up' = Tail(up)
  /\ ids' = Server!Looked(ids, {Head(up).id}, Node \cup {Root})
  /\ UNCHANGED <<parent, dead, sent, count, down, client, handled>>

-----------------------------------------------------------------------------
Handle(type) ==
  /\ handled < Batch /\ handled' = handled + 1
  /\ down # << >> /\ Head(down).type = type /\ down' = Tail(down)

\* update_visibility, nodes removed, by identifier: a copy that is still in the
\* tree leaves it at once and is freed at the end of the frame; its identifier
\* stays till then.
RecvRemove ==
  LET removed == {Client!Found(cids, i, copies) : i \in Head(down).nodes} \cap InClientTree
      leave   == {c \in removed : \A d \in removed :
                    cids.object_to_id[d] < cids.object_to_id[c] => c \notin Closure(under, {d})}
  IN  /\ Handle("remove")
      /\ under' = [c \in Copy |-> IF c \in leave THEN None ELSE under[c]]
      /\ queued' = queued \cup leave
      /\ cids' = Client!Looked(cids, Head(down).nodes, copies \cup {Root})
      /\ UNCHANGED <<server, up, copies, entered>>

\* update_visibility, nodes added: the copies are registered, whatever their
\* identifiers stood for, then added below the parents; one whose parent is
\* not known is freed.
RecvAdd ==
  LET new    == Head(down).nodes
      made   == {a.copy : a \in new}
      alive  == copies \cup made \cup {Root}
      repo   == Client!RegisteredAll(cids, [i \in {a.id : a \in new} |->
                  (CHOOSE a \in new : a.id = i).copy])
      home(a) == Client!Found(repo, a.parent, alive)
  IN  /\ Handle("add")
      /\ copies' = copies \cup made
      /\ under' = [c \in Copy |-> IF c \in made
                                    THEN home(CHOOSE a \in new : a.copy = c) ELSE under[c]]
      /\ queued' = queued \cup {a.copy : a \in {b \in new : home(b) = None}}
      /\ entered' = entered \cup (Closure(under', {Root}) \ {Root})
      /\ cids' = Client!Looked(repo, {a.parent : a \in new}, alive)
      /\ UNCHANGED <<server, up>>

\* inbound_rpc on the client.
RecvCallClient ==
  /\ Handle("call")
  /\ cids' = Client!Looked(cids, {Head(down).id}, copies \cup {Root})
  /\ UNCHANGED <<server, up, copies, under, entered, queued>>

\* The end of a frame: the queued copies are freed with all below them, and
\* those that have been in the tree leave the repository (`freeing').
FrameEnd ==
  LET freed == Closure(under, queued)
  IN  /\ handled > 0
      /\ handled' = 0
      /\ copies' = copies \ freed
      /\ under' = [c \in Copy |-> IF c \in freed THEN None ELSE under[c]]
      /\ queued' = {}
      /\ cids' = Client!RemovedAll(cids, {c \in freed \cap entered : cids.object_to_id[c] # -1})
      /\ UNCHANGED <<server, down, up, entered>>

\* outbound_rpc on the client: a call to the server on its copy of a node.
CallServer(c) ==
  /\ c \in InClientTree \ queued
  /\ cids.object_to_id[c] # -1
  /\ up = << >>
  /\ up' = Append(up, [id |-> cids.object_to_id[c], to |-> c[1]])
  /\ UNCHANGED <<server, down, client, handled>>

Next ==
  \/ \E n \in Node, p \in InTree \cup {Root} : Spawn(n, p)
  \/ \E S \in SUBSET Node : Show(S)
  \/ \E n \in Node : Hide(n) \/ Free(n) \/ CallClient(n)
  \/ RecvCall
  \/ RecvRemove \/ RecvAdd \/ RecvCallClient \/ FrameEnd
  \/ \E c \in Copy : CallServer(c)

Spec == Init /\ [][Next]_vars

-----------------------------------------------------------------------------
(* Properties *)

\* The variables have their shapes.
TypeOK ==
  /\ parent \in [Node -> Node \cup {Root, None}]
  /\ dead \subseteq Node /\ sent \subseteq InTree
  /\ Server!TypeOK /\ Client!TypeOK
  /\ count \in [Node -> 0 .. MaxSent]
  /\ copies \subseteq Copy /\ entered \subseteq Copy /\ queued \subseteq copies
  /\ under \in [Copy -> Copy \cup {Root, None}]
  /\ down \in Seq(Message) /\ up \in Seq([id : Id, to : Node])
  /\ handled \in 0 .. Batch

\* The client never has two copies of a node in its tree.
OneCopy ==
  \A c, d \in InClientTree : c[1] = d[1] => c = d

\* A call to a node the client has been sent, and not been told to remove, is
\* not lost, nor does it run on a copy of another node, although the identifiers
\* of freed nodes are drawn again at once: its identifier leads to a copy of its
\* node in the client's tree.
CallsArrive ==
  down # << >> /\ Head(down).type = "call" =>
    LET c == Client!Found(cids, Head(down).id, copies)
    IN  c \in InClientTree /\ c[1] = Head(down).to

\* Once everything sent has been handled, the client's tree is the part of the
\* server's that it is shown, and both processes store the same identifiers:
\* README.md, "if their stored node ID is equivalent".
SameTree ==
  down = << >> /\ queued = {} =>
    /\ InClientTree = {Current(n) : n \in sent}
    /\ \A n \in sent :
         /\ under[Current(n)] = IF parent[n] = Root THEN Root ELSE Current(parent[n])
         /\ Client!Found(cids, ids.object_to_id[n], copies) = Current(n)
         /\ cids.object_to_id[Current(n)] = ids.object_to_id[n]
=============================================================================
