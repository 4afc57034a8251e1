----------------------------- MODULE Visibility -----------------------------
(***************************************************************************)
(* The server half of ReplicationService: which nodes of the scene tree    *)
(* each peer has been told about.  The service never sends a view as a     *)
(* whole after a peer has joined; it looks the view up twice, around each  *)
(* change of the settings, through a cache of the lookups, and sends the   *)
(* difference.  `told' is the view the peer ends up with once it has       *)
(* applied, in order, everything that was sent to it.                      *)
(*                                                                         *)
(* A node is the root of a scene or a scripted node (SceneOf[n] = n), or   *)
(* one of the nodes packed in a scene (SceneOf[n] is its root), which      *)
(* enters and leaves the tree with that root.                              *)
(*                                                                         *)
(* Network callbacks and frees run from the main loop, so they never fall  *)
(* inside an add_child call; scripts do (a _ready callback may call any    *)
(* of the operations here).  That is why Connect, Disconnect and Free      *)
(* wait until no node is pending and the other actions do not.             *)
(***************************************************************************)
EXTENDS Sequences

CONSTANTS
  Node,      \* the nodes the program creates under the MultiplayerRoot
  Peer,      \* the peers that may connect
  Server,    \* peer 1: the key of a node's default in replication_visibility
  SceneOf    \* the scene root a node is packed in, the node itself for a root

ASSUME ServerAssumption == Server \notin Peer

ASSUME SceneAssumption ==
  /\ SceneOf \in [Node -> Node]
  /\ \A n \in Node : SceneOf[SceneOf[n]] = SceneOf[n]

VARIABLES
  anc,                     \* anc[n]: n and its ancestors; {} outside the tree
  pend,                    \* pend[n]: calls waiting for the ready signal of n
  replication_visibility,  \* per node: the default (at Server) and overrides
  visibility_cache,        \* per node and peer: the outcome of a past lookup
  cached,                  \* the keys of the _visibility_cache dictionary
  conn,                    \* the peers in api.get_peers()
  gone,                    \* the peers that have been connected and are not
  told                     \* per peer: the nodes the messages sent so far leave it

vars == <<anc, pend, replication_visibility, visibility_cache, cached,
          conn, gone, told>>

Setting == {"unset", "show", "hide"}
Key     == Peer \cup {Server}
Call    == Key \X {"show", "hide"}
NoCalls == << >>

Roots  == {n \in Node : SceneOf[n] = n}
InTree == {n \in Node : anc[n] # {}}
Below(n) == {m \in Node : n \in anc[m]}

-----------------------------------------------------------------------------
(* Lookups.  r stands for a value of replication_visibility and c for one  *)
(* of _visibility_cache, so that a handler can look before and after.      *)

Registered(r) == {n \in Node : r[n][Server] # "unset"}

\* Fault: an override can show a node but not hide it.
OverrideOnlyShows(r, n, p) == r[n][p] = "show" \/ r[n][Server] = "show"

Shows(r, n, p) ==
  IF r[n][p] = "unset" THEN r[n][Server] = "show" ELSE r[n][p] = "show"

\* A node is visible when each node with a visibility on its path A shows it.
Open(r, A, p) == \A a \in A \cap Registered(r) : Shows(r, a, p)

TrueVisibility(r, m, p) == Open(r, anc[m], p)

\* get_true_visibility: the cached outcome when there is one.
Lookup(r, c, m, p) ==
  IF c[m][p] # "unset" THEN c[m][p] = "show" ELSE TrueVisibility(r, m, p)

\* What the lookups of the nodes M for the peers P leave in the cache.
Filled(r, c, M, P) ==
  [m \in Node |-> [p \in Peer |->
     IF m \in M /\ p \in P
       THEN IF Lookup(r, c, m, p) THEN "show" ELSE "hide"
       ELSE c[m][p]]]

\* _clear_visibility_cache(n, q) over the descendants D of n.
Cleared(c, D, P) ==
  [m \in Node |-> [p \in Peer |->
     IF m \in D /\ p \in P THEN "unset" ELSE c[m][p]]]

\* The set a peer holds after one visibility message: a removed node goes
\* with everything below it, an added scene comes with the nodes packed in
\* it that have no visibility of their own.
Updated(r, view, added, removed) ==
  {m \in Node : \/ m \in view /\ anc[m] \cap removed = {}
                \/ m \in added
                \/ m \in InTree \ Registered(r) /\ SceneOf[m] \in added}

\* get_visible_nodes_for_peer(p, n): the visible nodes among n and those below.
Seen(r, c, n, p) == {m \in Below(n) \cap Registered(r) : Lookup(r, c, m, p)}

-----------------------------------------------------------------------------
(* The three setters of a node's visibility in the tree: look up, register *)
(* and change the setting, clear the cache, look up again, send the        *)
(* difference.  The key q is Server for set_visibility, whose lookups are  *)
(* for all connected peers, and a peer for the per-peer setters.           *)

Targets(q)   == IF q = Server THEN conn ELSE {q}
Forgotten(q) == IF q = Server THEN Peer ELSE {q}

Put(r, n, q, v) == [r EXCEPT ![n][q] = v]

\* _register_replication(n): hidden by default until a setter says otherwise.
WithNode(n) ==
  IF n \in Registered(replication_visibility)
    THEN replication_visibility
    ELSE Put(replication_visibility, n, Server, "hide")

\* The keys of the cache once the first lookups are done.
KeysLooked(n, q) ==
  IF Targets(q) = {} THEN cached
                     ELSE cached \cup (Below(n) \cap Registered(WithNode(n)))

\* Fault: only the lookup of the node itself is forgotten.
AffectedSelf(n, q) == {n} \cap KeysLooked(n, q)

\* _get_replicated_descendants(n, true): the nodes whose lookups are forgotten.
Affected(n, q) ==
  IF n \in KeysLooked(n, q)
    THEN Below(n) \cap (Registered(WithNode(n)) \cup KeysLooked(n, q))
    ELSE {}

CacheLooked(n, q) ==
  Filled(WithNode(n), visibility_cache,
         Below(n) \cap Registered(WithNode(n)), Targets(q))

\* Fault: the second lookup reads what the first one left in the cache.
NotCleared(n, q) == CacheLooked(n, q)

CacheCleared(n, q) == Cleared(CacheLooked(n, q), Affected(n, q), Forgotten(q))

Before(n, p)      == Seen(WithNode(n), visibility_cache, n, p)
After(n, q, v, p) == Seen(Put(WithNode(n), n, q, v), CacheCleared(n, q), n, p)

Change(n, q, v) ==
  LET r       == Put(WithNode(n), n, q, v)
      subtree == Below(n) \cap Registered(r)
      cleared == CacheCleared(n, q)
      kept    == IF q = Server THEN KeysLooked(n, q) \ Affected(n, q)
                               ELSE KeysLooked(n, q)
      old     == [p \in Peer |-> Before(n, p)]
      new     == [p \in Peer |-> Seen(r, cleared, n, p)]
  IN  /\ replication_visibility' = r
      /\ visibility_cache' = Filled(r, cleared, subtree, Targets(q))
      /\ cached' = IF Targets(q) = {} THEN kept ELSE kept \cup subtree
      /\ told' = [p \in Peer |->
           IF p \in Targets(q) \cap conn
             THEN Updated(r, told[p], new[p] \ old[p], old[p] \ new[p])
             ELSE told[p]]

-----------------------------------------------------------------------------
Init ==
  /\ anc = [n \in Node |-> {}]
  /\ pend = [n \in Node |-> NoCalls]
  /\ replication_visibility = [n \in Node |-> [q \in Key |-> "unset"]]
  /\ visibility_cache = [n \in Node |-> [p \in Peer |-> "unset"]]
  /\ cached = {}
  /\ conn = {}
  /\ gone = {}
  /\ told = [p \in Peer |-> {}]

\* set_visibility and set_peer_visibility outside the tree: the call waits for
\* the ready signal.  A signal takes one connection per method, whatever is
\* bound to it, so a second call of the same setter is dropped.  A peer draws
\* its identifier when it connects: no call names it before.
Defer(n, q, v) ==
  /\ n \notin InTree
  /\ q \in {Server} \cup conn \cup gone
  /\ \A i \in DOMAIN pend[n] : (pend[n][i][1] = Server) # (q = Server)
  /\ pend' = [pend EXCEPT ![n] = Append(@, <<q, v>>)]
  /\ UNCHANGED <<anc, replication_visibility, visibility_cache, cached,
                 conn, gone, told>>

\* add_child of a scene under a node whose ancestors are `above'.  Each node
\* of the scene with a waiting call is registered, hidden, as it enters.  Packed
\* nodes are directly below the root of their scene.
EnterTree(n, above) ==
  LET hidden == {m \in Node : SceneOf[m] = n /\ pend[m] # NoCalls}
  IN  /\ n \in Roots \ InTree
      /\ pend[n] # NoCalls
      /\ anc' = [m \in Node |->
                   IF SceneOf[m] = n THEN above \cup {n, m} ELSE anc[m]]
      /\ replication_visibility' = [m \in Node |->
           IF m \in hidden
             THEN [q \in Key |-> IF q = Server THEN "hide" ELSE "unset"]
             ELSE replication_visibility[m]]
      /\ visibility_cache' = [m \in Node |-> [p \in Peer |->
           IF m \in hidden /\ p \in conn THEN "hide" ELSE visibility_cache[m][p]]]
      /\ cached' = IF conn = {} THEN cached ELSE cached \cup hidden
      /\ UNCHANGED <<pend, conn, gone, told>>

\* The ready signal, children before parents, runs the waiting calls in order.
Ready(n) ==
  /\ n \in InTree
  /\ pend[n] # NoCalls
  /\ \A m \in Below(n) \ {n} : pend[m] = NoCalls
  /\ Change(n, Head(pend[n])[1], Head(pend[n])[2])
  /\ pend' = [pend EXCEPT ![n] = Tail(@)]
  /\ UNCHANGED <<anc, conn, gone>>

\* Fault: a node may get a visibility after it was sent with its scene.
MayAlwaysRegister(n) == n \in Node

\* A node must get a visibility of its own before a peer has received it as
\* part of its scene: README.md, "MUST be called before the node enters".
MayRegister(n) ==
  n \in Registered(replication_visibility) \/ \A p \in conn : n \notin told[p]

SetVisibility(n, v) ==
  /\ n \in InTree
  /\ MayRegister(n)
  /\ Change(n, Server, v)
  /\ UNCHANGED <<anc, pend, conn, gone>>

\* Services still call this for a peer that has just disconnected.
SetPeerVisibility(n, p, v) ==
  /\ n \in InTree
  /\ p \in conn \cup gone
  /\ MayRegister(n)
  /\ Change(n, p, v)
  /\ UNCHANGED <<anc, pend, conn, gone>>

ClearPeerVisibility(n, p) ==
  /\ n \in InTree
  /\ p \in conn \cup gone
  /\ MayRegister(n)
  /\ Change(n, p, "unset")
  /\ UNCHANGED <<anc, pend, conn, gone>>

\* get_observing_peers(n), asked for RPC targets and by SyncService: it sends
\* nothing but leaves lookups in the cache, of packed nodes too.
GetObservingPeers(n) ==
  /\ n \in InTree
  /\ conn # {}
  /\ visibility_cache' = Filled(replication_visibility, visibility_cache, {n}, conn)
  /\ cached' = cached \cup {n}
  /\ UNCHANGED <<anc, pend, replication_visibility, conn, gone, told>>

Settled == \A n \in InTree : pend[n] = NoCalls

\* _peer_connected: the one message that carries a whole view.
Connect(p) ==
  LET all == Registered(replication_visibility)
      new == {n \in all : Lookup(replication_visibility, visibility_cache, n, p)}
  IN  /\ Settled
      /\ p \notin conn \cup gone
      /\ conn' = conn \cup {p}
      /\ visibility_cache' = Filled(replication_visibility, visibility_cache, all, {p})
      /\ cached' = cached \cup all
      /\ told' = [told EXCEPT ![p] = Updated(replication_visibility, {}, new, {})]
      /\ UNCHANGED <<anc, pend, replication_visibility, gone>>

\* _peer_disconnected
Disconnect(p) ==
  /\ Settled
  /\ p \in conn
  /\ conn' = conn \ {p}
  /\ gone' = gone \cup {p}
  /\ replication_visibility' =
       [n \in Node |-> [replication_visibility[n] EXCEPT ![p] = "unset"]]
  /\ visibility_cache' = [n \in Node |-> [visibility_cache[n] EXCEPT ![p] = "unset"]]
  /\ told' = [told EXCEPT ![p] = {}]
  /\ UNCHANGED <<anc, pend, cached>>

\* The settings when m is freed: its freed ancestors have lost theirs.
WhenFreed(n, m) ==
  [a \in Node |-> IF a \in (Below(n) \cap anc[m]) \ {m}
                    THEN [q \in Key |-> "unset"]
                    ELSE replication_visibility[a]]

\* A scene is freed: _node_tree_exiting runs for n, then for all below it, and
\* sends a removal for each node with a visibility to the peers that see it.
Free(n) ==
  LET dead == Below(n)
      removed(p) == {m \in dead \cap Registered(replication_visibility) :
                       Lookup(WhenFreed(n, m), visibility_cache, m, p)}
  IN  /\ Settled
      /\ n \in Roots \cap InTree
      /\ anc' = [m \in Node |-> IF m \in dead THEN {} ELSE anc[m]]
      /\ replication_visibility' = [m \in Node |->
           IF m \in dead THEN [q \in Key |-> "unset"]
                          ELSE replication_visibility[m]]
      /\ visibility_cache' = Cleared(visibility_cache, dead, Peer)
      /\ cached' = cached \ dead
      /\ told' = [p \in Peer |->
           IF p \in conn THEN {m \in told[p] : anc[m] \cap removed(p) = {}}
                         ELSE told[p]]
      /\ UNCHANGED <<pend, conn, gone>>


\* The path of each node once n hangs below a node with the path `above'.
Moved(n, above) ==
  [m \in Node |-> IF m \in Below(n) THEN (anc[m] \ anc[n]) \cup {n} \cup above
                                   ELSE anc[m]]

\* node.reparent and reparent_node: the cache of the moved nodes is cleared
\* when n has an entry of its own; every peer gets __node_reparent and moves
\* its copy, or drops it when it does not know the new parent.
ReparentNode(n, above) ==
  LET moved == IF n \in cached
                 THEN Below(n) \cap (Registered(replication_visibility) \cup cached)
                 ELSE {}
  IN  /\ n \in Roots \cap Registered(replication_visibility)
      /\ n \notin above
      /\ \A m \in Below(n) : pend[m] = NoCalls
      /\ anc' = Moved(n, above)
      /\ visibility_cache' = Cleared(visibility_cache, moved, Peer)
      /\ cached' = cached \ moved
      /\ told' = [p \in Peer |->
           IF p \in conn /\ ~(above \subseteq told[p])
             THEN told[p] \ Below(n) ELSE told[p]]
      /\ UNCHANGED <<pend, replication_visibility, conn, gone>>

\* No connected peer sees more or less of the moved nodes than before.
SameAudience(n, above) ==
  \A p \in conn, m \in Below(n) :
    Open(replication_visibility, Moved(n, above)[m], p)
      = TrueVisibility(replication_visibility, m, p)

Paths == {{}} \cup {anc[m] : m \in InTree}

Next ==
  \/ \E n \in Node, q \in Key, v \in {"show", "hide"} : Defer(n, q, v)
  \/ \E n \in Node, above \in Paths : EnterTree(n, above)
  \/ \E n \in Node : Ready(n)
  \/ \E n \in Node, v \in {"show", "hide"} : SetVisibility(n, v)
  \/ \E n \in Node, p \in Peer, v \in {"show", "hide"} : SetPeerVisibility(n, p, v)
  \/ \E n \in Node, p \in Peer : ClearPeerVisibility(n, p)
  \/ \E n \in Node : GetObservingPeers(n)
  \/ \E p \in Peer : Connect(p)
  \/ \E p \in Peer : Disconnect(p)
  \/ \E n \in Node : Free(n)
  \/ \E n \in Node, above \in Paths : SameAudience(n, above) /\ ReparentNode(n, above)

Spec == Init /\ [][Next]_vars

\* The same service when a program reparents a node wherever it likes.
NextReparent == Next \/ \E n \in Node, above \in Paths : ReparentNode(n, above)
SpecReparent == Init /\ [][NextReparent]_vars

-----------------------------------------------------------------------------
(* Properties *)

\* Every variable has its shape.
TypeOK ==
  /\ anc \in [Node -> SUBSET Node]
  /\ pend \in [Node -> Seq(Call)]
  /\ replication_visibility \in [Node -> [Key -> Setting]]
  /\ visibility_cache \in [Node -> [Peer -> Setting]]
  /\ cached \subseteq Node
  /\ conn \subseteq Peer
  /\ gone \subseteq Peer
  /\ told \in [Peer -> SUBSET Node]

\* The differences sent to a connected peer always add up to exactly the nodes
\* that are truly visible to it: nothing hidden is left behind, nothing visible
\* is missing, whatever was changed above it, and in which order.
ToldIsVisible ==
  \A p \in conn :
    told[p] = {m \in InTree : TrueVisibility(replication_visibility, m, p)}

\* A cached lookup for a connected peer is never stale: it is what
\* get_true_visibility would compute now (`_clear_visibility_cache').
CacheCoherent ==
  \A m \in Node, p \in conn :
    visibility_cache[m][p] # "unset" =>
      (visibility_cache[m][p] = "show") = TrueVisibility(replication_visibility, m, p)

\* Whichever setter is called next, its message adds no node the peer already
\* holds (the client would instance it twice) and removes none it lacks (the
\* warning in update_visibility).
DiffsAreExact ==
  \A n \in InTree, q \in Key, v \in Setting : \A p \in Targets(q) \cap conn :
    MayRegister(n) /\ (q = Server => v # "unset") =>
      /\ (After(n, q, v, p) \ Before(n, p)) \cap told[p] = {}
      /\ (Before(n, p) \ After(n, q, v, p)) \subseteq told[p]

\* What every peer holds is what SceneView promises: the cache, the lookups
\* before and after, and the differences sent do not show in any view.
View == INSTANCE SceneView WITH
  path <- anc, setting <- replication_visibility, online <- conn, view <- told

ImplementsSceneView == View!Spec

=============================================================================
