-------------------------- MODULE VisibilityProofs --------------------------
(***************************************************************************)
(* Proofs about Visibility, for every set of nodes and peers.              *)
(*                                                                         *)
(* The inductive invariant is the cache being coherent and the views being *)
(* exact, together with the facts about the tree (Shape) and about what a  *)
(* peer that is not connected leaves behind (Absent) they depend on.       *)
(***************************************************************************)
EXTENDS Visibility, Naturals, TLAPS

\* The paths form a forest of scenes; every scene root in the tree, and every
\* node with a waiting call there, has a visibility of its own; a node outside
\* the tree has left no settings.
Shape ==
  /\ \A n \in InTree : n \in anc[n] /\ \A a \in anc[n] : a \in anc[a] /\ anc[a] \subseteq anc[n]
  /\ \A n \in Node : SceneOf[n] \in InTree <=> n \in InTree
  /\ \A n \in InTree : anc[n] = anc[SceneOf[n]] \cup {n}
  /\ \A n \in InTree : SceneOf[n] = n \/ pend[n] # NoCalls =>
       n \in Registered(replication_visibility)
  /\ \A n \in Node \ InTree : \A q \in Key : replication_visibility[n][q] = "unset"

\* The cache holds outcomes only under its keys, which are nodes of the tree,
\* and only for peers that have been connected; calls wait only for those.
Absent ==
  /\ cached \subseteq InTree
  /\ \A n \in Node \ cached : \A p \in Peer : visibility_cache[n][p] = "unset"
  /\ \A n \in Node : \A p \in Peer \ (conn \cup gone) : visibility_cache[n][p] = "unset"
  /\ \A n \in Node : \A i \in DOMAIN pend[n] : pend[n][i][1] \in {Server} \cup conn \cup gone
  /\ \A p \in Peer \ conn : told[p] = {}

\* The path of a node is linear.
Linear ==
  \A n \in InTree : \A a \in anc[n] :
    /\ n \in anc[a] => a = n
    /\ \A b \in anc[n] : a \in anc[b] \/ b \in anc[a]

IInv == TypeOK /\ Shape /\ Linear /\ Absent /\ CacheCoherent /\ ToldIsVisible

-----------------------------------------------------------------------------
(* Lookups through a cache that contradicts no setting.                    *)

\* A cache is coherent with settings r for a peer when none of its entries
\* contradicts them.
Coherent(r, c, p) ==
  \A m \in Node : c[m][p] # "unset" => (c[m][p] = "show") = TrueVisibility(r, m, p)

\* Looking through a coherent cache is computing the visibility,
LEMMA LookupCoherent ==
  ASSUME NEW r, NEW c, NEW p, Coherent(r, c, p), NEW m \in Node
  PROVE  Lookup(r, c, m, p) = TrueVisibility(r, m, p)
BY DEF Lookup, Coherent, TrueVisibility, Open

\* and leaves it coherent.
LEMMA FilledCoherent ==
  ASSUME NEW r, NEW c \in [Node -> [Peer -> Setting]], NEW p \in Peer,
         Coherent(r, c, p), NEW M, NEW P
  PROVE  Coherent(r, Filled(r, c, M, P), p)
<1> SUFFICES ASSUME NEW m \in Node, Filled(r, c, M, P)[m][p] # "unset"
             PROVE  (Filled(r, c, M, P)[m][p] = "show") = TrueVisibility(r, m, p)
  BY DEF Coherent
<1>1. Filled(r, c, M, P)[m][p] =
        IF m \in M /\ p \in P THEN IF Lookup(r, c, m, p) THEN "show" ELSE "hide"
                              ELSE c[m][p]
  BY DEF Filled
<1>2. Lookup(r, c, m, p) = TrueVisibility(r, m, p)
  BY LookupCoherent
<1>3. c[m][p] # "unset" => (c[m][p] = "show") = TrueVisibility(r, m, p)
  BY DEF Coherent
<1>4. TrueVisibility(r, m, p) \in BOOLEAN
  BY DEF TrueVisibility, Open
<1> QED BY <1>1, <1>2, <1>3, <1>4

LEMMA CoherentEquiv ==
  IInv => \A p \in conn : Coherent(replication_visibility, visibility_cache, p)
BY DEF IInv, TypeOK, CacheCoherent, Coherent

-----------------------------------------------------------------------------
(* Registering a node that no connected peer holds changes no visibility:  *)
(* it is below something hidden already.                                   *)

LEMMA WithNodeShape ==
  ASSUME IInv, NEW n \in InTree
  PROVE  /\ WithNode(n) \in [Node -> [Key -> Setting]]
         /\ Registered(WithNode(n)) = Registered(replication_visibility) \cup {n}
         /\ \A m \in Node \ {n} : WithNode(n)[m] = replication_visibility[m]
<1>1. n \in Node /\ replication_visibility \in [Node -> [Key -> Setting]]
  BY DEF IInv, TypeOK, InTree
<1>2. CASE n \in Registered(replication_visibility)
  BY <1>1, <1>2 DEF WithNode
<1>3. CASE n \notin Registered(replication_visibility)
  <2>1. WithNode(n) = Put(replication_visibility, n, Server, "hide")
    BY <1>3 DEF WithNode
  <2>2. Server \in Key /\ "hide" \in Setting /\ "hide" # "unset"
    BY DEF Key, Setting
  <2>3. WithNode(n) = [replication_visibility EXCEPT ![n] =
                         [replication_visibility[n] EXCEPT ![Server] = "hide"]]
    BY <1>1, <2>1, <2>2 DEF Put
  <2>4. WithNode(n)[n][Server] = "hide"
    BY <1>1, <2>2, <2>3
  <2>5. \A m \in Node \ {n} : WithNode(n)[m] = replication_visibility[m]
    BY <1>1, <2>3
  <2>6. WithNode(n) \in [Node -> [Key -> Setting]]
    BY <1>1, <2>2, <2>3
  <2>7. Registered(WithNode(n)) = Registered(replication_visibility) \cup {n}
    BY <1>1, <2>2, <2>4, <2>5 DEF Registered
  <2> QED BY <2>5, <2>6, <2>7
<1> QED BY <1>2, <1>3

LEMMA WithNodeVisibility ==
  ASSUME IInv, NEW n \in InTree, MayRegister(n), NEW p \in conn, NEW m \in Node
  PROVE  m \in InTree => TrueVisibility(WithNode(n), m, p)
                            = TrueVisibility(replication_visibility, m, p)
<1> SUFFICES ASSUME m \in InTree
             PROVE  TrueVisibility(WithNode(n), m, p)
                      = TrueVisibility(replication_visibility, m, p)
  OBVIOUS
<1> USE DEF TrueVisibility, Open
<1>0. n \in Node /\ p \in Peer
  BY DEF IInv, TypeOK, InTree
<1>1. CASE n \in Registered(replication_visibility)
  BY <1>1 DEF WithNode
<1>2. CASE n \notin Registered(replication_visibility)
  <2>1. n \notin told[p]
    BY <1>2 DEF MayRegister
  <2>2. ~TrueVisibility(replication_visibility, n, p)
    BY <1>0, <2>1 DEF IInv, ToldIsVisible
  <2>3. PICK a \in anc[n] : a \in Registered(replication_visibility)
                             /\ ~Shows(replication_visibility, a, p)
    BY <2>2
  <2>4. a # n
    BY <1>2, <2>3
  <2>5. a \in Registered(WithNode(n)) /\ WithNode(n)[a] = replication_visibility[a]
    BY <2>3, <2>4, WithNodeShape DEF Registered
  <2>6. ~Shows(WithNode(n), a, p)
    BY <2>3, <2>5 DEF Shows
  <2>7. CASE n \in anc[m]
    <3>1. a \in anc[m]
      BY <2>3, <2>7 DEF IInv, Shape
    <3> QED BY <2>3, <2>5, <2>6, <3>1
  <2>8. CASE n \notin anc[m]
    <3>1. anc[m] \cap Registered(WithNode(n)) = anc[m] \cap Registered(replication_visibility)
      BY <2>8, WithNodeShape
    <3>2. \A b \in anc[m] \cap Registered(WithNode(n)) :
            WithNode(n)[b] = replication_visibility[b]
      BY <2>8, WithNodeShape DEF Registered
    <3>3. \A b \in anc[m] \cap Registered(WithNode(n)) :
            Shows(WithNode(n), b, p) = Shows(replication_visibility, b, p)
      BY <3>2 DEF Shows
    <3> QED BY <3>1, <3>3
  <2> QED BY <2>7, <2>8
<1> QED BY <1>1, <1>2

-----------------------------------------------------------------------------
(* One call of a setter, at a node of the tree.  A change is legal when it *)
(* keeps a default at Server and names no peer that has not come yet.      *)

LegalChange(n, q, v) ==
  /\ n \in InTree
  /\ q \in {Server} \cup conn \cup gone
  /\ v \in Setting
  /\ q = Server => v # "unset"
  /\ MayRegister(n)

\* The settings of the nodes off the path of n are not touched, nor those for
\* another peer, so what they say of visibility is not either.
LEMMA PutVisibility ==
  ASSUME IInv, NEW n, NEW q, NEW v, LegalChange(n, q, v),
         NEW p \in conn, NEW m \in InTree,
         n \notin anc[m] \/ q \notin {Server, p}
  PROVE  TrueVisibility(Put(WithNode(n), n, q, v), m, p)
           = TrueVisibility(WithNode(n), m, p)
<1> DEFINE r1 == WithNode(n)
           r2 == Put(r1, n, q, v)
<1>1. n \in Node /\ p \in Peer /\ q \in Key /\ v \in Setting /\ anc[m] \subseteq Node
  BY DEF LegalChange, IInv, TypeOK, InTree, Key
<1>2. r1 \in [Node -> [Key -> Setting]]
  BY WithNodeShape DEF LegalChange
<1>3. \A a \in Node, k \in Key : r2[a][k] = IF a = n /\ k = q THEN v ELSE r1[a][k]
  BY <1>1, <1>2 DEF Put
<1>4. Server \in Key /\ p \in Key /\ p # Server
  BY <1>1, ServerAssumption DEF Key
<1>5. n \in Registered(r1)
  BY WithNodeShape DEF LegalChange
<1>6. Registered(r2) = Registered(r1)
  <2>1. \A a \in Node : r2[a][Server] # "unset" <=> r1[a][Server] # "unset"
    BY <1>1, <1>3, <1>4, <1>5 DEF LegalChange, Registered
  <2> QED BY <2>1 DEF Registered
<1>7. \A a \in anc[m] : Shows(r2, a, p) = Shows(r1, a, p)
  <2> TAKE a \in anc[m]
  <2>1. r2[a][p] = r1[a][p] /\ r2[a][Server] = r1[a][Server]
    BY <1>1, <1>3, <1>4
  <2> QED BY <2>1 DEF Shows
<1> QED BY <1>6, <1>7 DEF TrueVisibility, Open

LEMMA ChangeSettings ==
  ASSUME IInv, NEW n, NEW q, NEW v, LegalChange(n, q, v)
  PROVE  /\ Put(WithNode(n), n, q, v) \in [Node -> [Key -> Setting]]
         /\ Registered(Put(WithNode(n), n, q, v)) = Registered(WithNode(n))
         /\ \A m \in Node \ {n} : Put(WithNode(n), n, q, v)[m] = replication_visibility[m]
<1>1. n \in Node /\ q \in Key /\ v \in Setting /\ n \in InTree
  BY DEF LegalChange, IInv, TypeOK, InTree, Key
<1>2. WithNode(n) \in [Node -> [Key -> Setting]] /\ n \in Registered(WithNode(n))
  BY <1>1, WithNodeShape
<1>3. Put(WithNode(n), n, q, v) \in [Node -> [Key -> Setting]]
  BY <1>1, <1>2 DEF Put
<1>4. \A m \in Node \ {n} : Put(WithNode(n), n, q, v)[m] = WithNode(n)[m]
  BY <1>1, <1>2 DEF Put
<1>5. Server \in Key
  BY DEF Key
<1>6. \A m \in Node : Put(WithNode(n), n, q, v)[m][Server] # "unset"
                        <=> WithNode(n)[m][Server] # "unset"
  BY <1>1, <1>2, <1>5 DEF Put, LegalChange, Registered
<1>7. Registered(Put(WithNode(n), n, q, v)) = Registered(WithNode(n))
  BY <1>6 DEF Registered
<1> QED BY <1>1, <1>3, <1>4, <1>7, WithNodeShape

\* Before the change, both the view and the cache agree with the settings the
\* first lookups go by.
LEMMA BeforeChange ==
  ASSUME IInv, NEW n, NEW q, NEW v, LegalChange(n, q, v), NEW p \in conn
  PROVE  /\ Coherent(WithNode(n), visibility_cache, p)
         /\ Coherent(WithNode(n), CacheLooked(n, q), p)
         /\ told[p] = {m \in InTree : TrueVisibility(WithNode(n), m, p)}
         /\ Before(n, p) = {m \in Below(n) \cap Registered(WithNode(n)) :
                               TrueVisibility(WithNode(n), m, p)}
<1> USE DEF LegalChange
<1>1. p \in Peer /\ visibility_cache \in [Node -> [Peer -> Setting]]
  BY DEF IInv, TypeOK
<1>2. \A m \in Node : visibility_cache[m][p] # "unset" => m \in InTree
  BY <1>1 DEF IInv, Absent
<1>3. Coherent(WithNode(n), visibility_cache, p)
  <2> SUFFICES ASSUME NEW m \in Node, visibility_cache[m][p] # "unset"
               PROVE  (visibility_cache[m][p] = "show") = TrueVisibility(WithNode(n), m, p)
    BY DEF Coherent
  <2>1. m \in InTree
    BY <1>2
  <2>2. TrueVisibility(WithNode(n), m, p) = TrueVisibility(replication_visibility, m, p)
    BY <2>1, WithNodeVisibility
  <2> QED BY <2>2 DEF IInv, CacheCoherent
<1>4. Coherent(WithNode(n), CacheLooked(n, q), p)
  BY <1>1, <1>3, FilledCoherent DEF CacheLooked
<1>5. told[p] = {m \in InTree : TrueVisibility(WithNode(n), m, p)}
  <2>1. told[p] = {m \in InTree : TrueVisibility(replication_visibility, m, p)}
    BY DEF IInv, ToldIsVisible
  <2>2. \A m \in InTree : TrueVisibility(WithNode(n), m, p)
                             = TrueVisibility(replication_visibility, m, p)
    BY WithNodeVisibility DEF InTree
  <2> QED BY <2>1, <2>2
<1>6. Before(n, p) = {m \in Below(n) \cap Registered(WithNode(n)) :
                        TrueVisibility(WithNode(n), m, p)}
  <2>1. \A m \in Node : Lookup(WithNode(n), visibility_cache, m, p)
                          = TrueVisibility(WithNode(n), m, p)
    BY <1>3, LookupCoherent
  <2> QED BY <2>1 DEF Before, Seen, Below
<1> QED BY <1>3, <1>4, <1>5, <1>6

\* Clearing the cache forgets every entry the change may have made stale.
LEMMA AfterChange ==
  ASSUME IInv, NEW n, NEW q, NEW v, LegalChange(n, q, v), NEW p \in conn
  PROVE  /\ Coherent(Put(WithNode(n), n, q, v), CacheCleared(n, q), p)
         /\ After(n, q, v, p) = {m \in Below(n) \cap Registered(Put(WithNode(n), n, q, v)) :
                TrueVisibility(Put(WithNode(n), n, q, v), m, p)}
<1> DEFINE r1 == WithNode(n)
           r2 == Put(r1, n, q, v)
           c1 == CacheLooked(n, q)
           c2 == CacheCleared(n, q)
<1> USE DEF LegalChange
<1>1. p \in Peer /\ n \in Node /\ visibility_cache \in [Node -> [Peer -> Setting]]
  BY DEF IInv, TypeOK, InTree
<1>2. c1 \in [Node -> [Peer -> Setting]]
  BY <1>1 DEF CacheLooked, Filled, Setting
<1>3. \A m \in Node : c2[m][p] = IF m \in Affected(n, q) /\ p \in Forgotten(q)
                                  THEN "unset" ELSE c1[m][p]
  BY <1>1, <1>2 DEF CacheCleared, Cleared
<1>4. \A m \in Node : c1[m][p] # "unset" /\ m \notin Affected(n, q) /\ n \in anc[m]
                         => p \notin Forgotten(q)
  <2> SUFFICES ASSUME NEW m \in Node, c1[m][p] # "unset", m \notin Affected(n, q),
                      n \in anc[m], p \in Forgotten(q)
               PROVE  FALSE
    OBVIOUS
  <2>1. p \in Targets(q)
    BY DEF Forgotten, Targets
  <2>2. n \in Below(n) /\ m \in Below(n)
    BY <1>1 DEF Below, IInv, Shape
  <2>3. n \in Registered(r1)
    BY WithNodeShape
  <2>4. KeysLooked(n, q) = cached \cup (Below(n) \cap Registered(r1))
    BY <2>1 DEF KeysLooked
  <2>5. n \in KeysLooked(n, q)
    BY <2>2, <2>3, <2>4
  <2>6. m \notin Registered(r1) /\ m \notin KeysLooked(n, q)
    BY <2>2, <2>5 DEF Affected
  <2>7. c1[m][p] = visibility_cache[m][p]
    BY <1>1, <2>6 DEF CacheLooked, Filled
  <2>8. visibility_cache[m][p] = "unset"
    BY <1>1, <2>4, <2>6 DEF IInv, Absent
  <2> QED BY <2>7, <2>8
<1>5. \A m \in Node : c1[m][p] # "unset" => m \in InTree
  <2> SUFFICES ASSUME NEW m \in Node, c1[m][p] # "unset" PROVE m \in InTree
    OBVIOUS
  <2>1. CASE m \in Below(n)
    BY <2>1 DEF Below, InTree
  <2>2. CASE m \notin Below(n)
    <3>1. c1[m][p] = visibility_cache[m][p]
      BY <1>1, <2>2 DEF CacheLooked, Filled
    <3> QED BY <1>1, <3>1 DEF IInv, Absent
  <2> QED BY <2>1, <2>2
<1>6. Coherent(r2, c2, p)
  <2> SUFFICES ASSUME NEW m \in Node, c2[m][p] # "unset"
               PROVE  (c2[m][p] = "show") = TrueVisibility(r2, m, p)
    BY DEF Coherent
  <2>1. c2[m][p] = c1[m][p] /\ ~(m \in Affected(n, q) /\ p \in Forgotten(q))
    BY <1>3
  <2>2. m \in InTree
    BY <1>5, <2>1
  <2>3. n \notin anc[m] \/ q \notin {Server, p}
    <3> SUFFICES ASSUME n \in anc[m] PROVE q \notin {Server, p}
      OBVIOUS
    <3>1. p \notin Forgotten(q)
      BY <1>4, <2>1
    <3> QED BY <1>1, <3>1 DEF Forgotten
  <2>4. TrueVisibility(r2, m, p) = TrueVisibility(r1, m, p)
    BY <2>2, <2>3, PutVisibility
  <2>5. (c1[m][p] = "show") = TrueVisibility(r1, m, p)
    BY <2>1, BeforeChange DEF Coherent
  <2> QED BY <2>1, <2>4, <2>5
<1>7. After(n, q, v, p) = {m \in Below(n) \cap Registered(r2) : TrueVisibility(r2, m, p)}
  <2>1. \A m \in Node : Lookup(r2, c2, m, p) = TrueVisibility(r2, m, p)
    BY <1>6, LookupCoherent
  <2> QED BY <2>1 DEF After, Seen, Below
<1> QED BY <1>6, <1>7

-----------------------------------------------------------------------------
(* The difference of two exact lookups, applied to an exact view, is the   *)
(* new exact view.                                                         *)

\* The nearest node with a visibility above a packed node is its scene root.
LEMMA PackedVisibility ==
  ASSUME IInv, NEW n \in InTree, NEW r, Registered(r) = Registered(replication_visibility) \cup {n},
         NEW p, NEW m \in InTree, m \notin Registered(r)
  PROVE  /\ SceneOf[m] \in InTree /\ SceneOf[m] \in Registered(r) /\ SceneOf[m] \in anc[m]
         /\ anc[m] = anc[SceneOf[m]] \cup {m}
         /\ TrueVisibility(r, m, p) = TrueVisibility(r, SceneOf[m], p)
<1>1. m \in Node /\ SceneOf[m] \in Node /\ SceneOf[SceneOf[m]] = SceneOf[m]
  BY SceneAssumption DEF InTree
<1>2. SceneOf[m] \in InTree /\ anc[m] = anc[SceneOf[m]] \cup {m}
  BY <1>1 DEF IInv, Shape
<1>3. SceneOf[m] \in Registered(replication_visibility) /\ SceneOf[m] \in anc[SceneOf[m]]
  BY <1>1, <1>2 DEF IInv, Shape
<1>4. TrueVisibility(r, m, p) = TrueVisibility(r, SceneOf[m], p)
  BY <1>2 DEF TrueVisibility, Open
<1> QED BY <1>2, <1>3, <1>4

LEMMA ChangeIsExact ==
  ASSUME IInv, NEW n, NEW q, NEW v, LegalChange(n, q, v),
         NEW p \in conn, p \in Targets(q),
         NEW r, r = Put(WithNode(n), n, q, v)
  PROVE  Updated(r, told[p], After(n, q, v, p) \ Before(n, p),
                             Before(n, p) \ After(n, q, v, p))
           = {m \in InTree : TrueVisibility(r, m, p)}
<1> DEFINE r1 == WithNode(n)
           added   == After(n, q, v, p) \ Before(n, p)
           removed == Before(n, p) \ After(n, q, v, p)
<1> USE DEF LegalChange
<1>1. Registered(r) = Registered(r1)
      /\ Registered(r) = Registered(replication_visibility) \cup {n}
  BY ChangeSettings, WithNodeShape
<1>2. told[p] = {m \in InTree : TrueVisibility(r1, m, p)}
  BY BeforeChange
<1>3. Before(n, p) = {m \in Below(n) \cap Registered(r) : TrueVisibility(r1, m, p)}
  BY <1>1, BeforeChange
<1>4. After(n, q, v, p) = {m \in Below(n) \cap Registered(r) : TrueVisibility(r, m, p)}
  BY AfterChange
<1>5. added = {m \in Below(n) \cap Registered(r) :
                 TrueVisibility(r, m, p) /\ ~TrueVisibility(r1, m, p)}
  BY <1>3, <1>4
<1>6. removed = {m \in Below(n) \cap Registered(r) :
                   TrueVisibility(r1, m, p) /\ ~TrueVisibility(r, m, p)}
  BY <1>3, <1>4
<1>7. \A m \in Node : m \in Updated(r, told[p], added, removed)
                        <=> m \in InTree /\ TrueVisibility(r, m, p)
  <2> SUFFICES ASSUME NEW m \in Node
               PROVE  m \in Updated(r, told[p], added, removed)
                        <=> m \in InTree /\ TrueVisibility(r, m, p)
    OBVIOUS
  <2> HIDE DEF added, removed, r1
  <2>1. m \in Updated(r, told[p], added, removed) <=>
          \/ m \in told[p] /\ anc[m] \cap removed = {}
          \/ m \in added
          \/ m \in InTree \ Registered(r) /\ SceneOf[m] \in added
    BY DEF Updated
  <2>2. CASE m \notin InTree
    BY <1>2, <1>5, <2>1, <2>2 DEF Below, InTree
  <2>3. CASE m \in InTree /\ n \notin anc[m]
    <3>1. TrueVisibility(r, m, p) = TrueVisibility(r1, m, p)
      BY <2>3, PutVisibility DEF r1
    <3>2. anc[m] \cap removed = {}
      BY <1>6, <2>3 DEF IInv, Shape, Below
    <3>3. m \notin added
      BY <1>5, <2>3 DEF Below
    <3>4. m \notin Registered(r) => SceneOf[m] \notin added
      BY <1>1, <1>5, <2>3, PackedVisibility DEF Below
    <3> QED BY <1>2, <2>1, <2>3, <3>1, <3>2, <3>3, <3>4
  <2>4. CASE m \in InTree /\ n \in anc[m]
    <3>1. anc[m] \cap removed # {} => ~TrueVisibility(r, m, p)
      BY <1>6, <2>4 DEF IInv, Shape, TrueVisibility, Open
    <3>2. m \in anc[m] /\ m \in Below(n)
      BY <2>4 DEF IInv, Shape, Below
    <3>3. CASE m \in Registered(r)
      BY <1>2, <1>5, <1>6, <2>1, <2>4, <3>1, <3>2, <3>3
    <3>4. CASE m \notin Registered(r)
      <4>1. /\ SceneOf[m] \in InTree /\ SceneOf[m] \in Registered(r) /\ SceneOf[m] \in anc[m]
            /\ anc[m] = anc[SceneOf[m]] \cup {m}
            /\ TrueVisibility(r, m, p) = TrueVisibility(r, SceneOf[m], p)
        BY <1>1, <2>4, <3>4, PackedVisibility
      <4>2. TrueVisibility(r1, m, p) = TrueVisibility(r1, SceneOf[m], p)
        BY <1>1, <3>4, <4>1 DEF TrueVisibility, Open
      <4>3. n # m /\ n \in anc[SceneOf[m]]
        BY <1>1, <2>4, <3>4, <4>1
      <4>4. SceneOf[m] \in Below(n)
        BY <4>1, <4>3 DEF Below, InTree
      <4> QED BY <1>2, <1>5, <1>6, <2>1, <2>4, <3>1, <3>4, <4>1, <4>2, <4>4
    <3> QED BY <3>3, <3>4
  <2> QED BY <2>2, <2>3, <2>4
<1>8. Updated(r, told[p], added, removed) \subseteq Node /\ InTree \subseteq Node
  BY DEF Updated, InTree
<1> QED BY <1>7, <1>8

-----------------------------------------------------------------------------
(* A setter keeps the invariant.  Its caller consumes at most waiting      *)
(* calls, and changes neither the tree nor who is connected.               *)

Consumes ==
  /\ pend' \in [Node -> Seq(Call)]
  /\ \A m \in Node : pend'[m] # NoCalls => pend[m] # NoCalls
  /\ \A m \in Node : \A i \in DOMAIN pend'[m] :
       pend'[m][i][1] \in {Server} \cup conn \cup gone

LEMMA ChangeInvariant ==
  ASSUME IInv, NEW n, NEW q, NEW v, LegalChange(n, q, v), Change(n, q, v), Consumes,
         UNCHANGED <<anc, conn, gone>>
  PROVE  IInv'
<1> DEFINE r == Put(WithNode(n), n, q, v)
           c2 == CacheCleared(n, q)
           D  == Below(n) \cap Registered(r)
<1> USE DEF LegalChange
<1>1. n \in Node /\ n \in InTree /\ conn \subseteq Peer /\ Server \in Key
      /\ visibility_cache \in [Node -> [Peer -> Setting]]
  BY DEF IInv, TypeOK, InTree, Key
<1>2. /\ r \in [Node -> [Key -> Setting]]
      /\ Registered(r) = Registered(replication_visibility) \cup {n}
      /\ \A m \in Node \ {n} : r[m] = replication_visibility[m]
  BY <1>1, ChangeSettings, WithNodeShape
<1>3. CacheLooked(n, q) \in [Node -> [Peer -> Setting]]
  BY <1>1 DEF CacheLooked, Filled, Setting
<1>4. c2 \in [Node -> [Peer -> Setting]]
  BY <1>3 DEF CacheCleared, Cleared, Setting
<1>5. /\ replication_visibility' = r
      /\ visibility_cache' = Filled(r, c2, D, Targets(q))
      /\ cached' = LET kept == IF q = Server THEN KeysLooked(n, q) \ Affected(n, q)
                                             ELSE KeysLooked(n, q)
                   IN  IF Targets(q) = {} THEN kept ELSE kept \cup D
  BY DEF Change
<1>6. \A p \in Peer : told'[p] =
        IF p \in Targets(q) \cap conn
          THEN Updated(r, told[p], After(n, q, v, p) \ Before(n, p),
                                   Before(n, p) \ After(n, q, v, p))
          ELSE told[p]
  BY DEF Change, After
<1>7. InTree' = InTree /\ \A m \in Node : anc'[m] = anc[m]
  BY DEF InTree
<1>8. \A p \in conn, m \in Node :
        TrueVisibility(replication_visibility, m, p)' = TrueVisibility(r, m, p)
  BY <1>5, <1>7 DEF TrueVisibility, Open, Registered, Shows
<1>9. TypeOK'
  <2>1. visibility_cache' \in [Node -> [Peer -> Setting]]
    BY <1>4, <1>5 DEF Filled, Setting
  <2>2. cached' \subseteq Node
    BY <1>5 DEF KeysLooked, Below, IInv, TypeOK
  <2>3. told' \in [Peer -> SUBSET Node]
    BY DEF Change, Updated, IInv, TypeOK
  <2> QED BY <1>2, <1>5, <2>1, <2>2, <2>3 DEF TypeOK, IInv, Consumes
<1>10. Shape'
  <2>1. Registered(replication_visibility)' = Registered(replication_visibility) \cup {n}
    BY <1>2, <1>5 DEF Registered
  <2>2. \A m \in Node \ InTree : replication_visibility'[m] = replication_visibility[m]
    BY <1>1, <1>2, <1>5
  <2>3. \A m \in InTree : m \in anc'[m]
          /\ \A a \in anc'[m] : a \in anc'[a] /\ anc'[a] \subseteq anc'[m]
    BY <1>7 DEF IInv, Shape
  <2>4. \A m \in Node : SceneOf[m] \in InTree' <=> m \in InTree'
    BY <1>7 DEF IInv, Shape
  <2>5. \A m \in InTree : anc'[m] = anc'[SceneOf[m]] \cup {m}
    BY <1>7 DEF IInv, Shape
  <2>6. \A m \in InTree : SceneOf[m] = m \/ pend'[m] # NoCalls =>
          m \in Registered(replication_visibility)'
    <3>1. InTree \subseteq Node
      BY DEF InTree
    <3> QED BY <2>1, <3>1 DEF IInv, Shape, Consumes
  <2>7. \A m \in Node \ InTree : \A k \in Key : replication_visibility'[m][k] = "unset"
    BY <2>2 DEF IInv, Shape
  <2> QED BY <1>7, <2>3, <2>4, <2>5, <2>6, <2>7 DEF Shape
<1>11. Absent'
  <2>1. cached' \subseteq InTree
    BY <1>5 DEF KeysLooked, Below, InTree, IInv, Absent
  <2>2. \A m \in Node, p \in Peer : visibility_cache'[m][p] =
          IF m \in D /\ p \in Targets(q)
            THEN IF Lookup(r, c2, m, p) THEN "show" ELSE "hide" ELSE c2[m][p]
    BY <1>5 DEF Filled
  <2>3. \A m \in Node, p \in Peer : c2[m][p] =
          IF m \in Affected(n, q) /\ p \in Forgotten(q)
            THEN "unset" ELSE CacheLooked(n, q)[m][p]
    BY DEF CacheCleared, Cleared
  <2>4. \A m \in Node, p \in Peer : CacheLooked(n, q)[m][p] # "unset" =>
          visibility_cache[m][p] # "unset" \/ (m \in D /\ p \in Targets(q))
    BY <1>1, <1>2, WithNodeShape DEF CacheLooked, Filled
  <2>5. \A m \in Node : \A p \in Peer : m \notin cached' => visibility_cache'[m][p] = "unset"
    <3> SUFFICES ASSUME NEW m \in Node, NEW p \in Peer, m \notin cached',
                        visibility_cache'[m][p] # "unset"
                 PROVE  FALSE
      OBVIOUS
    <3>1. ~(m \in D /\ p \in Targets(q))
      BY <1>5
    <3>2. c2[m][p] # "unset"
      BY <2>2, <3>1
    <3>3. visibility_cache[m][p] # "unset"
      BY <2>3, <2>4, <3>1, <3>2
    <3>4. m \in cached
      BY <3>3 DEF IInv, Absent
    <3>5. m \in KeysLooked(n, q)
      BY <3>4 DEF KeysLooked
    <3>6. q = Server /\ m \in Affected(n, q)
      BY <1>5, <3>5
    <3>7. p \in Forgotten(q)
      BY <3>6 DEF Forgotten
    <3> QED BY <2>3, <3>2, <3>6, <3>7
  <2>6. \A m \in Node : \A p \in Peer \ (conn \cup gone) : visibility_cache'[m][p] = "unset"
    <3> TAKE m \in Node
    <3> TAKE p \in Peer \ (conn \cup gone)
    <3>1. p \notin Targets(q)
      BY ServerAssumption DEF Targets
    <3>2. visibility_cache[m][p] = "unset"
      BY DEF IInv, Absent
    <3> QED BY <2>2, <2>3, <2>4, <3>1, <3>2
  <2>7. \A p \in Peer \ conn : told'[p] = {}
    BY <1>6 DEF IInv, Absent
  <2> QED BY <1>7, <2>1, <2>5, <2>6, <2>7 DEF Absent, Consumes
<1>12. CacheCoherent'
  <2>1. \A p \in conn : Coherent(r, visibility_cache', p)
    <3> TAKE p \in conn
    <3>1. Coherent(r, c2, p)
      BY AfterChange
    <3> QED BY <1>1, <1>4, <1>5, <3>1, FilledCoherent
  <2> QED BY <1>8, <2>1 DEF CacheCoherent, Coherent
<1>13. ToldIsVisible'
  <2>1. \A p \in conn : told'[p] = {m \in InTree : TrueVisibility(r, m, p)}
    <3> TAKE p \in conn
    <3>1. CASE p \in Targets(q)
      <4>1. Updated(r, told[p], After(n, q, v, p) \ Before(n, p),
                                Before(n, p) \ After(n, q, v, p))
              = {m \in InTree : TrueVisibility(r, m, p)}
        BY <3>1, ChangeIsExact
      <4> QED BY <1>1, <1>6, <3>1, <4>1
    <3>2. CASE p \notin Targets(q)
      <4>1. q \notin {Server, p}
        BY <3>2 DEF Targets
      <4>2. \A m \in InTree : TrueVisibility(r, m, p) = TrueVisibility(WithNode(n), m, p)
        BY <4>1, PutVisibility
      <4>3. told'[p] = told[p]
        BY <1>1, <1>6, <3>2
      <4>4. told[p] = {m \in InTree : TrueVisibility(WithNode(n), m, p)}
        BY BeforeChange
      <4> QED BY <4>2, <4>3, <4>4
    <3> QED BY <3>1, <3>2
  <2> QED BY <1>7, <1>8, <2>1 DEF ToldIsVisible, InTree
<1>14. Linear'
  BY <1>7 DEF IInv, Linear
<1> QED BY <1>9, <1>10, <1>11, <1>12, <1>13, <1>14 DEF IInv

-----------------------------------------------------------------------------
(* The other actions keep the invariant.                                   *)

LEMMA SameVisibility ==
  ASSUME UNCHANGED <<anc, replication_visibility>>
  PROVE  /\ InTree' = InTree
         /\ \A m, p : TrueVisibility(replication_visibility, m, p)'
                      = TrueVisibility(replication_visibility, m, p)
BY DEF InTree, TrueVisibility, Open, Registered, Shows

LEMMA InitInvariant == Init => IInv
<1> SUFFICES ASSUME Init PROVE IInv
  OBVIOUS
<1>1. TypeOK
  BY DEF Init, TypeOK, NoCalls, Setting
<1>2. InTree = {}
  BY DEF Init, InTree
<1>3. Shape
  BY <1>2, SceneAssumption DEF Init, Shape
<1>4. Absent
  BY DEF Init, Absent, NoCalls
<1> QED BY <1>1, <1>2, <1>3, <1>4 DEF Init, IInv, Linear, CacheCoherent, ToldIsVisible

LEMMA DeferInvariant ==
  ASSUME IInv, NEW n \in Node, NEW q \in Key, NEW v \in {"show", "hide"}, Defer(n, q, v)
  PROVE  IInv'
<1>1. <<q, v>> \in Call
  BY DEF Call
<1>2. \A m \in Node : pend[m] \in Seq(Call)
  BY DEF IInv, TypeOK
<1>3. pend' = [pend EXCEPT ![n] = Append(pend[n], <<q, v>>)]
  BY DEF Defer
<1>4. pend' \in [Node -> Seq(Call)]
  BY <1>1, <1>2, <1>3 DEF IInv, TypeOK
<1>5. \A m \in Node : m # n => pend'[m] = pend[m]
  BY <1>3 DEF IInv, TypeOK
<1>6. \A i \in DOMAIN pend'[n] : pend'[n][i][1] \in {Server} \cup conn \cup gone
  <2>1. pend'[n] = Append(pend[n], <<q, v>>)
    BY <1>3 DEF IInv, TypeOK
  <2>2. \A i \in DOMAIN pend[n] : pend[n][i][1] \in {Server} \cup conn \cup gone
    BY DEF IInv, Absent
  <2>3. q \in {Server} \cup conn \cup gone
    BY DEF Defer
  <2>4. \A i \in DOMAIN pend'[n] : (i \in DOMAIN pend[n] /\ pend'[n][i] = pend[n][i])
                                    \/ pend'[n][i] = <<q, v>>
    BY <1>1, <1>2, <2>1
  <2> QED BY <2>2, <2>3, <2>4
<1> USE DEF Defer
<1>7. InTree' = InTree
  BY DEF InTree
<1>8. TypeOK'
  BY <1>4 DEF IInv, TypeOK
<1>9. Shape'
  <2>1. Registered(replication_visibility)' = Registered(replication_visibility)
    BY DEF Registered
  <2>2. \A m \in InTree : m \in Node /\ pend'[m] = pend[m]
    BY <1>5 DEF InTree
  <2> QED BY <1>7, <2>1, <2>2 DEF IInv, Shape
<1>10. Absent'
  BY <1>5, <1>6, <1>7 DEF IInv, Absent
<1>11. CacheCoherent' /\ ToldIsVisible'
  BY SameVisibility DEF IInv, CacheCoherent, ToldIsVisible
<1>12. Linear'
  BY <1>7 DEF IInv, Linear
<1> QED BY <1>8, <1>9, <1>10, <1>11, <1>12 DEF IInv

LEMMA ReadyInvariant ==
  ASSUME IInv, NEW n \in Node, Ready(n)
  PROVE  IInv'
<1> DEFINE q == Head(pend[n])[1]
           v == Head(pend[n])[2]
<1>1. pend[n] \in Seq(Call) /\ pend[n] # << >> /\ pend \in [Node -> Seq(Call)]
  BY DEF IInv, TypeOK, Ready, NoCalls
<1>2. Head(pend[n]) \in Call /\ Head(pend[n]) = pend[n][1] /\ 1 \in DOMAIN pend[n]
  BY <1>1
<1>3. v \in {"show", "hide"} /\ q \in {Server} \cup conn \cup gone
  BY <1>2 DEF Call, IInv, Absent
<1>4. LegalChange(n, q, v)
  <2>1. n \in Registered(replication_visibility)
    BY DEF Ready, IInv, Shape
  <2> QED BY <1>3, <2>1 DEF LegalChange, MayRegister, Ready, Setting
<1>5. pend' = [pend EXCEPT ![n] = Tail(pend[n])]
  BY DEF Ready
<1>6. Consumes
  <2>1. Tail(pend[n]) \in Seq(Call)
    BY <1>1
  <2>2. \A i \in DOMAIN Tail(pend[n]) : i + 1 \in DOMAIN pend[n] /\ Tail(pend[n])[i] = pend[n][i + 1]
    BY <1>1
  <2>3. \A i \in DOMAIN Tail(pend[n]) : Tail(pend[n])[i][1] \in {Server} \cup conn \cup gone
    BY <2>2 DEF IInv, Absent
  <2> QED BY <1>1, <1>5, <2>1, <2>3 DEF Consumes, NoCalls, IInv, Absent
<1> QED BY <1>4, <1>6, ChangeInvariant DEF Ready

LEMMA SetterInvariant ==
  ASSUME IInv, NEW n \in Node, NEW q, NEW v, q \in {Server} \cup conn \cup gone,
         v \in Setting, q = Server => v # "unset", n \in InTree, MayRegister(n),
         Change(n, q, v), UNCHANGED <<anc, pend, conn, gone>>
  PROVE  IInv'
<1>1. LegalChange(n, q, v)
  BY DEF LegalChange
<1>2. Consumes
  BY DEF Consumes, IInv, TypeOK, Absent
<1> QED BY <1>1, <1>2, ChangeInvariant

LEMMA GetObservingPeersInvariant ==
  ASSUME IInv, NEW n \in Node, GetObservingPeers(n)
  PROVE  IInv'
<1> USE DEF GetObservingPeers
<1>1. InTree' = InTree
  BY DEF InTree
<1>2. visibility_cache \in [Node -> [Peer -> Setting]] /\ conn \subseteq Peer
  BY DEF IInv, TypeOK
<1>3. TypeOK'
  BY DEF IInv, TypeOK, Filled, Setting
<1>4. Shape'
  BY <1>1 DEF IInv, Shape, Registered
<1>5. Absent'
  <2>1. \A m \in Node, p \in Peer : m # n \/ p \notin conn =>
          visibility_cache'[m][p] = visibility_cache[m][p]
    BY DEF Filled
  <2>2. cached' \subseteq InTree'
    BY <1>1 DEF IInv, Absent
  <2>3. \A m \in Node \ cached' : \A p \in Peer : visibility_cache'[m][p] = "unset"
    <3> TAKE m \in Node \ cached'
    <3> TAKE p \in Peer
    <3>1. m \notin cached /\ m # n
      OBVIOUS
    <3>2. visibility_cache'[m][p] = visibility_cache[m][p]
      BY <2>1, <3>1
    <3> QED BY <3>1, <3>2 DEF IInv, Absent
  <2>4. \A m \in Node : \A p \in Peer \ (conn \cup gone) : visibility_cache'[m][p] = "unset"
    <3> TAKE m \in Node
    <3> TAKE p \in Peer \ (conn \cup gone)
    <3>1. visibility_cache'[m][p] = visibility_cache[m][p]
      BY <2>1
    <3>2. visibility_cache[m][p] = "unset"
      BY DEF IInv, Absent
    <3> QED BY <3>1, <3>2
  <2> QED BY <2>2, <2>3, <2>4 DEF IInv, Absent
<1>6. CacheCoherent'
  <2>1. \A p \in conn : Coherent(replication_visibility, visibility_cache', p)
    BY <1>2, CoherentEquiv, FilledCoherent
  <2> QED BY <2>1, SameVisibility DEF CacheCoherent, Coherent
<1>7. ToldIsVisible'
  BY <1>1, SameVisibility DEF IInv, ToldIsVisible
<1>8. Linear'
  BY <1>1 DEF IInv, Linear
<1> QED BY <1>3, <1>4, <1>5, <1>6, <1>7, <1>8 DEF IInv

\* The visibility of a node depends on its path and on the settings along it.
LEMMA VisibilityAlong ==
  ASSUME NEW m \in Node, NEW p \in Peer, anc[m] \subseteq Node, anc'[m] = anc[m],
         \A a \in anc[m] :
            /\ replication_visibility'[a][Server] = replication_visibility[a][Server]
            /\ replication_visibility'[a][p] = replication_visibility[a][p]
  PROVE  TrueVisibility(replication_visibility, m, p)'
           = TrueVisibility(replication_visibility, m, p)
BY DEF TrueVisibility, Open, Registered, Shows

LEMMA EnterTreeInvariant ==
  ASSUME IInv, NEW n \in Node, NEW above \in Paths, EnterTree(n, above)
  PROVE  IInv'
<1> DEFINE hidden == {m \in Node : SceneOf[m] = n /\ pend[m] # NoCalls}
<1>1. /\ n \in Node /\ SceneOf[n] = n /\ n \notin InTree /\ n \in hidden
      /\ anc \in [Node -> SUBSET Node] /\ conn \subseteq Peer /\ Server \in Key
      /\ \A p \in conn : p \in Key /\ p # Server
  BY ServerAssumption DEF EnterTree, Roots, IInv, TypeOK, Key
<1>2. above \subseteq InTree /\ \A a \in above : a \in anc[a] /\ anc[a] \subseteq above
  <2>1. \A k \in InTree : anc[k] \subseteq InTree
          /\ \A a \in anc[k] : a \in anc[a] /\ anc[a] \subseteq anc[k]
    BY <1>1 DEF IInv, Shape, InTree
  <2> QED BY <2>1 DEF Paths
<1>3. \A m \in Node : SceneOf[m] = n => m \notin InTree
  BY <1>1 DEF IInv, Shape
<1>4. \A m \in Node : anc'[m] = IF SceneOf[m] = n THEN above \cup {n, m} ELSE anc[m]
  BY DEF EnterTree
<1>5. InTree' = InTree \cup {m \in Node : SceneOf[m] = n}
  BY <1>4 DEF InTree
<1>6. \A m \in Node, q \in Key : replication_visibility'[m][q] =
        IF m \in hidden THEN IF q = Server THEN "hide" ELSE "unset"
                        ELSE replication_visibility[m][q]
  BY DEF EnterTree
<1>7. \A m \in Node, p \in Peer : visibility_cache'[m][p] =
        IF m \in hidden /\ p \in conn THEN "hide" ELSE visibility_cache[m][p]
  BY DEF EnterTree
<1>8. \A m \in InTree : m \in Node /\ m \notin hidden /\ anc'[m] = anc[m] /\ anc[m] \subseteq InTree
  <2> TAKE m \in InTree
  <2>1. m \in Node /\ SceneOf[m] # n
    BY <1>3 DEF InTree
  <2>2. anc[m] \subseteq InTree
    BY <1>1, <2>1 DEF IInv, Shape, InTree
  <2> QED BY <1>4, <2>1, <2>2
<1>9. \A m \in Node : SceneOf[m] = n =>
        anc'[m] = above \cup {n, m} /\ anc'[n] = above \cup {n}
  BY <1>1, <1>4
<1>10. \A m \in InTree, p \in conn : TrueVisibility(replication_visibility, m, p)'
                                    = TrueVisibility(replication_visibility, m, p)
  <2> TAKE m \in InTree, p \in conn
  <2>1. \A a \in anc[m] : a \in Node /\ a \notin hidden
    BY <1>8
  <2> QED BY <1>1, <1>6, <1>8, <2>1, VisibilityAlong
<1>11. \A m \in Node, p \in conn : SceneOf[m] = n =>
         ~TrueVisibility(replication_visibility, m, p)'
  <2> SUFFICES ASSUME NEW m \in Node, NEW p \in conn, SceneOf[m] = n
               PROVE  ~TrueVisibility(replication_visibility, m, p)'
    OBVIOUS
  <2>1. replication_visibility'[n][Server] = "hide" /\ replication_visibility'[n][p] = "unset"
    BY <1>1, <1>6
  <2>2. n \in anc'[m]
    BY <1>9
  <2> QED BY <2>1, <2>2 DEF TrueVisibility, Open, Registered, Shows
<1>12. TypeOK'
  <2>1. anc' \in [Node -> SUBSET Node]
    BY <1>1, <1>2 DEF EnterTree, InTree
  <2>2. replication_visibility' \in [Node -> [Key -> Setting]]
    BY DEF EnterTree, IInv, TypeOK, Setting
  <2>3. visibility_cache' \in [Node -> [Peer -> Setting]]
    BY DEF EnterTree, IInv, TypeOK, Setting
  <2>4. cached' \subseteq Node
    BY DEF EnterTree, IInv, TypeOK
  <2> QED BY <2>1, <2>2, <2>3, <2>4 DEF EnterTree, IInv, TypeOK
<1>13. Shape'
  <2>1. \A m \in InTree' : m \in anc'[m] /\ \A a \in anc'[m] : a \in anc'[a] /\ anc'[a] \subseteq anc'[m]
    <3> TAKE m \in InTree'
    <3>1. CASE m \in InTree
      BY <1>8, <3>1 DEF IInv, Shape
    <3>2. CASE m \notin InTree
      <4>1. m \in Node /\ SceneOf[m] = n /\ anc'[m] = above \cup {n, m} /\ anc'[n] = above \cup {n}
        BY <1>5, <1>9, <3>2
      <4>2. \A a \in above : anc'[a] = anc[a]
        BY <1>2, <1>8
      <4> QED BY <1>2, <4>1, <4>2
    <3> QED BY <3>1, <3>2
  <2>2. \A m \in Node : SceneOf[m] \in InTree' <=> m \in InTree'
    BY <1>1, <1>5, SceneAssumption DEF IInv, Shape
  <2>3. \A m \in InTree' : anc'[m] = anc'[SceneOf[m]] \cup {m}
    <3> TAKE m \in InTree'
    <3>1. CASE m \in InTree
      BY <1>8, <3>1 DEF IInv, Shape
    <3>2. CASE m \notin InTree
      BY <1>5, <1>9, <3>2
    <3> QED BY <3>1, <3>2
  <2>4. \A m \in InTree' : SceneOf[m] = m \/ pend'[m] # NoCalls =>
          m \in Registered(replication_visibility)'
    <3> SUFFICES ASSUME NEW m \in InTree', SceneOf[m] = m \/ pend'[m] # NoCalls
                 PROVE  m \in Node /\ replication_visibility'[m][Server] # "unset"
      BY DEF Registered
    <3>1. CASE m \in InTree
      <4>1. m \in Registered(replication_visibility)
        BY <3>1 DEF EnterTree, IInv, Shape
      <4> QED BY <1>1, <1>6, <1>8, <3>1, <4>1 DEF Registered
    <3>2. CASE m \notin InTree
      <4>1. m \in hidden
        BY <1>1, <1>5, <3>2 DEF EnterTree
      <4> QED BY <1>1, <1>6, <4>1
    <3> QED BY <3>1, <3>2
  <2>5. \A m \in Node \ InTree' : \A q \in Key : replication_visibility'[m][q] = "unset"
    BY <1>5, <1>6 DEF IInv, Shape
  <2> QED BY <2>1, <2>2, <2>3, <2>4, <2>5 DEF Shape
<1>14. Linear'
  <2> SUFFICES ASSUME NEW m \in InTree', NEW a \in anc'[m], NEW b \in anc'[m]
               PROVE  (m \in anc'[a] => a = m) /\ (a \in anc'[b] \/ b \in anc'[a])
    BY DEF Linear
  <2>1. CASE m \in InTree
    BY <1>8, <2>1 DEF IInv, Linear
  <2>2. CASE m \notin InTree
    <3>1. m \in Node /\ SceneOf[m] = n /\ anc'[m] = above \cup {n, m} /\ anc'[n] = above \cup {n}
      BY <1>5, <1>9, <2>2
    <3>2. \A x \in above : anc'[x] = anc[x] /\ anc[x] \subseteq InTree
      BY <1>2, <1>8
    <3>3. \A x, y \in above : x \in anc'[y] \/ y \in anc'[x]
      BY <1>2, <1>8 DEF Paths, IInv, Linear
    <3> QED BY <1>1, <1>2, <2>2, <3>1, <3>2, <3>3
  <2> QED BY <2>1, <2>2
<1>15. Absent'
  <2>1. hidden \subseteq InTree'
    BY <1>5
  <2>2. cached' = IF conn = {} THEN cached ELSE cached \cup hidden
    BY DEF EnterTree
  <2>3. cached' \subseteq InTree'
    BY <1>5, <2>1, <2>2 DEF IInv, Absent
  <2>4. \A m \in Node : \A p \in Peer : m \notin cached' => visibility_cache'[m][p] = "unset"
    BY <1>7, <2>2 DEF IInv, Absent
  <2>5. \A m \in Node : \A p \in Peer \ (conn \cup gone) : visibility_cache'[m][p] = "unset"
    BY <1>7 DEF IInv, Absent
  <2> QED BY <2>3, <2>4, <2>5 DEF EnterTree, IInv, Absent
<1>16. CacheCoherent'
  <2> SUFFICES ASSUME NEW m \in Node, NEW p \in conn, visibility_cache'[m][p] # "unset"
               PROVE  (visibility_cache'[m][p] = "show") = TrueVisibility(replication_visibility, m, p)'
    BY DEF EnterTree, CacheCoherent
  <2>1. CASE m \in hidden
    <3>1. visibility_cache'[m][p] = "hide" /\ ~TrueVisibility(replication_visibility, m, p)'
      BY <1>1, <1>7, <1>11, <2>1
    <3>2. TrueVisibility(replication_visibility, m, p)' \in BOOLEAN
      BY DEF TrueVisibility, Open
    <3> QED BY <3>1, <3>2
  <2>2. CASE m \notin hidden
    <3>1. visibility_cache'[m][p] = visibility_cache[m][p]
      BY <1>1, <1>7, <2>2
    <3>2. m \in InTree
      BY <1>1, <3>1 DEF IInv, Absent
    <3> QED BY <1>10, <3>1, <3>2 DEF IInv, CacheCoherent
  <2> QED BY <2>1, <2>2
<1>17. ToldIsVisible'
  <2> SUFFICES ASSUME NEW p \in conn
               PROVE  told[p] = {m \in InTree' : TrueVisibility(replication_visibility, m, p)'}
    BY DEF EnterTree, ToldIsVisible
  <2>1. told[p] = {m \in InTree : TrueVisibility(replication_visibility, m, p)}
    BY DEF IInv, ToldIsVisible
  <2>2. InTree \subseteq Node
    BY DEF InTree
  <2> QED BY <1>5, <1>10, <1>11, <2>1, <2>2
<1> QED BY <1>12, <1>13, <1>14, <1>15, <1>16, <1>17 DEF IInv

LEMMA ConnectInvariant ==
  ASSUME IInv, NEW p \in Peer, Connect(p)
  PROVE  IInv'
<1> DEFINE r   == replication_visibility
           all == Registered(r)
           new == {n \in all : Lookup(r, visibility_cache, n, p)}
<1>1. /\ visibility_cache \in [Node -> [Peer -> Setting]] /\ conn \subseteq Peer
      /\ p \notin conn \cup gone /\ conn' = conn \cup {p} /\ all \subseteq Node
      /\ UNCHANGED <<anc, pend, replication_visibility, gone>>
  BY DEF Connect, IInv, TypeOK, Registered
<1>2. InTree' = InTree /\ InTree \subseteq Node
  BY <1>1 DEF InTree
<1>3. all \subseteq InTree
  BY DEF Registered, IInv, Shape, Key
<1>4. \A m \in Node : visibility_cache[m][p] = "unset"
  BY <1>1 DEF IInv, Absent
<1>5. \A m \in Node : Lookup(r, visibility_cache, m, p) = TrueVisibility(r, m, p)
  BY <1>4 DEF Lookup
<1>6. visibility_cache' = Filled(r, visibility_cache, all, {p})
      /\ cached' = cached \cup all
      /\ told' = [told EXCEPT ![p] = Updated(r, {}, new, {})]
  BY DEF Connect
<1>7. \A m \in Node, x \in Peer : (m \notin all \/ x # p) =>
        visibility_cache'[m][x] = visibility_cache[m][x]
  BY <1>6 DEF Filled
<1>8. Updated(r, {}, new, {}) = {m \in InTree : TrueVisibility(r, m, p)}
  <2>1. \A m \in Node : m \in Updated(r, {}, new, {}) <=>
          m \in new \/ (m \in InTree \ all /\ SceneOf[m] \in new)
    BY DEF Updated
  <2>2. \A m \in all : m \in InTree /\ (m \in new <=> TrueVisibility(r, m, p))
    BY <1>1, <1>3, <1>5
  <2>3. \A m \in InTree \ all : SceneOf[m] \in new <=> TrueVisibility(r, m, p)
    <3> TAKE m \in InTree \ all
    <3>1. /\ SceneOf[m] \in InTree /\ SceneOf[m] \in all
          /\ anc[m] = anc[SceneOf[m]] \cup {m}
      BY <1>2, SceneAssumption DEF IInv, Shape
    <3>2. TrueVisibility(r, m, p) = TrueVisibility(r, SceneOf[m], p)
      BY <3>1 DEF TrueVisibility, Open
    <3> QED BY <2>2, <3>1, <3>2
  <2>4. Updated(r, {}, new, {}) \subseteq Node
    BY DEF Updated
  <2>5. \A m \in Node : m \in Updated(r, {}, new, {}) <=> m \in InTree /\ TrueVisibility(r, m, p)
    <3> HIDE DEF new, all, r
    <3> TAKE m \in Node
    <3>1. CASE m \in all
      BY <1>3, <2>1, <2>2, <3>1
    <3>2. CASE m \notin all /\ m \in InTree
      <4>1. m \notin new
        BY <3>2 DEF new
      <4>2. m \in Updated(r, {}, new, {}) <=> SceneOf[m] \in new
        BY <2>1, <3>2, <4>1
      <4> QED BY <2>3, <3>2, <4>2
    <3>3. CASE m \notin InTree
      <4>1. m \notin new
        BY <1>3, <3>3 DEF new
      <4> QED BY <2>1, <3>3, <4>1
    <3> QED BY <3>1, <3>2, <3>3
  <2> QED BY <1>2, <2>4, <2>5
<1>9. TypeOK'
  <2>1. visibility_cache' \in [Node -> [Peer -> Setting]]
    BY <1>1, <1>6 DEF Filled, Setting
  <2>2. cached' \subseteq Node
    BY <1>1, <1>6 DEF IInv, TypeOK
  <2>3. Updated(r, {}, new, {}) \subseteq Node
    BY DEF Updated
  <2>4. told' \in [Peer -> SUBSET Node]
    BY <1>6, <2>3 DEF IInv, TypeOK
  <2> QED BY <1>1, <2>1, <2>2, <2>4 DEF IInv, TypeOK
<1>10. Shape' /\ Linear'
  <2>1. Registered(replication_visibility)' = Registered(replication_visibility)
    BY <1>1 DEF Registered
  <2> QED BY <1>1, <1>2, <2>1 DEF IInv, Shape, Linear
<1>11. Absent'
  <2>1. cached' \subseteq InTree'
    BY <1>2, <1>3, <1>6 DEF IInv, Absent
  <2>2. \A m \in Node : \A x \in Peer : m \notin cached' => visibility_cache'[m][x] = "unset"
    BY <1>6, <1>7, ZenonT(30) DEF IInv, Absent
  <2>3. \A m \in Node : \A x \in Peer : x \notin conn' \cup gone' => visibility_cache'[m][x] = "unset"
    BY <1>1, <1>7 DEF IInv, Absent
  <2>4. \A x \in Peer : x \notin conn' => told'[x] = {}
    BY <1>1, <1>6 DEF IInv, Absent, TypeOK
  <2> QED BY <1>1, <2>1, <2>2, <2>3, <2>4 DEF IInv, Absent
<1>12. CacheCoherent'
  <2>1. \A x \in conn' : x \in Peer /\ Coherent(r, visibility_cache, x)
    BY <1>1, <1>4, CoherentEquiv DEF Coherent
  <2>2. \A x \in conn' : Coherent(r, visibility_cache', x)
    BY <1>1, <1>6, <2>1, FilledCoherent
  <2> QED BY <1>1, <2>2, SameVisibility DEF CacheCoherent, Coherent
<1>13. ToldIsVisible'
  <2> SUFFICES ASSUME NEW x \in conn'
               PROVE  told'[x] = {m \in InTree : TrueVisibility(r, m, x)}
    BY <1>1, <1>2, SameVisibility DEF ToldIsVisible
  <2>1. CASE x = p
    BY <1>6, <1>8, <2>1 DEF IInv, TypeOK
  <2>2. CASE x # p
    BY <1>1, <1>6, <2>2 DEF IInv, TypeOK, ToldIsVisible
  <2> QED BY <2>1, <2>2
<1> QED BY <1>9, <1>10, <1>11, <1>12, <1>13 DEF IInv

LEMMA DisconnectInvariant ==
  ASSUME IInv, NEW p \in Peer, Disconnect(p)
  PROVE  IInv'
<1>1. /\ visibility_cache \in [Node -> [Peer -> Setting]] /\ conn \subseteq Peer
      /\ replication_visibility \in [Node -> [Key -> Setting]]
      /\ conn' = conn \ {p} /\ gone' = gone \cup {p}
      /\ anc' = anc /\ pend' = pend /\ cached' = cached
      /\ told' = [told EXCEPT ![p] = {}]
  BY DEF Disconnect, IInv, TypeOK
<1>2. InTree' = InTree /\ InTree \subseteq Node
  BY <1>1 DEF InTree
<1>3. p \in Key /\ Server \in Key /\ p # Server /\ "unset" \in Setting
      /\ \A x \in conn : x \in Key
  BY <1>1, ServerAssumption DEF Key, Setting
<1>4. \A m \in Node, q \in Key : replication_visibility'[m][q] =
        IF q = p THEN "unset" ELSE replication_visibility[m][q]
  BY <1>1, <1>3 DEF Disconnect
<1>5. \A m \in Node, x \in Peer : visibility_cache'[m][x] =
        IF x = p THEN "unset" ELSE visibility_cache[m][x]
  BY <1>1 DEF Disconnect
<1>6. Registered(replication_visibility)' = Registered(replication_visibility)
  BY <1>3, <1>4 DEF Registered
<1>7. \A m \in Node, x \in conn' : TrueVisibility(replication_visibility, m, x)'
                                  = TrueVisibility(replication_visibility, m, x)
  <2> TAKE m \in Node, x \in conn'
  <2>1. \A a \in anc[m] : a \in Node
    BY DEF IInv, TypeOK
  <2>2. x \in Peer /\ x # p /\ x \in Key
    BY <1>1, <1>3
  <2>3. \A a \in anc[m] :
          /\ replication_visibility'[a][Server] = replication_visibility[a][Server]
          /\ replication_visibility'[a][x] = replication_visibility[a][x]
    BY <1>3, <1>4, <2>1, <2>2
  <2> QED BY <1>1, <2>1, <2>2, <2>3, VisibilityAlong
<1>8. TypeOK'
  <2>1. replication_visibility' \in [Node -> [Key -> Setting]]
    BY <1>1, <1>3 DEF Disconnect
  <2>2. visibility_cache' \in [Node -> [Peer -> Setting]]
    BY <1>1, <1>3 DEF Disconnect
  <2> QED BY <1>1, <2>1, <2>2 DEF IInv, TypeOK
<1>9. Shape' /\ Linear'
  BY <1>1, <1>2, <1>4, <1>6 DEF IInv, Shape, Linear
<1>10. Absent'
  <2>1. \A m \in Node : \A x \in Peer : m \notin cached' => visibility_cache'[m][x] = "unset"
    BY <1>1, <1>5 DEF IInv, Absent
  <2>2. \A m \in Node : \A x \in Peer : x \notin conn' \cup gone' => visibility_cache'[m][x] = "unset"
    BY <1>1, <1>5 DEF IInv, Absent
  <2>3. \A x \in Peer : x \notin conn' => told'[x] = {}
    BY <1>1 DEF IInv, Absent, TypeOK
  <2> QED BY <1>1, <1>2, <2>1, <2>2, <2>3 DEF IInv, Absent
<1>11. CacheCoherent'
  <2> SUFFICES ASSUME NEW m \in Node, NEW x \in conn', visibility_cache'[m][x] # "unset"
               PROVE  (visibility_cache'[m][x] = "show") = TrueVisibility(replication_visibility, m, x)'
    BY DEF CacheCoherent
  <2>1. x \in conn /\ x \in Peer /\ x # p
    BY <1>1
  <2>2. visibility_cache'[m][x] = visibility_cache[m][x]
    BY <1>5, <2>1
  <2> QED BY <1>7, <2>1, <2>2 DEF IInv, CacheCoherent
<1>12. ToldIsVisible'
  <2> SUFFICES ASSUME NEW x \in conn'
               PROVE  told'[x] = {m \in InTree : TrueVisibility(replication_visibility, m, x)'}
    BY <1>2 DEF ToldIsVisible
  <2>1. x \in conn /\ x # p /\ told'[x] = told[x]
    BY <1>1 DEF IInv, TypeOK
  <2>2. told[x] = {m \in InTree : TrueVisibility(replication_visibility, m, x)}
    BY <2>1 DEF IInv, ToldIsVisible
  <2> QED BY <1>2, <1>7, <2>1, <2>2
<1> QED BY <1>8, <1>9, <1>10, <1>11, <1>12 DEF IInv

\* A scene is in the subtree of n exactly when the nodes packed in it are.
LEMMA WholeScenes ==
  ASSUME IInv, NEW n \in Roots \cap InTree
  PROVE  /\ \A m \in Node : SceneOf[m] \in Below(n) <=> m \in Below(n)
         /\ \A m \in Below(n) : m \in InTree
         /\ \A m \in Node \ Below(n) : \A a \in anc[m] : a \notin Below(n)
<1>1. n \in Node /\ SceneOf[n] = n /\ n \in anc[n] /\ SceneOf \in [Node -> Node]
  BY SceneAssumption DEF Roots, InTree, IInv, Shape
<1>2. \A m \in Node : SceneOf[m] \in Below(n) <=> m \in Below(n)
  <2> TAKE m \in Node
  <2>1. CASE m \in InTree
    BY <1>1, <2>1 DEF IInv, Shape, Below
  <2>2. CASE m \notin InTree
    <3>1. SceneOf[m] \notin InTree /\ SceneOf[m] \in Node
      BY <1>1, <2>2 DEF IInv, Shape
    <3> QED BY <2>2, <3>1 DEF Below, InTree
  <2> QED BY <2>1, <2>2
<1>3. \A m \in Below(n) : m \in InTree
  BY DEF Below, InTree
<1>4. \A m \in Node \ Below(n) : \A a \in anc[m] : a \notin Below(n)
  BY DEF Below, InTree, IInv, Shape
<1> QED BY <1>2, <1>3, <1>4

LEMMA FreeInvariant ==
  ASSUME IInv, NEW n \in Node, Free(n)
  PROVE  IInv'
<1> DEFINE dead == Below(n)
           removed(p) == {m \in dead \cap Registered(replication_visibility) :
                            Lookup(WhenFreed(n, m), visibility_cache, m, p)}
<1>1. /\ n \in Roots \cap InTree /\ n \in dead /\ dead \subseteq Node
      /\ pend' = pend /\ conn' = conn /\ gone' = gone /\ cached' = cached \ dead
      /\ conn \subseteq Peer /\ anc \in [Node -> SUBSET Node]
      /\ \A m \in Node \ dead : \A a \in anc[m] : a \notin dead
      /\ \A m \in Node : SceneOf[m] \in dead <=> m \in dead
  BY WholeScenes DEF Free, Below, IInv, TypeOK, Shape
<1>2. \A m \in Node : anc'[m] = IF m \in dead THEN {} ELSE anc[m]
  BY DEF Free
<1>3. InTree' = InTree \ dead /\ InTree \subseteq Node
  BY <1>2 DEF InTree
<1>4. \A m \in Node, q \in Key : replication_visibility'[m][q] =
        IF m \in dead THEN "unset" ELSE replication_visibility[m][q]
  BY DEF Free
<1>5. \A m \in Node, p \in Peer : visibility_cache'[m][p] =
        IF m \in dead THEN "unset" ELSE visibility_cache[m][p]
  BY DEF Free, Cleared
<1>6. \A p \in conn : told'[p] = {m \in told[p] : anc[m] \cap removed(p) = {}}
  BY <1>1 DEF Free
<1>7. \A m \in Node \ dead, p \in conn : TrueVisibility(replication_visibility, m, p)'
                                       = TrueVisibility(replication_visibility, m, p)
  <2> HIDE DEF dead
  <2> TAKE m \in Node \ dead, p \in conn
  <2>1. p \in Key /\ Server \in Key
    BY <1>1 DEF Key
  <2>2. \A a \in anc[m] : a \in Node /\ a \notin dead
    BY <1>1
  <2>3. \A a \in anc[m] :
          /\ replication_visibility'[a][Server] = replication_visibility[a][Server]
          /\ replication_visibility'[a][p] = replication_visibility[a][p]
    BY <1>4, <2>1, <2>2
  <2> QED BY <1>1, <1>2, <2>2, <2>3, VisibilityAlong
<1>8. TypeOK'
  <2>1. anc' \in [Node -> SUBSET Node]
    BY <1>1 DEF Free
  <2>2. replication_visibility' \in [Node -> [Key -> Setting]]
    BY DEF Free, IInv, TypeOK, Setting
  <2>3. visibility_cache' \in [Node -> [Peer -> Setting]]
    BY DEF Free, Cleared, IInv, TypeOK, Setting
  <2>4. told' \in [Peer -> SUBSET Node]
    BY DEF Free, IInv, TypeOK
  <2> QED BY <1>1, <2>1, <2>2, <2>3, <2>4 DEF IInv, TypeOK
<1>9. Shape' /\ Linear'
  <2>1. \A m \in InTree' : m \in InTree /\ m \in Node /\ m \notin dead /\ anc'[m] = anc[m]
          /\ \A a \in anc[m] : a \in Node /\ a \notin dead /\ anc'[a] = anc[a]
    <3> HIDE DEF dead
    <3> QED BY <1>1, <1>2, <1>3
  <2>2. \A m \in InTree' : m \in anc'[m] /\ \A a \in anc'[m] : a \in anc'[a] /\ anc'[a] \subseteq anc'[m]
    BY <2>1 DEF IInv, Shape
  <2>3. \A m \in Node : SceneOf[m] \in InTree' <=> m \in InTree'
    BY <1>1, <1>3 DEF IInv, Shape
  <2>4. \A m \in InTree' : anc'[m] = anc'[SceneOf[m]] \cup {m}
    <3> TAKE m \in InTree'
    <3>1. SceneOf[m] \in InTree'
      BY <2>1, <2>3
    <3> QED BY <2>1, <3>1 DEF IInv, Shape
  <2>5. \A m \in InTree' : SceneOf[m] = m \/ pend'[m] # NoCalls =>
          m \in Registered(replication_visibility)'
    <3> SUFFICES ASSUME NEW m \in InTree', SceneOf[m] = m \/ pend[m] # NoCalls
                 PROVE  m \in Node /\ replication_visibility'[m][Server] # "unset"
      BY <1>1 DEF Registered
    <3>1. m \in Registered(replication_visibility)
      BY <2>1 DEF IInv, Shape
    <3> QED BY <1>4, <2>1, <3>1 DEF Registered, Key
  <2>6. \A m \in Node \ InTree' : \A q \in Key : replication_visibility'[m][q] = "unset"
    BY <1>3, <1>4 DEF IInv, Shape
  <2>7. Linear'
    BY <2>1 DEF IInv, Linear
  <2> QED BY <2>2, <2>3, <2>4, <2>5, <2>6, <2>7 DEF Shape
<1>10. Absent'
  <2>1. cached' \subseteq InTree'
    BY <1>1, <1>3 DEF IInv, Absent
  <2>2. \A m \in Node : \A x \in Peer : m \notin cached' => visibility_cache'[m][x] = "unset"
    BY <1>1, <1>5 DEF IInv, Absent
  <2>3. \A m \in Node : \A x \in Peer : x \notin conn \cup gone => visibility_cache'[m][x] = "unset"
    BY <1>5 DEF IInv, Absent
  <2>4. \A x \in Peer : x \notin conn => told'[x] = {}
    BY DEF Free, IInv, Absent
  <2> QED BY <1>1, <2>1, <2>2, <2>3, <2>4 DEF IInv, Absent
<1>11. CacheCoherent'
  <2> SUFFICES ASSUME NEW m \in Node, NEW x \in conn, visibility_cache'[m][x] # "unset"
               PROVE  (visibility_cache'[m][x] = "show") = TrueVisibility(replication_visibility, m, x)'
    BY <1>1 DEF CacheCoherent
  <2>1. m \notin dead /\ visibility_cache'[m][x] = visibility_cache[m][x]
    BY <1>1, <1>5
  <2> QED BY <1>7, <2>1 DEF IInv, CacheCoherent
<1>12. ToldIsVisible'
  <2> SUFFICES ASSUME NEW x \in conn
               PROVE  told'[x] = {m \in InTree' : TrueVisibility(replication_visibility, m, x)'}
    BY <1>1 DEF ToldIsVisible
  <2>1. told[x] = {m \in InTree : TrueVisibility(replication_visibility, m, x)}
    BY DEF IInv, ToldIsVisible
  <2>2. \A m \in told[x] \cap dead : n \in anc[m] /\ n \in removed(x)
    <3> SUFFICES ASSUME NEW m \in told[x] \cap dead
                 PROVE  n \in anc[m] /\ n \in removed(x)
      OBVIOUS
    <3>1. n \in anc[m] /\ m \in InTree /\ TrueVisibility(replication_visibility, m, x)
      BY <2>1 DEF Below
    <3>2. anc[n] \subseteq anc[m] /\ n \in Registered(replication_visibility)
      BY <1>1, <3>1 DEF IInv, Shape, Roots
    <3>3. TrueVisibility(replication_visibility, n, x)
      BY <3>1, <3>2 DEF TrueVisibility, Open
    <3>4. TrueVisibility(WhenFreed(n, n), n, x)
      <4> SUFFICES ASSUME NEW a \in anc[n] \cap Registered(WhenFreed(n, n))
                   PROVE  Shows(WhenFreed(n, n), a, x)
        BY DEF TrueVisibility, Open
      <4>1. a \in Node /\ WhenFreed(n, n)[a][Server] # "unset"
        BY DEF Registered
      <4>2. WhenFreed(n, n)[a] = replication_visibility[a]
        BY <4>1 DEF WhenFreed, Key
      <4>3. Shows(replication_visibility, a, x)
        BY <3>3, <4>1, <4>2 DEF TrueVisibility, Open, Registered
      <4> QED BY <4>2, <4>3 DEF Shows
    <3>5. Lookup(WhenFreed(n, n), visibility_cache, n, x)
      BY <3>3, <3>4 DEF Lookup, IInv, CacheCoherent
    <3> QED BY <1>1, <3>1, <3>2, <3>5
  <2>3. \A m \in told[x] \ dead : anc[m] \cap removed(x) = {}
    BY <1>1, <1>3, <2>1
  <2>4. told'[x] = told[x] \ dead
    <3> HIDE DEF removed, dead
    <3> QED BY <1>6, <2>2, <2>3
  <2>5. \A m \in InTree \ dead : TrueVisibility(replication_visibility, m, x)'
                                = TrueVisibility(replication_visibility, m, x)
    BY <1>3, <1>7
  <2> HIDE DEF dead
  <2> QED BY <1>3, <2>1, <2>4, <2>5
<1> QED BY <1>8, <1>9, <1>10, <1>11, <1>12 DEF IInv

LEMMA ReparentInvariant ==
  ASSUME IInv, NEW n \in Node, NEW above \in Paths, SameAudience(n, above), ReparentNode(n, above)
  PROVE  /\ IInv'
         /\ told' = told
<1> DEFINE dead == Below(n)
<1>1. /\ n \in Roots /\ n \in Registered(replication_visibility) /\ n \notin above
      /\ pend' = pend /\ conn' = conn /\ gone' = gone
      /\ replication_visibility' = replication_visibility
      /\ conn \subseteq Peer /\ anc \in [Node -> SUBSET Node] /\ told \in [Peer -> SUBSET Node]
  BY DEF ReparentNode, IInv, TypeOK
<1>2. n \in InTree /\ n \in anc[n] /\ n \in dead /\ SceneOf[n] = n
  BY <1>1 DEF IInv, Shape, Registered, Key, Roots, Below
<1>3. /\ \A m \in Node : SceneOf[m] \in dead <=> m \in dead
      /\ \A m \in dead : m \in InTree /\ m \in Node /\ n \in anc[m]
      /\ \A m \in Node \ dead : \A a \in anc[m] : a \notin dead
  BY <1>1, <1>2, WholeScenes DEF Below
<1>4. /\ above \subseteq InTree /\ InTree \subseteq Node
      /\ \A a \in above : a \in anc[a] /\ anc[a] \subseteq above /\ a \notin dead
      /\ \A a, b \in above : a \in anc[b] \/ b \in anc[a]
  <2>1. \A k \in InTree : anc[k] \subseteq InTree
          /\ \A a \in anc[k] : a \in anc[a] /\ anc[a] \subseteq anc[k]
                               /\ \A b \in anc[k] : a \in anc[b] \/ b \in anc[a]
    BY <1>1 DEF IInv, Shape, Linear, InTree
  <2>2. InTree \subseteq Node
    BY DEF InTree
  <2>3. /\ above \subseteq InTree
        /\ \A a \in above : a \in anc[a] /\ anc[a] \subseteq above
        /\ \A a, b \in above : a \in anc[b] \/ b \in anc[a]
    BY <2>1 DEF Paths
  <2> QED BY <1>1, <2>2, <2>3 DEF Below
<1>5. \A m \in Node : anc'[m] = IF m \in dead THEN (anc[m] \ anc[n]) \cup {n} \cup above ELSE anc[m]
  BY DEF ReparentNode, Moved
<1>6. InTree' = InTree
  <2>1. \A m \in dead : anc'[m] # {} /\ anc[m] # {}
    BY <1>3, <1>5, ZenonT(30)
  <2>2. \A m \in Node \ dead : anc'[m] = anc[m]
    BY <1>5
  <2> HIDE DEF dead
  <2> QED BY <2>1, <2>2 DEF InTree
<1>7. anc'[n] = above \cup {n}
  BY <1>2, <1>3, <1>5
<1>8. \A a \in above : anc'[a] = anc[a]
  BY <1>4, <1>5
<1>9. \A m \in dead : \A a \in anc[m] \ anc[n] :
        a \in anc[a] /\ a \in dead /\ anc[a] \subseteq anc[m]
        /\ anc'[a] = (anc[a] \ anc[n]) \cup {n} \cup above
        /\ a \in anc'[a]
  <2> SUFFICES ASSUME NEW m \in dead, NEW a \in anc[m] \ anc[n]
               PROVE  a \in anc[a] /\ a \in dead /\ anc[a] \subseteq anc[m]
                      /\ anc'[a] = (anc[a] \ anc[n]) \cup {n} \cup above /\ a \in anc'[a]
    OBVIOUS
  <2>1. a \in anc[a] /\ anc[a] \subseteq anc[m] /\ a \in Node
    BY <1>1, <1>3 DEF IInv, Shape
  <2>2. n \in anc[a]
    BY <1>3 DEF IInv, Linear
  <2>3. a \in dead
    BY <2>1, <2>2 DEF Below
  <2>4. anc'[a] = (anc[a] \ anc[n]) \cup {n} \cup above
    BY <1>5, <2>1, <2>3
  <2> QED BY <2>1, <2>3, <2>4
<1>10. \A m \in dead : m = n \/ m \in anc[m] \ anc[n]
  <2> TAKE m \in dead
  <2>1. m \in anc[m] /\ n \in anc[m]
    BY <1>3 DEF IInv, Shape
  <2> QED BY <1>2, <2>1 DEF IInv, Linear
<1>11. \A m \in Node, p \in conn : TrueVisibility(replication_visibility, m, p)'
                                  = TrueVisibility(replication_visibility, m, p)
  <2> TAKE m \in Node, p \in conn
  <2>1. CASE m \in dead
    <3>1. Open(replication_visibility, Moved(n, above)[m], p) = TrueVisibility(replication_visibility, m, p)
      BY <2>1 DEF SameAudience
    <3>2. Moved(n, above)[m] = anc'[m]
      BY DEF ReparentNode
    <3> QED BY <1>1, <3>1, <3>2 DEF TrueVisibility, Open, Registered, Shows
  <2>2. CASE m \notin dead
    <3>1. anc'[m] = anc[m] /\ anc[m] \subseteq Node
      BY <1>1, <1>5, <2>2
    <3> QED BY <1>1, <3>1, VisibilityAlong
  <2> QED BY <2>1, <2>2
<1>12. visibility_cache' \in [Node -> [Peer -> Setting]] /\ cached' \subseteq cached
       /\ \A m \in Node, p \in Peer :
            \/ visibility_cache'[m][p] = "unset"
            \/ visibility_cache'[m][p] = visibility_cache[m][p] /\ (m \in cached => m \in cached')
  <2> DEFINE moved == IF n \in cached
                        THEN dead \cap (Registered(replication_visibility) \cup cached)
                        ELSE {}
  <2>1. visibility_cache' = Cleared(visibility_cache, moved, Peer) /\ cached' = cached \ moved
    BY DEF ReparentNode
  <2> HIDE DEF moved
  <2>2. visibility_cache' \in [Node -> [Peer -> Setting]]
    BY <2>1 DEF Cleared, IInv, TypeOK, Setting
  <2>3. \A m \in Node, p \in Peer : visibility_cache'[m][p] =
          IF m \in moved THEN "unset" ELSE visibility_cache[m][p]
    BY <2>1 DEF Cleared
  <2> QED BY <2>1, <2>2, <2>3
<1>13. TypeOK'
  <2>1. anc' \in [Node -> SUBSET Node]
    BY <1>1, <1>4 DEF ReparentNode, Moved
  <2>2. told' \in [Peer -> SUBSET Node]
    BY <1>1 DEF ReparentNode
  <2> QED BY <1>1, <1>12, <2>1, <2>2 DEF IInv, TypeOK
<1>14. \A m \in InTree : m \in anc'[m] /\ \A a \in anc'[m] : a \in anc'[a] /\ anc'[a] \subseteq anc'[m]
  <2> TAKE m \in InTree
  <2>1. CASE m \in dead
    <3>1. anc'[m] = (anc[m] \ anc[n]) \cup {n} \cup above
      BY <1>3, <1>5, <2>1
    <3> QED BY <1>4, <1>7, <1>8, <1>9, <1>10, <2>1, <3>1
  <2>2. CASE m \notin dead
    <3>1. m \in Node /\ anc'[m] = anc[m] /\ \A a \in anc[m] : a \in Node /\ anc'[a] = anc[a]
      BY <1>1, <1>3, <1>4, <1>5, <2>2
    <3> QED BY <3>1 DEF IInv, Shape
  <2> QED BY <2>1, <2>2
<1>15. Shape'
  <2>1. \A m \in InTree : anc'[m] = anc'[SceneOf[m]] \cup {m}
    <3> TAKE m \in InTree
    <3>1. SceneOf[m] \in Node /\ m \in Node /\ anc[m] = anc[SceneOf[m]] \cup {m}
      BY <1>4, SceneAssumption DEF IInv, Shape
    <3>2. CASE m \in dead
      <4>1. SceneOf[m] \in dead /\ m \in anc[m]
        BY <1>3, <3>1, <3>2 DEF IInv, Shape
      <4>2. /\ anc'[m] = (anc[m] \ anc[n]) \cup {n} \cup above
            /\ anc'[SceneOf[m]] = (anc[SceneOf[m]] \ anc[n]) \cup {n} \cup above
        BY <1>5, <3>1, <3>2, <4>1
      <4>3. m = n \/ m \notin anc[n]
        BY <1>10, <3>2
      <4> QED BY <3>1, <4>2, <4>3
    <3>3. CASE m \notin dead
      BY <1>3, <1>5, <3>1, <3>3
    <3> QED BY <3>2, <3>3
  <2>2. Registered(replication_visibility)' = Registered(replication_visibility)
    BY <1>1 DEF Registered
  <2> QED BY <1>1, <1>6, <1>14, <2>1, <2>2 DEF IInv, Shape
<1>16. Linear'
  <2> SUFFICES ASSUME NEW m \in InTree, NEW a \in anc'[m], NEW b \in anc'[m]
               PROVE  (m \in anc'[a] => a = m) /\ (a \in anc'[b] \/ b \in anc'[a])
    BY <1>6 DEF Linear
  <2>1. CASE m \in dead
    <3>1. anc'[m] = (anc[m] \ anc[n]) \cup {n} \cup above
      BY <1>3, <1>5, <2>1
    <3>2. m \in anc'[a] => a = m
      <4> HAVE m \in anc'[a]
      <4>1. CASE a \in above
        <5>1. m \in above
          BY <1>4, <1>8, <4>1
        <5> QED BY <1>4, <2>1, <5>1
      <4>2. CASE a = n
        BY <1>4, <1>7, <2>1, <4>2
      <4>3. CASE a \in anc[m] \ anc[n]
        <5>1. m \notin above
          BY <1>4, <2>1
        <5>2. m \in (anc[a] \ anc[n]) \cup {n}
          BY <1>9, <2>1, <4>3, <5>1
        <5>3. CASE m \in anc[a]
          BY <4>3, <5>3 DEF IInv, Linear
        <5>4. CASE m = n
          BY <4>3, <5>4
        <5> QED BY <5>2, <5>3, <5>4
      <4> QED BY <3>1, <4>1, <4>2, <4>3
    <3>3. a \in anc'[b] \/ b \in anc'[a]
      <4>1. CASE a \in above /\ b \in above
        BY <1>4, <1>8, <4>1
      <4>2. CASE a \in {n} \cup above /\ b \notin above
        BY <1>7, <1>9, <2>1, <3>1, <4>2
      <4>3. CASE a \notin above /\ b \in {n} \cup above
        BY <1>7, <1>9, <2>1, <3>1, <4>3
      <4>4. CASE a \in anc[m] \ anc[n] /\ b \in anc[m] \ anc[n]
        <5>1. a \in anc[b] \/ b \in anc[a]
          BY <4>4 DEF IInv, Linear
        <5> QED BY <1>9, <2>1, <4>4, <5>1
      <4> QED BY <3>1, <4>1, <4>2, <4>3, <4>4
    <3> QED BY <3>2, <3>3
  <2>2. CASE m \notin dead
    <3>1. m \in Node /\ anc'[m] = anc[m]
      BY <1>4, <1>5, <2>2
    <3>2. \A x \in anc[m] : x \in Node /\ x \notin dead
      BY <1>1, <1>3, <2>2, <3>1
    <3>3. \A x \in anc[m] : anc'[x] = anc[x]
      <4> HIDE DEF dead
      <4> QED BY <1>5, <3>2
    <3> QED BY <3>1, <3>3 DEF IInv, Linear
  <2> QED BY <2>1, <2>2
<1>17. Absent'
  <2>1. \A m \in Node : \A x \in Peer : m \notin cached' => visibility_cache'[m][x] = "unset"
    BY <1>12 DEF IInv, Absent
  <2>2. \A m \in Node : \A x \in Peer : x \notin conn \cup gone => visibility_cache'[m][x] = "unset"
    BY <1>12 DEF IInv, Absent
  <2>3. \A x \in Peer : x \notin conn => told'[x] = {}
    BY DEF ReparentNode, IInv, Absent
  <2> QED BY <1>1, <1>6, <1>12, <2>1, <2>2, <2>3 DEF IInv, Absent
<1>18. CacheCoherent'
  <2> SUFFICES ASSUME NEW m \in Node, NEW x \in conn, visibility_cache'[m][x] # "unset"
               PROVE  (visibility_cache'[m][x] = "show") = TrueVisibility(replication_visibility, m, x)'
    BY <1>1 DEF CacheCoherent
  <2>1. visibility_cache'[m][x] = visibility_cache[m][x]
    BY <1>1, <1>12
  <2> QED BY <1>11, <2>1 DEF IInv, CacheCoherent
<1>19. \A x \in Peer : told'[x] = told[x]
  <2> TAKE x \in Peer
  <2>1. told'[x] = IF x \in conn /\ ~(above \subseteq told[x]) THEN told[x] \ dead ELSE told[x]
    BY DEF ReparentNode
  <2>2. CASE x \in conn /\ ~(above \subseteq told[x])
    <3>1. told[x] = {m \in InTree : TrueVisibility(replication_visibility, m, x)}
      BY <2>2 DEF IInv, ToldIsVisible
    <3>2. PICK k \in above : k \notin told[x]
      BY <2>2
    <3>3. PICK b \in anc[k] : b \in Registered(replication_visibility)
                              /\ ~Shows(replication_visibility, b, x)
      BY <1>4, <3>1, <3>2 DEF TrueVisibility, Open
    <3>4. b \in above
      BY <1>4, <3>2, <3>3
    <3>5. \A m \in dead : ~TrueVisibility(replication_visibility, m, x)
      <4> TAKE m \in dead
      <4>1. b \in anc'[m]
        BY <1>3, <1>5, <3>4
      <4>2. ~TrueVisibility(replication_visibility, m, x)'
        BY <1>1, <3>3, <4>1 DEF TrueVisibility, Open, Registered, Shows
      <4> QED BY <1>3, <1>11, <2>2, <4>2
    <3>6. told[x] \cap dead = {}
      BY <3>1, <3>5
    <3> QED BY <2>1, <3>6
  <2>3. CASE ~(x \in conn /\ ~(above \subseteq told[x]))
    BY <2>1, <2>3
  <2> QED BY <2>2, <2>3
<1>20. told' = told
  BY <1>1, <1>13, <1>19 DEF TypeOK
<1>21. ToldIsVisible'
  BY <1>1, <1>4, <1>6, <1>11, <1>19 DEF IInv, ToldIsVisible
<1> QED BY <1>13, <1>15, <1>16, <1>17, <1>18, <1>20, <1>21 DEF IInv

-----------------------------------------------------------------------------
(* The invariant, and what follows from it.                                *)

LEMMA NextInvariant == IInv /\ [Next]_vars => IInv'
<1> SUFFICES ASSUME IInv, [Next]_vars PROVE IInv'
  OBVIOUS
<1>1. ASSUME NEW n \in Node, NEW q \in Key, NEW v \in {"show", "hide"}, Defer(n, q, v)
      PROVE  IInv'
  BY <1>1, DeferInvariant
<1>2. ASSUME NEW n \in Node, NEW above \in Paths, EnterTree(n, above) PROVE IInv'
  BY <1>2, EnterTreeInvariant
<1>3. ASSUME NEW n \in Node, Ready(n) PROVE IInv'
  BY <1>3, ReadyInvariant
<1>4. ASSUME NEW n \in Node, NEW v \in {"show", "hide"}, SetVisibility(n, v) PROVE IInv'
  <2>1. v \in Setting /\ v # "unset"
    BY DEF Setting
  <2> QED BY <1>4, <2>1, SetterInvariant DEF SetVisibility
<1>5. ASSUME NEW n \in Node, NEW p \in Peer, NEW v \in {"show", "hide"}, SetPeerVisibility(n, p, v)
      PROVE  IInv'
  <2>1. v \in Setting /\ p # Server /\ p \in {Server} \cup conn \cup gone
    BY <1>5, ServerAssumption DEF Setting, SetPeerVisibility
  <2> QED BY <1>5, <2>1, SetterInvariant DEF SetPeerVisibility
<1>6. ASSUME NEW n \in Node, NEW p \in Peer, ClearPeerVisibility(n, p) PROVE IInv'
  <2>1. "unset" \in Setting /\ p # Server /\ p \in {Server} \cup conn \cup gone
    BY <1>6, ServerAssumption DEF Setting, ClearPeerVisibility
  <2> QED BY <1>6, <2>1, SetterInvariant DEF ClearPeerVisibility
<1>7. ASSUME NEW n \in Node, GetObservingPeers(n) PROVE IInv'
  BY <1>7, GetObservingPeersInvariant
<1>8. ASSUME NEW p \in Peer, Connect(p) PROVE IInv'
  BY <1>8, ConnectInvariant
<1>9. ASSUME NEW p \in Peer, Disconnect(p) PROVE IInv'
  BY <1>9, DisconnectInvariant
<1>10. ASSUME NEW n \in Node, Free(n) PROVE IInv'
  BY <1>10, FreeInvariant
<1>11. ASSUME NEW n \in Node, NEW above \in Paths, SameAudience(n, above), ReparentNode(n, above)
       PROVE  IInv'
  BY <1>11, ReparentInvariant
<1>12. CASE UNCHANGED vars
  <2>1. InTree' = InTree /\ Registered(replication_visibility)' = Registered(replication_visibility)
        /\ UNCHANGED <<anc, pend, replication_visibility, visibility_cache, cached, conn, gone, told>>
    BY <1>12 DEF vars, InTree, Registered
  <2>2. TypeOK' /\ Absent'
    BY <2>1 DEF IInv, TypeOK, Absent
  <2>3. Shape' /\ Linear'
    BY <2>1 DEF IInv, Shape, Linear
  <2>4. CacheCoherent' /\ ToldIsVisible'
    BY <2>1, SameVisibility DEF IInv, CacheCoherent, ToldIsVisible
  <2> QED BY <2>2, <2>3, <2>4 DEF IInv
<1> QED BY <1>1, <1>2, <1>3, <1>4, <1>5, <1>6, <1>7, <1>8, <1>9, <1>10, <1>11, <1>12 DEF Next

\* The strengthened invariant holds in every reachable state.
THEOREM Invariant == Spec => []IInv
<1>1. Init => IInv
  BY InitInvariant
<1>2. IInv /\ [Next]_vars => IInv'
  BY NextInvariant
<1> QED BY <1>1, <1>2, PTL DEF Spec

\* Every variable of the service keeps its shape.
THEOREM TypeCorrect == Spec => []TypeOK
<1>1. IInv => TypeOK
  BY DEF IInv
<1> QED BY <1>1, Invariant, PTL

\* Each connected peer has been told exactly the nodes visible to it, for any
\* number of nodes and peers and any order of the calls.
THEOREM ViewsAreExact == Spec => []ToldIsVisible
<1>1. IInv => ToldIsVisible
  BY DEF IInv
<1> QED BY <1>1, Invariant, PTL

\* The visibility cache never answers a connected peer with a stale lookup.
THEOREM CacheIsCoherent == Spec => []CacheCoherent
<1>1. IInv => CacheCoherent
  BY DEF IInv
<1> QED BY <1>1, Invariant, PTL

\* No message of a setter adds a node the peer holds or removes one it lacks.
THEOREM DiffsExact == Spec => []DiffsAreExact
<1>1. ASSUME IInv, NEW n \in InTree, NEW q \in Key, NEW v \in Setting,
             NEW p \in Targets(q) \cap conn,
             MayRegister(n), q = Server => v # "unset"
      PROVE  /\ (After(n, q, v, p) \ Before(n, p)) \cap told[p] = {}
             /\ (Before(n, p) \ After(n, q, v, p)) \subseteq told[p]
  <2>1. q \in {Server} \cup conn \cup gone
    BY <1>1 DEF Targets
  <2>2. LegalChange(n, q, v)
    BY <1>1, <2>1 DEF LegalChange
  <2>3. Registered(Put(WithNode(n), n, q, v)) = Registered(WithNode(n))
    BY <1>1, <2>2, ChangeSettings
  <2>4. told[p] = {m \in InTree : TrueVisibility(WithNode(n), m, p)}
    BY <1>1, <2>2, BeforeChange
  <2>5. Before(n, p) = {m \in Below(n) \cap Registered(WithNode(n)) :
                          TrueVisibility(WithNode(n), m, p)}
    BY <1>1, <2>2, BeforeChange
  <2>6. After(n, q, v, p) \subseteq Below(n) \cap Registered(WithNode(n))
    BY <1>1, <2>2, <2>3, AfterChange
  <2>7. Below(n) \subseteq InTree
    BY DEF Below, InTree
  <2> QED BY <2>4, <2>5, <2>6, <2>7
<1>2. IInv => DiffsAreExact
  BY <1>1 DEF DiffsAreExact
<1> QED BY <1>2, Invariant, PTL

-----------------------------------------------------------------------------
(* Every step of the service is a step of SceneView or changes nothing in  *)
(* it: the views are functions of the settings before and after.           *)

LEMMA ViewIsTrueVisibility ==
  ASSUME anc \in [Node -> SUBSET Node], NEW s \in [Node -> [Key -> Setting]], NEW p \in Peer
  PROVE  View!ViewOf(s, p) = {m \in InTree : TrueVisibility(s, m, p)}
<1>1. p \in Key /\ Server \in Key
  BY DEF Key
<1>2. \A a \in Registered(s) : View!ShownTo(s, a, p) <=> Shows(s, a, p)
  <2> TAKE a \in Registered(s)
  <2>1. s[a][Server] \in {"show", "hide"} /\ s[a][p] \in Setting
    BY <1>1 DEF Registered, Setting
  <2> QED BY <2>1 DEF View!ShownTo, Shows, Setting
<1>3. \A m \in Node : TrueVisibility(s, m, p) <=>
        \A a \in anc[m] : s[a][Server] # "unset" => View!ShownTo(s, a, p)
  BY <1>1, <1>2 DEF TrueVisibility, Open, Registered
<1> QED BY <1>3 DEF View!ViewOf, InTree

\* What a setter does to the settings and to the views.
LEMMA SetStep ==
  ASSUME IInv, IInv', NEW n \in Node, NEW q, NEW v, LegalChange(n, q, v), Change(n, q, v),
         UNCHANGED <<anc, conn>>
  PROVE  View!Set(n, q, v)
<1> DEFINE r == replication_visibility
<1>1. /\ r \in [Node -> [Key -> Setting]] /\ Server \in Key /\ q \in Key /\ conn \subseteq Peer
      /\ n \in InTree /\ told \in [Peer -> SUBSET Node] /\ told' \in [Peer -> SUBSET Node]
  BY DEF IInv, TypeOK, Key, LegalChange
<1>2. r' = Put(WithNode(n), n, q, v)
  BY DEF Change
<1>3. WithNode(n) = [r EXCEPT ![n][Server] = IF r[n][Server] = "unset" THEN "hide" ELSE r[n][Server]]
  BY <1>1 DEF WithNode, Put, Registered
<1>4. r' = [r EXCEPT ![n] = [k \in Key |-> CASE k = q -> v
                                  [] k = Server /\ k # q /\ r[n][Server] = "unset" -> "hide"
                                  [] OTHER -> r[n][k]]]
  <2> DEFINE s == [k \in Key |-> CASE k = q -> v
                                  [] k = Server /\ k # q /\ r[n][Server] = "unset" -> "hide"
                                  [] OTHER -> r[n][k]]
  <2>1. WithNode(n) \in [Node -> [Key -> Setting]] /\ v \in Setting
    BY WithNodeShape DEF LegalChange
  <2>2. \A m \in Node, k \in Key : r'[m][k] = IF m = n THEN s[k] ELSE r[m][k]
    BY <1>1, <1>2, <1>3 DEF Put
  <2>3. r' \in [Node -> [Key -> Setting]]
    BY DEF IInv, TypeOK
  <2>4. \A m \in Node : r'[m] = IF m = n THEN s ELSE r[m]
    BY <1>1, <2>2, <2>3
  <2> QED BY <1>1, <2>3, <2>4
<1>5. told' = [p \in Peer |-> IF p \in conn /\ q \in {Server, p}
                                THEN View!ViewOf(r', p) ELSE told[p]]
  <2> SUFFICES ASSUME NEW p \in Peer
               PROVE  told'[p] = IF p \in conn /\ q \in {Server, p}
                                   THEN View!ViewOf(r', p) ELSE told[p]
    BY <1>1
  <2>1. CASE p \in conn /\ q \in {Server, p}
    <3>1. View!ViewOf(r', p) = {m \in InTree : TrueVisibility(r', m, p)}
      <4>1. r' \in [Node -> [Key -> Setting]] /\ anc \in [Node -> SUBSET Node]
        BY DEF IInv, TypeOK
      <4> QED BY <4>1, ViewIsTrueVisibility
    <3>2. told'[p] = {m \in InTree' : TrueVisibility(r, m, p)'}
      BY <2>1 DEF IInv, ToldIsVisible
    <3>3. InTree' = InTree /\ \A m \in Node : TrueVisibility(r, m, p)' = TrueVisibility(r', m, p)
      BY DEF InTree, TrueVisibility, Open, Registered, Shows
    <3>4. told'[p] = View!ViewOf(r', p)
      BY <3>1, <3>2, <3>3 DEF InTree
    <3> QED BY <2>1, <3>4
  <2>2. CASE ~(p \in conn /\ q \in {Server, p})
    <3>1. p \notin Targets(q) \cap conn
      BY <2>2 DEF Targets
    <3> QED BY <2>2, <3>1 DEF Change
  <2> QED BY <2>1, <2>2
<1> QED BY <1>1, <1>4, <1>5 DEF View!Set, View!Key, Key, InTree

LEMMA ConnectStep ==
  ASSUME IInv, IInv', NEW p \in Peer, Connect(p)
  PROVE  View!Join(p)
<1>1. View!ViewOf(replication_visibility, p) = {m \in InTree : TrueVisibility(replication_visibility, m, p)}
  BY ViewIsTrueVisibility DEF IInv, TypeOK
<1>2. told'[p] = {m \in InTree' : TrueVisibility(replication_visibility, m, p)'}
  BY DEF Connect, IInv, ToldIsVisible
<1>3. told'[p] = View!ViewOf(replication_visibility, p)
  BY <1>1, <1>2, SameVisibility DEF Connect
<1>4. told' = [told EXCEPT ![p] = told'[p]]
  BY DEF Connect, IInv, TypeOK
<1> QED BY <1>3, <1>4 DEF Connect, View!Join

LEMMA FreeStep ==
  ASSUME IInv, IInv', NEW n \in Node, Free(n)
  PROVE  View!Leave(n)
<1>1. conn' = conn /\ told \in [Peer -> SUBSET Node] /\ told' \in [Peer -> SUBSET Node]
      /\ n \in InTree /\ anc \in [Node -> SUBSET Node]
  BY DEF Free, IInv, TypeOK
<1>2. \A m \in Node : anc'[m] = IF m \in Below(n) THEN {} ELSE anc[m]
  BY DEF Free
<1>3. InTree' = InTree \ Below(n) /\ InTree \subseteq Node
  BY <1>2 DEF InTree
<1>4. \A p \in Peer : told'[p] = told[p] \ Below(n)
  <2> TAKE p \in Peer
  <2>1. CASE p \in conn
    <3>1. told'[p] \subseteq InTree' /\ told'[p] \subseteq told[p]
      BY <1>1, <2>1 DEF IInv, ToldIsVisible, Free
    <3>2. \A m \in told[p] \ Below(n) : m \in told'[p]
      <4> TAKE m \in told[p] \ Below(n)
      <4>1. m \in InTree
        BY <2>1 DEF IInv, ToldIsVisible
      <4>2. \A a \in anc[m] : a \notin Below(n)
        BY <1>3, <4>1, WholeScenes DEF Free
      <4> QED BY <2>1, <4>2 DEF Free
    <3> QED BY <1>3, <3>1, <3>2
  <2>2. CASE p \notin conn
    BY <2>2 DEF Free, IInv, Absent
  <2> QED BY <2>1, <2>2
<1>5. told' = [p \in Peer |-> told[p] \ View!Under(n)]
  BY <1>1, <1>4 DEF View!Under, Below
<1> QED BY <1>1, <1>5 DEF Free, View!Leave, View!Under, View!Key, Below, Key, InTree

LEMMA EnterTreeStep ==
  ASSUME IInv, NEW n \in Node, NEW above \in Paths, EnterTree(n, above)
  PROVE  View!Next
<1> DEFINE hidden == {m \in Node : SceneOf[m] = n /\ pend[m] # NoCalls}
<1>1. above \in SUBSET Node /\ hidden \in SUBSET Node
  BY DEF Paths, InTree, IInv, TypeOK
<1>2. n \in hidden /\ anc[n] = {}
  BY DEF EnterTree, Roots, InTree
<1>3. View!Enter(n, above, hidden)
  BY <1>2 DEF EnterTree, View!Enter, View!Key, Key
<1> QED BY <1>1, <1>3 DEF View!Next

LEMMA SetterStep ==
  ASSUME IInv, IInv', NEW n \in Node, NEW q, NEW v, LegalChange(n, q, v), Change(n, q, v),
         UNCHANGED <<anc, conn>>
  PROVE  View!Next
<1>1. View!Set(n, q, v)
  BY SetStep
<1>2. CASE v \in {"show", "hide"}
  <2>1. q \in View!Key
    BY DEF LegalChange, IInv, TypeOK, View!Key
  <2> QED BY <1>1, <1>2, <2>1 DEF View!Next
<1>3. CASE v = "unset"
  <2>1. q \in Peer
    BY <1>3 DEF LegalChange, IInv, TypeOK
  <2> QED BY <1>1, <1>3, <2>1 DEF View!Next
<1> QED BY <1>2, <1>3 DEF LegalChange, Setting

LEMMA NextRefines == IInv /\ IInv' /\ [Next]_vars => [View!Next]_View!vars
<1> SUFFICES ASSUME IInv, IInv', [Next]_vars PROVE View!Next \/ UNCHANGED View!vars
  OBVIOUS
<1>1. ASSUME NEW n \in Node, NEW q \in Key, NEW v \in {"show", "hide"}, Defer(n, q, v)
      PROVE  UNCHANGED View!vars
  BY <1>1 DEF Defer, View!vars
<1>2. ASSUME NEW n \in Node, NEW above \in Paths, EnterTree(n, above) PROVE View!Next
  BY <1>2, EnterTreeStep
<1>3. ASSUME NEW n \in Node, Ready(n) PROVE View!Next
  <2> DEFINE q == Head(pend[n])[1]
             v == Head(pend[n])[2]
  <2>1. pend[n] \in Seq(Call) /\ pend[n] # << >>
    BY <1>3 DEF IInv, TypeOK, Ready, NoCalls
  <2>2. Head(pend[n]) \in Call /\ Head(pend[n]) = pend[n][1] /\ 1 \in DOMAIN pend[n]
    BY <2>1
  <2>3. v \in {"show", "hide"} /\ q \in {Server} \cup conn \cup gone
    BY <2>2 DEF Call, IInv, Absent
  <2>4. n \in Registered(replication_visibility)
    BY <1>3 DEF Ready, IInv, Shape
  <2>5. LegalChange(n, q, v)
    BY <1>3, <2>3, <2>4 DEF LegalChange, MayRegister, Ready, Setting
  <2> QED BY <1>3, <2>5, SetterStep DEF Ready
<1>4. ASSUME NEW n \in Node, NEW v \in {"show", "hide"}, SetVisibility(n, v) PROVE View!Next
  <2>1. LegalChange(n, Server, v)
    BY <1>4 DEF LegalChange, SetVisibility, Setting
  <2> QED BY <1>4, <2>1, SetterStep DEF SetVisibility
<1>5. ASSUME NEW n \in Node, NEW p \in Peer, NEW v \in {"show", "hide"}, SetPeerVisibility(n, p, v)
      PROVE  View!Next
  <2>1. LegalChange(n, p, v)
    BY <1>5, ServerAssumption DEF LegalChange, SetPeerVisibility, Setting
  <2> QED BY <1>5, <2>1, SetterStep DEF SetPeerVisibility
<1>6. ASSUME NEW n \in Node, NEW p \in Peer, ClearPeerVisibility(n, p) PROVE View!Next
  <2>1. LegalChange(n, p, "unset")
    BY <1>6, ServerAssumption DEF LegalChange, ClearPeerVisibility, Setting
  <2> QED BY <1>6, <2>1, SetterStep DEF ClearPeerVisibility
<1>7. ASSUME NEW n \in Node, GetObservingPeers(n) PROVE UNCHANGED View!vars
  BY <1>7 DEF GetObservingPeers, View!vars
<1>8. ASSUME NEW p \in Peer, Connect(p) PROVE View!Next
  BY <1>8, ConnectStep DEF View!Next
<1>9. ASSUME NEW p \in Peer, Disconnect(p) PROVE View!Next
  BY <1>9 DEF Disconnect, View!Next, View!Quit
<1>10. ASSUME NEW n \in Node, Free(n) PROVE View!Next
  BY <1>10, FreeStep DEF View!Next
<1>11. ASSUME NEW n \in Node, NEW above \in Paths, SameAudience(n, above), ReparentNode(n, above)
       PROVE  View!Next
  <2>1. told' = told
    BY <1>11, ReparentInvariant
  <2>2. View!Move(n, above)
    BY <1>11, <2>1 DEF ReparentNode, Moved, Below, View!Move, View!Under
  <2>3. above \in SUBSET Node
    BY DEF Paths, InTree, IInv, TypeOK
  <2> QED BY <2>2, <2>3 DEF View!Next
<1>12. CASE UNCHANGED vars
  BY <1>12 DEF vars, View!vars
<1> QED BY <1>1, <1>2, <1>3, <1>4, <1>5, <1>6, <1>7, <1>8, <1>9, <1>10, <1>11, <1>12 DEF Next

\* The service, with its cache and its differences, implements SceneView: each
\* peer's view changes only with the settings that concern it.
THEOREM Refinement == Spec => ImplementsSceneView
<1>1. Init => View!Init
  BY DEF Init, View!Init, View!Key, Key
<1>2. IInv /\ IInv' /\ [Next]_vars => [View!Next]_View!vars
  BY NextRefines
<1> QED BY <1>1, <1>2, Invariant, PTL DEF Spec, ImplementsSceneView, View!Spec
=============================================================================
