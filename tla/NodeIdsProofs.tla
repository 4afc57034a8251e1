---------------------------- MODULE NodeIdsProofs ----------------------------
(***************************************************************************)
(* Theorems about NodeIds: as long as no node comes under the identifier   *)
(* of a copy that waits to be freed (NoStomping), the client has the       *)
(* server's nodes under the server's identifiers.                          *)
(*                                                                         *)
(* A view is what the client has, or what the server shows it: copies,     *)
(* with their parents and their identifiers.  The invariant is that the    *)
(* messages on their way lead, one view at a time and through sound views  *)
(* only, from the view of the client to that of the server.  A step of the *)
(* server adds views at the end of this row, a message that is handled     *)
(* takes the first from it; nothing in between is ever looked at again.    *)
(***************************************************************************)
EXTENDS NodeIds, FiniteSetTheorems, WellFoundedInduction, TLAPS

(* Views.  A copy that is not in the view has no parent and the identifier -1. *)

View == [under : [Copy -> Copy \cup {Root, None}], id : [Copy -> Id \cup {-1}]]

\* The copies of a view, and those with an identifier in I.
Held(v)     == {c \in Copy : v.id[c] # -1}
Named(v, I) == {c \in Held(v) : v.id[c] \in I}

\* The copies are a tree below the root; no two have the same identifier or
\* are copies of the same node.
Sound(v) ==
  /\ v \in View
  /\ \A c \in Copy : v.id[c] # 0 /\ (v.id[c] = -1 <=> v.under[c] = None)
  /\ \A c \in Held(v) : v.under[c] \in Held(v) \cup {Root}
  /\ Held(v) \subseteq Closure(v.under, {Root})
  /\ \A c, d \in Held(v) : v.id[c] = v.id[d] \/ c[1] = d[1] => c = d

\* A view without what is below S.
Cut(v, S) ==
  [under |-> [c \in Copy |-> IF c \in Closure(v.under, S) THEN None ELSE v.under[c]],
   id    |-> [c \in Copy |-> IF c \in Closure(v.under, S) THEN -1 ELSE v.id[c]]]

\* w has the nodes of an added message, none of them known to v, besides v's.
Joins(v, new, w) ==
  /\ \A a \in new : /\ a.copy \in Copy \ Held(v) /\ a.id \in Id \ {0} /\ w.id[a.copy] = a.id
                    /\ \A c \in Held(v) : v.id[c] # a.id
                    /\ \/ a.parent = 0 /\ w.under[a.copy] = Root
                       \/ w.under[a.copy] \in Copy /\ w.id[w.under[a.copy]] = a.parent
  /\ \A a, b \in new : a.id = b.id \/ a.copy = b.copy => a = b
  /\ \A c \in Copy \ {a.copy : a \in new} : w.id[c] = v.id[c] /\ w.under[c] = v.under[c]

\* The copies a message brings.
Brought(m) == {a.copy : a \in IF m.type = "add" THEN m.nodes ELSE {}}

\* Message m makes w of v.
Takes(v, m, w) ==
  \/ m.type = "add" /\ Joins(v, m.nodes, w)
  \/ m.type = "remove" /\ w = Cut(v, Named(v, m.nodes))
  \/ m.type = "call" /\ w = v /\ \E c \in Held(v) : v.id[c] = m.id /\ c[1] = m.to

\* The messages d make w of v, through sound views.
Leads(v, d, w) ==
  \E h \in Seq(View) :
    /\ Len(h) = Len(d) + 1 /\ h[1] = v /\ h[Len(d) + 1] = w
    /\ \A k \in 1 .. Len(d) + 1 : Sound(h[k])
    /\ \A k \in 1 .. Len(d) : Takes(h[k], d[k], h[k + 1])

\* The view of the client: the copies in its tree.
ClientView ==
  [under |-> [c \in Copy |-> IF c \in InClientTree THEN under[c] ELSE None],
   id    |-> [c \in Copy |-> IF c \in InClientTree THEN cids.object_to_id[c] ELSE -1]]

\* The view of the server: the nodes it shows, as last sent.
Shown == {Current(n) : n \in sent}
ServerView ==
  [under |-> [c \in Copy |-> IF c \notin Shown THEN None
                             ELSE IF parent[c[1]] = Root THEN Root ELSE Current(parent[c[1]])],
   id    |-> [c \in Copy |-> IF c \in Shown THEN ids.object_to_id[c[1]] ELSE -1]]

\* The server's tree, and the nodes it shows.
ServerTree ==
  /\ parent \in [Node -> Node \cup {Root, None}]
  /\ dead \subseteq Node /\ dead \cap InTree = {} /\ IsFiniteSet(InTree)
  /\ \A n \in InTree : parent[n] \in InTree \cup {Root}
  /\ InTree \subseteq Closure(parent, {Root})
  /\ sent \subseteq InTree /\ \A n \in sent : parent[n] \in sent \cup {Root}
  /\ count \in [Node -> 0 .. MaxSent] /\ \A n \in sent : count[n] # 0

\* The dictionaries r are inverse of each other, and have the objects O.
Agree(r, O) ==
  /\ \A o \in DOMAIN r.object_to_id : r.object_to_id[o] # -1 <=> o \in O
  /\ \A o \in O : r.id_to_object[r.object_to_id[o]] = o
  /\ \A i \in Id : r.id_to_object[i] # None => r.object_to_id[r.id_to_object[i]] = i
  /\ r.object_to_id[Root] = 0

\* The server has an identifier for each node in its tree and for no other.
ServerIds == Server!TypeOK /\ Agree(ids, InTree \cup {Root})

\* The client's copies are those in its tree, and those below what waits to be
\* freed; they all have been in the tree.
ClientTree ==
  /\ copies \subseteq Copy /\ entered \subseteq Copy /\ queued \subseteq copies
  /\ under \in [Copy -> Copy \cup {Root, None}]
  /\ handled \in 0 .. Batch /\ (handled = 0 => queued = {})
  /\ \A c \in queued : under[c] = None
  /\ copies = InClientTree \cup Closure(under, queued)
  /\ InClientTree \cap Closure(under, queued) = {}
  /\ copies \subseteq entered /\ \A c \in Copy \ copies : under[c] = None

\* The client has an identifier for each of its copies and for no other.
ClientIds == Client!TypeOK /\ Agree(cids, copies \cup {Root})

-----------------------------------------------------------------------------
(* The nodes below a set. *)

\* What is below S has S and its own children, and is the least such set.
LEMMA ClosureHas ==
  ASSUME NEW f, NEW S, None \notin S \cup DOMAIN f
  PROVE  /\ S \subseteq Closure(f, S)
         /\ \A n \in DOMAIN f : f[n] \in Closure(f, S) => n \in Closure(f, S)
BY DEF Closure

\* It is the least of the sets that have S and the children of what they have.
LEMMA ClosureLeast ==
  ASSUME NEW f, NEW S, None \notin S \cup DOMAIN f,
         NEW X, S \subseteq X,
         \A n \in DOMAIN f : f[n] \in X /\ f[n] \in Closure(f, S) => n \in X
  PROVE  Closure(f, S) \subseteq X
<1> DEFINE T == X \cap Closure(f, S)
<1>1. T \subseteq S \cup {n \in DOMAIN f : f[n] # None}
  BY DEF Closure
<1>2. S \subseteq T /\ \A n \in DOMAIN f : f[n] \in T => n \in T
  BY ClosureHas
<1> QED  BY <1>1, <1>2 DEF Closure

\* What is below S is in S or has its parent below S.
LEMMA ClosureFrom ==
  ASSUME NEW f, NEW S, None \notin S \cup DOMAIN f, NEW n \in Closure(f, S)
  PROVE  n \in S \/ (n \in DOMAIN f /\ f[n] \in Closure(f, S))
<1> DEFINE X == S \cup {m \in DOMAIN f : f[m] \in Closure(f, S)}
<1>1. S \subseteq X /\ \A m \in DOMAIN f : f[m] \in Closure(f, S) => m \in X
  OBVIOUS
<1> HIDE DEF X
<1>2. Closure(f, S) \subseteq X
  BY <1>1, ClosureLeast
<1> QED  BY <1>2 DEF X

\* What is below nodes below S is below S.
LEMMA ClosureTwice ==
  ASSUME NEW f, NEW S, NEW T, None \notin S \cup DOMAIN f, T \subseteq Closure(f, S)
  PROVE  Closure(f, T) \subseteq Closure(f, S)
<1>1. None \notin T \cup DOMAIN f
  BY DEF Closure
<1> QED  BY <1>1, ClosureHas, ClosureLeast

\* What is below S is in S or in the tree.
LEMMA ClosureIn ==
  ASSUME NEW f, NEW S
  PROVE  Closure(f, S) \subseteq S \cup DOMAIN f
BY DEF Closure

\* A tree without what is below A.
Without(f, A) == [n \in DOMAIN f |-> IF n \in Closure(f, A) THEN None ELSE f[n]]

\* Cutting A and then B leaves what cutting both at once leaves.
LEMMA CutTwice ==
  ASSUME NEW f, NEW A, NEW B, None \notin A \cup B \cup DOMAIN f
  PROVE  Closure(f, A \cup B) = Closure(f, A) \cup Closure(Without(f, A), B)
<1> DEFINE g == Without(f, A)
<1>0. DOMAIN g = DOMAIN f /\ \A n \in DOMAIN f : g[n] = IF n \in Closure(f, A) THEN None ELSE f[n]
  BY DEF Without
<1>1. Closure(f, A \cup B) \subseteq Closure(f, A) \cup Closure(g, B)
  <2> DEFINE X == Closure(f, A) \cup Closure(g, B)
  <2>1. A \cup B \subseteq X
    BY <1>0, ClosureHas
  <2>2. ASSUME NEW n \in DOMAIN f, f[n] \in X  PROVE n \in X
    <3>1. CASE f[n] \in Closure(f, A)
      BY <3>1, ClosureHas
    <3>2. CASE n \notin Closure(f, A) /\ f[n] \in Closure(g, B)
      <4>1. g[n] = f[n]
        BY <3>2, <1>0
      <4> QED  BY <4>1, <3>2, <1>0, ClosureHas
    <3> QED  BY <3>1, <3>2, <2>2
  <2> HIDE DEF X
  <2>3. Closure(f, A \cup B) \subseteq X
    BY <2>1, <2>2, ClosureLeast
  <2> QED  BY <2>3 DEF X
<1>2. Closure(f, A) \subseteq Closure(f, A \cup B)
  BY ClosureHas, ClosureTwice
<1>3. Closure(g, B) \subseteq Closure(f, A \cup B)
  <2>1. B \subseteq Closure(f, A \cup B)
    BY ClosureHas
  <2>2. ASSUME NEW n \in DOMAIN g, g[n] \in Closure(f, A \cup B)  PROVE n \in Closure(f, A \cup B)
    <3>1. None \notin Closure(f, A \cup B)
      BY ClosureIn
    <3>2. g[n] = f[n]
      BY <3>1, <2>2, <1>0
    <3> QED  BY <3>2, <2>2, <1>0, ClosureHas
  <2> HIDE DEF g
  <2> QED  BY <1>0, <2>1, <2>2, ClosureLeast
<1> QED  BY <1>1, <1>2, <1>3

\* Cutting A takes from what is below R just what is below A.
LEMMA CutRest ==
  ASSUME NEW f, NEW A, NEW R, None \notin A \cup R \cup DOMAIN f, R \cap Closure(f, A) = {},
         NEW g, DOMAIN g = DOMAIN f,
         \A n \in DOMAIN f : g[n] = f[n] \/ (g[n] = None /\ n \in Closure(f, A)),
         \A n \in A \cap DOMAIN f : g[n] = None
  PROVE  Closure(g, R) = Closure(f, R) \ Closure(f, A)
<1>0. None \notin Closure(f, R) /\ None \notin Closure(g, R)
  BY ClosureIn
<1>1. Closure(g, R) \subseteq Closure(f, R) \ Closure(f, A)
  <2> DEFINE X == Closure(f, R) \ Closure(f, A)
  <2>1. R \subseteq X
    BY ClosureHas
  <2>2. ASSUME NEW n \in DOMAIN g, g[n] \in X  PROVE n \in X
    <3>1. g[n] # None /\ g[n] = f[n] /\ n \notin A
      BY <2>2, <1>0
    <3>2. n \in Closure(f, R)
      BY <3>1, <2>2, ClosureHas
    <3>3. n \notin Closure(f, A)
      BY <3>1, <2>2, ClosureFrom
    <3> QED  BY <3>2, <3>3
  <2> HIDE DEF X
  <2>3. Closure(g, R) \subseteq X
    BY <2>1, <2>2, ClosureLeast
  <2> QED  BY <2>3 DEF X
<1>2. Closure(f, R) \subseteq Closure(g, R) \cup Closure(f, A)
  <2> DEFINE X == Closure(g, R) \cup Closure(f, A)
  <2>1. R \subseteq X
    BY ClosureHas
  <2>2. ASSUME NEW n \in DOMAIN f, f[n] \in X  PROVE n \in X
    <3>1. CASE f[n] \in Closure(f, A) \/ n \in Closure(f, A)
      BY <3>1, ClosureHas
    <3>2. CASE n \notin Closure(f, A) /\ f[n] \in Closure(g, R)
      <4>1. g[n] = f[n]
        BY <3>2
      <4> QED  BY <4>1, <3>2, ClosureHas
    <3> QED  BY <3>1, <3>2, <2>2
  <2> HIDE DEF X
  <2>3. Closure(f, R) \subseteq X
    BY <2>1, <2>2, ClosureLeast
  <2> QED  BY <2>3 DEF X
<1> QED  BY <1>1, <1>2

-----------------------------------------------------------------------------
(* Views. *)

\* What a removal makes of each copy.
LEMMA CutValue ==
  ASSUME NEW v, v \in View, NEW S \in SUBSET Copy
  PROVE  /\ Cut(v, S) \in View
         /\ \A c \in Copy : c \in Closure(v.under, S) =>
                              Cut(v, S).under[c] = None /\ Cut(v, S).id[c] = -1
         /\ \A c \in Copy : c \notin Closure(v.under, S) =>
                              Cut(v, S).under[c] = v.under[c] /\ Cut(v, S).id[c] = v.id[c]
BY DEF Cut, View

\* What is below copies in a view is copies.
LEMMA ViewTree ==
  ASSUME NEW v, v \in View
  PROVE  /\ DOMAIN v.under = Copy /\ None \notin Copy /\ Root \notin Copy /\ None # Root
         /\ \A S \in SUBSET Copy : Closure(v.under, S) \subseteq Copy
         /\ Closure(v.under, {Root}) \subseteq Copy \cup {Root}
BY NamesDiffer, ClosureIn DEF View

\* What is left of a sound view after a removal is sound.
LEMMA CutSound ==
  ASSUME NEW v, Sound(v), NEW S \in SUBSET Copy
  PROVE  Sound(Cut(v, S)) /\ Held(Cut(v, S)) = Held(v) \ Closure(v.under, S)
<1> DEFINE w == Cut(v, S)
           C == Closure(v.under, S)
<1>1. v \in View
  BY DEF Sound
<1>2. /\ w \in View
      /\ \A c \in Copy : c \in C => w.under[c] = None /\ w.id[c] = -1
      /\ \A c \in Copy : c \notin C => w.under[c] = v.under[c] /\ w.id[c] = v.id[c]
  BY <1>1, CutValue
<1>3. /\ DOMAIN v.under = Copy /\ DOMAIN w.under = Copy /\ None \notin Copy /\ Root \notin Copy
      /\ None # Root /\ C \subseteq Copy
  BY <1>1, <1>2, ViewTree
<1>4. S \subseteq C /\ \A n \in Copy : v.under[n] \in C => n \in C
  BY <1>3, ClosureHas
<1>5. Closure(w.under, {Root}) = Closure(v.under, {Root}) \ C
  <2>1. {Root} \cap C = {} /\ None \notin S \cup {Root} \cup Copy
    BY <1>3
  <2>2. \A n \in Copy : w.under[n] = v.under[n] \/ (w.under[n] = None /\ n \in C)
    BY <1>2
  <2>3. \A n \in S \cap Copy : w.under[n] = None
    BY <1>2, <1>4
  <2> HIDE DEF w
  <2> QED  BY <1>3, <2>1, <2>2, <2>3, CutRest
<1> HIDE DEF w, C
<1>6. Held(w) = Held(v) \ C
  BY <1>2, <1>3 DEF Held
<1>7. \A c \in Copy : w.id[c] # 0 /\ (w.id[c] = -1 <=> w.under[c] = None)
  BY <1>2 DEF Sound
<1>8. \A c \in Held(w) : w.under[c] \in Held(w) \cup {Root}
  <2> TAKE c \in Held(w)
  <2>1. c \in Held(v) /\ c \in Copy /\ c \notin C
    BY <1>6 DEF Held
  <2>2. w.under[c] = v.under[c] /\ v.under[c] \in Held(v) \cup {Root} /\ v.under[c] \notin C
    BY <2>1, <1>2, <1>4 DEF Sound
  <2> QED  BY <2>2, <1>6
<1>9. Held(w) \subseteq Closure(w.under, {Root})
  BY <1>5, <1>6 DEF Sound
<1>10. \A c, d \in Held(w) : w.id[c] = w.id[d] \/ c[1] = d[1] => c = d
  <2> TAKE c, d \in Held(w)
  <2>1. c \in Held(v) /\ d \in Held(v) /\ w.id[c] = v.id[c] /\ w.id[d] = v.id[d]
    BY <1>6, <1>2 DEF Held
  <2> QED  BY <2>1 DEF Sound
<1>11. Sound(w)
  BY <1>2, <1>7, <1>8, <1>9, <1>10 DEF Sound
<1> QED  BY <1>6, <1>11 DEF w, C

\* Cutting A and then B is cutting both.
LEMMA CutBoth ==
  ASSUME NEW v, v \in View, NEW A \in SUBSET Copy, NEW B \in SUBSET Copy
  PROVE  Cut(Cut(v, A), B) = Cut(v, A \cup B)
<1> DEFINE w == Cut(v, A)
           C == Closure(v.under, A)
           D == Closure(w.under, B)
           E == Closure(v.under, A \cup B)
<1>1. /\ DOMAIN v.under = Copy /\ None \notin Copy /\ C \subseteq Copy /\ E \subseteq Copy
  BY ViewTree
<1>2. /\ w \in View
      /\ \A c \in Copy : c \in C => w.under[c] = None /\ w.id[c] = -1
      /\ \A c \in Copy : c \notin C => w.under[c] = v.under[c] /\ w.id[c] = v.id[c]
  BY CutValue
<1>3. w.under = Without(v.under, A)
  BY <1>1 DEF Without, Cut
<1>4. E = C \cup D
  BY <1>1, <1>3, CutTwice
<1> HIDE DEF w, C, D, E
<1>5. Cut(w, B).under = Cut(v, A \cup B).under
  <2>1. \A c \in Copy : (IF c \in D THEN None ELSE w.under[c]) = IF c \in E THEN None ELSE v.under[c]
    BY <1>2, <1>4
  <2>2. Cut(w, B).under = [c \in Copy |-> IF c \in D THEN None ELSE w.under[c]]
    BY DEF Cut, D
  <2>3. Cut(v, A \cup B).under = [c \in Copy |-> IF c \in E THEN None ELSE v.under[c]]
    BY DEF Cut, E
  <2> QED  BY <2>1, <2>2, <2>3
<1>6. Cut(w, B).id = Cut(v, A \cup B).id
  <2>1. \A c \in Copy : (IF c \in D THEN -1 ELSE w.id[c]) = IF c \in E THEN -1 ELSE v.id[c]
    BY <1>2, <1>4
  <2>2. Cut(w, B).id = [c \in Copy |-> IF c \in D THEN -1 ELSE w.id[c]]
    BY DEF Cut, D
  <2>3. Cut(v, A \cup B).id = [c \in Copy |-> IF c \in E THEN -1 ELSE v.id[c]]
    BY DEF Cut, E
  <2> QED  BY <2>1, <2>2, <2>3
<1>7. Cut(w, B) = Cut(v, A \cup B)
  BY <1>5, <1>6 DEF Cut
<1> QED  BY <1>7 DEF w

\* What is below A need not be cut again.
LEMMA CutInside ==
  ASSUME NEW v, v \in View, NEW A \in SUBSET Copy, NEW B \in SUBSET Copy,
         B \ Closure(v.under, A) \subseteq A
  PROVE  Cut(v, A \cup B) = Cut(v, A)
<1>1. DOMAIN v.under = Copy /\ None \notin Copy
  BY ViewTree
<1>2. A \subseteq Closure(v.under, A) /\ A \cup B \subseteq Closure(v.under, A \cup B)
  BY <1>1, ClosureHas
<1>3. Closure(v.under, A \cup B) \subseteq Closure(v.under, A)
  BY <1>1, <1>2, ClosureTwice
<1>4. Closure(v.under, A) \subseteq Closure(v.under, A \cup B)
  BY <1>1, <1>2, ClosureTwice
<1>5. Closure(v.under, A) = Closure(v.under, A \cup B)
  BY <1>3, <1>4
<1> QED  BY <1>5 DEF Cut

\* A removal of no one changes nothing.
LEMMA CutNone ==
  ASSUME NEW v, v \in View
  PROVE  Cut(v, {}) = v
<1>1. DOMAIN v.under = Copy /\ None \notin Copy
  BY ViewTree
<1>2. Closure(v.under, {}) \subseteq {}
  BY <1>1, ClosureLeast
<1>3. Cut(v, {}) = [under |-> [c \in Copy |-> v.under[c]], id |-> [c \in Copy |-> v.id[c]]]
  BY <1>2 DEF Cut
<1> QED  BY <1>3 DEF View

\* Removals one after the other: those of the first identifiers, then that of others.
LEMMA CutNamed ==
  ASSUME NEW v, Sound(v), NEW I, NEW J
  PROVE  Cut(Cut(v, Named(v, I)), Named(Cut(v, Named(v, I)), J)) = Cut(v, Named(v, I \cup J))
<1> DEFINE A == Named(v, I)
           B == Named(v, J)
           C == Closure(v.under, A)
           w == Cut(v, A)
<1>1. v \in View /\ A \in SUBSET Copy /\ B \in SUBSET Copy
  BY DEF Sound, Named, Held
<1>2. Held(w) = Held(v) \ C /\ \A c \in Copy \ C : w.id[c] = v.id[c]
  BY <1>1, CutSound, CutValue
<1>3. Named(w, J) = B \ C
  BY <1>2 DEF Named, Held
<1>4. Named(v, I \cup J) = A \cup B
  BY DEF Named
<1> HIDE DEF w, A, B, C
<1>5. Cut(w, B \ C) = Cut(v, A \cup (B \ C))
  BY <1>1, CutBoth DEF w
<1>6. Cut(v, (A \cup (B \ C)) \cup B) = Cut(v, A \cup (B \ C))
  <2>1. Closure(v.under, A) \subseteq Closure(v.under, A \cup (B \ C))
    <3>1. DOMAIN v.under = Copy /\ None \notin Copy
      BY <1>1, ViewTree
    <3>2. A \subseteq Closure(v.under, A \cup (B \ C))
      BY <3>1, <1>1, ClosureHas
    <3> QED  BY <3>1, <3>2, <1>1, ClosureTwice
  <2>2. B \ Closure(v.under, A \cup (B \ C)) \subseteq A \cup (B \ C)
    BY <2>1 DEF C
  <2> DEFINE F == A \cup (B \ C)
  <2>3. F \in SUBSET Copy
    BY <1>1
  <2> HIDE DEF F
  <2>4. B \ Closure(v.under, F) \subseteq F
    BY <2>2 DEF F
  <2>5. Cut(v, F \cup B) = Cut(v, F)
    BY <2>3, <2>4, <1>1, CutInside
  <2> QED  BY <2>5 DEF F
<1>7. (A \cup (B \ C)) \cup B = A \cup B
  OBVIOUS
<1>8. Cut(w, Named(w, J)) = Cut(v, Named(v, I \cup J))
  BY <1>3, <1>4, <1>5, <1>6, <1>7
<1> QED  BY <1>8 DEF w, A

-----------------------------------------------------------------------------
(* What the messages on their way make of a view. *)

\* A function on the first n numbers is a sequence.
LEMMA IsSequence ==
  ASSUME NEW S, NEW n \in Nat, NEW f \in [1 .. n -> S]
  PROVE  f \in Seq(S) /\ Len(f) = n
OBVIOUS

\* Both ends of a row of messages are sound.
LEMMA LeadsSound ==
  ASSUME NEW v, NEW d \in Seq(Message), NEW w, Leads(v, d, w)
  PROVE  Sound(v) /\ Sound(w)
BY DEF Leads

\* No message changes nothing.
LEMMA LeadsNone ==
  ASSUME NEW v, NEW w
  PROVE  /\ Sound(v) => Leads(v, << >>, v)
         /\ Leads(v, << >>, w) => v = w
<1>1. Sound(v) => Leads(v, << >>, v)
  <2> SUFFICES ASSUME Sound(v) PROVE Leads(v, << >>, v)
    OBVIOUS
  <2> DEFINE h == <<v>>
  <2>1. h \in Seq(View) /\ Len(h) = 1 /\ h[1] = v
    BY DEF Sound
  <2> HIDE DEF h
  <2>2. Len(<< >>) + 1 = 1 /\ 1 .. Len(<< >>) = {} /\ 1 .. 1 = {1}
    OBVIOUS
  <2>3. \A k \in 1 .. Len(<< >>) + 1 : Sound(h[k])
    BY <2>1, <2>2
  <2>4. \A k \in 1 .. Len(<< >>) : Takes(h[k], << >>[k], h[k + 1])
    BY <2>2
  <2> QED  BY <2>1, <2>2, <2>3, <2>4 DEF Leads
<1>2. Leads(v, << >>, w) => v = w
  BY DEF Leads
<1> QED  BY <1>1, <1>2

\* Two rows of messages, one after the other.
LEMMA LeadsOn ==
  ASSUME NEW v, NEW d \in Seq(Message), NEW w, NEW e \in Seq(Message), NEW u,
         Leads(v, d, w), Leads(w, e, u)
  PROVE  Leads(v, d \o e, u)
<1>1. PICK h \in Seq(View) : /\ Len(h) = Len(d) + 1 /\ h[1] = v /\ h[Len(d) + 1] = w
                             /\ \A k \in 1 .. Len(d) + 1 : Sound(h[k])
                             /\ \A k \in 1 .. Len(d) : Takes(h[k], d[k], h[k + 1])
  BY DEF Leads
<1>2. PICK g \in Seq(View) : /\ Len(g) = Len(e) + 1 /\ g[1] = w /\ g[Len(e) + 1] = u
                             /\ \A k \in 1 .. Len(e) + 1 : Sound(g[k])
                             /\ \A k \in 1 .. Len(e) : Takes(g[k], e[k], g[k + 1])
  BY DEF Leads
<1> DEFINE m == Len(d)
           n == Len(e)
           x == d \o e
           f == [k \in 1 .. m + n + 1 |-> IF k <= m THEN h[k] ELSE g[k - m]]
<1>3. m \in Nat /\ n \in Nat /\ Len(x) = m + n
  OBVIOUS
<1>4. /\ \A k \in 1 .. m : x[k] = d[k]
      /\ \A k \in m + 1 .. m + n : x[k] = e[k - m]
  OBVIOUS
<1>5. f \in Seq(View) /\ Len(f) = m + n + 1
  <2>1. \A k \in 1 .. m + n + 1 : (IF k <= m THEN h[k] ELSE g[k - m]) \in View
    BY <1>1, <1>2, <1>3 DEF Sound
  <2>2. f \in [1 .. m + n + 1 -> View]
    BY <2>1
  <2>3. m + n + 1 \in Nat
    BY <1>3
  <2> HIDE DEF f, m, n
  <2> QED  BY <2>2, <2>3, IsSequence
<1>6. \A k \in 1 .. m + n + 1 : f[k] = IF k <= m THEN h[k] ELSE g[k - m]
  OBVIOUS
<1> HIDE DEF x, f, m, n
<1>a. /\ h[1] = v /\ h[m + 1] = w
      /\ \A k \in 1 .. m + 1 : Sound(h[k])
      /\ \A k \in 1 .. m : Takes(h[k], d[k], h[k + 1])
      /\ g[1] = w /\ g[n + 1] = u
      /\ \A k \in 1 .. n + 1 : Sound(g[k])
      /\ \A k \in 1 .. n : Takes(g[k], e[k], g[k + 1])
  BY <1>1, <1>2 DEF m, n
<1>7. f[1] = v /\ f[m + n + 1] = u
  <2>1. f[1] = v
    <3>1. CASE m = 0
      BY <3>1, <1>a, <1>3, <1>6
    <3>2. CASE m # 0
      BY <3>2, <1>a, <1>3, <1>6
    <3> QED  BY <3>1, <3>2
  <2>2. f[m + n + 1] = g[n + 1]
    BY <1>3, <1>6
  <2> QED  BY <2>1, <2>2, <1>a
<1>8. \A k \in 1 .. m + n + 1 : Sound(f[k])
  <2> TAKE k \in 1 .. m + n + 1
  <2>1. CASE k <= m
    BY <2>1, <1>a, <1>3, <1>6
  <2>2. CASE ~(k <= m)
    <3>1. f[k] = g[k - m] /\ k - m \in 1 .. n + 1
      BY <2>2, <1>3, <1>6
    <3> QED  BY <3>1, <1>a
  <2> QED  BY <2>1, <2>2
<1>9. \A k \in 1 .. m + n : Takes(f[k], x[k], f[k + 1])
  <2> TAKE k \in 1 .. m + n
  <2>1. CASE k < m
    <3> DEFINE j == k + 1
    <3>1. k \in 1 .. m /\ k \in 1 .. m + n + 1 /\ k <= m /\ j \in 1 .. m + n + 1 /\ j <= m
      BY <2>1, <1>3
    <3> HIDE DEF j
    <3>2. x[k] = d[k]
      BY ONLY <3>1, <1>4
    <3>3. f[k] = h[k] /\ f[j] = h[j]
      BY ONLY <3>1, <1>6
    <3> QED  BY <3>1, <3>2, <3>3, <1>a DEF j
  <2>2. CASE k = m
    <3>1. k \in 1 .. m /\ h[k + 1] = w
      BY <2>2, <1>a, <1>3
    <3>2. x[k] = d[k] /\ f[k] = h[k]
      BY <2>2, <3>1, <1>3, <1>4, <1>6
    <3>3. f[k + 1] = g[1]
      <4> DEFINE j == k + 1
      <4>1. j \in 1 .. m + n + 1 /\ ~(j <= m) /\ j - m = 1
        BY <2>2, <1>3
      <4> HIDE DEF j
      <4>2. f[j] = g[j - m]
        BY <4>1, <1>6
      <4> QED  BY <4>1, <4>2 DEF j
    <3> QED  BY <3>1, <3>2, <3>3, <1>a
  <2>3. CASE k > m
    <3>1. /\ k \in 1 .. m + n + 1 /\ k + 1 \in 1 .. m + n + 1 /\ k \in m + 1 .. m + n
          /\ ~(k <= m) /\ ~(k + 1 <= m) /\ k + 1 - m = k - m + 1 /\ k - m \in 1 .. n
      BY <2>3, <1>3
    <3>2. f[k] = g[k - m] /\ f[k + 1] = g[k - m + 1]
      <4>1. \A j \in 1 .. m + n + 1 : ~(j <= m) => f[j] = g[j - m]
        BY <1>6
      <4>2. f[k] = g[k - m]
        BY <3>1, <4>1
      <4> DEFINE j == k + 1
      <4>3. j \in 1 .. m + n + 1 /\ ~(j <= m) /\ j - m = k - m + 1
        BY <2>3, <1>3
      <4> HIDE DEF j
      <4>4. f[j] = g[j - m]
        BY <4>1, <4>3
      <4> QED  BY <4>2, <4>3, <4>4 DEF j
    <3>3. x[k] = e[k - m]
      BY ONLY <3>1, <1>4
    <3> QED  BY <3>1, <3>2, <3>3, <1>a
  <2> QED  BY <2>1, <2>2, <2>3, <1>3
<1>10. Leads(v, x, u)
  <2> QED  BY <1>3, <1>5, <1>7, <1>8, <1>9 DEF Leads
<1> QED  BY <1>10 DEF x

\* A single message.
LEMMA LeadsOne ==
  ASSUME NEW v, NEW m \in Message, NEW w, Sound(v), Sound(w), Takes(v, m, w)
  PROVE  Leads(v, <<m>>, w)
<1> DEFINE h == <<v, w>>
           d == <<m>>
<1>1. h \in Seq(View) /\ Len(h) = 2 /\ h[1] = v /\ h[2] = w
  BY DEF Sound
<1>2. Len(d) = 1 /\ d[1] = m
  OBVIOUS
<1> HIDE DEF h, d
<1>3. \A k \in 1 .. Len(d) + 1 : Sound(h[k])
  <2>1. \A k \in 1 .. Len(d) + 1 : k = 1 \/ k = 2
    BY <1>2
  <2> QED  BY <2>1, <1>1
<1>4. \A k \in 1 .. Len(d) : Takes(h[k], d[k], h[k + 1])
  <2>1. \A k \in 1 .. Len(d) : k = 1 /\ k + 1 = 2
    BY <1>2
  <2> QED  BY <2>1, <1>1, <1>2
<1>5. Leads(v, d, w)
  BY <1>1, <1>2, <1>3, <1>4 DEF Leads
<1> QED  BY <1>5 DEF d

\* The first message of a row, and the rest.
LEMMA LeadsFirst ==
  ASSUME NEW v, NEW d \in Seq(Message), NEW w, Leads(v, d, w), d # << >>
  PROVE  \E u : Takes(v, Head(d), u) /\ Sound(u) /\ Leads(u, Tail(d), w)
<1>1. PICK h \in Seq(View) : /\ Len(h) = Len(d) + 1 /\ h[1] = v /\ h[Len(d) + 1] = w
                             /\ \A k \in 1 .. Len(d) + 1 : Sound(h[k])
                             /\ \A k \in 1 .. Len(d) : Takes(h[k], d[k], h[k + 1])
  BY DEF Leads
<1> DEFINE t == Tail(d)
           g == Tail(h)
<1>2. Len(d) \in Nat /\ Len(d) > 0 /\ Len(t) = Len(d) - 1 /\ Head(d) = d[1]
  OBVIOUS
<1>3. \A k \in 1 .. Len(t) : t[k] = d[k + 1]
  OBVIOUS
<1>4. g \in Seq(View) /\ Len(g) = Len(t) + 1 /\ \A k \in 1 .. Len(g) : g[k] = h[k + 1]
  BY <1>1, <1>2
<1> HIDE DEF t, g
<1>5. Takes(v, Head(d), h[2]) /\ Sound(h[2])
  <2>1. 1 \in 1 .. Len(d) /\ 2 \in 1 .. Len(d) + 1 /\ 1 + 1 = 2
    BY <1>2
  <2> QED  BY <2>1, <1>1, <1>2
<1>6. g[1] = h[2] /\ g[Len(t) + 1] = w
  <2>1. 1 \in 1 .. Len(g) /\ Len(t) + 1 \in 1 .. Len(g) /\ Len(t) + 1 + 1 = Len(d) + 1 /\ 1 + 1 = 2
    BY <1>2, <1>4
  <2> QED  BY <2>1, <1>1, <1>4
<1>7. \A k \in 1 .. Len(t) + 1 : Sound(g[k])
  <2> TAKE k \in 1 .. Len(t) + 1
  <2>1. g[k] = h[k + 1] /\ k + 1 \in 1 .. Len(d) + 1
    BY <1>2, <1>4
  <2> QED  BY <2>1, <1>1
<1>8. \A k \in 1 .. Len(t) : Takes(g[k], t[k], g[k + 1])
  <2> TAKE k \in 1 .. Len(t)
  <2>1. g[k] = h[k + 1] /\ g[k + 1] = h[k + 1 + 1] /\ k + 1 \in 1 .. Len(d) /\ t[k] = d[k + 1]
    BY <1>2, <1>3, <1>4
  <2> QED  BY <2>1, <1>1
<1>9. Leads(h[2], t, w)
  BY <1>4, <1>6, <1>7, <1>8 DEF Leads
<1> QED  BY <1>5, <1>9 DEF t

\* A row of removals cuts all that they name.
LEMMA LeadsCuts ==
  ASSUME NEW v, Sound(v), NEW e \in Seq(Message),
         \A k \in 1 .. Len(e) : e[k].type = "remove"
  PROVE  Leads(v, e, Cut(v, Named(v, UNION {e[k].nodes : k \in 1 .. Len(e)})))
<1> DEFINE I(j) == UNION {e[k].nodes : k \in 1 .. j}
           h == [j \in 1 .. Len(e) + 1 |-> Cut(v, Named(v, I(j - 1)))]
           w == Cut(v, Named(v, I(Len(e))))
<1>1. v \in View /\ Len(e) \in Nat
  BY DEF Sound
<1>2. \A J : Named(v, J) \in SUBSET Copy
  BY DEF Named, Held
<1>3. \A J : Sound(Cut(v, Named(v, J)))
  BY <1>2, CutSound
<1>4. h \in Seq(View) /\ Len(h) = Len(e) + 1
  <2>1. \A J : Cut(v, Named(v, J)) \in View
    BY <1>3 DEF Sound
  <2>2. h \in [1 .. Len(e) + 1 -> View]
    BY <2>1
  <2>3. Len(e) + 1 \in Nat
    BY <1>1
  <2> HIDE DEF h
  <2> QED  BY <2>2, <2>3, IsSequence
<1>5. \A j \in 1 .. Len(e) + 1 : h[j] = Cut(v, Named(v, I(j - 1)))
  OBVIOUS
<1> HIDE DEF h
<1>6. h[1] = v
  <2>1. h[1] = Cut(v, Named(v, I(0)))
    BY <1>1, <1>5
  <2>2. I(0) = {}
    OBVIOUS
  <2>3. Named(v, {}) = {}
    BY DEF Named
  <2>4. Cut(v, {}) = v
    BY <1>1, CutNone
  <2> QED  BY <2>1, <2>2, <2>3, <2>4
<1>7. h[Len(e) + 1] = w
  BY <1>1, <1>5
<1>8. \A k \in 1 .. Len(e) : Takes(h[k], e[k], h[k + 1])
  <2> TAKE k \in 1 .. Len(e)
  <2>1. I(k) = I(k - 1) \cup e[k].nodes
    BY <1>1
  <2>2. h[k] = Cut(v, Named(v, I(k - 1))) /\ h[k + 1] = Cut(v, Named(v, I(k)))
    BY <1>1, <1>5
  <2> HIDE DEF I
  <2>3. h[k + 1] = Cut(h[k], Named(h[k], e[k].nodes))
    BY <2>1, <2>2, CutNamed
  <2> QED  BY <2>3 DEF Takes
<1>9. \A k \in 1 .. Len(e) + 1 : Sound(h[k])
  BY <1>3, <1>5
<1> HIDE DEF w
<1>10. Leads(v, e, w)
  BY <1>4, <1>6, <1>7, <1>8, <1>9 DEF Leads
<1> QED  BY <1>10 DEF w

-----------------------------------------------------------------------------
(* The server. *)

\* The identifiers of the server's nodes are theirs alone, and not the root's.
LEMMA IdsAre ==
  ASSUME ServerTree, ServerIds
  PROVE  /\ \A n \in InTree : /\ ids.object_to_id[n] \in Id \ {0}
                              /\ ids.id_to_object[ids.object_to_id[n]] = n
         /\ \A m, n \in InTree : ids.object_to_id[m] = ids.object_to_id[n] => m = n
         /\ ids.object_to_id[Root] = 0 /\ 0 \in Id
<1>1. InTree \subseteq Node /\ Root \notin InTree
  BY NamesDiffer DEF InTree
<1>2. ids.object_to_id \in [Node \cup {Root} -> Id \cup {-1}]
  BY DEF ServerIds, Server!TypeOK, Server!Id, Id
<1>3. \A o \in InTree \cup {Root} : ids.object_to_id[o] \in Id /\ ids.id_to_object[ids.object_to_id[o]] = o
  BY <1>1, <1>2 DEF ServerIds, Agree
<1>4. ids.object_to_id[Root] = 0
  BY DEF ServerIds, Agree
<1> QED  BY <1>1, <1>3, <1>4

\* What the server shows: the nodes sent, under the copies of their parents.
ServerShows ==
  /\ \A c \in Shown : c \in Copy /\ c[1] \in sent /\ c = Current(c[1])
  /\ \A n \in sent : /\ Current(n) \in Shown /\ Current(n)[1] = n
                     /\ ServerView.id[Current(n)] = ids.object_to_id[n]
                     /\ ServerView.under[Current(n)] = IF parent[n] = Root THEN Root ELSE Current(parent[n])
  /\ \A c \in Copy \ Shown : ServerView.id[c] = -1 /\ ServerView.under[c] = None
  /\ Held(ServerView) = Shown

\* The view the server has of its client is that of the nodes it shows.
LEMMA ServerViewIs ==
  ASSUME ServerTree, ServerIds
  PROVE  ServerShows
<1>1. sent \subseteq InTree /\ InTree \subseteq Node /\ count \in [Node -> 0 .. MaxSent]
      /\ \A n \in sent : count[n] # 0
  BY DEF ServerTree, InTree
<1>2. \A n \in sent : Current(n) \in Copy /\ Current(n)[1] = n
  <2> TAKE n \in sent
  <2>1. count[n] \in 1 .. MaxSent
    <3>1. count[n] \in 0 .. MaxSent /\ count[n] # 0 /\ MaxSent \in Nat
      BY <1>1, BoundAssumption
    <3> QED  BY <3>1
  <2> QED  BY <2>1, <1>1 DEF Current, Copy
<1>3. \A c \in Shown : c \in Copy /\ c[1] \in sent /\ c = Current(c[1])
  BY <1>2 DEF Shown
<1>4. \A n \in sent : /\ Current(n) \in Shown /\ Current(n)[1] = n
                      /\ ServerView.id[Current(n)] = ids.object_to_id[n]
                      /\ ServerView.under[Current(n)] = IF parent[n] = Root THEN Root ELSE Current(parent[n])
  BY <1>2 DEF Shown, ServerView
<1>5. \A c \in Copy \ Shown : ServerView.id[c] = -1 /\ ServerView.under[c] = None
  BY DEF ServerView
<1>6. \A n \in sent : ids.object_to_id[n] # -1
  BY <1>1, IdsAre DEF Id
<1>7. Held(ServerView) = Shown
  BY <1>3, <1>4, <1>5, <1>6 DEF Held
<1> QED  BY <1>3, <1>4, <1>5, <1>7 DEF ServerShows

\* It is sound.
LEMMA ServerSound ==
  ASSUME ServerTree, ServerIds
  PROVE  Sound(ServerView)
<1> DEFINE v == ServerView
<1>1. /\ \A c \in Shown : c \in Copy /\ c[1] \in sent /\ c = Current(c[1])
      /\ \A n \in sent : /\ Current(n) \in Shown /\ Current(n)[1] = n
                         /\ v.id[Current(n)] = ids.object_to_id[n]
                         /\ v.under[Current(n)] = IF parent[n] = Root THEN Root ELSE Current(parent[n])
      /\ \A c \in Copy \ Shown : v.id[c] = -1 /\ v.under[c] = None
      /\ Held(v) = Shown
  BY ServerViewIs DEF ServerShows
<1>2. /\ v = [under |-> v.under, id |-> v.id]
      /\ v.under = [c \in Copy |-> v.under[c]] /\ v.id = [c \in Copy |-> v.id[c]]
  BY DEF ServerView
<1> HIDE DEF v
<1>3. /\ \A n \in InTree : ids.object_to_id[n] \in Id \ {0}
      /\ \A m, n \in InTree : ids.object_to_id[m] = ids.object_to_id[n] => m = n
  BY IdsAre
<1>4. /\ sent \subseteq InTree /\ InTree \subseteq Node /\ InTree \subseteq Closure(parent, {Root})
      /\ \A n \in sent : parent[n] \in sent \cup {Root}
      /\ parent \in [Node -> Node \cup {Root, None}]
  BY DEF ServerTree, InTree
<1>5. \A n \in sent : v.under[Current(n)] \in Shown \cup {Root}
  BY <1>1, <1>4
<1>6. v \in View
  <2>1. \A c \in Copy : v.under[c] \in Copy \cup {Root, None} /\ v.id[c] \in Id \cup {-1}
    BY <1>1, <1>3, <1>4, <1>5
  <2>2. v.under \in [Copy -> Copy \cup {Root, None}] /\ v.id \in [Copy -> Id \cup {-1}]
    BY <1>2, <2>1
  <2> QED  BY <1>2, <2>2 DEF View
<1>7. \A c \in Copy : v.id[c] # 0 /\ (v.id[c] = -1 <=> v.under[c] = None)
  <2>1. None # Root /\ None \notin Copy
    BY NamesDiffer
  <2>2. -1 \notin Id
    BY DEF Id
  <2> QED  BY <1>1, <1>3, <1>4, <1>5, <2>1, <2>2
<1>8. \A c \in Held(v) : v.under[c] \in Held(v) \cup {Root}
  BY <1>1, <1>5
<1>9. Held(v) \subseteq Closure(v.under, {Root})
  <2> DEFINE X == {Root} \cup {n \in Node : n \in sent => Current(n) \in Closure(v.under, {Root})}
  <2>1. DOMAIN v.under = Copy /\ DOMAIN parent = Node /\ None \notin {Root} \cup Copy \cup Node /\ Root \notin Node
    BY <1>2, <1>4, NamesDiffer
  <2>2. ASSUME NEW n \in Node, parent[n] \in X  PROVE n \in X
    <3>1. SUFFICES ASSUME n \in sent PROVE Current(n) \in Closure(v.under, {Root})
      OBVIOUS
    <3>2. v.under[Current(n)] \in Closure(v.under, {Root})
      <4>1. CASE parent[n] = Root
        BY <3>1, <4>1, <1>1, <2>1, ClosureHas
      <4>2. CASE parent[n] # Root
        BY <3>1, <4>2, <1>1, <1>4, <2>2
      <4> QED  BY <4>1, <4>2
    <3>3. Current(n) \in Copy
      BY <3>1, <1>1
    <3> QED  BY <3>2, <3>3, <2>1, ClosureHas
  <2>3. {Root} \subseteq X
    OBVIOUS
  <2> HIDE DEF X
  <2>4. Closure(parent, {Root}) \subseteq X
    BY <2>1, <2>2, <2>3, ClosureLeast
  <2>5. \A n \in sent : Current(n) \in Closure(v.under, {Root})
    BY <2>1, <2>4, <1>4 DEF X
  <2>6. \A c \in Shown : c[1] \in sent /\ c = Current(c[1])
    BY <1>1
  <2>7. Shown \subseteq Closure(v.under, {Root})
    BY ONLY <2>5, <2>6
  <2> QED  BY <2>7, <1>1
<1>10. \A c, d \in Held(v) : v.id[c] = v.id[d] \/ c[1] = d[1] => c = d
  <2> TAKE c, d \in Held(v)
  <2>1. /\ c = Current(c[1]) /\ d = Current(d[1]) /\ c[1] \in sent /\ d[1] \in sent
        /\ v.id[c] = ids.object_to_id[c[1]] /\ v.id[d] = ids.object_to_id[d[1]]
    BY <1>1
  <2>2. c[1] = d[1] => c = d
    BY <2>1
  <2> QED  BY <2>1, <2>2, <1>3, <1>4
<1>11. Sound(v)
  BY <1>6, <1>7, <1>8, <1>9, <1>10 DEF Sound
<1> QED  BY <1>11 DEF v

\* Nodes below n that stop being shown are cut by any removal that names all of
\* those that are shown, and no others than nodes below n.
LEMMA ServerHides ==
  ASSUME ServerTree, ServerIds, NEW n \in InTree,
         NEW S, Below(n) \cap sent \subseteq S, S \subseteq Below(n),
         sent' = sent \ Below(n), count' = count,
         \A m \in sent \ Below(n) : parent'[m] = parent[m] /\ ids'.object_to_id[m] = ids.object_to_id[m]
  PROVE  ServerView' = Cut(ServerView, Named(ServerView, {ids.object_to_id[m] : m \in S}))
<1> DEFINE v == ServerView
           A == {Current(m) : m \in Below(n) \cap sent}
           C == Closure(v.under, A)
           I == {ids.object_to_id[m] : m \in S}
<1>1. /\ \A c \in Shown : c \in Copy /\ c[1] \in sent /\ c = Current(c[1])
      /\ \A m \in sent : /\ Current(m) \in Shown /\ Current(m)[1] = m
                         /\ v.id[Current(m)] = ids.object_to_id[m]
                         /\ v.under[Current(m)] = IF parent[m] = Root THEN Root ELSE Current(parent[m])
      /\ \A c \in Copy \ Shown : v.id[c] = -1 /\ v.under[c] = None
      /\ Held(v) = Shown
  BY ServerViewIs DEF ServerShows
<1>2. v \in View
  BY ServerSound DEF Sound
<1>3. /\ DOMAIN v.under = Copy /\ None \notin Copy /\ Root \notin Copy /\ None # Root /\ A \subseteq Copy
      /\ None \notin Node /\ Root \notin Node
  BY <1>1, <1>2, ViewTree, NamesDiffer
<1>4. /\ sent \subseteq InTree /\ InTree \subseteq Node /\ parent \in [Node -> Node \cup {Root, None}]
      /\ \A m \in sent : parent[m] \in sent \cup {Root}
  BY DEF ServerTree, InTree
<1>5. Below(n) \subseteq InTree /\ \A m \in Node : parent[m] \in Below(n) => m \in Below(n)
  <2>1. DOMAIN parent = Node /\ None \notin {n} \cup Node /\ n \in Node
    BY <1>3, <1>4
  <2>2. \A m \in Node : parent[m] \in Below(n) => m \in Below(n)
    BY <2>1, ClosureHas DEF Below
  <2>3. \A m \in Below(n) : m \in {n} \/ (m \in Node /\ parent[m] \in Below(n))
    BY <2>1, ClosureFrom DEF Below
  <2>4. None \notin Below(n)
    BY <2>1, ClosureIn DEF Below
  <2> QED  BY <2>2, <2>3, <2>4 DEF InTree
<1>6. Named(v, I) = A
  <2>1. \A m, k \in InTree : ids.object_to_id[m] = ids.object_to_id[k] => m = k
    BY IdsAre
  <2>2. Named(v, I) \subseteq A
    <3> SUFFICES ASSUME NEW c \in Held(v), v.id[c] \in I PROVE c \in A
      BY DEF Named
    <3>1. c[1] \in sent /\ c = Current(c[1]) /\ v.id[c] = ids.object_to_id[c[1]]
      BY <1>1
    <3>2. PICK m \in S : v.id[c] = ids.object_to_id[m]
      OBVIOUS
    <3>3. m = c[1]
      BY <3>1, <3>2, <2>1, <1>4, <1>5
    <3> QED  BY <3>1, <3>3
  <2>3. A \subseteq Named(v, I)
    BY <1>1 DEF Named
  <2> QED  BY <2>2, <2>3
<1>7. C = A
  <2>1. A \subseteq C
    BY <1>3, ClosureHas
  <2>2. ASSUME NEW c \in Copy, v.under[c] \in A  PROVE c \in A
    <3>1. c \in Shown
      BY <1>1, <1>3, <2>2
    <3>2. PICK m \in sent : c = Current(m) /\ c[1] = m
      BY <3>1, <1>1
    <3>3. parent[m] # Root /\ v.under[c] = Current(parent[m]) /\ parent[m] \in sent
      BY <3>2, <1>1, <1>3, <1>4, <2>2
    <3>4. parent[m] \in Below(n)
      <4>1. PICK k \in Below(n) \cap sent : Current(parent[m]) = Current(k)
        BY <3>3, <2>2
      <4> QED  BY <4>1, <3>3, <1>1
    <3>5. m \in Below(n)
      BY <3>2, <3>4, <1>4, <1>5
    <3> QED  BY <3>2, <3>5
  <2>3. C \subseteq A
    <3> HIDE DEF A, v
    <3> QED  BY <1>3, <2>2, ClosureLeast
  <2> QED  BY <2>1, <2>3
<1>8. Shown' = Shown \ A
  <2>1. \A m \in sent \ Below(n) : Current(m)' = Current(m)
    BY DEF Current
  <2>2. Shown' = {Current(m) : m \in sent \ Below(n)}
    BY <2>1 DEF Shown
  <2>3. Shown = {Current(m) : m \in sent} /\ \A k, m \in sent : Current(k) = Current(m) => k = m
    BY <1>1 DEF Shown
  <2> QED  BY ONLY <2>2, <2>3
<1>9. ASSUME NEW c \in Shown \ A
      PROVE  /\ ids'.object_to_id[c[1]] = ids.object_to_id[c[1]]
             /\ parent'[c[1]] = parent[c[1]]
  <2>1. c[1] \in sent \ Below(n)
    BY <1>1
  <2> QED  BY <2>1
<1>10. ServerView'.under = Cut(v, A).under
  <2>1. ServerView'.under = [c \in Copy |-> IF c \notin Shown' THEN None
                               ELSE IF parent'[c[1]] = Root THEN Root ELSE Current(parent'[c[1]])]
    BY DEF ServerView, Current
  <2>2. Cut(v, A).under = [c \in Copy |-> IF c \in A THEN None ELSE v.under[c]]
    BY <1>7 DEF Cut
  <2>3. \A c \in Shown : v.under[c] = IF parent[c[1]] = Root THEN Root ELSE Current(parent[c[1]])
    BY <1>1
  <2> HIDE DEF A, v
  <2>4. \A c \in Copy : (IF c \notin Shown' THEN None
                           ELSE IF parent'[c[1]] = Root THEN Root ELSE Current(parent'[c[1]]))
                          = IF c \in A THEN None ELSE v.under[c]
    BY <1>1, <1>8, <1>9, <2>3
  <2> QED  BY <2>1, <2>2, <2>4
<1>11. ServerView'.id = Cut(v, A).id
  <2>1. ServerView'.id = [c \in Copy |-> IF c \in Shown' THEN ids'.object_to_id[c[1]] ELSE -1]
    BY DEF ServerView
  <2>2. Cut(v, A).id = [c \in Copy |-> IF c \in A THEN -1 ELSE v.id[c]]
    BY <1>7 DEF Cut
  <2>3. \A c \in Shown : v.id[c] = ids.object_to_id[c[1]]
    BY <1>1
  <2> HIDE DEF A, v
  <2>4. \A c \in Copy : (IF c \in Shown' THEN ids'.object_to_id[c[1]] ELSE -1)
                          = IF c \in A THEN -1 ELSE v.id[c]
    BY <1>1, <1>8, <1>9, <2>3
  <2> QED  BY <2>1, <2>2, <2>4
<1>12. ServerView' = Cut(v, A)
  BY <1>10, <1>11 DEF ServerView, Cut
<1> QED  BY <1>6, <1>12

-----------------------------------------------------------------------------
(* The steps of the server. *)

ServerInv == ServerTree /\ ServerIds
ClientInv == ClientTree /\ ClientIds

\* The message at hand brings copies that the client has not had.
Unsent(m) == Brought(m) \cap entered = {}

\* No node that comes has the identifier of a copy that waits to be freed: what
\* "Object IDs are stomping." in add_object means to assert.
NoStomping ==
  \A a \in Head(down).nodes, c \in Closure(under, queued) : cids.object_to_id[c] # a.id

\* The invariant.
Inv ==
  /\ ServerInv /\ ClientInv
  /\ down \in Seq(Message) /\ up \in Seq([id : Id, to : Node])
  /\ Leads(ClientView, down, ServerView)

\* A step of the server leaves the client as it is.
LEMMA ClientSame ==
  ASSUME ClientInv, UNCHANGED <<client, handled>>
  PROVE  ClientInv' /\ ClientView' = ClientView
<1>1. /\ copies' = copies /\ under' = under /\ entered' = entered /\ queued' = queued
      /\ cids' = cids /\ handled' = handled
  BY DEF client
<1>2. InClientTree' = InClientTree
  BY <1>1 DEF InClientTree
<1>3. ClientView' = ClientView
  BY <1>1, <1>2 DEF ClientView
<1>4. Client!TypeOK' <=> Client!TypeOK
  BY <1>1 DEF Client!TypeOK, Client!Id
<1> QED  BY <1>1, <1>2, <1>3, <1>4 DEF ClientInv, ClientTree, ClientIds

\* A step of the client leaves the server as it is.
LEMMA ServerSame ==
  ASSUME ServerInv, UNCHANGED server
  PROVE  ServerInv' /\ ServerView' = ServerView
<1>1. parent' = parent /\ dead' = dead /\ ids' = ids /\ sent' = sent /\ count' = count
  BY DEF server
<1>2. InTree' = InTree
  BY <1>1 DEF InTree
<1>3. ServerView' = ServerView
  BY <1>1 DEF ServerView, Shown, Current
<1>4. Server!TypeOK' <=> Server!TypeOK
  BY <1>1 DEF Server!TypeOK, Server!Id
<1> QED  BY <1>1, <1>2, <1>3, <1>4 DEF ServerInv, ServerTree, ServerIds

\* What is below n is in the tree, and has the children of what it has.
LEMMA BelowIs ==
  ASSUME ServerTree, NEW n \in InTree
  PROVE  /\ Below(n) \subseteq InTree /\ n \in Below(n)
         /\ \A m \in Node : parent[m] \in Below(n) => m \in Below(n)
<1>1. DOMAIN parent = Node /\ None \notin {n} \cup Node /\ n \in Node
  BY NamesDiffer DEF ServerTree, InTree
<1>2. n \in Below(n) /\ \A m \in Node : parent[m] \in Below(n) => m \in Below(n)
  BY <1>1, ClosureHas DEF Below
<1>3. \A m \in Below(n) : m \in {n} \/ (m \in Node /\ parent[m] \in Below(n))
  BY <1>1, ClosureFrom DEF Below
<1>4. None \notin Below(n)
  BY <1>1, ClosureIn DEF Below
<1> QED  BY <1>2, <1>3, <1>4 DEF InTree

\* A node that enters the tree is not shown yet; its identifier is one no node has.
LEMMA SpawnStep ==
  ASSUME Inv, NEW n \in Node, NEW p \in InTree \cup {Root}, Spawn(n, p)
  PROVE  Inv'
<1>1. /\ n \notin InTree /\ n \notin dead /\ parent' = [parent EXCEPT ![n] = p]
      /\ dead' = dead /\ sent' = sent /\ count' = count /\ down' = down /\ up' = up
      /\ UNCHANGED <<client, handled>>
  BY DEF Spawn
<1>2. /\ parent \in [Node -> Node \cup {Root, None}]
      /\ dead \subseteq Node /\ dead \cap InTree = {} /\ IsFiniteSet(InTree)
      /\ \A m \in InTree : parent[m] \in InTree \cup {Root}
      /\ InTree \subseteq Closure(parent, {Root})
      /\ sent \subseteq InTree /\ \A m \in sent : parent[m] \in sent \cup {Root}
  BY DEF Inv, ServerInv, ServerTree
<1>3. /\ parent' \in [Node -> Node \cup {Root, None}] /\ parent'[n] = p
      /\ \A m \in Node \ {n} : parent'[m] = parent[m]
      /\ p # None /\ None # Root /\ None \notin Node /\ Root \notin Node
  BY <1>1, <1>2, NamesDiffer DEF InTree
<1>4. InTree' = InTree \cup {n}
  BY <1>3 DEF InTree
<1>5. InTree' \subseteq Closure(parent', {Root})
  <2> DEFINE C == Closure(parent', {Root})
  <2>1. DOMAIN parent' = Node /\ DOMAIN parent = Node
    BY <1>2, <1>3
  <2>2. Root \in C /\ \A m \in Node : parent'[m] \in C => m \in C
    BY <1>3, <2>1, ClosureHas
  <2>3. None \notin C
    BY <1>3, <2>1, ClosureIn
  <2> HIDE DEF C
  <2>4. parent[n] = None
    BY <1>1 DEF InTree
  <2>5. \A m \in Node : parent[m] \in C => m \in C
    BY <1>3, <2>2, <2>3, <2>4
  <2>6. Closure(parent, {Root}) \subseteq C
    BY <2>1, <2>2, <2>5, <1>3, ClosureLeast
  <2>7. p \in C
    BY <2>2, <2>6, <1>2
  <2>8. InTree' \subseteq C
    BY <1>2, <1>3, <1>4, <2>2, <2>6, <2>7
  <2> QED  BY <2>8 DEF C
<1>6. ServerTree'
  <2>1. IsFiniteSet(InTree')
    BY <1>2, <1>4, FS_AddElement
  <2>2. \A m \in InTree' : parent'[m] \in InTree' \cup {Root}
    BY <1>2, <1>3, <1>4 DEF InTree
  <2>3. \A m \in sent : parent'[m] = parent[m]
    BY <1>1, <1>2, <1>3 DEF InTree
  <2>4. dead' \subseteq Node /\ dead' \cap InTree' = {}
    BY <1>1, <1>2, <1>4
  <2>5. sent' \subseteq InTree' /\ \A m \in sent' : parent'[m] \in sent' \cup {Root}
    BY <1>1, <1>2, <1>4, <2>3
  <2>6. count' \in [Node -> 0 .. MaxSent] /\ \A m \in sent' : count'[m] # 0
    BY <1>1 DEF Inv, ServerInv, ServerTree
  <2> QED  BY <1>3, <1>5, <2>1, <2>2, <2>4, <2>5, <2>6 DEF ServerTree
<1>7. ServerIds' /\ \A m \in InTree : ids'.object_to_id[m] = ids.object_to_id[m]
  <2>1. PICK i \in Server!NextIds(ids) :
          ids' = [Server!Registered(ids, n, i) EXCEPT !.current_id = i]
    BY DEF Spawn
  <2>2. i \in Id /\ ids.id_to_object[i] = None
    BY <2>1 DEF Server!NextIds, Server!InUse, Server!Id, Id
  <2>3. Server!TypeOK /\ Agree(ids, InTree \cup {Root})
    BY DEF Inv, ServerInv, ServerIds
  <2>4. /\ ids \in [object_to_id : [Node \cup {Root} -> Id \cup {-1}],
                    id_to_object : [Id -> Node \cup {Root} \cup {None}],
                    current_id : Id, object_awaits : SUBSET (Node \cup {Root})]
    BY <2>3 DEF Server!TypeOK, Server!Id, Id
  <2>5. /\ ids'.object_to_id = [ids.object_to_id EXCEPT ![n] = i]
        /\ ids'.id_to_object = [ids.id_to_object EXCEPT ![i] = n]
        /\ ids' \in [object_to_id : [Node \cup {Root} -> Id \cup {-1}],
                     id_to_object : [Id -> Node \cup {Root} \cup {None}],
                     current_id : Id, object_awaits : SUBSET (Node \cup {Root})]
    BY <2>1, <2>2, <2>4 DEF Server!Registered
  <2>6. Server!TypeOK'
    BY <2>5 DEF Server!TypeOK, Server!Id, Id
  <2>7. Agree(ids', InTree' \cup {Root})
    <3>1. /\ \A o \in Node \cup {Root} : ids.object_to_id[o] # -1 <=> o \in InTree \cup {Root}
          /\ \A o \in InTree \cup {Root} : ids.id_to_object[ids.object_to_id[o]] = o
          /\ \A j \in Id : ids.id_to_object[j] # None => ids.object_to_id[ids.id_to_object[j]] = j
          /\ ids.object_to_id[Root] = 0
      BY <2>3, <2>4 DEF Agree
    <3>2. /\ ids'.object_to_id[n] = i /\ ids'.id_to_object[i] = n
          /\ \A o \in (Node \cup {Root}) \ {n} : ids'.object_to_id[o] = ids.object_to_id[o]
          /\ \A j \in Id \ {i} : ids'.id_to_object[j] = ids.id_to_object[j]
      BY <2>2, <2>4, <2>5
    <3>3. i # -1
      BY <2>2 DEF Id
    <3>4. \A o \in InTree \cup {Root} : ids.object_to_id[o] # i /\ ids.object_to_id[o] \in Id
      <4>1. None \notin InTree \cup {Root} /\ InTree \subseteq Node
        BY <1>3 DEF InTree
      <4> QED  BY <4>1, <3>1, <2>2, <2>4
    <3>5. \A o \in Node \cup {Root} : ids'.object_to_id[o] # -1 <=> o \in InTree' \cup {Root}
      BY <3>1, <3>2, <3>3, <1>3, <1>4
    <3>6. \A o \in InTree' \cup {Root} : ids'.id_to_object[ids'.object_to_id[o]] = o
      <4>1. InTree \subseteq Node
        BY DEF InTree
      <4> QED  BY <4>1, <3>1, <3>2, <3>4, <1>3, <1>4
    <3>7. \A j \in Id : ids'.id_to_object[j] # None => ids'.object_to_id[ids'.id_to_object[j]] = j
      <4>1. \A j \in Id \ {i} : ids.id_to_object[j] # n
        BY <3>1, <2>2, <1>1, <1>3, <2>4 DEF Id
      <4> QED  BY <4>1, <3>1, <3>2, <2>4
    <3>8. DOMAIN ids'.object_to_id = Node \cup {Root} /\ ids'.object_to_id[Root] = 0
      BY <3>1, <3>2, <2>4, <2>5, <1>3
    <3> QED  BY <3>5, <3>6, <3>7, <3>8 DEF Agree
  <2> QED  BY <2>4, <2>5, <2>6, <2>7, <1>1 DEF ServerIds, InTree
<1>8. ServerView' = ServerView
  <2>1. Shown' = Shown /\ \A c \in Shown : c[1] \in sent
    BY <1>1, ServerViewIs DEF ServerShows, Shown, Current, Inv, ServerInv
  <2>2. \A m \in sent : parent'[m] = parent[m] /\ ids'.object_to_id[m] = ids.object_to_id[m]
    BY <1>1, <1>2, <1>3, <1>7 DEF InTree
  <2>4. ServerView'.under = ServerView.under
    <3>1. ServerView'.under = [c \in Copy |-> IF c \notin Shown THEN None
                                 ELSE IF parent'[c[1]] = Root THEN Root ELSE Current(parent'[c[1]])]
      BY <1>1, <2>1 DEF ServerView, Current
    <3>2. ServerView.under = [c \in Copy |-> IF c \notin Shown THEN None
                                 ELSE IF parent[c[1]] = Root THEN Root ELSE Current(parent[c[1]])]
      BY DEF ServerView
    <3> QED  BY <3>1, <3>2, <2>1, <2>2
  <2>5. ServerView'.id = ServerView.id
    <3>1. ServerView'.id = [c \in Copy |-> IF c \in Shown THEN ids'.object_to_id[c[1]] ELSE -1]
      BY <2>1 DEF ServerView
    <3>2. ServerView.id = [c \in Copy |-> IF c \in Shown THEN ids.object_to_id[c[1]] ELSE -1]
      BY DEF ServerView
    <3> QED  BY <3>1, <3>2, <2>1, <2>2
  <2> QED  BY <2>4, <2>5 DEF ServerView
<1> QED  BY <1>1, <1>6, <1>7, <1>8, ClientSame DEF Inv, ServerInv

\* The nodes added join what the client is shown.
LEMMA ShowStep ==
  ASSUME Inv, NEW S \in SUBSET Node, Show(S)
  PROVE  Inv'
<1> DEFINE v == ServerView
           w == ServerView'
           m0 == Added(S)
           Now(n) == <<n, count'[n]>>
<1>1. /\ S \subseteq InTree \ sent
      /\ \E n \in S : /\ parent[n] \in sent \cup {Root}
                      /\ \A m \in S \ {n} : parent[m] \in S
      /\ \A n \in S : count[n] < MaxSent
      /\ down' = Append(down, Added(S)) /\ sent' = sent \cup S
      /\ count' = [n \in Node |-> IF n \in S THEN count[n] + 1 ELSE count[n]]
      /\ parent' = parent /\ dead' = dead /\ ids' = ids /\ up' = up
      /\ UNCHANGED <<client, handled>>
  BY DEF Show
<1>2. /\ parent \in [Node -> Node \cup {Root, None}] /\ InTree \subseteq Node
      /\ \A m \in InTree : parent[m] \in InTree \cup {Root}
      /\ sent \subseteq InTree /\ \A m \in sent : parent[m] \in sent \cup {Root}
      /\ count \in [Node -> 0 .. MaxSent]
      /\ \A m \in sent : count[m] # 0
      /\ MaxSent \in Nat
  BY BoundAssumption DEF Inv, ServerInv, ServerTree, InTree
<1>3. \A n \in S : parent[n] \in sent \cup S \cup {Root}
  BY <1>1
<1>4. /\ \A n \in S : count'[n] = count[n] + 1 /\ count[n] + 1 \in 1 .. MaxSent
      /\ \A n \in Node \ S : count'[n] = count[n]
  <2>1. \A n \in S : count[n] \in 0 .. MaxSent /\ count[n] < MaxSent
    BY <1>1, <1>2
  <2>2. \A n \in S : count[n] + 1 \in 1 .. MaxSent
    BY <2>1, <1>2
  <2> QED  BY <1>1, <1>2, <2>2
<1>5. InTree' = InTree
  BY <1>1 DEF InTree
<1>6. ServerTree'
  <2>1. \A n \in sent' : parent'[n] \in sent' \cup {Root}
    BY <1>1, <1>2, <1>3
  <2>2. count' \in [Node -> 0 .. MaxSent]
    <3>1. \A n \in Node : (IF n \in S THEN count[n] + 1 ELSE count[n]) \in 0 .. MaxSent
      <4> TAKE n \in Node
      <4>1. CASE n \in S
        <5>1. count[n] + 1 \in 1 .. MaxSent
          BY <1>4, <4>1
        <5> QED  BY <5>1, <4>1
      <4>2. CASE n \notin S
        BY <4>2, <1>2
      <4> QED  BY <4>1, <4>2
    <3> QED  BY <3>1, <1>1
  <2>3. \A n \in sent' : count'[n] # 0
    <3> TAKE n \in sent'
    <3>1. CASE n \in S
      <4>1. count'[n] = count[n] + 1 /\ count[n] + 1 \in 1 .. MaxSent
        BY <3>1, <1>4
      <4> QED  BY <4>1
    <3>2. CASE n \notin S
      BY <3>2, <1>1, <1>2, <1>4
    <3> QED  BY <3>1, <3>2
  <2>4. sent' \subseteq InTree'
    BY <1>1, <1>2, <1>5
  <2> QED  BY <1>1, <1>5, <2>1, <2>2, <2>3, <2>4 DEF Inv, ServerInv, ServerTree
<1>7. ServerIds'
  <2>1. Server!TypeOK'
    BY <1>1 DEF Inv, ServerInv, ServerIds, Server!TypeOK, Server!Id
  <2> QED  BY <2>1, <1>1, <1>5 DEF Inv, ServerInv, ServerIds
<1>8. /\ \A c \in Shown : c \in Copy /\ c[1] \in sent /\ c = Current(c[1])
      /\ \A n \in sent : /\ Current(n) \in Shown /\ Current(n)[1] = n
                         /\ v.id[Current(n)] = ids.object_to_id[n]
                         /\ v.under[Current(n)] = IF parent[n] = Root THEN Root ELSE Current(parent[n])
      /\ \A c \in Copy \ Shown : v.id[c] = -1 /\ v.under[c] = None
      /\ Held(v) = Shown
  BY ServerViewIs DEF ServerShows, Inv, ServerInv
<1>9. /\ \A c \in Shown' : c \in Copy /\ c[1] \in sent' /\ c = Now(c[1])
      /\ \A n \in sent' : /\ Now(n) \in Shown' /\ Now(n)[1] = n
                          /\ w.id[Now(n)] = ids.object_to_id[n]
                          /\ w.under[Now(n)] = IF parent[n] = Root THEN Root ELSE Now(parent[n])
      /\ \A c \in Copy \ Shown' : w.id[c] = -1 /\ w.under[c] = None
  <2>1. ServerShows'
    BY <1>6, <1>7, ServerViewIs, PTL
  <2>2. \A c \in Shown' : c \in Copy /\ c[1] \in sent' /\ c = Now(c[1])
    BY <2>1 DEF ServerShows, Current
  <2>3. \A n \in sent' : /\ Now(n) \in Shown' /\ Now(n)[1] = n
                         /\ w.id[Now(n)] = ids'.object_to_id[n]
                         /\ w.under[Now(n)] = IF parent'[n] = Root THEN Root ELSE Now(parent'[n])
    BY <2>1 DEF ServerShows, Current
  <2>4. \A c \in Copy \ Shown' : w.id[c] = -1 /\ w.under[c] = None
    BY <2>1 DEF ServerShows
  <2> HIDE DEF w, Now
  <2> QED  BY <2>2, <2>3, <2>4, <1>1
<1>10. Sound(v) /\ Sound(w)
  <2>1. Sound(v)
    BY ServerSound DEF Inv, ServerInv
  <2>2. Sound(ServerView)'
    BY <1>6, <1>7, ServerSound, PTL
  <2> QED  BY <2>1, <2>2
<1>11. m0 \in Message /\ m0.type = "add"
       /\ m0.nodes = {[id     |-> ids.object_to_id[n],
                       parent |-> ids.object_to_id[parent[n]],
                       copy   |-> Now(n)] : n \in S}
  <2>1. \A n \in S : <<n, count[n] + 1>> \in Copy /\ Now(n) = <<n, count[n] + 1>>
    BY <1>1, <1>2, <1>4 DEF Copy, Current
  <2>2. \A n \in S : ids.object_to_id[n] \in Id /\ ids.object_to_id[parent[n]] \in Id
    BY <1>1, <1>2, IdsAre DEF Inv, ServerInv
  <2>3. {[id     |-> ids.object_to_id[n],
          parent |-> ids.object_to_id[parent[n]],
          copy   |-> <<n, count[n] + 1>>] : n \in S} \in SUBSET [id : Id, parent : Id, copy : Copy]
    BY <2>1, <2>2
  <2> QED  BY <2>1, <2>3 DEF Added, Message
<1> HIDE DEF m0, Now
<1>12. /\ \A n \in InTree : ids.object_to_id[n] \in Id \ {0}
       /\ \A m, n \in InTree : ids.object_to_id[m] = ids.object_to_id[n] => m = n
       /\ ids.object_to_id[Root] = 0
  BY IdsAre DEF Inv, ServerInv
<1>13. \A n \in sent : Now(n) = Current(n) /\ n \notin S
  BY <1>1, <1>2, <1>4 DEF Current, Now
<1>14. Joins(v, m0.nodes, w)
  <2> HIDE DEF v, w
  <2>1. ASSUME NEW a \in m0.nodes
        PROVE  /\ a.copy \in Copy \ Held(v) /\ a.id \in Id \ {0} /\ w.id[a.copy] = a.id
               /\ \A c \in Held(v) : v.id[c] # a.id
               /\ \/ a.parent = 0 /\ w.under[a.copy] = Root
                  \/ w.under[a.copy] \in Copy /\ w.id[w.under[a.copy]] = a.parent
    <3>1. PICK n \in S : /\ a.id = ids.object_to_id[n] /\ a.parent = ids.object_to_id[parent[n]]
                         /\ a.copy = Now(n)
      BY <1>11
    <3>2. n \in sent' /\ n \in InTree /\ n \notin sent
      BY <1>1
    <3>3. a.copy \in Copy /\ a.copy[1] = n /\ w.id[a.copy] = a.id /\ a.copy \in Shown'
      BY <3>1, <3>2, <1>9
    <3>4. a.copy \notin Held(v)
      BY <3>2, <3>3, <1>8
    <3>5. \A c \in Held(v) : v.id[c] # a.id
      <4> TAKE c \in Held(v)
      <4>1. c[1] \in sent /\ v.id[c] = ids.object_to_id[c[1]]
        BY <1>8
      <4> QED  BY <4>1, <3>1, <3>2, <1>2, <1>12
    <3>6. CASE parent[n] = Root
      BY <3>1, <3>2, <3>3, <3>4, <3>5, <3>6, <1>9, <1>12
    <3>7. CASE parent[n] # Root
      <4>1. parent[n] \in sent'
        BY <3>7, <1>1, <1>3
      <4>2. w.under[a.copy] = Now(parent[n])
        BY <3>1, <3>2, <3>7, <1>9
      <4>3. Now(parent[n]) \in Copy /\ w.id[Now(parent[n])] = a.parent
        BY <4>1, <3>1, <1>9
      <4> QED  BY <4>2, <4>3, <3>1, <3>2, <3>3, <3>4, <3>5, <1>12
    <3> QED  BY <3>6, <3>7
  <2>2. ASSUME NEW a \in m0.nodes, NEW b \in m0.nodes, a.id = b.id \/ a.copy = b.copy
        PROVE  a = b
    <3>1. PICK n \in S : a = [id |-> ids.object_to_id[n], parent |-> ids.object_to_id[parent[n]],
                              copy |-> Now(n)]
      BY <1>11
    <3>2. PICK m \in S : b = [id |-> ids.object_to_id[m], parent |-> ids.object_to_id[parent[m]],
                              copy |-> Now(m)]
      BY <1>11
    <3>3. Now(n)[1] = n /\ Now(m)[1] = m
      BY <1>1, <1>9
    <3>4. n = m
      BY <3>1, <3>2, <3>3, <2>2, <1>1, <1>12
    <3> QED  BY <3>1, <3>2, <3>4
  <2>3. ASSUME NEW c \in Copy \ {a.copy : a \in m0.nodes}
        PROVE  w.id[c] = v.id[c] /\ w.under[c] = v.under[c]
    <3>1. CASE c \in Shown'
      <4>1. c[1] \in sent' /\ c = Now(c[1])
        BY <3>1, <1>9
      <4>2. c[1] \notin S
        <5>1. ASSUME c[1] \in S PROVE FALSE
          <6>1. [id |-> ids.object_to_id[c[1]], parent |-> ids.object_to_id[parent[c[1]]],
                 copy |-> Now(c[1])] \in m0.nodes
            BY <5>1, <1>11
          <6> QED  BY <6>1, <4>1
        <5> QED  BY <5>1
      <4>3. c[1] \in sent
        BY <4>1, <4>2, <1>1
      <4>4. c = Current(c[1])
        BY <4>1, <4>3, <1>13
      <4>5. w.id[c] = v.id[c]
        <5>1. w.id[c] = ids.object_to_id[c[1]]
          BY <4>1, <1>9
        <5>2. v.id[c] = ids.object_to_id[c[1]]
          BY <4>3, <4>4, <1>8
        <5> QED  BY <5>1, <5>2
      <4>6. w.under[c] = v.under[c]
        <5>1. w.under[c] = IF parent[c[1]] = Root THEN Root ELSE Now(parent[c[1]])
          BY <4>1, <1>9
        <5>2. v.under[c] = IF parent[c[1]] = Root THEN Root ELSE Current(parent[c[1]])
          BY <4>3, <4>4, <1>8
        <5>3. parent[c[1]] \in sent \cup {Root}
          BY <4>3, <1>2
        <5> QED  BY <5>1, <5>2, <5>3, <1>13
      <4> QED  BY <4>5, <4>6
    <3>2. CASE c \notin Shown'
      <4>1. c \notin Shown
        <5>1. ASSUME c \in Shown PROVE FALSE
          <6>1. c[1] \in sent' /\ c = Now(c[1])
            BY <5>1, <1>1, <1>8, <1>13
          <6> QED  BY <6>1, <3>2, <1>9
        <5> QED  BY <5>1
      <4> QED  BY <4>1, <3>2, <1>8, <1>9
    <3> QED  BY <3>1, <3>2
  <2> QED  BY <2>1, <2>2, <2>3 DEF Joins
<1>15. Leads(v, <<m0>>, w)
  <2>1. Takes(v, m0, w)
    BY <1>11, <1>14 DEF Takes
  <2> HIDE DEF v, w
  <2> QED  BY <2>1, <1>10, <1>11, LeadsOne
<1>16. down' \in Seq(Message) /\ Leads(ClientView, down', w)
  <2>1. down \in Seq(Message) /\ Leads(ClientView, down, v)
    BY DEF Inv
  <2>2. down' = down \o <<m0>> /\ <<m0>> \in Seq(Message)
    BY <2>1, <1>1, <1>11 DEF m0
  <2>3. down \o <<m0>> \in Seq(Message)
    BY <2>1, <1>11
  <2> HIDE DEF v, w
  <2>4. Leads(ClientView, down \o <<m0>>, w)
    BY <2>1, <2>2, <1>15, LeadsOn
  <2> QED  BY <2>2, <2>3, <2>4
<1> QED  BY <1>1, <1>6, <1>7, <1>16, ClientSame DEF Inv, ServerInv

\* The nodes removed are all that is shown below n.
LEMMA HideStep ==
  ASSUME Inv, NEW n \in Node, Hide(n)
  PROVE  Inv'
<1> DEFINE v == ServerView
           w == ServerView'
           S == Below(n) \cap sent
           m0 == Removal(S)
<1>1. /\ n \in sent /\ down' = Append(down, m0) /\ sent' = sent \ Below(n)
      /\ parent' = parent /\ dead' = dead /\ ids' = ids /\ count' = count /\ up' = up
      /\ UNCHANGED <<client, handled>>
  BY DEF Hide
<1>2. /\ sent \subseteq InTree /\ InTree \subseteq Node
      /\ \A m \in sent : parent[m] \in sent \cup {Root}
      /\ ServerTree /\ ServerIds
  BY DEF Inv, ServerInv, ServerTree, InTree
<1>3. /\ Below(n) \subseteq InTree
      /\ \A m \in Node : parent[m] \in Below(n) => m \in Below(n)
  BY <1>1, <1>2, BelowIs
<1>4. InTree' = InTree
  BY <1>1 DEF InTree
<1>5. ServerTree'
  <2>1. \A m \in sent' : parent'[m] \in sent' \cup {Root}
    BY <1>1, <1>2, <1>3
  <2> QED  BY <2>1, <1>1, <1>2, <1>4 DEF ServerTree
<1>6. ServerIds'
  <2>1. Server!TypeOK'
    BY <1>1, <1>2 DEF ServerIds, Server!TypeOK, Server!Id
  <2> QED  BY <2>1, <1>1, <1>2, <1>4 DEF ServerIds
<1>7. w = Cut(v, Named(v, {ids.object_to_id[m] : m \in S}))
  BY <1>1, <1>2, ServerHides
<1>8. Sound(v) /\ Sound(w)
  <2>1. Sound(ServerView)'
    BY <1>5, <1>6, ServerSound, PTL
  <2> QED  BY <2>1, <1>2, ServerSound
<1>9. m0 \in Message /\ m0.type = "remove" /\ m0.nodes = {ids.object_to_id[m] : m \in S}
  <2>1. {ids.object_to_id[m] : m \in S} \in SUBSET Id
    BY <1>2, IdsAre
  <2> QED  BY <2>1 DEF Removal, Message
<1> HIDE DEF m0
<1>10. Leads(v, <<m0>>, w)
  <2>1. Takes(v, m0, w)
    BY <1>7, <1>9 DEF Takes
  <2> HIDE DEF v, w
  <2> QED  BY <2>1, <1>8, <1>9, LeadsOne
<1>11. down' \in Seq(Message) /\ Leads(ClientView, down', w)
  <2>1. down \in Seq(Message) /\ Leads(ClientView, down, v)
    BY DEF Inv
  <2>2. down' = down \o <<m0>> /\ <<m0>> \in Seq(Message)
    BY <2>1, <1>1, <1>9
  <2>3. down \o <<m0>> \in Seq(Message)
    BY <2>1, <1>9
  <2> HIDE DEF v, w
  <2>4. Leads(ClientView, down \o <<m0>>, w)
    BY <2>1, <2>2, <1>10, LeadsOn
  <2> QED  BY <2>2, <2>3, <2>4
<1> QED  BY <1>1, <1>5, <1>6, <1>11, ClientSame DEF Inv, ServerInv

\* The identifiers of nodes that leave the tree are free again.
LEMMA IdsFreed ==
  ASSUME ServerTree, ServerIds, NEW B, B \subseteq InTree,
         InTree' = InTree \ B, ids' = Server!RemovedAll(ids, B)
  PROVE  ServerIds' /\ \A m \in InTree \ B : ids'.object_to_id[m] = ids.object_to_id[m]
<1>1. /\ ids \in [object_to_id : [Node \cup {Root} -> Id \cup {-1}],
                  id_to_object : [Id -> Node \cup {Root} \cup {None}],
                  current_id : Id, object_awaits : SUBSET (Node \cup {Root})]
      /\ Agree(ids, InTree \cup {Root})
  BY DEF ServerIds, Server!TypeOK, Server!Id, Id
<1>2. /\ ids'.object_to_id = [o \in Node \cup {Root} |-> IF o \in B THEN -1 ELSE ids.object_to_id[o]]
      /\ ids'.id_to_object = [i \in Id |-> IF \E o \in B : ids.object_to_id[o] = i THEN None
                                           ELSE ids.id_to_object[i]]
      /\ ids' \in [object_to_id : [Node \cup {Root} -> Id \cup {-1}],
                   id_to_object : [Id -> Node \cup {Root} \cup {None}],
                   current_id : Id, object_awaits : SUBSET (Node \cup {Root})]
  BY <1>1 DEF Server!RemovedAll, Server!Id, Id
<1>3. InTree \subseteq Node /\ Root \notin Node /\ None \notin Node \cup {Root}
  BY NamesDiffer DEF InTree
<1>4. /\ \A o \in Node \cup {Root} : ids.object_to_id[o] # -1 <=> o \in InTree \cup {Root}
      /\ \A o \in InTree \cup {Root} : ids.id_to_object[ids.object_to_id[o]] = o
      /\ \A i \in Id : ids.id_to_object[i] # None => ids.object_to_id[ids.id_to_object[i]] = i
      /\ ids.object_to_id[Root] = 0
  BY <1>1 DEF Agree
<1>5. \A o \in Node \cup {Root} : ids'.object_to_id[o] = IF o \in B THEN -1 ELSE ids.object_to_id[o]
  BY <1>2
<1>6. \A i \in Id : ids'.id_to_object[i] = IF \E o \in B : ids.object_to_id[o] = i THEN None
                                           ELSE ids.id_to_object[i]
  BY <1>2
<1>7. Agree(ids', (InTree \ B) \cup {Root})
  <2>1. \A o \in Node \cup {Root} : ids'.object_to_id[o] # -1 <=> o \in (InTree \ B) \cup {Root}
    BY <1>3, <1>4, <1>5
  <2>2. \A o \in (InTree \ B) \cup {Root} : ids'.id_to_object[ids'.object_to_id[o]] = o
    <3> TAKE o \in (InTree \ B) \cup {Root}
    <3>1. o \in Node \cup {Root} /\ o \in InTree \cup {Root} /\ o \notin B
      BY <1>3
    <3>2. ids'.object_to_id[o] = ids.object_to_id[o] /\ ids.object_to_id[o] \in Id
      BY <3>1, <1>1, <1>4, <1>5
    <3>3. ~ \E p \in B : ids.object_to_id[p] = ids.object_to_id[o]
      BY <3>1, <1>4
    <3> QED  BY <3>1, <3>2, <3>3, <1>4, <1>6
  <2>3. \A i \in Id : ids'.id_to_object[i] # None => ids'.object_to_id[ids'.id_to_object[i]] = i
    <3> SUFFICES ASSUME NEW i \in Id, ids'.id_to_object[i] # None
                 PROVE  ids'.object_to_id[ids'.id_to_object[i]] = i
      OBVIOUS
    <3>1. /\ ids'.id_to_object[i] = ids.id_to_object[i]
          /\ ~ \E o \in B : ids.object_to_id[o] = i
      BY <1>6
    <3>2. ids.object_to_id[ids.id_to_object[i]] = i /\ ids.id_to_object[i] \in Node \cup {Root}
      BY <3>1, <1>1, <1>4
    <3> QED  BY <3>1, <3>2, <1>5
  <2>4. DOMAIN ids'.object_to_id = Node \cup {Root} /\ ids'.object_to_id[Root] = 0
    BY <1>2, <1>3, <1>4, <1>5
  <2> QED  BY <2>1, <2>2, <2>3, <2>4 DEF Agree
<1>8. Server!TypeOK'
  <2>1. ((Node \ dead) \cup {Root})' \subseteq Node \cup {Root}
    OBVIOUS
  <2> QED  BY <1>2, <2>1 DEF Server!TypeOK, Server!Id, Id
<1> QED  BY <1>3, <1>5, <1>7, <1>8 DEF ServerIds

\* The removals of the freed nodes, one by one, cut what one removal of n would,
\* in whatever order they are sent.
LEMMA FreeStep ==
  ASSUME Inv, NEW n \in Node, Free(n)
  PROVE  /\ Inv'
         /\ \E e \in Seq(Message) : down' = down \o e /\ \A k \in 1 .. Len(e) : e[k].type # "add"
<1> DEFINE v == ServerView
           w == ServerView'
<1>1. /\ n \in InTree /\ sent' = sent \ Below(n)
      /\ parent' = [m \in Node |-> IF m \in Below(n) THEN None ELSE parent[m]]
      /\ dead' = dead \cup Below(n) /\ ids' = Server!RemovedAll(ids, Below(n))
      /\ count' = count /\ up' = up /\ UNCHANGED <<client, handled>>
  BY DEF Free
<1>a. PICK S \in SUBSET Below(n) : \E q \in Downwards(S) :
        /\ Below(n) \cap sent \subseteq S
        /\ down' = down \o [i \in 1 .. Len(q) |-> Removal({q[i]})]
  BY DEF Free
<1>2. PICK q \in Downwards(S) :
        /\ Below(n) \cap sent \subseteq S
        /\ down' = down \o [i \in 1 .. Len(q) |-> Removal({q[i]})]
  BY <1>a
<1>3. /\ ServerTree /\ ServerIds
      /\ parent \in [Node -> Node \cup {Root, None}]
      /\ dead \subseteq Node /\ dead \cap InTree = {} /\ IsFiniteSet(InTree)
      /\ \A m \in InTree : parent[m] \in InTree \cup {Root}
      /\ InTree \subseteq Closure(parent, {Root})
      /\ sent \subseteq InTree /\ InTree \subseteq Node /\ \A m \in sent : parent[m] \in sent \cup {Root}
      /\ count \in [Node -> 0 .. MaxSent] /\ \A m \in sent : count[m] # 0
      /\ None \notin Node \cup {Root} /\ Root \notin Node
  BY NamesDiffer DEF Inv, ServerInv, ServerTree, InTree
<1>4. /\ Below(n) \subseteq InTree /\ n \in Below(n)
      /\ \A m \in Node : parent[m] \in Below(n) => m \in Below(n)
  BY <1>1, <1>3, BelowIs
<1>5. InTree' = InTree \ Below(n)
  BY <1>1, <1>3 DEF InTree
<1>6. ServerTree'
  <2>1. parent' \in [Node -> Node \cup {Root, None}] /\ \A m \in InTree' : parent'[m] = parent[m]
    BY <1>1, <1>3, <1>5
  <2>2. \A m \in InTree' : parent'[m] \in InTree' \cup {Root}
    BY <2>1, <1>3, <1>4, <1>5
  <2>3. Closure(parent', {Root}) = Closure(parent, {Root}) \ Below(n)
    <3>1. DOMAIN parent = Node /\ DOMAIN parent' = Node
      BY <2>1, <1>3
    <3>2. {Root} \cap Closure(parent, {n}) = {}
      BY <1>3, <1>4 DEF Below
    <3>3. \A m \in Node : parent'[m] = parent[m] \/ (parent'[m] = None /\ m \in Closure(parent, {n}))
      BY <1>1 DEF Below
    <3>4. \A m \in {n} \cap Node : parent'[m] = None
      BY <1>1, <1>4
    <3>5. None \notin {n} \cup {Root} \cup Node
      BY <1>3
    <3> DEFINE g == parent'
    <3> HIDE DEF g
    <3>6. DOMAIN g = DOMAIN parent
      BY <3>1 DEF g
    <3>7. \A m \in DOMAIN parent : g[m] = parent[m] \/ (g[m] = None /\ m \in Closure(parent, {n}))
      BY <3>1, <3>3 DEF g
    <3>8. \A m \in {n} \cap DOMAIN parent : g[m] = None
      BY <3>1, <3>4 DEF g
    <3>9. None \notin {n} \cup {Root} \cup DOMAIN parent
      BY <3>1, <3>5
    <3>10. Closure(g, {Root}) = Closure(parent, {Root}) \ Closure(parent, {n})
      BY <3>2, <3>6, <3>7, <3>8, <3>9, CutRest
    <3> QED  BY <3>10 DEF Below, g
  <2>4. InTree' \subseteq Closure(parent', {Root})
    BY <2>3, <1>3, <1>5
  <2>5. IsFiniteSet(InTree')
    BY <1>3, <1>5, FS_Subset
  <2>6. sent' \subseteq InTree' /\ \A m \in sent' : parent'[m] \in sent' \cup {Root}
    <3>1. sent' \subseteq InTree'
      BY <1>1, <1>3, <1>5
    <3>2. \A m \in sent' : parent[m] \in sent' \cup {Root}
      BY <1>1, <1>3, <1>4
    <3> QED  BY <3>1, <3>2, <2>1
  <2>7. dead' \subseteq Node /\ dead' \cap InTree' = {}
    BY <1>1, <1>3, <1>4, <1>5
  <2>8. count' \in [Node -> 0 .. MaxSent] /\ \A m \in sent' : count'[m] # 0
    BY <1>1, <1>3
  <2> QED  BY <2>1, <2>2, <2>4, <2>5, <2>6, <2>7, <2>8 DEF ServerTree
<1>7. ServerIds' /\ \A m \in InTree \ Below(n) : ids'.object_to_id[m] = ids.object_to_id[m]
  BY <1>1, <1>3, <1>4, <1>5, IdsFreed
<1> DEFINE I == {ids.object_to_id[m] : m \in S}
           e == [i \in 1 .. Len(q) |-> Removal({q[i]})]
<1>8. w = Cut(v, Named(v, I))
  <2>1. \A m \in sent \ Below(n) : parent'[m] = parent[m] /\ ids'.object_to_id[m] = ids.object_to_id[m]
    BY <1>1, <1>3, <1>7
  <2> QED  BY <2>1, <1>1, <1>2, <1>3, ServerHides
<1>9. q \in [1 .. Cardinality(S) -> S] /\ Cardinality(S) \in Nat /\ Len(q) = Cardinality(S)
      /\ \A m \in S : \E i \in 1 .. Len(q) : q[i] = m
  <2>1. IsFiniteSet(S)
    BY <1>3, <1>4, FS_Subset
  <2>2. Cardinality(S) \in Nat
    BY <2>1, FS_CardinalityType
  <2>3. q \in [1 .. Cardinality(S) -> S] /\ \A m \in S : \E i \in 1 .. Cardinality(S) : q[i] = m
    BY DEF Downwards, Bijection, Surjection
  <2>4. Len(q) = Cardinality(S)
    BY <2>2, <2>3, IsSequence
  <2> QED  BY <2>2, <2>3, <2>4
<1>10. /\ e \in Seq(Message) /\ Len(e) = Len(q)
       /\ \A i \in 1 .. Len(q) : e[i].type = "remove" /\ e[i].nodes = {ids.object_to_id[q[i]]}
  <2>1. \A i \in 1 .. Len(q) : /\ Removal({q[i]}) \in Message /\ Removal({q[i]}).type = "remove"
                               /\ Removal({q[i]}).nodes = {ids.object_to_id[q[i]]}
    <3> TAKE i \in 1 .. Len(q)
    <3>1. q[i] \in InTree
      BY <1>4, <1>9
    <3>2. ids.object_to_id[q[i]] \in Id
      BY <3>1, <1>3, IdsAre
    <3>3. Removal({q[i]}) = [type |-> "remove", nodes |-> {ids.object_to_id[q[i]]}]
      BY DEF Removal
    <3> DEFINE x == Removal({q[i]})
               J == {ids.object_to_id[q[i]]}
    <3>4. x = [type |-> "remove", nodes |-> J] /\ J \in SUBSET Id
      BY <3>2, <3>3
    <3> HIDE DEF x, J
    <3>5. x \in Message /\ x.type = "remove" /\ x.nodes = J
      BY ONLY <3>4 DEF Message
    <3> QED  BY <3>5 DEF x, J
  <2>2. Len(q) \in Nat /\ e \in [1 .. Len(q) -> Message]
    BY <2>1, <1>9
  <2>3. \A i \in 1 .. Len(q) : e[i] = Removal({q[i]})
    OBVIOUS
  <2> HIDE DEF e
  <2>4. e \in Seq(Message) /\ Len(e) = Len(q)
    BY <2>2, IsSequence
  <2> QED  BY <2>1, <2>3, <2>4
<1>11. UNION {e[i].nodes : i \in 1 .. Len(e)} = I
  <2>1. UNION {e[i].nodes : i \in 1 .. Len(e)} \subseteq I
    <3> HIDE DEF e
    <3>1. \A i \in 1 .. Len(e) : e[i].nodes = {ids.object_to_id[q[i]]} /\ q[i] \in S
      BY <1>9, <1>10
    <3> QED  BY <3>1
  <2>2. I \subseteq UNION {e[i].nodes : i \in 1 .. Len(e)}
    <3> HIDE DEF e
    <3>1. \A m \in S : \E i \in 1 .. Len(e) : e[i].nodes = {ids.object_to_id[m]}
      BY <1>9, <1>10
    <3> QED  BY <3>1
  <2> QED  BY <2>1, <2>2
<1>12. Sound(v)
  BY <1>3, ServerSound
<1>13. Leads(v, e, w)
  <2> HIDE DEF v, w, e, I
  <2>1. \A i \in 1 .. Len(e) : e[i].type = "remove"
    BY <1>10
  <2> QED  BY <2>1, <1>8, <1>10, <1>11, <1>12, LeadsCuts
<1>14. down' \in Seq(Message) /\ Leads(ClientView, down', w)
  <2>1. down \in Seq(Message) /\ Leads(ClientView, down, v)
    BY DEF Inv
  <2>2. down' = down \o e
    BY <1>2
  <2> HIDE DEF v, w, e
  <2>3. down \o e \in Seq(Message)
    BY <2>1, <1>10
  <2>4. Leads(ClientView, down \o e, w)
    BY <2>1, <1>10, <1>13, LeadsOn
  <2> QED  BY <2>2, <2>3, <2>4
<1>15. Inv'
  BY <1>1, <1>6, <1>7, <1>14, ClientSame DEF Inv, ServerInv
<1>16. down' = down \o e
  BY <1>2
<1> HIDE DEF e
<1>17. \A k \in 1 .. Len(e) : e[k].type # "add"
  BY <1>10
<1> QED  BY <1>10, <1>15, <1>16, <1>17

\* A call is made on a node the client is shown.
LEMMA CallClientStep ==
  ASSUME Inv, NEW n \in Node, CallClient(n)
  PROVE  Inv'
<1> DEFINE v == ServerView
           m0 == Call(n)
<1>1. n \in sent /\ down' = Append(down, m0) /\ up' = up /\ UNCHANGED server /\ UNCHANGED <<client, handled>>
  BY DEF CallClient
<1>2. ServerTree /\ ServerIds /\ sent \subseteq InTree
  BY DEF Inv, ServerInv, ServerTree
<1>3. Sound(v)
  BY <1>2, ServerSound
<1>4. m0 \in Message /\ Takes(v, m0, v)
  <2>1. Current(n) \in Held(v) /\ Current(n)[1] = n /\ v.id[Current(n)] = ids.object_to_id[n]
    BY <1>1, <1>2, ServerViewIs DEF ServerShows
  <2>2. ids.object_to_id[n] \in Id
    BY <1>1, <1>2, IdsAre
  <2>3. m0 = [type |-> "call", id |-> ids.object_to_id[n], to |-> n]
    BY DEF Call
  <2> HIDE DEF v, m0
  <2>4. m0 \in Message /\ m0.type = "call" /\ m0.id = ids.object_to_id[n] /\ m0.to = n
    BY <2>2, <2>3 DEF Message
  <2> QED  BY <2>1, <2>4 DEF Takes
<1> HIDE DEF v, m0
<1>5. down' \in Seq(Message) /\ Leads(ClientView, down', v)
  <2>1. down \in Seq(Message) /\ Leads(ClientView, down, v)
    BY DEF Inv, v
  <2>2. down' = down \o <<m0>> /\ <<m0>> \in Seq(Message)
    BY <2>1, <1>1, <1>4
  <2>3. down \o <<m0>> \in Seq(Message)
    BY <2>1, <1>4
  <2>4. Leads(v, <<m0>>, v)
    BY <1>3, <1>4, LeadsOne
  <2>5. Leads(ClientView, down \o <<m0>>, v)
    BY <2>1, <2>2, <2>4, LeadsOn
  <2> QED  BY <2>2, <2>3, <2>5
<1> QED  BY <1>1, <1>5, ClientSame, ServerSame DEF Inv, v

\* The call of a client changes nothing here.
LEMMA RecvCallStep ==
  ASSUME Inv, RecvCall
  PROVE  Inv'
<1>1. /\ up # << >> /\ up' = Tail(up) /\ ids' = Server!Looked(ids, {Head(up).id}, Node \cup {Root})
      /\ parent' = parent /\ dead' = dead /\ sent' = sent /\ count' = count /\ down' = down
      /\ UNCHANGED <<client, handled>>
  BY DEF RecvCall
<1>2. ids' = ids
  <2>1. ids \in [object_to_id : [Node \cup {Root} -> Id \cup {-1}],
                 id_to_object : [Id -> Node \cup {Root} \cup {None}],
                 current_id : Id, object_awaits : SUBSET (Node \cup {Root})]
    BY DEF Inv, ServerInv, ServerIds, Server!TypeOK, Server!Id, Id
  <2>2. \A i \in Id : Server!Found(ids, i, Node \cup {Root}) = ids.id_to_object[i]
    BY <2>1 DEF Server!Found
  <2>3. ids' = [ids EXCEPT !.id_to_object =
                  [i \in Id |-> IF i \in {Head(up).id} THEN Server!Found(ids, i, Node \cup {Root}) ELSE @[i]]]
    BY <1>1 DEF Server!Looked, Server!Id, Id
  <2>4. [i \in Id |-> IF i \in {Head(up).id} THEN Server!Found(ids, i, Node \cup {Root}) ELSE ids.id_to_object[i]]
          = ids.id_to_object
    BY <2>1, <2>2
  <2> QED  BY <2>1, <2>3, <2>4
<1>3. UNCHANGED server
  BY <1>1, <1>2 DEF server
<1>4. up' \in Seq([id : Id, to : Node])
  BY <1>1 DEF Inv
<1> QED  BY <1>1, <1>3, <1>4, ClientSame, ServerSame DEF Inv

-----------------------------------------------------------------------------
(* The client. *)

\* What a client has found in its tree.
LEMMA ClientHas ==
  ASSUME ClientInv
  PROVE  /\ InClientTree \subseteq copies /\ copies \subseteq Copy /\ Root \notin Copy /\ None \notin Copy /\ None # Root
         /\ \A c \in copies : cids.object_to_id[c] \in Id \ {0}
         /\ \A c, d \in copies : cids.object_to_id[c] = cids.object_to_id[d] => c = d
         /\ \A i \in Id, c \in copies : Client!Found(cids, i, copies) = c <=> cids.object_to_id[c] = i
         /\ \A i \in Id : Client!Found(cids, i, copies) \in copies \cup {None}
         /\ Held(ClientView) = InClientTree
         /\ ClientView.under = [c \in Copy |-> IF c \in InClientTree THEN under[c] ELSE None]
         /\ ClientView.id = [c \in Copy |-> IF c \in InClientTree THEN cids.object_to_id[c] ELSE -1]
<1>1. Root \notin Copy /\ None \notin Copy /\ None # Root
  BY NamesDiffer
<1>2. InClientTree \subseteq copies /\ copies \subseteq Copy
  BY DEF ClientInv, ClientTree
<1>3. cids \in [object_to_id : [Copy \cup {Root} -> Id \cup {-1}],
                id_to_object : [Id -> Copy \cup {Root} \cup {None}],
                current_id : Id, object_awaits : SUBSET (Copy \cup {Root})]
  BY DEF ClientInv, ClientIds, Client!TypeOK, Client!Id, Id
<1>4. /\ \A o \in Copy \cup {Root} : cids.object_to_id[o] # -1 <=> o \in copies \cup {Root}
      /\ \A o \in copies \cup {Root} : cids.id_to_object[cids.object_to_id[o]] = o
      /\ \A i \in Id : cids.id_to_object[i] # None => cids.object_to_id[cids.id_to_object[i]] = i
      /\ cids.object_to_id[Root] = 0
  BY <1>3 DEF ClientInv, ClientIds, Agree
<1>5. \A c \in copies : cids.object_to_id[c] \in Id \ {0}
  BY <1>1, <1>2, <1>3, <1>4
<1>6. \A c, d \in copies : cids.object_to_id[c] = cids.object_to_id[d] => c = d
  BY <1>4
<1>7. \A i \in Id, c \in copies : Client!Found(cids, i, copies) = c <=> cids.object_to_id[c] = i
  <2> TAKE i \in Id, c \in copies
  <2>1. c # None
    BY <1>1, <1>2
  <2>2. Client!Found(cids, i, copies) = IF cids.id_to_object[i] \in copies THEN cids.id_to_object[i] ELSE None
    BY DEF Client!Found
  <2>3. cids.object_to_id[c] = i => cids.id_to_object[i] = c
    BY <1>4
  <2>4. cids.id_to_object[i] = c => cids.object_to_id[c] = i
    BY <1>4, <2>1
  <2> QED  BY <2>1, <2>2, <2>3, <2>4
<1>8. \A i \in Id : Client!Found(cids, i, copies) \in copies \cup {None}
  BY DEF Client!Found
<1>9. -1 \notin Id
  BY DEF Id
<1>10. Held(ClientView) = InClientTree
  <2>1. \A c \in Copy : ClientView.id[c] = IF c \in InClientTree THEN cids.object_to_id[c] ELSE -1
    BY DEF ClientView
  <2> QED  BY <2>1, <1>2, <1>5, <1>9 DEF Held
<1> QED  BY <1>1, <1>2, <1>5, <1>6, <1>7, <1>8, <1>10 DEF ClientView

\* Looking up what is there changes nothing.
LEMMA LookedSame ==
  ASSUME ClientInv, NEW I
  PROVE  Client!Looked(cids, I, copies \cup {Root}) = cids
<1>1. cids \in [object_to_id : [Copy \cup {Root} -> Id \cup {-1}],
                id_to_object : [Id -> Copy \cup {Root} \cup {None}],
                current_id : Id, object_awaits : SUBSET (Copy \cup {Root})]
  BY DEF ClientInv, ClientIds, Client!TypeOK, Client!Id, Id
<1>2. \A i \in Id : Client!Found(cids, i, copies \cup {Root}) = cids.id_to_object[i]
  <2> TAKE i \in Id
  <2>1. CASE cids.id_to_object[i] = None
    BY <2>1 DEF Client!Found
  <2>2. CASE cids.id_to_object[i] # None
    <3>1. cids.object_to_id[cids.id_to_object[i]] = i /\ cids.id_to_object[i] \in Copy \cup {Root}
      BY <2>2, <1>1 DEF ClientInv, ClientIds, Agree
    <3>2. cids.id_to_object[i] \in copies \cup {Root}
      BY <3>1, <1>1 DEF ClientInv, ClientIds, Agree, Id
    <3> QED  BY <3>2 DEF Client!Found
  <2> QED  BY <2>1, <2>2
<1>3. Client!Looked(cids, I, copies \cup {Root})
        = [cids EXCEPT !.id_to_object =
             [i \in Id |-> IF i \in I THEN Client!Found(cids, i, copies \cup {Root}) ELSE @[i]]]
  BY DEF Client!Looked, Client!Id, Id
<1>4. [i \in Id |-> IF i \in I THEN Client!Found(cids, i, copies \cup {Root}) ELSE cids.id_to_object[i]]
        = cids.id_to_object
  BY <1>1, <1>2
<1> QED  BY <1>1, <1>3, <1>4

\* Nor does making it.
LEMMA CallServerStep ==
  ASSUME Inv, NEW c \in Copy, CallServer(c)
  PROVE  Inv'
<1>1. /\ c \in InClientTree /\ up' = Append(up, [id |-> cids.object_to_id[c], to |-> c[1]])
      /\ down' = down /\ UNCHANGED server /\ UNCHANGED <<client, handled>>
  BY DEF CallServer
<1>2. [id |-> cids.object_to_id[c], to |-> c[1]] \in [id : Id, to : Node]
  <2>1. cids.object_to_id[c] \in Id
    BY <1>1, ClientHas DEF Inv
  <2> QED  BY <2>1 DEF Copy
<1>3. up' \in Seq([id : Id, to : Node])
  BY <1>1, <1>2 DEF Inv
<1> QED  BY <1>1, <1>3, ClientSame, ServerSame DEF Inv

\* A set of natural numbers has a least one.
LEMMA LeastIsThere ==
  ASSUME NEW S \in SUBSET Nat, S # {}
  PROVE  \E x \in S : \A y \in S : x <= y
<1> DEFINE R == {ss \in Nat \X Nat : ss[1] < ss[2]}
<1>1. IsWellFoundedOn(R, Nat)
  BY NatLessThanWellFounded DEF OpToRel
<1>2. PICK x \in S : \A y \in S : <<y, x>> \notin R
  <2> HIDE DEF R
  <2> QED BY <1>1, WFMin
<1>3. ASSUME NEW y \in S PROVE x <= y
  <2>1. x \in Nat /\ y \in Nat /\ <<y, x>> \in Nat \X Nat /\ ~(y < x)
    BY <1>2
  <2> QED BY <2>1
<1> QED BY <1>3

\* Of the copies a removal names, those that are below none of a smaller
\* identifier have all the others below them.
LEMMA LeaveAll ==
  ASSUME ClientInv, NEW S, S \subseteq copies
  PROVE  LET leave == {c \in S : \A d \in S : cids.object_to_id[d] < cids.object_to_id[c]
                                                => c \notin Closure(under, {d})}
         IN  Closure(under, leave) = Closure(under, S)
<1> DEFINE id(c)  == cids.object_to_id[c]
           leave  == {c \in S : \A d \in S : id(d) < id(c) => c \notin Closure(under, {d})}
           Reach(r) == {d \in S : r \in Closure(under, {d})}
<1>1. DOMAIN under = Copy /\ None \notin Copy /\ S \subseteq Copy /\ \A c \in S : id(c) \in Nat
  BY ClientHas DEF ClientInv, ClientTree, Id
<1>2. leave \subseteq S
  OBVIOUS
<1>3. \A c \in leave : Closure(under, {c}) \subseteq Closure(under, leave)
  BY <1>1, <1>2, ClosureHas, ClosureTwice
<1>4. \A r \in S : r \in Closure(under, leave)
  <2> TAKE r \in S
  <2>1. r \in Reach(r)
    BY <1>1, ClosureHas
  <2> DEFINE N == {id(d) : d \in Reach(r)}
  <2>2. N \in SUBSET Nat /\ N # {}
    BY <2>1, <1>1
  <2>3. PICK x \in N : \A y \in N : x <= y
    <3> HIDE DEF N
    <3> QED  BY <2>2, LeastIsThere
  <2>4. PICK d \in Reach(r) : id(d) = x
    OBVIOUS
  <2>5. \A e \in Reach(r) : id(d) <= id(e)
    BY <2>3, <2>4
  <2>6. d \in leave
    <3> SUFFICES ASSUME NEW e \in S, id(e) < id(d), d \in Closure(under, {e})
                 PROVE  FALSE
      OBVIOUS
    <3>1. Closure(under, {d}) \subseteq Closure(under, {e})
      BY <1>1, ClosureTwice
    <3>2. e \in Reach(r)
      BY <3>1, <2>4
    <3>3. id(e) \in Nat /\ id(d) \in Nat /\ id(d) <= id(e)
      BY <3>2, <2>5, <1>1
    <3> HIDE DEF id
    <3> QED  BY <3>3
  <2>7. r \in Closure(under, {d})
    BY <2>4
  <2> QED  BY <2>6, <2>7, <1>3
<1> HIDE DEF leave
<1>5. Closure(under, leave) \subseteq Closure(under, S)
  BY <1>1, <1>2, ClosureHas, ClosureTwice
<1>6. Closure(under, S) \subseteq Closure(under, leave)
  BY <1>1, <1>2, <1>4, ClosureTwice
<1>7. Closure(under, leave) = Closure(under, S)
  BY <1>5, <1>6
<1> QED  BY <1>7 DEF leave

\* Taking S out of its tree leaves what is below T as it was, when S is in T.
LEMMA CutOwn ==
  ASSUME NEW f, NEW T, None \notin T \cup DOMAIN f, NEW S, S \subseteq T,
         NEW g, DOMAIN g = DOMAIN f,
         \A n \in DOMAIN f : g[n] = IF n \in S THEN None ELSE f[n]
  PROVE  Closure(g, T) = Closure(f, T)
<1>0. None \notin Closure(f, T) /\ None \notin Closure(g, T)
  BY ClosureIn
<1>1. T \subseteq Closure(f, T) /\ T \subseteq Closure(g, T)
  BY ClosureHas
<1>2. Closure(g, T) \subseteq Closure(f, T)
  <2>1. ASSUME NEW n \in DOMAIN g, g[n] \in Closure(f, T)  PROVE n \in Closure(f, T)
    <3>1. g[n] = f[n]
      BY <2>1, <1>0
    <3> QED  BY <3>1, <2>1, ClosureHas
  <2> QED  BY <1>1, <2>1, ClosureLeast
<1>3. Closure(f, T) \subseteq Closure(g, T)
  <2>1. ASSUME NEW n \in DOMAIN f, f[n] \in Closure(g, T)  PROVE n \in Closure(g, T)
    <3>1. CASE n \in S
      BY <3>1, <1>1
    <3>2. CASE n \notin S
      <4>1. g[n] = f[n]
        BY <3>2
      <4> QED  BY <4>1, <2>1, ClosureHas
    <3> QED  BY <3>1, <3>2
  <2> QED  BY <1>1, <2>1, ClosureLeast
<1> QED  BY <1>2, <1>3

\* What is below two sets is below one of them.
LEMMA ClosureUnion ==
  ASSUME NEW f, NEW S, NEW T, None \notin S \cup T \cup DOMAIN f
  PROVE  Closure(f, S \cup T) = Closure(f, S) \cup Closure(f, T)
<1> DEFINE X == Closure(f, S) \cup Closure(f, T)
<1>1. S \cup T \subseteq X /\ \A n \in DOMAIN f : f[n] \in X => n \in X
  BY ClosureHas
<1>2. Closure(f, S \cup T) \subseteq X
  <2> HIDE DEF X
  <2> QED  BY <1>1, ClosureLeast
<1>3. S \cup T \subseteq Closure(f, S \cup T)
  BY ClosureHas
<1>4. Closure(f, S) \subseteq Closure(f, S \cup T) /\ Closure(f, T) \subseteq Closure(f, S \cup T)
  BY <1>3, ClosureTwice
<1> QED  BY <1>2, <1>4

\* The tree of the client is a tree of its own: what waits to be freed is apart
\* from it.
LEMMA TreeApart ==
  ASSUME ClientInv
  PROVE  /\ DOMAIN under = Copy
         /\ \A c \in Copy : under[c] \in InClientTree \cup {Root} <=> c \in InClientTree
         /\ \A c \in Copy : under[c] \in copies \cup {Root, None}
         /\ \A S \in SUBSET InClientTree : Closure(under, S) \subseteq InClientTree
<1>1. /\ under \in [Copy -> Copy \cup {Root, None}] /\ DOMAIN under = Copy
      /\ copies = InClientTree \cup Closure(under, queued) /\ InClientTree \cap Closure(under, queued) = {}
      /\ \A c \in Copy \ copies : under[c] = None
      /\ \A c \in queued : under[c] = None
      /\ queued \subseteq copies /\ copies \subseteq Copy
  BY DEF ClientInv, ClientTree
<1>2. Root \notin Copy /\ None \notin Copy /\ None # Root
  BY NamesDiffer
<1>3. Root \in Closure(under, {Root}) /\ Closure(under, {Root}) = InClientTree \cup {Root}
  <2>1. Root \in Closure(under, {Root})
    BY <1>1, <1>2, ClosureHas
  <2> QED  BY <2>1 DEF InClientTree
<1>4. \A c \in Copy : under[c] \in InClientTree \cup {Root} => c \in InClientTree
  <2>1. \A c \in Copy : under[c] \in Closure(under, {Root}) => c \in Closure(under, {Root})
    BY <1>1, <1>2, ClosureHas
  <2> QED  BY <2>1, <1>2, <1>3
<1>5. \A c \in InClientTree : under[c] \in InClientTree \cup {Root}
  <2> TAKE c \in InClientTree
  <2>1. c \in Closure(under, {Root}) /\ c # Root
    BY DEF InClientTree
  <2> QED  BY <2>1, <1>1, <1>2, <1>3, ClosureFrom
<1>6. \A c \in Closure(under, queued) : under[c] \in copies \cup {None}
  <2> TAKE c \in Closure(under, queued)
  <2>1. c \in queued \/ under[c] \in Closure(under, queued)
    BY <1>1, <1>2, ClosureFrom
  <2> QED  BY <2>1, <1>1
<1>7. \A c \in Copy : under[c] \in copies \cup {Root, None}
  BY <1>1, <1>5, <1>6
<1>8. ASSUME NEW S \in SUBSET InClientTree
      PROVE  Closure(under, S) \subseteq InClientTree
  <2>1. Closure(under, S) \subseteq Closure(under, {Root})
    BY <1>1, <1>2, <1>3, ClosureTwice
  <2>2. Root \notin Closure(under, S)
    BY <1>1, <1>2, <1>8, ClosureIn
  <2> QED  BY <2>1, <2>2, <1>3
<1> QED  BY <1>1, <1>4, <1>5, <1>7, <1>8

\* What is below copies in the tree is so in the view.
LEMMA ViewApart ==
  ASSUME ClientInv, NEW S, S \subseteq InClientTree
  PROVE  Closure(ClientView.under, S) = Closure(under, S)
<1> DEFINE g == ClientView.under
<1>1. /\ DOMAIN under = Copy /\ S \subseteq Copy /\ InClientTree \subseteq Copy
      /\ \A c \in Copy : under[c] \in InClientTree \cup {Root} <=> c \in InClientTree
      /\ Closure(under, S) \subseteq InClientTree
  BY TreeApart, ClientHas
<1>2. Root \notin Copy /\ None \notin Copy /\ None # Root
  BY NamesDiffer
<1>3. DOMAIN g = Copy /\ \A c \in Copy : g[c] = IF c \in InClientTree THEN under[c] ELSE None
  BY DEF ClientView
<1> HIDE DEF g
<1>4. S \subseteq Closure(g, S) /\ S \subseteq Closure(under, S)
      /\ None \notin Closure(under, S) /\ None \notin Closure(g, S)
  BY <1>1, <1>2, <1>3, ClosureHas, ClosureIn
<1>5. Closure(g, S) \subseteq Closure(under, S)
  <2>1. ASSUME NEW c \in DOMAIN g, g[c] \in Closure(under, S)  PROVE c \in Closure(under, S)
    <3>1. g[c] = under[c]
      BY <2>1, <1>3, <1>4
    <3> QED  BY <3>1, <2>1, <1>1, <1>2, <1>3, ClosureHas
  <2> QED  BY <1>1, <1>2, <1>3, <1>4, <2>1, ClosureLeast
<1>6. Closure(under, S) \subseteq Closure(g, S)
  <2> DEFINE X == Closure(g, S)
  <2>1. ASSUME NEW c \in DOMAIN under, under[c] \in X, under[c] \in Closure(under, S)  PROVE c \in X
    <3>1. c \in InClientTree
      BY <2>1, <1>1
    <3>2. g[c] = under[c]
      BY <3>1, <1>1, <1>3
    <3> QED  BY <3>2, <2>1, <1>1, <1>2, <1>3, ClosureHas
  <2> HIDE DEF X
  <2>2. S \subseteq X
    BY <1>4 DEF X
  <2>3. Closure(under, S) \subseteq X
    BY <2>1, <2>2, <1>1, <1>2, ClosureLeast
  <2> QED  BY <2>3 DEF X
<1> QED  BY <1>5, <1>6 DEF g

\* The message a client handles, and what it makes of what the client has.
LEMMA Handles ==
  ASSUME Inv, NEW type, Handle(type)
  PROVE  /\ handled' \in 0 .. Batch /\ handled' # 0 /\ Head(down) \in Message /\ Head(down).type = type
         /\ down' \in Seq(Message)
         /\ \E u : Takes(ClientView, Head(down), u) /\ Sound(u) /\ Leads(u, down', ServerView)
<1>1. handled' \in 0 .. Batch /\ handled' # 0
  <2>1. handled \in 0 .. Batch /\ Batch \in Nat /\ handled < Batch /\ handled' = handled + 1
    BY BoundAssumption DEF Handle, Inv, ClientInv, ClientTree
  <2> QED  BY ONLY <2>1
<1>2. down \in Seq(Message) /\ down # << >> /\ Head(down).type = type /\ down' = Tail(down)
  BY DEF Handle, Inv
<1>3. Head(down) \in Message /\ Tail(down) \in Seq(Message)
  BY <1>2
<1>4. \E u : Takes(ClientView, Head(down), u) /\ Sound(u) /\ Leads(u, Tail(down), ServerView)
  BY <1>2, LeadsFirst DEF Inv
<1> QED  BY <1>1, <1>2, <1>3, <1>4

\* A removal cuts what it names from the tree, and what is cut waits for the end of
\* the frame.
LEMMA RecvRemoveStep ==
  ASSUME Inv, RecvRemove
  PROVE  Inv'
<1> DEFINE m == Head(down)
           v == ClientView
           S == {Client!Found(cids, i, copies) : i \in m.nodes} \cap InClientTree
           leave == {c \in S : \A d \in S : cids.object_to_id[d] < cids.object_to_id[c]
                                              => c \notin Closure(under, {d})}
           C == Closure(under, leave)
           W == Closure(under, queued)
           g == under'
<1>1. /\ Handle("remove")
      /\ g = [c \in Copy |-> IF c \in leave THEN None ELSE under[c]]
      /\ queued' = queued \cup leave
      /\ cids' = Client!Looked(cids, m.nodes, copies \cup {Root})
      /\ copies' = copies /\ entered' = entered /\ up' = up /\ UNCHANGED server
  BY DEF RecvRemove
<1>2. /\ handled' \in 0 .. Batch /\ handled' # 0 /\ m \in Message /\ m.type = "remove" /\ down' \in Seq(Message)
      /\ \E u : Takes(v, m, u) /\ Sound(u) /\ Leads(u, down', ServerView)
  BY <1>1, Handles
<1>3. PICK u : Takes(v, m, u) /\ Sound(u) /\ Leads(u, down', ServerView)
  BY <1>2
<1>4. /\ ClientInv /\ copies = InClientTree \cup W /\ InClientTree \cap W = {}
      /\ under \in [Copy -> Copy \cup {Root, None}] /\ \A c \in Copy \ copies : under[c] = None
      /\ entered \subseteq Copy /\ copies \subseteq entered /\ copies \subseteq Copy
      /\ queued \subseteq copies /\ \A c \in queued : under[c] = None
  BY DEF Inv, ClientInv, ClientTree
<1>5. Root \notin Copy /\ None \notin Copy /\ None # Root
  BY NamesDiffer
<1>6. m.nodes \subseteq Id
  <2> HIDE DEF m
  <2> QED  BY <1>2 DEF Message
<1>7. S = Named(v, m.nodes)
  <2> HIDE DEF m
  <2>1. /\ Held(v) = InClientTree
        /\ \A c \in InClientTree : v.id[c] = cids.object_to_id[c]
        /\ \A i \in Id, c \in copies : Client!Found(cids, i, copies) = c <=> cids.object_to_id[c] = i
    BY <1>4, ClientHas
  <2>2. ASSUME NEW c \in InClientTree
        PROVE  c \in S <=> c \in Named(v, m.nodes)
    <3>1. c \in S <=> \E i \in m.nodes : Client!Found(cids, i, copies) = c
      BY <2>2
    <3>2. c \in Named(v, m.nodes) <=> cids.object_to_id[c] \in m.nodes
      BY <2>1, <2>2 DEF Named
    <3>3. \A i \in m.nodes : Client!Found(cids, i, copies) = c <=> cids.object_to_id[c] = i
      BY <2>1, <2>2, <1>4, <1>6
    <3> QED  BY <3>1, <3>2, <3>3
  <2>3. S \subseteq InClientTree /\ Named(v, m.nodes) \subseteq InClientTree
    BY <2>1 DEF Named
  <2> QED  BY <2>2, <2>3
<1>8. C = Closure(under, S) /\ S \subseteq InClientTree /\ C = Closure(v.under, S)
  <2> DEFINE T == S
  <2>1. T \subseteq InClientTree /\ T \subseteq copies
    BY <1>4
  <2> HIDE DEF T
  <2>2. LET l == {c \in T : \A d \in T : cids.object_to_id[d] < cids.object_to_id[c]
                                          => c \notin Closure(under, {d})}
        IN  Closure(under, l) = Closure(under, T)
    BY <2>1, <1>4, LeaveAll
  <2>3. Closure(v.under, T) = Closure(under, T)
    BY <2>1, <1>4, ViewApart
  <2> QED  BY <2>1, <2>2, <2>3 DEF T
<1>9. u = Cut(v, S)
  <2>1. u = Cut(v, Named(v, m.nodes))
    <3> HIDE DEF m, v
    <3> QED  BY <1>2, <1>3 DEF Takes
  <2> QED  BY <2>1, <1>7
<1>a. leave \subseteq InClientTree
  BY <1>8
<1> HIDE DEF S, leave, m
<1>10. /\ DOMAIN under = Copy /\ DOMAIN g = Copy /\ g \in [Copy -> Copy \cup {Root, None}]
       /\ \A c \in Copy : g[c] = IF c \in leave THEN None ELSE under[c]
  BY <1>1, <1>4
<1> HIDE DEF g
<1>b. leave \subseteq Copy /\ queued \subseteq Copy /\ InClientTree \subseteq Copy
  BY <1>4, <1>a
<1>11. leave \subseteq C /\ C \subseteq InClientTree
  <2>1. leave \subseteq C
    BY <1>5, <1>10, <1>b, ClosureHas
  <2> QED  BY <2>1, <1>a, <1>4, TreeApart
<1>12. Closure(g, {Root}) = Closure(under, {Root}) \ C /\ Closure(g, queued \cup leave) = W \cup C
  <2>1. None \notin leave \cup {Root} \cup DOMAIN under /\ {Root} \cap C = {}
    BY <1>5, <1>10, <1>11, <1>b
  <2>2. \A n \in DOMAIN under : g[n] = under[n] \/ (g[n] = None /\ n \in C)
    BY <1>10, <1>11
  <2>3. \A n \in leave \cap DOMAIN under : g[n] = None
    BY <1>10
  <2>4. Closure(g, {Root}) = Closure(under, {Root}) \ C
    BY <2>1, <2>2, <2>3, <1>10, CutRest
  <2> DEFINE T == queued \cup leave
  <2>5. Closure(under, T) = W \cup C
    BY <1>5, <1>10, <1>b, ClosureUnion
  <2>6. None \notin T \cup DOMAIN under /\ leave \subseteq T
    BY <1>5, <1>10, <1>b
  <2> HIDE DEF T
  <2>7. Closure(g, T) = Closure(under, T)
    BY <2>6, <1>10, CutOwn
  <2> QED  BY <2>4, <2>5, <2>7 DEF T
<1>13. InClientTree' = InClientTree \ C /\ Closure(g, queued') = W \cup C
  <2>1. InClientTree' = Closure(g, {Root}) \ {Root}
    BY DEF InClientTree, g
  <2>2. InClientTree' = InClientTree \ C
    BY <2>1, <1>12 DEF InClientTree
  <2> QED  BY <2>2, <1>1, <1>12
<1>14. ClientTree'
  <2> HIDE DEF C, W
  <2>1. copies' = InClientTree' \cup Closure(g, queued') /\ InClientTree' \cap Closure(g, queued') = {}
    BY <1>1, <1>4, <1>11, <1>13
  <2>2. \A c \in Copy \ copies' : g[c] = None
    BY <1>1, <1>4, <1>10
  <2>3. queued' \subseteq copies' /\ \A c \in queued' : g[c] = None
    BY <1>1, <1>4, <1>a, <1>b, <1>10
  <2>4. copies' \subseteq Copy /\ entered' \subseteq Copy /\ copies' \subseteq entered'
    BY <1>1, <1>4
  <2> QED  BY <2>1, <2>2, <2>3, <2>4, <1>2, <1>10 DEF ClientTree, g
<1>15. cids' = cids
  BY <1>1, <1>4, LookedSame
<1>16. ClientIds'
  <2>1. Client!TypeOK'
    BY <1>1, <1>4, <1>15 DEF ClientInv, ClientIds, Client!TypeOK, Client!Id
  <2> QED  BY <2>1, <1>1, <1>4, <1>15 DEF ClientInv, ClientIds
<1>17. ClientView' = u
  <2>1. ClientView' = [under |-> [c \in Copy |-> IF c \in InClientTree' THEN g[c] ELSE None],
                       id    |-> [c \in Copy |-> IF c \in InClientTree' THEN cids'.object_to_id[c] ELSE -1]]
    BY DEF ClientView, g
  <2>2. u = [under |-> [c \in Copy |-> IF c \in C THEN None ELSE v.under[c]],
             id    |-> [c \in Copy |-> IF c \in C THEN -1 ELSE v.id[c]]]
    BY <1>8, <1>9 DEF Cut
  <2>3. \A c \in Copy : /\ v.id[c] = IF c \in InClientTree THEN cids.object_to_id[c] ELSE -1
                        /\ v.under[c] = IF c \in InClientTree THEN under[c] ELSE None
    BY DEF ClientView
  <2> HIDE DEF C, v
  <2>4. \A c \in Copy : (IF c \in InClientTree' THEN g[c] ELSE None) = IF c \in C THEN None ELSE v.under[c]
    BY <2>3, <1>10, <1>11, <1>13
  <2>5. \A c \in Copy : (IF c \in InClientTree' THEN cids'.object_to_id[c] ELSE -1) = IF c \in C THEN -1 ELSE v.id[c]
    BY <2>3, <1>13, <1>15
  <2> QED  BY <2>1, <2>2, <2>4, <2>5
<1>18. ServerInv' /\ ServerView' = ServerView
  BY <1>1, ServerSame DEF Inv
<1>19. up' \in Seq([id : Id, to : Node])
  BY <1>1 DEF Inv
<1> QED  BY <1>2, <1>3, <1>14, <1>16, <1>17, <1>18, <1>19 DEF Inv, ClientInv

\* The shape of the client's repository.
Dictionaries ==
  [object_to_id : [Copy \cup {Root} -> Id \cup {-1}],
   id_to_object : [Id -> Copy \cup {Root} \cup {None}],
   current_id   : Id, object_awaits : SUBSET (Copy \cup {Root})]

\* Where the dictionaries agree, an identifier leads to the object that has it,
\* and looking one up changes nothing.
LEMMA LookedIs ==
  ASSUME NEW r \in Dictionaries, NEW O, O \subseteq Copy \cup {Root}, Agree(r, O)
  PROVE  /\ \A I : Client!Looked(r, I, O) = r
         /\ \A i \in Id, o \in O : r.object_to_id[o] = i => Client!Found(r, i, O) = o
<1>1. r.id_to_object \in [Id -> Copy \cup {Root} \cup {None}] /\ DOMAIN r.object_to_id = Copy \cup {Root}
      /\ r.object_to_id \in [Copy \cup {Root} -> Id \cup {-1}]
  BY DEF Dictionaries
<1>2. -1 \notin Id
  BY DEF Id
<1>3. \A i \in Id : Client!Found(r, i, O) = r.id_to_object[i]
  <2> TAKE i \in Id
  <2>1. CASE r.id_to_object[i] = None
    BY <2>1 DEF Client!Found
  <2>2. CASE r.id_to_object[i] # None
    <3>1. r.object_to_id[r.id_to_object[i]] = i /\ r.id_to_object[i] \in Copy \cup {Root}
      BY <2>2, <1>1 DEF Agree
    <3>2. r.id_to_object[i] \in O
      BY <3>1, <1>1, <1>2 DEF Agree
    <3> QED  BY <3>2 DEF Client!Found
  <2> QED  BY <2>1, <2>2
<1>4. ASSUME NEW I PROVE Client!Looked(r, I, O) = r
  <2>1. Client!Looked(r, I, O)
          = [r EXCEPT !.id_to_object = [i \in Id |-> IF i \in I THEN Client!Found(r, i, O) ELSE @[i]]]
    BY DEF Client!Looked, Client!Id, Id
  <2>2. [i \in Id |-> IF i \in I THEN Client!Found(r, i, O) ELSE r.id_to_object[i]] = r.id_to_object
    BY <1>1, <1>3
  <2> QED  BY <2>1, <2>2 DEF Dictionaries
<1>5. \A i \in Id, o \in O : r.object_to_id[o] = i => Client!Found(r, i, O) = o
  BY <1>3 DEF Agree
<1> QED  BY <1>4, <1>5

\* In s and r the objects O have the same identifiers.
SameIds(s, r, O) == \A o \in O : s.object_to_id[o] = r.object_to_id[o]

\* Nodes that are new where the dictionaries r have the objects O.
Fresh(new, r, O) ==
  /\ \A a \in new : a.copy \in Copy \ O /\ a.id \in Id \ {0}
  /\ \A a \in new, o \in O : r.object_to_id[o] # a.id
  /\ \A a, b \in new : a.id = b.id \/ a.copy = b.copy => a = b

IdsOf(new)    == {a.id : a \in new}
CopiesOf(new) == {a.copy : a \in new}

\* The dictionaries s have them besides.
Grown(s, new, r, O) ==
  /\ Agree(s, O \cup CopiesOf(new))
  /\ \A a \in new : s.object_to_id[a.copy] = a.id
  /\ SameIds(s, r, O)

\* What the nodes of a message add to the dictionaries.
LEMMA AddedIds ==
  ASSUME NEW r \in Dictionaries, NEW O, O \subseteq Copy \cup {Root}, Agree(r, O),
         NEW new, Fresh(new, r, O),
         NEW F, DOMAIN F = IdsOf(new), \A a \in new : F[a.id] = a.copy,
         NEW s, s = Client!RegisteredAll(r, F)
  PROVE  s \in Dictionaries /\ Grown(s, new, r, O)
<1> DEFINE J == {a.id : a \in new}
           M == {a.copy : a \in new}
<1>1. \A a \in new : F[a.id] = a.copy
  OBVIOUS
<1>2. DOMAIN F = J
  BY DEF IdsOf
<1>a. /\ \A a \in new : a.copy \in Copy \ O /\ a.id \in Id \ {0}
      /\ \A a \in new, o \in O : r.object_to_id[o] # a.id
      /\ \A a, b \in new : a.id = b.id \/ a.copy = b.copy => a = b
  BY DEF Fresh
<1>3. J \subseteq Id \ {0} /\ M \subseteq Copy \ O /\ \A i \in J : F[i] \in M
  BY <1>1, <1>a
<1>4. s = [r EXCEPT !.object_to_id = [o \in Copy \cup {Root} |->
             IF \E i \in J : F[i] = o THEN CHOOSE i \in J : F[i] = o ELSE @[o]],
           !.id_to_object = [i \in Id |-> IF i \in J THEN F[i] ELSE @[i]],
           !.object_awaits = @ \ {F[i] : i \in J}]
  BY <1>2 DEF Client!RegisteredAll, Client!Id, Id
<1>5. /\ s.object_to_id = [o \in Copy \cup {Root} |->
             IF \E i \in J : F[i] = o THEN CHOOSE i \in J : F[i] = o ELSE r.object_to_id[o]]
      /\ s.id_to_object = [i \in Id |-> IF i \in J THEN F[i] ELSE r.id_to_object[i]]
      /\ s = [object_to_id |-> s.object_to_id, id_to_object |-> s.id_to_object,
              current_id |-> s.current_id, object_awaits |-> s.object_awaits]
      /\ s.current_id \in Id /\ s.object_awaits \subseteq Copy \cup {Root}
  <2> DEFINE A == [o \in Copy \cup {Root} |->
                    IF \E i \in J : F[i] = o THEN CHOOSE i \in J : F[i] = o ELSE r.object_to_id[o]]
             B == [i \in Id |-> IF i \in J THEN F[i] ELSE r.id_to_object[i]]
             D == {F[i] : i \in J}
  <2>1. s = [r EXCEPT !.object_to_id = A, !.id_to_object = B, !.object_awaits = @ \ D]
    BY <1>4
  <2> HIDE DEF J, A, B, D
  <2>2. /\ s.object_to_id = A /\ s.id_to_object = B
        /\ s = [object_to_id |-> s.object_to_id, id_to_object |-> s.id_to_object,
                current_id |-> s.current_id, object_awaits |-> s.object_awaits]
        /\ s.current_id \in Id /\ s.object_awaits \subseteq Copy \cup {Root}
    BY <2>1 DEF Dictionaries
  <2> QED  BY <2>2 DEF A, B
<1>6. \A a \in new : s.object_to_id[a.copy] = a.id
  <2> TAKE a \in new
  <2>1. \A i \in J : F[i] = a.copy => i = a.id
    BY <1>1, <1>a
  <2>2. a.id \in J /\ F[a.id] = a.copy /\ a.copy \in Copy \cup {Root}
    BY <1>1, <1>a
  <2>3. (CHOOSE i \in J : F[i] = a.copy) = a.id
    BY <2>1, <2>2
  <2> HIDE DEF J
  <2> QED  BY <2>2, <2>3, <1>5
<1>7. \A o \in (Copy \cup {Root}) \ M : s.object_to_id[o] = r.object_to_id[o]
  <2> HIDE DEF J
  <2> QED  BY <1>3, <1>5
<1>8. \A a \in new : s.id_to_object[a.id] = a.copy
  <2>1. \A a \in new : a.id \in J
    OBVIOUS
  <2> HIDE DEF J
  <2> QED  BY <2>1, <1>1, <1>3, <1>5
<1>9. \A i \in Id \ J : s.id_to_object[i] = r.id_to_object[i]
  <2> HIDE DEF J
  <2> QED  BY <1>5
<1>10. /\ \A i \in J : \E a \in new : a.id = i
       /\ \A o \in M : \E a \in new : a.copy = o
       /\ \A a \in new : a.id \in J /\ a.copy \in M
  OBVIOUS
<1>11. /\ \A o \in Copy \cup {Root} : r.object_to_id[o] # -1 <=> o \in O
       /\ \A o \in O : r.id_to_object[r.object_to_id[o]] = o
       /\ \A i \in Id : r.id_to_object[i] # None => r.object_to_id[r.id_to_object[i]] = i
       /\ r.object_to_id[Root] = 0 /\ Root \notin Copy /\ -1 \notin Id
       /\ r.object_to_id \in [Copy \cup {Root} -> Id \cup {-1}]
       /\ r.id_to_object \in [Id -> Copy \cup {Root} \cup {None}]
  BY NamesDiffer DEF Agree, Dictionaries, Id
<1> HIDE DEF CopiesOf, J, M
<1>12. s \in Dictionaries
  <2>1. \A o \in Copy \cup {Root} : s.object_to_id[o] \in Id \cup {-1}
    BY <1>6, <1>7, <1>10, <1>11, <1>a
  <2>2. \A i \in Id : s.id_to_object[i] \in Copy \cup {Root} \cup {None}
    BY <1>8, <1>9, <1>10, <1>11, <1>a
  <2>3. s.object_to_id \in [Copy \cup {Root} -> Id \cup {-1}] /\ s.id_to_object \in [Id -> Copy \cup {Root} \cup {None}]
    BY <1>5, <2>1, <2>2
  <2> QED  BY <1>5, <2>3 DEF Dictionaries
<1>13. \A o \in O : s.object_to_id[o] = r.object_to_id[o] /\ r.object_to_id[o] \in Id \ J
  BY <1>a, <1>3, <1>7, <1>10, <1>11
<1>14. Agree(s, O \cup M)
  <2>1. \A o \in Copy \cup {Root} : s.object_to_id[o] # -1 <=> o \in O \cup M
    BY <1>3, <1>6, <1>7, <1>10, <1>11
  <2>2. \A o \in O \cup M : s.id_to_object[s.object_to_id[o]] = o
    BY <1>6, <1>8, <1>9, <1>10, <1>11, <1>13
  <2>3. \A i \in Id : s.id_to_object[i] # None => s.object_to_id[s.id_to_object[i]] = i
    <3> SUFFICES ASSUME NEW i \in Id, s.id_to_object[i] # None
                 PROVE  s.object_to_id[s.id_to_object[i]] = i
      OBVIOUS
    <3>1. CASE i \in J
      BY <3>1, <1>6, <1>8, <1>10
    <3>2. CASE i \notin J
      <4>1. s.id_to_object[i] = r.id_to_object[i] /\ r.object_to_id[r.id_to_object[i]] = i
        BY <3>2, <1>9, <1>11
      <4>2. r.id_to_object[i] \in O
        BY <4>1, <1>11
      <4> QED  BY <4>1, <4>2, <1>13
    <3> QED  BY <3>1, <3>2
  <2>4. s.object_to_id[Root] = 0
    BY <1>3, <1>7, <1>11
  <2>5. DOMAIN s.object_to_id = Copy \cup {Root}
    BY <1>12 DEF Dictionaries
  <2> QED  BY <2>1, <2>2, <2>3, <2>4, <2>5 DEF Agree
<1> QED  BY <1>6, <1>12, <1>13, <1>14 DEF CopiesOf, J, M, Grown, SameIds

\* The tree of a sound view has the copies it holds.
LEMMA HeldIs ==
  ASSUME NEW v, Sound(v)
  PROVE  Closure(v.under, {Root}) \ {Root} = Held(v)
<1>1. DOMAIN v.under = Copy /\ None \notin {Root} \cup Copy /\ Root \notin Copy
  BY NamesDiffer DEF Sound, View
<1>2. None \notin Closure(v.under, {Root})
  BY <1>1, ClosureIn
<1>3. \A c \in Closure(v.under, {Root}) : c = Root \/ (c \in Copy /\ v.under[c] # None)
  BY <1>1, <1>2, ClosureFrom
<1>4. Closure(v.under, {Root}) \ {Root} \subseteq Held(v)
  BY <1>3 DEF Sound, Held
<1>5. Held(v) \subseteq Closure(v.under, {Root}) /\ Root \notin Held(v)
  BY <1>1 DEF Sound, Held
<1> QED  BY <1>4, <1>5

\* The new copies find their parents, and take identifiers no copy has.
LEMMA RecvAddStep ==
  ASSUME Inv, RecvAdd, NoStomping, Unsent(Head(down))
  PROVE  Inv' /\ entered' = entered \cup CopiesOf(Head(down).nodes)
<1> DEFINE m == Head(down)
           v == ClientView
           new == m.nodes
           made == {a.copy : a \in new}
           alive == copies \cup made \cup {Root}
           F == [i \in {a.id : a \in new} |-> (CHOOSE a \in new : a.id = i).copy]
           repo == Client!RegisteredAll(cids, F)
           home(a) == Client!Found(repo, a.parent, alive)
           W == Closure(under, queued)
           g == under'
<1>1. /\ Handle("add")
      /\ copies' = copies \cup made
      /\ g = [c \in Copy |-> IF c \in made THEN home(CHOOSE a \in new : a.copy = c) ELSE under[c]]
      /\ queued' = queued \cup {a.copy : a \in {b \in new : home(b) = None}}
      /\ entered' = entered \cup (Closure(g, {Root}) \ {Root})
      /\ cids' = Client!Looked(repo, {a.parent : a \in new}, alive)
      /\ up' = up /\ UNCHANGED server
  BY DEF RecvAdd
<1>2. /\ handled' \in 0 .. Batch /\ handled' # 0 /\ m \in Message /\ m.type = "add" /\ down' \in Seq(Message)
      /\ \E u : Takes(v, m, u) /\ Sound(u) /\ Leads(u, down', ServerView)
  BY <1>1, Handles
<1>3. PICK u : Takes(v, m, u) /\ Sound(u) /\ Leads(u, down', ServerView)
  BY <1>2
<1>4. /\ ClientInv /\ copies = InClientTree \cup W /\ InClientTree \cap W = {}
      /\ entered \subseteq Copy /\ copies \subseteq Copy /\ copies \subseteq entered
      /\ queued \subseteq copies /\ \A c \in queued : under[c] = None
      /\ \A c \in Copy \ copies : under[c] = None
  BY DEF Inv, ClientInv, ClientTree
<1>5. Root \notin Copy /\ None \notin Copy /\ None # Root
  BY NamesDiffer
<1>6. \A a \in new : a.parent \in Id
  <2> HIDE DEF m
  <2> QED  BY <1>2 DEF Message
<1>7. Joins(v, new, u) /\ \A a \in new : a.copy \notin entered
  <2>1. \A a \in new : a.copy \notin entered
    BY <1>2 DEF Unsent, Brought
  <2> HIDE DEF m, v
  <2> QED  BY <2>1, <1>2, <1>3 DEF Takes
<1>8. /\ Held(v) = InClientTree
      /\ \A c \in InClientTree : v.id[c] = cids.object_to_id[c] /\ v.under[c] = under[c]
      /\ \A c \in copies : cids.object_to_id[c] \in Id \ {0}
  BY <1>4, ClientHas
<1>a. \A a \in new, c \in W : cids.object_to_id[c] # a.id
  BY DEF NoStomping
<1> HIDE DEF m, v
<1>9. /\ \A a \in new : /\ a.copy \in Copy \ copies /\ a.id \in Id \ {0} /\ u.id[a.copy] = a.id
                        /\ \A c \in copies : cids.object_to_id[c] # a.id
                        /\ \/ a.parent = 0 /\ u.under[a.copy] = Root
                           \/ u.under[a.copy] \in Copy /\ u.id[u.under[a.copy]] = a.parent
      /\ \A a, b \in new : a.id = b.id \/ a.copy = b.copy => a = b
      /\ \A c \in Copy \ made : u.id[c] = v.id[c] /\ u.under[c] = v.under[c]
  <2>1. \A a \in new : a.copy \in Copy \ copies /\ \A c \in copies : cids.object_to_id[c] # a.id
    <3> HIDE DEF W, new
    <3> QED  BY <1>4, <1>7, <1>8, <1>a DEF Joins
  <2> QED  BY <2>1, <1>7, <1>8 DEF Joins
<1>10. /\ repo \in Dictionaries /\ Agree(repo, alive)
       /\ \A a \in new : repo.object_to_id[a.copy] = a.id
       /\ \A c \in copies : repo.object_to_id[c] = cids.object_to_id[c]
  <2> DEFINE O == copies \cup {Root}
  <2>1. cids \in Dictionaries /\ O \subseteq Copy \cup {Root} /\ Agree(cids, O)
    BY <1>4 DEF ClientInv, ClientIds, Client!TypeOK, Client!Id, Id, Dictionaries
  <2> DEFINE n == new
  <2>2. \A a \in n : a.copy \in Copy \ O /\ a.id \in Id \ {0}
    BY <1>5, <1>9
  <2>3. Fresh(n, cids, O)
    <3>1. \A a \in n, o \in O : cids.object_to_id[o] # a.id
      BY <2>1, <1>9 DEF Agree
    <3>2. \A a, b \in n : a.id = b.id \/ a.copy = b.copy => a = b
      BY <1>9
    <3> HIDE DEF O, n
    <3> QED  BY <2>2, <3>1, <3>2 DEF Fresh
  <2>4. O \cup made = alive
    OBVIOUS
  <2>5. \A a, b \in n : a.id = b.id \/ a.copy = b.copy => a = b
    BY <1>9
  <2> HIDE DEF O, n
  <2>6. DOMAIN F = IdsOf(n) /\ \A a \in n : F[a.id] = a.copy
    <3>1. \A a \in n : (CHOOSE b \in n : b.id = a.id) = a
      BY <2>5
    <3>2. F = [i \in {a.id : a \in n} |-> (CHOOSE a \in n : a.id = i).copy]
      BY DEF n
    <3> HIDE DEF F
    <3> QED  BY <3>1, <3>2 DEF IdsOf
  <2>7. repo \in Dictionaries /\ Grown(repo, n, cids, O)
    <3> HIDE DEF F, made, alive
    <3>1. repo = Client!RegisteredAll(cids, F)
      OBVIOUS
    <3> HIDE DEF repo
    <3> QED  BY <3>1, <2>1, <2>3, <2>6, AddedIds
  <2>8. \A c \in copies : repo.object_to_id[c] = cids.object_to_id[c]
    <3>1. \A c \in copies : c \in O
      BY DEF O
    <3> HIDE DEF F, repo, made, alive
    <3> QED  BY <3>1, <2>7 DEF Grown, SameIds
  <2>9. CopiesOf(n) = made
    BY DEF n, CopiesOf
  <2> HIDE DEF repo, alive, made, F
  <2>10. Agree(repo, alive)
    BY <2>4, <2>7, <2>9 DEF Grown
  <2>11. \A a \in n : repo.object_to_id[a.copy] = a.id
    BY <2>7 DEF Grown
  <2> QED  BY <2>7, <2>8, <2>10, <2>11 DEF n
<1>11. alive \subseteq Copy \cup {Root} /\ made \subseteq Copy /\ made \cap copies = {}
  BY <1>4, <1>9
<1>12. /\ cids' = repo
       /\ \A i \in Id, o \in alive : repo.object_to_id[o] = i => Client!Found(repo, i, alive) = o
  <2> HIDE DEF repo, alive, F
  <2> QED  BY <1>1, <1>10, <1>11, LookedIs
<1>13. \A c \in InClientTree \cup made : repo.object_to_id[c] = u.id[c] /\ u.id[c] # -1
  <2>1. ASSUME NEW c \in made PROVE repo.object_to_id[c] = u.id[c] /\ u.id[c] # -1
    <3>1. PICK a \in new : a.copy = c
      OBVIOUS
    <3> QED  BY <3>1, <1>9, <1>10 DEF Id
  <2>2. ASSUME NEW c \in InClientTree PROVE repo.object_to_id[c] = u.id[c] /\ u.id[c] # -1
    <3>1. c \in Copy \ made /\ c \in copies
      BY <2>2, <1>4, <1>11
    <3> HIDE DEF made
    <3>2. repo.object_to_id[c] = cids.object_to_id[c] /\ cids.object_to_id[c] \in Id
      BY <3>1, <1>8, <1>10
    <3>3. u.id[c] = cids.object_to_id[c]
      BY <3>1, <2>2, <1>8, <1>9
    <3> QED  BY <3>2, <3>3 DEF Id
  <2> QED  BY <2>1, <2>2
<1>14. Held(u) = InClientTree \cup made
  <2>a. InClientTree \cup made \subseteq Copy
    BY <1>4, <1>11
  <2>1. InClientTree \cup made \subseteq Held(u)
    <3> HIDE DEF made
    <3> QED  BY <2>a, <1>13 DEF Held
  <2>2. \A c \in Copy \ made : u.id[c] # -1 => c \in InClientTree
    BY <1>8, <1>9 DEF Held
  <2> QED  BY <2>1, <2>2 DEF Held
<1>15. \A a \in new : home(a) = u.under[a.copy] /\ home(a) # None
  <2> TAKE a \in new
  <2>1. CASE a.parent = 0 /\ u.under[a.copy] = Root
    <3>1. repo.object_to_id[Root] = 0 /\ Root \in alive /\ a.parent \in Id
      BY <1>6, <1>10 DEF Agree
    <3>2. home(a) = Root
      <4> HIDE DEF repo, alive, F
      <4> QED  BY <3>1, <2>1, <1>12
    <3> QED  BY <3>2, <2>1, <1>5
  <2>2. CASE u.under[a.copy] \in Copy /\ u.id[u.under[a.copy]] = a.parent
    <3> DEFINE p == u.under[a.copy]
    <3>1. p \in InClientTree \cup made /\ a.parent \in Id /\ p \in Copy
      <4>1. u.id[p] # -1
        BY <2>2, <1>6 DEF Id
      <4> QED  BY <4>1, <2>2, <1>6, <1>14 DEF Held
    <3>2. p \in alive /\ repo.object_to_id[p] = a.parent
      BY <3>1, <2>2, <1>4, <1>13
    <3>3. home(a) = p
      <4> HIDE DEF repo, alive, p, F
      <4> QED  BY <3>1, <3>2, <1>12
    <3> QED  BY <3>1, <3>3, <1>5
  <2> QED  BY <2>1, <2>2, <1>9
<1>16. u \in View /\ u.under \in [Copy -> Copy \cup {Root, None}] /\ DOMAIN u.under = Copy
  BY <1>3 DEF Sound, View
<1>17. /\ g \in [Copy -> Copy \cup {Root, None}]
       /\ \A c \in Copy : g[c] = IF c \in made THEN u.under[c] ELSE under[c]
  <2>1. ASSUME NEW c \in made
        PROVE  home(CHOOSE a \in new : a.copy = c) = u.under[c]
    <3>1. PICK a \in new : a.copy = c
      OBVIOUS
    <3>2. (CHOOSE b \in new : b.copy = c) = a
      BY <3>1, <1>9
    <3> HIDE DEF home, new
    <3> QED  BY <3>1, <3>2, <1>15
  <2> HIDE DEF home, made, new, g
  <2>2. g = [c \in Copy |-> IF c \in made THEN u.under[c] ELSE under[c]]
    BY <2>1, <1>1
  <2>3. under \in [Copy -> Copy \cup {Root, None}]
    BY <1>4 DEF ClientInv, ClientTree
  <2> QED  BY <2>2, <2>3, <1>16
<1>18. queued' = queued
  <2>1. {b \in new : home(b) = None} = {}
    BY <1>15
  <2> HIDE DEF home, new
  <2> QED  BY <2>1, <1>1
<1>b. CopiesOf(m.nodes) = made
  BY DEF CopiesOf
<1> HIDE DEF home, repo, alive, made, new, g, F
<1>19. Closure(g, {Root}) \ {Root} = Held(u)
  <2>1. DOMAIN g = Copy /\ None \notin {Root} \cup Copy
    BY <1>5, <1>17
  <2> DEFINE X == Held(u) \cup {Root}
  <2>2. ASSUME NEW c \in DOMAIN g, g[c] \in X  PROVE c \in X
    <3>1. CASE c \in made
      BY <3>1, <1>14
    <3>2. CASE c \notin made
      <4>1. g[c] = under[c] /\ under[c] \in InClientTree \cup made \cup {Root}
        BY <3>2, <2>1, <2>2, <1>14, <1>17
      <4>2. under[c] \in copies \cup {Root, None}
        BY <2>1, <2>2, <1>4, TreeApart
      <4>3. under[c] \in InClientTree \cup {Root}
        BY <4>1, <4>2, <1>5, <1>11
      <4> QED  BY <4>3, <2>1, <2>2, <1>4, <1>14, TreeApart
    <3> QED  BY <3>1, <3>2
  <2> HIDE DEF X
  <2>3. Closure(g, {Root}) \subseteq X
    <3>1. {Root} \subseteq X
      BY DEF X
    <3> QED  BY <3>1, <2>1, <2>2, ClosureLeast
  <2>4. Closure(u.under, {Root}) \subseteq Closure(g, {Root})
    <3> DEFINE Y == Closure(g, {Root})
    <3>1. ASSUME NEW c \in DOMAIN u.under, u.under[c] \in Y  PROVE c \in Y
      <4>1. u.under[c] # None /\ c \in Copy
        BY <3>1, <2>1, <1>16, ClosureIn
      <4>2. c \in Held(u)
        BY <4>1, <1>3 DEF Sound, Held
      <4>3. g[c] = u.under[c]
        <5>1. CASE c \in made
          BY <5>1, <4>1, <1>17
        <5>2. CASE c \notin made
          <6>1. c \in InClientTree
            BY <5>2, <4>2, <1>14
          <6> QED  BY <6>1, <5>2, <4>1, <1>8, <1>9, <1>17 DEF made
        <5> QED  BY <5>1, <5>2
      <4> QED  BY <4>1, <4>3, <3>1, <2>1, ClosureHas
    <3>2. {Root} \subseteq Y
      BY <2>1, ClosureHas
    <3> HIDE DEF Y
    <3>3. Closure(u.under, {Root}) \subseteq Y
      BY <3>1, <3>2, <2>1, <1>16, ClosureLeast
    <3> QED  BY <3>3 DEF Y
  <2>5. Closure(u.under, {Root}) \ {Root} = Held(u)
    BY <1>3, HeldIs
  <2> QED  BY <2>3, <2>4, <2>5 DEF X
<1>c. InClientTree' = Held(u) /\ entered' = entered \cup made
  <2>1. InClientTree' = Closure(g, {Root}) \ {Root}
    BY DEF InClientTree, g
  <2> QED  BY <2>1, <1>1, <1>4, <1>14, <1>19
<1>20. Closure(g, queued') = W
  <2>1. DOMAIN g = Copy /\ DOMAIN under = Copy /\ None \notin queued \cup Copy
    BY <1>4, <1>5, <1>17, TreeApart
  <2>2. W \subseteq copies /\ queued \subseteq W /\ queued \subseteq Closure(g, queued)
        /\ None \notin W /\ None \notin Closure(g, queued)
    BY <2>1, <1>4, ClosureHas, ClosureIn
  <2>3. Closure(g, queued) \subseteq W
    <3>1. ASSUME NEW c \in DOMAIN g, g[c] \in W  PROVE c \in W
      <4>1. CASE c \in made
        <5>1. g[c] \in Held(u) \cup {Root}
          BY <4>1, <2>1, <3>1, <1>3, <1>14, <1>17 DEF Sound
        <5>2. g[c] \notin InClientTree /\ g[c] \notin made /\ g[c] # Root
          BY <3>1, <2>2, <1>4, <1>5, <1>11
        <5> QED  BY <5>1, <5>2, <1>14
      <4>2. CASE c \notin made
        <5>1. g[c] = under[c]
          BY <4>2, <2>1, <3>1, <1>17
        <5> QED  BY <5>1, <3>1, <2>1, ClosureHas
      <4> QED  BY <4>1, <4>2
    <3> HIDE DEF W
    <3> QED  BY <3>1, <2>1, <2>2, ClosureLeast
  <2>4. W \subseteq Closure(g, queued)
    <3> DEFINE Y == Closure(g, queued)
    <3>1. ASSUME NEW c \in DOMAIN under, under[c] \in Y, under[c] \in W  PROVE c \in Y
      <4>1. c \notin made
        <5>1. under[c] # None
          BY <3>1, <2>2
        <5> QED  BY <5>1, <2>1, <3>1, <1>4, <1>11
      <4>2. g[c] = under[c]
        BY <4>1, <2>1, <3>1, <1>17
      <4> QED  BY <4>2, <3>1, <2>1, ClosureHas
    <3> HIDE DEF Y
    <3>2. queued \subseteq Y
      BY <2>2 DEF Y
    <3>3. W \subseteq Y
      BY <3>1, <3>2, <2>1, ClosureLeast
    <3> QED  BY <3>3 DEF Y
  <2> QED  BY <2>3, <2>4, <1>18
<1> HIDE DEF W
<1>21. ClientTree'
  <2>1. copies' = InClientTree' \cup Closure(g, queued') /\ InClientTree' \cap Closure(g, queued') = {}
    BY <1>1, <1>4, <1>11, <1>14, <1>20, <1>c
  <2>2. \A c \in Copy \ copies' : g[c] = None
    BY <1>1, <1>4, <1>17
  <2>3. \A c \in queued' : g[c] = None
    <3>1. \A c \in queued : c \in Copy /\ c \notin made
      BY <1>4, <1>11
    <3> QED  BY <3>1, <1>4, <1>17, <1>18
  <2>4. copies' \subseteq Copy /\ entered' \subseteq Copy /\ copies' \subseteq entered' /\ queued' \subseteq copies'
    BY <1>1, <1>4, <1>11, <1>18, <1>c
  <2> QED  BY <2>1, <2>2, <2>3, <2>4, <1>2, <1>17 DEF ClientTree, g
<1>22. ClientIds'
  <2>1. alive = copies' \cup {Root}
    BY <1>1 DEF alive
  <2>2. cids' \in Dictionaries /\ Agree(cids', copies' \cup {Root}) /\ copies' \subseteq Copy
    BY <2>1, <1>10, <1>12, <1>21 DEF ClientTree
  <2> QED  BY <2>2 DEF ClientIds, Client!TypeOK, Client!Id, Id, Dictionaries
<1>23. ClientView' = u
  <2>1. ClientView' = [under |-> [c \in Copy |-> IF c \in InClientTree' THEN g[c] ELSE None],
                       id    |-> [c \in Copy |-> IF c \in InClientTree' THEN cids'.object_to_id[c] ELSE -1]]
    BY DEF ClientView, g
  <2>2. \A c \in Copy : (IF c \in InClientTree' THEN g[c] ELSE None) = u.under[c]
    <3> TAKE c \in Copy
    <3>1. CASE c \in made
      BY <3>1, <1>14, <1>17, <1>c
    <3>2. CASE c \in InClientTree /\ c \notin made
      <4>1. u.under[c] = under[c]
        BY <3>2, <1>8, <1>9 DEF made
      <4> QED  BY <4>1, <3>2, <1>14, <1>17, <1>c
    <3>3. CASE c \notin Held(u)
      BY <3>3, <1>3, <1>c DEF Sound, Held
    <3> QED  BY <3>1, <3>2, <3>3, <1>14
  <2>3. \A c \in Copy : (IF c \in InClientTree' THEN cids'.object_to_id[c] ELSE -1) = u.id[c]
    BY <1>12, <1>13, <1>14, <1>c DEF Held
  <2>4. u = [under |-> [c \in Copy |-> u.under[c]], id |-> [c \in Copy |-> u.id[c]]]
    BY <1>16 DEF View
  <2> QED  BY <2>1, <2>2, <2>3, <2>4
<1>24. ServerInv' /\ ServerView' = ServerView
  BY <1>1, ServerSame DEF Inv
<1>25. up' \in Seq([id : Id, to : Node])
  BY <1>1 DEF Inv
<1>26. Inv'
  BY <1>2, <1>3, <1>21, <1>22, <1>23, <1>24, <1>25 DEF Inv, ClientInv
<1>27. CopiesOf(Head(down).nodes) = made
  BY <1>b DEF new, m
<1> QED  BY <1>26, <1>27, <1>c

\* A call changes neither the tree nor the identifiers.
LEMMA RecvCallClientStep ==
  ASSUME Inv, RecvCallClient
  PROVE  Inv'
<1> DEFINE m == Head(down)
           v == ClientView
<1>1. /\ Handle("call") /\ cids' = Client!Looked(cids, {m.id}, copies \cup {Root})
      /\ copies' = copies /\ under' = under /\ entered' = entered /\ queued' = queued
      /\ up' = up /\ UNCHANGED server
  BY DEF RecvCallClient
<1>2. /\ handled' \in 0 .. Batch /\ handled' # 0 /\ m.type = "call" /\ down' \in Seq(Message)
      /\ \E u : Takes(v, m, u) /\ Sound(u) /\ Leads(u, down', ServerView)
  BY <1>1, Handles
<1>3. ClientInv
  BY DEF Inv
<1>4. cids' = cids
  BY <1>1, <1>3, LookedSame
<1>5. Leads(v, down', ServerView)
  <2> HIDE DEF m, v
  <2> QED  BY <1>2 DEF Takes
<1>6. InClientTree' = InClientTree
  BY <1>1 DEF InClientTree
<1>7. ClientTree'
  BY <1>1, <1>2, <1>3, <1>6 DEF ClientInv, ClientTree
<1>8. ClientIds'
  BY <1>1, <1>3, <1>4 DEF ClientInv, ClientIds, Client!TypeOK, Client!Id
<1>9. ClientView' = v
  BY <1>1, <1>4, <1>6 DEF ClientView
<1>10. ServerInv' /\ ServerView' = ServerView
  BY <1>1, ServerSame DEF Inv
<1>11. up' \in Seq([id : Id, to : Node])
  BY <1>1 DEF Inv
<1> QED  BY <1>2, <1>5, <1>7, <1>8, <1>9, <1>10, <1>11 DEF Inv, ClientInv

\* What the objects that are freed leave of the dictionaries.
LEMMA RemovedIds ==
  ASSUME NEW r \in Dictionaries, NEW O, O \subseteq Copy \cup {Root}, Agree(r, O),
         NEW B, B \subseteq O \ {Root},
         NEW s, s = Client!RemovedAll(r, B)
  PROVE  s \in Dictionaries /\ Agree(s, O \ B) /\ SameIds(s, r, O \ B)
<1>1. /\ s.object_to_id = [o \in Copy \cup {Root} |-> IF o \in B THEN -1 ELSE r.object_to_id[o]]
      /\ s.id_to_object = [i \in Id |-> IF \E o \in B : r.object_to_id[o] = i THEN None
                                        ELSE r.id_to_object[i]]
      /\ s \in Dictionaries
  BY DEF Client!RemovedAll, Client!Id, Id, Dictionaries
<1>2. /\ \A o \in Copy \cup {Root} : r.object_to_id[o] # -1 <=> o \in O
      /\ \A o \in O : r.id_to_object[r.object_to_id[o]] = o
      /\ \A i \in Id : r.id_to_object[i] # None => r.object_to_id[r.id_to_object[i]] = i
      /\ r.object_to_id[Root] = 0 /\ None \notin Copy \cup {Root} /\ -1 \notin Id
      /\ r.object_to_id \in [Copy \cup {Root} -> Id \cup {-1}]
      /\ r.id_to_object \in [Id -> Copy \cup {Root} \cup {None}]
  BY NamesDiffer DEF Agree, Dictionaries, Id
<1>3. \A o \in Copy \cup {Root} : s.object_to_id[o] = IF o \in B THEN -1 ELSE r.object_to_id[o]
  BY <1>1
<1>4. \A i \in Id : s.id_to_object[i] = IF \E o \in B : r.object_to_id[o] = i THEN None
                                        ELSE r.id_to_object[i]
  BY <1>1
<1>5. Agree(s, O \ B)
  <2>1. \A o \in Copy \cup {Root} : s.object_to_id[o] # -1 <=> o \in O \ B
    BY <1>2, <1>3
  <2>2. \A o \in O \ B : s.id_to_object[s.object_to_id[o]] = o
    <3> TAKE o \in O \ B
    <3>1. s.object_to_id[o] = r.object_to_id[o] /\ r.object_to_id[o] \in Id
      BY <1>2, <1>3
    <3>2. ~ \E p \in B : r.object_to_id[p] = r.object_to_id[o]
      BY <1>2
    <3> QED  BY <3>1, <3>2, <1>2, <1>4
  <2>3. \A i \in Id : s.id_to_object[i] # None => s.object_to_id[s.id_to_object[i]] = i
    <3> SUFFICES ASSUME NEW i \in Id, s.id_to_object[i] # None
                 PROVE  s.object_to_id[s.id_to_object[i]] = i
      OBVIOUS
    <3>1. s.id_to_object[i] = r.id_to_object[i] /\ ~ \E o \in B : r.object_to_id[o] = i
      BY <1>4
    <3>2. r.object_to_id[r.id_to_object[i]] = i /\ r.id_to_object[i] \in Copy \cup {Root}
      BY <3>1, <1>2
    <3> QED  BY <3>1, <3>2, <1>3
  <2>4. DOMAIN s.object_to_id = Copy \cup {Root} /\ s.object_to_id[Root] = 0
    BY <1>1, <1>2, <1>3
  <2> QED  BY <2>1, <2>2, <2>3, <2>4 DEF Agree
<1> QED  BY <1>1, <1>3, <1>5 DEF SameIds

\* At the end of a frame what was cut is freed: it was not in the tree.
LEMMA FrameEndStep ==
  ASSUME Inv, FrameEnd
  PROVE  Inv'
<1> DEFINE C == Closure(under, queued)
           g == under'
<1>1. /\ handled' = 0 /\ copies' = copies \ C
      /\ g = [c \in Copy |-> IF c \in C THEN None ELSE under[c]]
      /\ queued' = {} /\ entered' = entered /\ down' = down /\ up' = up /\ UNCHANGED server
      /\ cids' = Client!RemovedAll(cids, {c \in C \cap entered : cids.object_to_id[c] # -1})
  BY DEF FrameEnd
<1>2. /\ ClientInv /\ copies \subseteq Copy /\ entered \subseteq Copy /\ queued \subseteq copies
      /\ copies = InClientTree \cup C /\ InClientTree \cap C = {} /\ copies \subseteq entered
      /\ under \in [Copy -> Copy \cup {Root, None}] /\ \A c \in Copy \ copies : under[c] = None
  BY DEF Inv, ClientInv, ClientTree
<1>3. Root \notin Copy /\ None \notin Copy /\ None # Root
  BY NamesDiffer
<1>4. copies' = InClientTree /\ InClientTree \subseteq Copy /\ C \subseteq Copy
  BY <1>1, <1>2
<1>5. {c \in C \cap entered : cids.object_to_id[c] # -1} = C
  <2>1. \A c \in copies : cids.object_to_id[c] # -1
    BY <1>2, ClientHas DEF Id
  <2> HIDE DEF C
  <2> QED  BY <2>1, <1>2
<1>6. /\ DOMAIN under = Copy /\ DOMAIN g = Copy /\ g \in [Copy -> Copy \cup {Root, None}]
      /\ \A c \in Copy : g[c] = IF c \in C THEN None ELSE under[c]
  <2> HIDE DEF C
  <2> QED  BY <1>1, <1>2
<1> HIDE DEF g
<1>7. Closure(g, {Root}) = Closure(under, {Root}) \ C /\ Closure(g, {}) = {}
  <2>1. None \notin queued \cup {Root} \cup DOMAIN under /\ {Root} \cap C = {}
    BY <1>2, <1>3, <1>4, <1>6
  <2>2. queued \subseteq C
    BY <2>1, ClosureHas
  <2>3. \A n \in DOMAIN under : g[n] = under[n] \/ (g[n] = None /\ n \in C)
    BY <1>6
  <2>4. \A n \in queued \cap DOMAIN under : g[n] = None
    BY <2>2, <1>6
  <2>5. Closure(g, {Root}) = Closure(under, {Root}) \ C
    BY <2>1, <2>3, <2>4, <1>6, CutRest
  <2>6. Closure(g, {}) \subseteq {}
    BY <1>3, <1>6, ClosureLeast
  <2> QED  BY <2>5, <2>6
<1>8. InClientTree' = InClientTree
  <2>1. InClientTree' = Closure(g, {Root}) \ {Root}
    BY DEF InClientTree, g
  <2>2. InClientTree' = InClientTree \ C
    BY <2>1, <1>7 DEF InClientTree
  <2> QED  BY <2>2, <1>2
<1>9. cids' \in Dictionaries /\ Agree(cids', copies' \cup {Root})
      /\ \A c \in InClientTree : cids'.object_to_id[c] = cids.object_to_id[c]
  <2> DEFINE O == copies \cup {Root}
             r == cids
             s == cids'
  <2>1. r \in Dictionaries /\ O \subseteq Copy \cup {Root} /\ Agree(r, O)
    BY <1>2 DEF ClientInv, ClientIds, Client!TypeOK, Client!Id, Id, Dictionaries
  <2>2. C \subseteq O \ {Root} /\ O \ C = copies' \cup {Root} /\ InClientTree \subseteq O \ C
    BY <1>2, <1>3, <1>4
  <2>3. s = Client!RemovedAll(r, C)
    BY <1>1, <1>5
  <2> HIDE DEF O, C, r, s
  <2>4. s \in Dictionaries /\ Agree(s, O \ C) /\ SameIds(s, r, O \ C)
    BY <2>1, <2>2, <2>3, RemovedIds
  <2> QED  BY <2>2, <2>4 DEF r, s, SameIds
<1>10. ClientTree'
  <2>1. Closure(g, queued') = {}
    BY <1>1, <1>7
  <2>2. \A c \in Copy \ copies' : g[c] = None
    BY <1>2, <1>4, <1>6
  <2>3. /\ copies' = InClientTree' \cup Closure(g, queued') /\ InClientTree' \cap Closure(g, queued') = {}
        /\ copies' \subseteq Copy /\ copies' \subseteq entered' /\ queued' \subseteq copies' /\ entered' \subseteq Copy
    BY <2>1, <1>1, <1>2, <1>4, <1>8
  <2>4. handled' \in 0 .. Batch /\ queued' = {}
    BY <1>1, BoundAssumption
  <2> QED  BY <2>2, <2>3, <2>4, <1>6 DEF ClientTree, g
<1>11. ClientIds'
  BY <1>4, <1>9 DEF ClientIds, Client!TypeOK, Client!Id, Id, Dictionaries
<1>12. ClientView' = ClientView
  <2>1. ClientView' = [under |-> [c \in Copy |-> IF c \in InClientTree' THEN g[c] ELSE None],
                       id    |-> [c \in Copy |-> IF c \in InClientTree' THEN cids'.object_to_id[c] ELSE -1]]
    BY DEF ClientView, g
  <2> HIDE DEF C
  <2>2. \A c \in InClientTree : g[c] = under[c] /\ cids'.object_to_id[c] = cids.object_to_id[c]
    BY <1>2, <1>4, <1>6, <1>9
  <2>3. \A c \in Copy : (IF c \in InClientTree' THEN g[c] ELSE None) = IF c \in InClientTree THEN under[c] ELSE None
    BY <2>2, <1>8
  <2>4. \A c \in Copy : (IF c \in InClientTree' THEN cids'.object_to_id[c] ELSE -1)
                          = IF c \in InClientTree THEN cids.object_to_id[c] ELSE -1
    BY <2>2, <1>8
  <2> QED  BY <2>1, <2>3, <2>4 DEF ClientView
<1>13. ServerInv' /\ ServerView' = ServerView
  BY <1>1, ServerSame DEF Inv
<1> QED  BY <1>1, <1>10, <1>11, <1>12, <1>13 DEF Inv, ClientInv

-----------------------------------------------------------------------------
(* What is sent is sent once. *)

\* No copy comes twice: each message brings copies that the client has not had
\* and that no other message brings.
SentOnce ==
  /\ \A c \in entered : c[2] <= count[c[1]]
  /\ \A k \in 1 .. Len(down) : \A c \in Brought(down[k]) :
       c \in Copy /\ c \notin entered /\ c[2] <= count[c[1]]
  /\ \A j, k \in 1 .. Len(down) : j # k => Brought(down[j]) \cap Brought(down[k]) = {}

\* A step of the server brings copies with numbers it has not used.
LEMMA OnceGrows ==
  ASSUME SentOnce, entered \subseteq Copy, entered' = entered,
         count \in [Node -> 0 .. MaxSent], count' \in [Node -> 0 .. MaxSent],
         \A n \in Node : count[n] <= count'[n],
         down \in Seq(Message), NEW e \in Seq(Message), down' = down \o e,
         \A k \in 1 .. Len(e) : \A c \in Brought(e[k]) :
           c \in Copy /\ count[c[1]] < c[2] /\ c[2] <= count'[c[1]],
         \A j, k \in 1 .. Len(e) : j # k => Brought(e[j]) \cap Brought(e[k]) = {}
  PROVE  SentOnce'
<1>1. /\ Len(down) \in Nat /\ Len(e) \in Nat /\ Len(down') = Len(down) + Len(e)
      /\ \A k \in 1 .. Len(down) : down'[k] = down[k]
      /\ \A k \in 1 .. Len(down') : k \notin 1 .. Len(down)
           => k - Len(down) \in 1 .. Len(e) /\ down'[k] = e[k - Len(down)]
  OBVIOUS
<1>2. \A c \in Copy : c[1] \in Node /\ c[2] \in Nat
  BY BoundAssumption DEF Copy
<1>3. \A n \in Node : count[n] \in Nat /\ count'[n] \in Nat
  BY BoundAssumption
<1>4. \A c \in Copy : c[2] <= count[c[1]] => c[2] <= count'[c[1]]
  BY <1>2, <1>3
<1>5. \A c \in entered' : c[2] <= count'[c[1]]
  BY <1>4 DEF SentOnce
<1>6. \A k \in 1 .. Len(down) : \A c \in Brought(down'[k]) :
        c \in Copy /\ c \notin entered /\ c[2] <= count[c[1]] /\ c[2] <= count'[c[1]]
  BY <1>1, <1>4 DEF SentOnce
<1>7. \A k \in 1 .. Len(down') : k \notin 1 .. Len(down) => \A c \in Brought(down'[k]) :
        c \in Copy /\ count[c[1]] < c[2] /\ c[2] <= count'[c[1]]
  BY <1>1
<1>8. \A c \in Copy : c[2] <= count[c[1]] => ~ (count[c[1]] < c[2])
  BY <1>2, <1>3
<1>9. \A k \in 1 .. Len(down') : \A c \in Brought(down'[k]) :
        c \in Copy /\ c \notin entered' /\ c[2] <= count'[c[1]]
  BY <1>6, <1>7, <1>8 DEF SentOnce
<1>10. ASSUME NEW j \in 1 .. Len(down'), NEW k \in 1 .. Len(down'), j # k
       PROVE  Brought(down'[j]) \cap Brought(down'[k]) = {}
  <2>1. CASE j \in 1 .. Len(down) /\ k \in 1 .. Len(down)
    BY <2>1, <1>1, <1>10 DEF SentOnce
  <2>2. CASE j \in 1 .. Len(down) /\ k \notin 1 .. Len(down)
    BY <2>2, <1>6, <1>7, <1>8
  <2>3. CASE j \notin 1 .. Len(down) /\ k \in 1 .. Len(down)
    BY <2>3, <1>6, <1>7, <1>8
  <2>4. CASE j \notin 1 .. Len(down) /\ k \notin 1 .. Len(down)
    <3>1. /\ j - Len(down) \in 1 .. Len(e) /\ k - Len(down) \in 1 .. Len(e)
          /\ j - Len(down) # k - Len(down)
      BY <2>4, <1>1, <1>10
    <3> QED  BY <3>1, <2>4, <1>1
  <2> QED  BY <2>1, <2>2, <2>3, <2>4
<1> QED  BY <1>5, <1>9, <1>10 DEF SentOnce

\* A step that sends nothing and handles nothing.
LEMMA OnceSame ==
  ASSUME SentOnce, entered' = entered, count' = count, down' = down
  PROVE  SentOnce'
BY DEF SentOnce

\* A message that is handled brings the client at most its copies.
LEMMA OnceHandled ==
  ASSUME SentOnce, down \in Seq(Message), down # << >>, down' = Tail(down), count' = count,
         entered' \subseteq entered \cup Brought(Head(down))
  PROVE  SentOnce'
<1>1. /\ Len(down) \in Nat /\ 1 \in 1 .. Len(down) /\ Head(down) = down[1]
      /\ \A k \in 1 .. Len(down') : /\ k + 1 \in 1 .. Len(down) /\ k + 1 # 1
                                     /\ down'[k] = down[k + 1]
  OBVIOUS
<1>2. \A c \in entered' : c[2] <= count'[c[1]]
  BY <1>1 DEF SentOnce
<1>3. ASSUME NEW k \in 1 .. Len(down'), NEW c \in Brought(down'[k])
      PROVE  c \in Copy /\ c \notin entered' /\ c[2] <= count'[c[1]]
  <2> DEFINE j == k + 1
  <2>1. j \in 1 .. Len(down) /\ j # 1 /\ c \in Brought(down[j])
    BY <1>1, <1>3
  <2> HIDE DEF j
  <2>2. c \in Copy /\ c \notin entered /\ c[2] <= count[c[1]] /\ c \notin Brought(down[1])
    BY <2>1, <1>1 DEF SentOnce
  <2> QED  BY <2>2, <1>1
<1>4. ASSUME NEW j \in 1 .. Len(down'), NEW k \in 1 .. Len(down'), j # k
      PROVE  Brought(down'[j]) \cap Brought(down'[k]) = {}
  <2>1. j + 1 \in 1 .. Len(down) /\ k + 1 \in 1 .. Len(down) /\ j + 1 # k + 1
    BY <1>1, <1>4
  <2>2. Brought(down[j + 1]) \cap Brought(down[k + 1]) = {}
    BY <2>1 DEF SentOnce
  <2> QED  BY <2>2, <1>1
<1> QED  BY <1>2, <1>3, <1>4 DEF SentOnce

\* A message to handle brings what the client has not had.
LEMMA NextUnsent ==
  ASSUME SentOnce, down \in Seq(Message), down # << >>
  PROVE  Unsent(Head(down))
<1>1. 1 \in 1 .. Len(down) /\ Head(down) = down[1]
  OBVIOUS
<1> QED  BY <1>1 DEF SentOnce, Unsent

\* The copies of nodes that are shown have the next number of their node.
LEMMA ShowOnce ==
  ASSUME Inv, SentOnce, NEW S \in SUBSET Node, Show(S), Inv'
  PROVE  SentOnce'
<1> DEFINE m0 == Added(S)
<1>1. /\ \A n \in S : count[n] < MaxSent
      /\ down' = Append(down, m0) /\ entered' = entered
      /\ count' = [n \in Node |-> IF n \in S THEN count[n] + 1 ELSE count[n]]
  BY DEF Show, client
<1>2. /\ count \in [Node -> 0 .. MaxSent] /\ count' \in [Node -> 0 .. MaxSent]
      /\ entered \subseteq Copy /\ down \in Seq(Message) /\ down' \in Seq(Message)
  BY DEF Inv, ServerInv, ServerTree, ClientInv, ClientTree
<1>3. /\ \A n \in Node : count[n] \in Nat /\ count[n] <= count'[n]
      /\ \A n \in S : count'[n] = count[n] + 1
  <2>1. \A n \in Node : count[n] \in Nat
    BY <1>2, BoundAssumption
  <2> QED  BY <2>1, <1>1
<1>4. ASSUME NEW c \in Brought(m0)
      PROVE  c \in Copy /\ count[c[1]] < c[2] /\ c[2] <= count'[c[1]]
  <2>1. PICK n \in S : c = <<n, count[n] + 1>>
    BY DEF Brought, Added
  <2>2. count[n] \in Nat /\ count[n] < MaxSent /\ MaxSent \in Nat
    BY <1>1, <1>3, BoundAssumption
  <2>3. count[n] + 1 \in 1 .. MaxSent
    BY <2>2
  <2> QED  BY <2>1, <2>2, <2>3, <1>3 DEF Copy
<1> HIDE DEF m0
<1>5. m0 \in Message
  <2>1. Len(down') \in DOMAIN down' /\ down'[Len(down')] = m0
    BY <1>1, <1>2
  <2> QED  BY <2>1, <1>2
<1> DEFINE e == <<m0>>
<1>6. /\ e \in Seq(Message) /\ down' = down \o e
      /\ \A k \in 1 .. Len(e) : e[k] = m0
      /\ \A j, k \in 1 .. Len(e) : j = k
  BY <1>1, <1>2, <1>5
<1> HIDE DEF e
<1> QED  BY <1>1, <1>2, <1>3, <1>4, <1>6, OnceGrows

\* Removals and calls bring nothing.
LEMMA SendOnce ==
  ASSUME Inv, SentOnce, Inv', entered' = entered, count' = count,
         NEW e \in Seq(Message), down' = down \o e, \A k \in 1 .. Len(e) : e[k].type # "add"
  PROVE  SentOnce'
<1>1. /\ count \in [Node -> 0 .. MaxSent] /\ count' \in [Node -> 0 .. MaxSent]
      /\ entered \subseteq Copy /\ down \in Seq(Message)
  BY DEF Inv, ServerInv, ServerTree, ClientInv, ClientTree
<1>2. \A n \in Node : count[n] <= count'[n]
  <2>1. \A n \in Node : count[n] \in Nat
    BY <1>1, BoundAssumption
  <2> QED  BY <2>1
<1>3. \A k \in 1 .. Len(e) : Brought(e[k]) = {}
  BY DEF Brought
<1> QED  BY <1>1, <1>2, <1>3, OnceGrows

\* So does a single message.
LEMMA AppendOnce ==
  ASSUME Inv, SentOnce, Inv', entered' = entered, count' = count,
         NEW m, down' = Append(down, m), m.type # "add"
  PROVE  SentOnce'
<1> DEFINE e == <<m>>
<1>1. down \in Seq(Message) /\ down' \in Seq(Message)
  BY DEF Inv
<1>2. m \in Message
  <2>1. Len(down') \in DOMAIN down' /\ down'[Len(down')] = m
    BY <1>1
  <2> QED  BY <2>1, <1>1
<1>3. e \in Seq(Message) /\ down' = down \o e /\ \A k \in 1 .. Len(e) : e[k] = m
  BY <1>1, <1>2
<1> HIDE DEF e
<1> QED  BY <1>3, SendOnce

-----------------------------------------------------------------------------
(* The theorems. *)

\* At the start both processes have the root and nothing else.
LEMMA Starts == Init => Inv
<1> SUFFICES ASSUME Init PROVE Inv
  OBVIOUS
<1>1. /\ parent = [n \in Node |-> None] /\ dead = {} /\ sent = {} /\ count = [n \in Node |-> 0]
      /\ down = << >> /\ up = << >> /\ copies = {} /\ under = [c \in Copy |-> None]
      /\ entered = {} /\ queued = {} /\ handled = 0
      /\ ids = Server!Registered(Server!EmptyRepository, Root, 0)
      /\ cids = Client!Registered(Client!EmptyRepository, Root, 0)
  BY DEF Init
<1>2. /\ None \notin Node \cup Copy /\ Root \notin Node \cup Copy /\ None # Root
      /\ MaxId \in Nat /\ MaxId # 0 /\ MaxSent \in Nat
  BY NamesDiffer, BoundAssumption
<1>3. 0 \in Id /\ -1 \notin Id
  BY <1>2 DEF Id
<1>4. InTree = {}
  BY <1>1 DEF InTree
<1>5. ServerTree
  BY <1>1, <1>2, <1>4, FS_EmptySet DEF ServerTree
<1>6. /\ ids.object_to_id = [o \in Node \cup {Root} |-> IF o = Root THEN 0 ELSE -1]
      /\ ids.id_to_object = [i \in Id |-> IF i = 0 THEN Root ELSE None]
      /\ ids.current_id = 0 /\ ids.object_awaits = {}
      /\ ids = [object_to_id |-> ids.object_to_id, id_to_object |-> ids.id_to_object,
                current_id |-> ids.current_id, object_awaits |-> ids.object_awaits]
  BY <1>1, <1>2, <1>3 DEF Server!Registered, Server!EmptyRepository, Server!Id, Id
<1>7. ServerIds
  <2>1. Server!TypeOK
    BY <1>3, <1>6 DEF Server!TypeOK, Server!Id, Id
  <2>2. Agree(ids, {Root})
    BY <1>2, <1>3, <1>6 DEF Agree
  <2> QED  BY <2>1, <2>2, <1>4 DEF ServerIds
<1>8. InClientTree = {} /\ Closure(under, {}) = {}
  <2>1. DOMAIN under = Copy /\ None \notin Copy \cup {Root}
    BY <1>1, <1>2
  <2>2. \A n \in DOMAIN under : under[n] \in {Root} => n \in {Root}
    BY <1>1, <1>2
  <2>3. Closure(under, {Root}) \subseteq {Root}
    BY <2>1, <2>2, ClosureLeast
  <2>4. Closure(under, {}) \subseteq {}
    BY <2>1, ClosureLeast
  <2> QED  BY <2>3, <2>4 DEF InClientTree
<1>9. ClientTree
  <2>1. 0 \in 0 .. Batch
    BY BoundAssumption
  <2> QED  BY <2>1, <1>1, <1>2, <1>8 DEF ClientTree
<1>10. /\ cids.object_to_id = [o \in Copy \cup {Root} |-> IF o = Root THEN 0 ELSE -1]
       /\ cids.id_to_object = [i \in Id |-> IF i = 0 THEN Root ELSE None]
       /\ cids.current_id = 0 /\ cids.object_awaits = {}
       /\ cids = [object_to_id |-> cids.object_to_id, id_to_object |-> cids.id_to_object,
                  current_id |-> cids.current_id, object_awaits |-> cids.object_awaits]
  BY <1>1, <1>2, <1>3 DEF Client!Registered, Client!EmptyRepository, Client!Id, Id
<1>11. ClientIds
  <2>1. cids \in Dictionaries
    BY <1>3, <1>10 DEF Dictionaries
  <2>2. Client!TypeOK
    BY <2>1, <1>1 DEF Dictionaries, Client!TypeOK, Client!Id, Id
  <2>3. Agree(cids, {Root})
    BY <1>2, <1>3, <1>10 DEF Agree
  <2> QED  BY <2>2, <2>3, <1>1 DEF ClientIds
<1>12. ClientView = ServerView
  <2>1. Shown = {}
    BY <1>1 DEF Shown
  <2> QED  BY <2>1, <1>8 DEF ClientView, ServerView
<1>13. Leads(ClientView, down, ServerView)
  BY <1>1, <1>5, <1>7, <1>12, ServerSound, LeadsNone
<1> QED  BY <1>1, <1>5, <1>7, <1>9, <1>11, <1>13 DEF Inv, ServerInv, ClientInv

\* Every step keeps the invariant, as long as no node that comes has the identifier
\* of a copy that waits to be freed.
LEMMA Steps ==
  ASSUME Inv, SentOnce, [Next]_vars, [RecvAdd => NoStomping]_vars
  PROVE  Inv' /\ SentOnce'
<1>0. down \in Seq(Message)
  BY DEF Inv
<1>1. ASSUME NEW n \in Node, NEW p \in InTree \cup {Root}, Spawn(n, p)
      PROVE  Inv' /\ SentOnce'
  <2>1. entered' = entered /\ count' = count /\ down' = down
    BY <1>1 DEF Spawn, client
  <2> QED  BY <1>1, <2>1, SpawnStep, OnceSame
<1>2. ASSUME NEW S \in SUBSET Node, Show(S)
      PROVE  Inv' /\ SentOnce'
  BY <1>2, ShowStep, ShowOnce
<1>3. ASSUME NEW n \in Node, Hide(n)
      PROVE  Inv' /\ SentOnce'
  <2> DEFINE m0 == Removal(Below(n) \cap sent)
  <2>1. /\ entered' = entered /\ count' = count /\ down' = Append(down, m0)
        /\ m0.type # "add"
    BY <1>3 DEF Hide, client, Removal
  <2>2. Inv'
    BY <1>3, HideStep
  <2> HIDE DEF m0
  <2> QED  BY <2>1, <2>2, AppendOnce
<1>4. ASSUME NEW n \in Node, Free(n)
      PROVE  Inv' /\ SentOnce'
  <2>1. entered' = entered /\ count' = count
    BY <1>4 DEF Free, client
  <2>2. Inv' /\ \E e \in Seq(Message) : down' = down \o e /\ \A k \in 1 .. Len(e) : e[k].type # "add"
    BY <1>4, FreeStep
  <2> QED  BY <2>1, <2>2, SendOnce
<1>5. ASSUME NEW n \in Node, CallClient(n)
      PROVE  Inv' /\ SentOnce'
  <2> DEFINE m0 == Call(n)
  <2>1. /\ entered' = entered /\ count' = count /\ down' = Append(down, m0)
        /\ m0.type # "add"
    BY <1>5 DEF CallClient, server, client, Call
  <2>2. Inv'
    BY <1>5, CallClientStep
  <2> HIDE DEF m0
  <2> QED  BY <2>1, <2>2, AppendOnce
<1>6. ASSUME RecvCall
      PROVE  Inv' /\ SentOnce'
  <2>1. entered' = entered /\ count' = count /\ down' = down
    BY <1>6 DEF RecvCall, client
  <2> QED  BY <1>6, <2>1, RecvCallStep, OnceSame
<1>7. ASSUME RecvRemove
      PROVE  Inv' /\ SentOnce'
  <2>1. entered' = entered /\ count' = count /\ down # << >> /\ down' = Tail(down)
    BY <1>7 DEF RecvRemove, Handle, server
  <2> QED  BY <1>0, <1>7, <2>1, RecvRemoveStep, OnceHandled
<1>8. ASSUME RecvAdd, NoStomping
      PROVE  Inv' /\ SentOnce'
  <2>1. count' = count /\ down # << >> /\ down' = Tail(down) /\ Head(down).type = "add"
    BY <1>8 DEF RecvAdd, Handle, server
  <2>2. Unsent(Head(down))
    BY <1>0, <2>1, NextUnsent
  <2>3. Inv' /\ entered' = entered \cup CopiesOf(Head(down).nodes)
    BY <1>8, <2>2, RecvAddStep
  <2>4. CopiesOf(Head(down).nodes) = Brought(Head(down))
    BY <2>1 DEF CopiesOf, Brought
  <2> QED  BY <1>0, <2>1, <2>3, <2>4, OnceHandled
<1>9. ASSUME RecvCallClient
      PROVE  Inv' /\ SentOnce'
  <2>1. entered' = entered /\ count' = count /\ down # << >> /\ down' = Tail(down)
    BY <1>9 DEF RecvCallClient, Handle, server
  <2> QED  BY <1>0, <1>9, <2>1, RecvCallClientStep, OnceHandled
<1>10. ASSUME FrameEnd
       PROVE  Inv' /\ SentOnce'
  <2>1. entered' = entered /\ count' = count /\ down' = down
    BY <1>10 DEF FrameEnd, server
  <2> QED  BY <1>10, <2>1, FrameEndStep, OnceSame
<1>11. ASSUME NEW c \in Copy, CallServer(c)
       PROVE  Inv' /\ SentOnce'
  <2>1. entered' = entered /\ count' = count /\ down' = down
    BY <1>11 DEF CallServer, server, client
  <2> QED  BY <1>11, <2>1, CallServerStep, OnceSame
<1>12. CASE UNCHANGED vars
  <2>1. /\ UNCHANGED server /\ UNCHANGED <<client, handled>> /\ down' = down /\ up' = up
        /\ entered' = entered /\ count' = count
    BY <1>12 DEF vars, server, client
  <2>2. Inv'
    BY <2>1, ClientSame, ServerSame DEF Inv
  <2> QED  BY <2>1, <2>2, OnceSame
<1>13. RecvAdd => NoStomping \/ UNCHANGED vars
  OBVIOUS
<1> QED  BY <1>1, <1>2, <1>3, <1>4, <1>5, <1>6, <1>7, <1>8, <1>9, <1>10, <1>11, <1>12, <1>13 DEF Next

\* At the start nothing has been sent.
LEMMA NothingSent == Init => SentOnce
<1> SUFFICES ASSUME Init PROVE SentOnce
  OBVIOUS
<1>1. entered = {} /\ down = << >>
  BY DEF Init
<1> QED  BY <1>1 DEF SentOnce

\* What the client has and what is on its way to it always add up to what the
\* server shows it, and nothing is sent twice.
THEOREM StoryHolds ==
  Spec /\ [][RecvAdd => NoStomping]_vars => [](Inv /\ SentOnce)
<1>1. Init => Inv /\ SentOnce
  BY Starts, NothingSent
<1>2. Inv /\ SentOnce /\ [Next]_vars /\ [RecvAdd => NoStomping]_vars => Inv' /\ SentOnce'
  BY Steps
<1> QED  BY <1>1, <1>2, PTL DEF Spec

\* The variables have their shapes.
THEOREM TypeCorrect ==
  Spec /\ [][RecvAdd => NoStomping]_vars => []TypeOK
<1>1. Inv => TypeOK
  BY DEF Inv, ServerInv, ClientInv, ServerTree, ServerIds, ClientTree, ClientIds, TypeOK
<1> QED  BY <1>1, StoryHolds, PTL

\* The client never has two copies of a node in its tree.
THEOREM OneCopyHolds ==
  Spec /\ [][RecvAdd => NoStomping]_vars => []OneCopy
<1>1. Inv => OneCopy
  <2> SUFFICES ASSUME Inv, NEW c \in InClientTree, NEW d \in InClientTree, c[1] = d[1]
               PROVE  c = d
    BY DEF OneCopy
  <2>1. Sound(ClientView)
    BY LeadsSound DEF Inv
  <2>2. c \in Held(ClientView) /\ d \in Held(ClientView)
    BY ClientHas DEF Inv
  <2> QED  BY <2>1, <2>2 DEF Sound
<1> QED  BY <1>1, StoryHolds, PTL

\* A call that reaches the client finds the copy of its node by its identifier.
THEOREM CallsArriveHolds ==
  Spec /\ [][RecvAdd => NoStomping]_vars => []CallsArrive
<1>1. Inv => CallsArrive
  <2> DEFINE m == Head(down)
             v == ClientView
  <2> SUFFICES ASSUME Inv, down # << >>, m.type = "call"
               PROVE  LET c == Client!Found(cids, m.id, copies)
                      IN  c \in InClientTree /\ c[1] = m.to
    BY DEF CallsArrive
  <2>1. \E u : Takes(v, m, u) /\ Sound(u) /\ Leads(u, Tail(down), ServerView)
    BY LeadsFirst DEF Inv
  <2>2. ClientInv /\ down \in Seq(Message)
    BY DEF Inv
  <2>3. m \in Message
    BY <2>2
  <2> HIDE DEF m, v
  <2>4. m.id \in Id
    BY <2>3 DEF Message
  <2>5. PICK c \in Held(v) : v.id[c] = m.id /\ c[1] = m.to
    BY <2>1 DEF Takes
  <2>6. c \in InClientTree /\ c \in copies /\ c \in Copy
    BY <2>2, <2>5, ClientHas DEF v
  <2>7. cids.object_to_id[c] = m.id
    BY <2>5, <2>6 DEF v, ClientView
  <2>8. Client!Found(cids, m.id, copies) = c
    BY <2>2, <2>4, <2>6, <2>7, ClientHas
  <2> QED  BY <2>5, <2>6, <2>8
<1> QED  BY <1>1, StoryHolds, PTL

\* Once everything sent has been handled, the client's tree is the part of the
\* server's that it is shown, under the same identifiers.
THEOREM SameTreeHolds ==
  Spec /\ [][RecvAdd => NoStomping]_vars => []SameTree
<1>1. Inv => SameTree
  <2> SUFFICES ASSUME Inv, down = << >>, queued = {}
               PROVE  /\ InClientTree = {Current(n) : n \in sent}
                      /\ \A n \in sent :
                           /\ under[Current(n)] = IF parent[n] = Root THEN Root ELSE Current(parent[n])
                           /\ Client!Found(cids, ids.object_to_id[n], copies) = Current(n)
                           /\ cids.object_to_id[Current(n)] = ids.object_to_id[n]
    BY DEF SameTree
  <2>1. ClientInv /\ ServerTree /\ ServerIds /\ Leads(ClientView, << >>, ServerView)
    BY DEF Inv, ServerInv
  <2>2. ClientView = ServerView
    BY <2>1, LeadsNone
  <2>3. InClientTree = Shown
    BY <2>1, <2>2, ClientHas, ServerViewIs DEF ServerShows
  <2>4. ASSUME NEW n \in sent
        PROVE  /\ under[Current(n)] = IF parent[n] = Root THEN Root ELSE Current(parent[n])
               /\ Client!Found(cids, ids.object_to_id[n], copies) = Current(n)
               /\ cids.object_to_id[Current(n)] = ids.object_to_id[n]
    <3> DEFINE c == Current(n)
    <3>1. /\ c \in Shown /\ ServerView.id[c] = ids.object_to_id[n]
          /\ ServerView.under[c] = IF parent[n] = Root THEN Root ELSE Current(parent[n])
      BY <2>1, ServerViewIs DEF ServerShows
    <3>2. c \in InClientTree /\ c \in copies /\ c \in Copy
      BY <2>1, <2>3, <3>1, ClientHas
    <3> HIDE DEF c
    <3>3. ClientView.under[c] = under[c] /\ ClientView.id[c] = cids.object_to_id[c]
      BY <3>2 DEF ClientView
    <3>4. cids.object_to_id[c] = ids.object_to_id[n] /\ cids.object_to_id[c] \in Id
      BY <2>1, <2>2, <3>1, <3>2, <3>3, ClientHas
    <3>5. Client!Found(cids, ids.object_to_id[n], copies) = c
      BY <2>1, <3>2, <3>4, ClientHas
    <3>6. under[c] = IF parent[n] = Root THEN Root ELSE Current(parent[n])
      BY <2>2, <3>1, <3>3
    <3> QED  BY <3>4, <3>5, <3>6 DEF c
  <2> QED  BY <2>3, <2>4 DEF Shown
<1> QED  BY <1>1, StoryHolds, PTL
=============================================================================
