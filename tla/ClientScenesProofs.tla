--------------------------- MODULE ClientScenesProofs ---------------------------
(* Proofs about client-created scenes: the copies of the clients agree with the *)
(* server's nodes, only what was refused or not accepted is waited for, calls of *)
(* the server find their node, and those of its maker run in the order in which  *)
(* they were made.                                                               *)
EXTENDS ClientScenes, NaturalsInduction, WellFoundedInduction, TLAPS

(* Those, a recursive function. *)
LEMMA Least ==
  ASSUME NEW S \in SUBSET Nat, S # {}
  PROVE  \E m \in S : \A k \in S : m <= k
<1> DEFINE R == {ss \in Nat \X Nat : ss[1] < ss[2]}
<1>1. IsWellFoundedOn(R, Nat)
  BY NatLessThanWellFounded DEF OpToRel
<1>2. PICK x \in S : \A y \in S : <<y, x>> \notin R
  <2> HIDE DEF R
  <2> QED BY <1>1, WFMin
<1>3. ASSUME NEW y \in S PROVE x <= y
  <2>1. x \in Nat /\ y \in Nat /\ <<y, x>> \in Nat \X Nat /\ ~(y < x)
    BY <1>2
  <2> QED BY <2>1
<1> QED BY <1>3

LEMMA UpTo ==
  ASSUME NEW n \in Nat, NEW S, 0 \in S, \A i \in 0 .. n : i < n /\ i \in S => i + 1 \in S
  PROVE  \A i \in 0 .. n : i \in S
<1> DEFINE Bad == {i \in 0 .. n : i \notin S}
<1>1. Bad \in SUBSET Nat
  OBVIOUS
<1>2. ASSUME Bad # {} PROVE FALSE
  <2>1. PICK m \in Bad : \A k \in Bad : m <= k
    <3> HIDE DEF Bad
    <3> QED BY <1>1, <1>2, Least
  <2>2. m \in 0 .. n /\ m \notin S /\ m # 0 /\ m - 1 \in 0 .. n /\ m - 1 < n
    BY <2>1
  <2>3. m - 1 \in S
    BY <2>1, <2>2
  <2>4. (m - 1) + 1 \in S /\ (m - 1) + 1 = m
    BY <2>2, <2>3
  <2> QED BY <2>2, <2>4
<1> QED BY <1>2

\* f holds the elements at P among the first 0 .. n of q.
Grown(f, q, P, i) == IF i \in P THEN Append(f[i - 1], q[i]) ELSE f[i - 1]
Grows(f, q, P, n) ==
  /\ f = [i \in 0 .. n |-> f[i]]
  /\ f[0] = <<>>
  /\ \A i \in 1 .. n : f[i] = Grown(f, q, P, i)

LEMMA GrowsOne ==
  ASSUME NEW q, NEW P, NEW n \in Nat, NEW f, Grows(f, q, P, n)
  PROVE  \E g : Grows(g, q, P, n + 1)
<1> DEFINE g == [i \in 0 .. n + 1 |-> IF i = n + 1 THEN Grown(f, q, P, n + 1) ELSE f[i]]
<1>1. g = [i \in 0 .. n + 1 |-> g[i]] /\ g[n + 1] = Grown(f, q, P, n + 1) /\ \A i \in 0 .. n : g[i] = f[i]
  OBVIOUS
<1> HIDE DEF g
<1>2. ASSUME NEW i \in 1 .. n + 1 PROVE g[i] = Grown(g, q, P, i)
  <2>0. i - 1 \in 0 .. n
    OBVIOUS
  <2>1. g[i - 1] = f[i - 1]
    BY <1>1, <2>0
  <2>2. CASE i = n + 1
    BY <1>1, <2>1, <2>2 DEF Grown
  <2>3. CASE i # n + 1
    <3>1. i \in 1 .. n /\ i \in 0 .. n
      BY <2>3
    <3>2. g[i] = f[i] /\ f[i] = Grown(f, q, P, i)
      BY <1>1, <3>1 DEF Grows
    <3> QED BY <2>1, <3>2 DEF Grown
  <2> QED BY <2>2, <2>3
<1>3. 0 \in 0 .. n
  OBVIOUS
<1>4. Grows(g, q, P, n + 1)
  BY <1>1, <1>2, <1>3 DEF Grows
<1> QED BY <1>4

LEMMA GrowsExists ==
  ASSUME NEW q, NEW P, NEW n \in Nat
  PROVE  \E f : Grows(f, q, P, n)
<1> DEFINE S == {m \in Nat : \E f : Grows(f, q, P, m)}
<1>1. 0 \in S
  <2> DEFINE g == [i \in 0 .. 0 |-> <<>>]
  <2>1. Grows(g, q, P, 0)
    BY DEF Grows
  <2> QED BY <2>1
<1>2. \A i \in 0 .. n : i < n /\ i \in S => i + 1 \in S
  BY GrowsOne
<1>3. n \in 0 .. n
  OBVIOUS
<1>4. n \in S
  <2> HIDE DEF S
  <2> QED BY <1>1, <1>2, <1>3, UpTo
<1> QED BY <1>4

LEMMA ThoseGrow ==
  ASSUME NEW q, NEW P, Len(q) \in Nat
  PROVE  \E f : Grows(f, q, P, Len(q)) /\ Those(q, P) = f[Len(q)]
<1> DEFINE Body(f) == [i \in 0 .. Len(q) |->
              IF i = 0 THEN <<>> ELSE IF i \in P THEN Append(f[i - 1], q[i]) ELSE f[i - 1]]
           f == CHOOSE f : f = Body(f)
<1>1. \E g : g = Body(g)
  <2>1. PICK g : Grows(g, q, P, Len(q))
    BY GrowsExists
  <2>2. \A i \in 0 .. Len(q) : g[i] = Body(g)[i]
    <3>1. \A i \in 0 .. Len(q) : i # 0 => i \in 1 .. Len(q)
       OBVIOUS
    <3> QED BY <2>1, <3>1 DEF Grows, Grown
  <2>3. g = Body(g)
    BY <2>1, <2>2 DEF Grows
  <2> QED BY <2>3
<1>2. f = Body(f)
  <2> HIDE DEF Body
  <2> QED BY <1>1
<1>3. Those(q, P) = f[Len(q)]
  BY DEF Those
<1>4. Grows(f, q, P, Len(q))
  <2> HIDE DEF f
  <2>1. \A i \in 0 .. Len(q) : f[i] = Body(f)[i]
    BY <1>2
  <2>2. f = [i \in 0 .. Len(q) |-> f[i]]
    BY <1>2
  <2>3. f[0] = <<>>
    BY <2>1
  <2>4. ASSUME NEW i \in 1 .. Len(q) PROVE f[i] = Grown(f, q, P, i)
    <3>1. i \in 0 .. Len(q) /\ i # 0
      OBVIOUS
    <3> QED BY <2>1, <3>1 DEF Grown
  <2> QED BY <2>2, <2>3, <2>4 DEF Grows
<1> QED BY <1>3, <1>4

\* r is what is left of the first n of q when only the places P are kept, and e
\* tells where each element comes from.
Kept(r, e, q, P, n) ==
  /\ e \in [1 .. Len(r) -> P \cap (1 .. n)]
  /\ \A i \in 1 .. Len(r) : r[i] = q[e[i]]
  /\ \A i, j \in 1 .. Len(r) : i < j => e[i] < e[j]
  /\ \A p \in P \cap (1 .. n) : \E i \in 1 .. Len(r) : e[i] = p

LEMMA KeptOne ==
  ASSUME NEW T, NEW q \in Seq(T), NEW P, NEW n \in Nat, n < Len(q), NEW r \in Seq(T), NEW e, Kept(r, e, q, P, n)
  PROVE  LET s == IF n + 1 \in P THEN Append(r, q[n + 1]) ELSE r
         IN s \in Seq(T) /\ \E d : Kept(s, d, q, P, n + 1)
<1>1. CASE n + 1 \notin P
  <2>1. P \cap (1 .. n + 1) = P \cap (1 .. n)
    BY <1>1
  <2>2. Kept(r, e, q, P, n + 1)
    BY <2>1 DEF Kept
  <2> QED BY <1>1, <2>2
<1>2. CASE n + 1 \in P
  <2> DEFINE s == Append(r, q[n + 1])
             k == Len(r)
             d == [i \in 1 .. k + 1 |-> IF i = k + 1 THEN n + 1 ELSE e[i]]
  <2>1. q[n + 1] \in T
    OBVIOUS
  <2>2. s \in Seq(T) /\ Len(s) = k + 1 /\ k \in Nat /\ s[k + 1] = q[n + 1] /\ \A i \in 1 .. k : s[i] = r[i]
    BY <2>1
  <2>3. \A i \in 1 .. k : e[i] \in P /\ e[i] \in 1 .. n /\ e[i] < n + 1
    BY DEF Kept
  <2> HIDE DEF s
  <2>4. d \in [1 .. k + 1 -> P \cap (1 .. n + 1)]
    BY <1>2, <2>2, <2>3
  <2>5. /\ \A i \in 1 .. k : d[i] = e[i]
        /\ d[k + 1] = n + 1
        /\ \A i \in 1 .. k + 1 : i \in 1 .. k \/ i = k + 1
    BY <2>2
  <2> HIDE DEF d
  <2>6. \A i \in 1 .. k + 1 : s[i] = q[d[i]]
    BY <2>2, <2>5 DEF Kept
  <2>7. \A i, j \in 1 .. k + 1 : i < j => d[i] < d[j]
    <3> SUFFICES ASSUME NEW i \in 1 .. k + 1, NEW j \in 1 .. k + 1, i < j PROVE d[i] < d[j]
      OBVIOUS
    <3>1. i \in 1 .. k
      BY <2>2
    <3>2. CASE j = k + 1
      BY <2>3, <2>5, <3>1, <3>2
    <3>3. CASE j \in 1 .. k
      BY <2>5, <3>1, <3>3 DEF Kept
    <3> QED BY <2>5, <3>2, <3>3
  <2>8. \A p \in P \cap (1 .. n + 1) : \E i \in 1 .. k + 1 : d[i] = p
    <3> TAKE p \in P \cap (1 .. n + 1)
    <3>1. CASE p = n + 1
      BY <2>2, <2>5, <3>1
    <3>2. CASE p # n + 1
      <4>1. p \in P \cap (1 .. n)
        BY <3>2
      <4>2. PICK i \in 1 .. k : e[i] = p
        BY <4>1 DEF Kept
      <4> QED BY <2>2, <2>5, <4>2
    <3> QED BY <3>1, <3>2
  <2>9. Kept(s, d, q, P, n + 1)
    BY <2>2, <2>4, <2>6, <2>7, <2>8 DEF Kept
  <2> QED BY <1>2, <2>2, <2>9 DEF s
<1> QED BY <1>1, <1>2

LEMMA ThoseKept ==
  ASSUME NEW T, NEW q \in Seq(T), NEW P
  PROVE  Those(q, P) \in Seq(T) /\ \E e : Kept(Those(q, P), e, q, P, Len(q))
<1> DEFINE n == Len(q)
<1>0. n \in Nat
  OBVIOUS
<1>1. PICK f : Grows(f, q, P, n) /\ Those(q, P) = f[n]
  BY <1>0, ThoseGrow
<1> DEFINE S == {i \in Nat : f[i] \in Seq(T) /\ \E e : Kept(f[i], e, q, P, i)}
<1>2. 0 \in S
  <2>1. f[0] = <<>>
    BY <1>1 DEF Grows
  <2>2. \E e : Kept(<<>>, e, q, P, 0)
    <3>1. Kept(<<>>, [i \in 1 .. 0 |-> 0], q, P, 0)
      BY DEF Kept
    <3> QED BY <3>1
  <2>3. f[0] \in Seq(T)
    BY <2>1
  <2>4. \E e : Kept(f[0], e, q, P, 0)
    BY <2>1, <2>2
  <2> QED BY <2>3, <2>4
<1>3. ASSUME NEW i \in 0 .. n, i < n, i \in S PROVE i + 1 \in S
  <2>1. i + 1 \in 1 .. n /\ (i + 1) - 1 = i
    BY <1>3
  <2>2. f[i + 1] = IF i + 1 \in P THEN Append(f[i], q[i + 1]) ELSE f[i]
    BY <1>1, <2>1 DEF Grows, Grown
  <2>3. PICK e : Kept(f[i], e, q, P, i)
    BY <1>3
  <2>4. f[i + 1] \in Seq(T) /\ \E d : Kept(f[i + 1], d, q, P, i + 1)
    BY <1>3, <2>2, <2>3, KeptOne
  <2> QED BY <2>4
<1>4. n \in S
  <2>1. n \in 0 .. n
    BY <1>0
  <2> HIDE DEF S, n
  <2> QED BY <1>0, <1>2, <1>3, <2>1, UpTo
<1> QED BY <1>1, <1>4

UpMsg == [type : {"request"}, token : Nat, scene : Scenes]
           \cup [type : {"call"}, scene : Scenes \cup {None}, from : Scenes, n : Nat]
DownMsg == [type : {"add"}, place : BOOLEAN, scenes : SUBSET Scenes]
             \cup [type : {"remove"}, scene : Scenes \cup {Place}]
             \cup [type : {"ids"}, token : Nat, scene : Scenes]
             \cup [type : {"call"}, scene : Scenes, from : {None}, n : {0}]
Coroutine == [scene : Scenes, n : Nat]

TypesOK ==
  /\ status \in [Clients -> {"out", "in", "left"}]
  /\ hidden \subseteq Clients /\ nodes \subseteq Scenes /\ unanswered \subseteq Scenes
  /\ maker \in [Scenes -> Clients \cup {None}]
  /\ under \in [Scenes -> Scenes \cup {Place, None}]
  /\ phase \in [Scenes -> {"new", "parent", "asked", "named", "gone"}]
  /\ ident \in [Scenes -> Scenes \cup {None}]
  /\ tokens \in [Clients -> Seq(Scenes)]
  /\ waiting \in [Clients -> Seq(Coroutine)]
  /\ polling \subseteq Clients /\ place \subseteq Clients
  /\ copies \in [Clients -> SUBSET Scenes]
  /\ up \in [Clients -> Seq(UpMsg)] /\ down \in [Clients -> Seq(DownMsg)]
  /\ made \in [Scenes -> Nat]
  /\ heard \in [Scenes -> Seq([from : Scenes \cup {None}, n : Nat])]

(* Paths. *)
Closed(S) == \A y \in S : under[y] \in Scenes => under[y] \in S

LEMMA PathIn ==
  ASSUME NEW s, NEW x \in Path(s), NEW S \in SUBSET Scenes, s \in S, Closed(S)
  PROVE  x \in S
BY DEF Path, Closed

LEMMA PathHas ==
  ASSUME NEW s \in Scenes
  PROVE  s \in Path(s)
BY DEF Path

LEMMA PathScenes == \A s : Path(s) \subseteq Scenes
BY DEF Path

LEMMA PathClosed ==
  ASSUME NEW s
  PROVE  Closed(Path(s))
BY DEF Path, Closed

LEMMA PathTrans ==
  ASSUME NEW s, NEW x \in Path(s)
  PROVE  Path(x) \subseteq Path(s)
<1>1. ASSUME NEW y \in Path(x) PROVE y \in Path(s)
  BY PathClosed, PathScenes, PathIn
<1> QED BY <1>1

LEMMA PathTop ==
  ASSUME NEW s \in Scenes, under[s] \notin Scenes
  PROVE  Path(s) = {s}
<1>1. Closed({s})
  BY DEF Closed
<1>2. ASSUME NEW x \in Path(s) PROVE x \in {s}
  BY <1>1, PathIn
<1> QED BY <1>2, PathHas

LEMMA PathUnder ==
  ASSUME NEW s \in Scenes, under[s] \in Scenes
  PROVE  Path(s) = {s} \cup Path(under[s])
<1>1. Closed({s} \cup Path(under[s]))
  <2>1. Closed(Path(under[s])) /\ under[s] \in Path(under[s])
    BY PathClosed, PathHas
  <2> QED BY <2>1 DEF Closed
<1>2. ASSUME NEW x \in Path(s) PROVE x \in {s} \cup Path(under[s])
  <2>1. {s} \cup Path(under[s]) \in SUBSET Scenes
    BY PathScenes
  <2> QED BY <1>1, <2>1, PathIn
<1>3. s \in Path(s) /\ under[s] \in Path(s)
  BY PathHas, PathClosed DEF Closed
<1> QED BY <1>2, <1>3, PathTrans

LEMMA PathSame ==
  ASSUME under' = under
  PROVE  \A s : Path(s)' = Path(s)
BY DEF Path

\* A new scene changes the path of no other.
LEMMA PathNew ==
  ASSUME NEW M \in SUBSET Scenes, Closed(M), \A y \in M : under'[y] = under[y], NEW s \in M
  PROVE  Path(s)' = Path(s)
<1>1. ASSUME NEW x \in Path(s) PROVE x \in Path(s)'
  <2>1. x \in Scenes
    BY PathScenes
  <2>2. ASSUME NEW S \in SUBSET Scenes, s \in S, \A y \in S : under'[y] \in Scenes => under'[y] \in S
        PROVE  x \in S
    <3>1. Closed(S \cap M)
      BY <2>2 DEF Closed
    <3> QED BY <2>2, <3>1, PathIn
  <2> QED BY <2>1, <2>2 DEF Path
<1>2. ASSUME NEW x \in Path(s)' PROVE x \in Path(s)
  <2>1. x \in Scenes
    BY <1>2 DEF Path
  <2>2. ASSUME NEW S \in SUBSET Scenes, s \in S, Closed(S) PROVE x \in S
    <3>1. \A y \in S \cap M : under'[y] \in Scenes => under'[y] \in S \cap M
      BY <2>2 DEF Closed
    <3>2. S \cap M \in SUBSET Scenes /\ s \in S \cap M
      BY <2>2
    <3> HIDE <2>2
    <3>3. x \in S \cap M
      BY <1>2, <3>1, <3>2 DEF Path
    <3> QED BY <3>3
  <2> QED BY <2>1, <2>2 DEF Path, Closed
<1> QED BY <1>1, <1>2

(* Messages in order. *)
Places == Scenes \cup {Place}
Up(x) == IF x = Place THEN {Place} ELSE Path(x) \cup {Place}
Shows(m, x) == m.type = "add" /\ IF x = Place THEN m.place ELSE x \in m.scenes
Hides(m, U) == m.type = "remove" /\ m.scene \in U
Has(c, x) == IF x = Place THEN c \in place ELSE x \in copies[c]
\* What x, which is below U, is once the first k messages of q are heard.
Held(q, h, k, x, U) ==
  \E i \in 0 .. k : /\ i = 0 => h
                    /\ i # 0 => Shows(q[i], x)
                    /\ \A j \in i + 1 .. k : ~ Hides(q[j], U)
At(c, k, x) == Held(down[c], Has(c, x), k, x, Up(x))

\* q goes on as p does; q is p without its first.
Extends(q, p) == Len(p) <= Len(q) /\ \A i \in 1 .. Len(p) : q[i] = p[i]
Drops(q, p) == Len(q) + 1 = Len(p) /\ \A i \in 1 .. Len(q) : q[i] = p[i + 1]

LEMMA HeldNone ==
  ASSUME NEW q, NEW h, NEW x, NEW U
  PROVE  Held(q, h, 0, x, U) <=> h
<1>1. \A i \in 0 .. 0 : i = 0 /\ \A j \in i + 1 .. 0 : FALSE
  OBVIOUS
<1>2. 0 \in 0 .. 0
  OBVIOUS
<1> QED BY <1>1, <1>2 DEF Held

LEMMA HeldOne ==
  ASSUME NEW q, NEW h, NEW k \in Nat, NEW x, NEW U
  PROVE  Held(q, h, k + 1, x, U) <=> Shows(q[k + 1], x) \/ (Held(q, h, k, x, U) /\ ~ Hides(q[k + 1], U))
<1>1. ASSUME Held(q, h, k + 1, x, U), ~ Shows(q[k + 1], x) PROVE Held(q, h, k, x, U) /\ ~ Hides(q[k + 1], U)
  <2>1. PICK i \in 0 .. k + 1 : /\ i = 0 => h
                                /\ i # 0 => Shows(q[i], x)
                                /\ \A j \in i + 1 .. k + 1 : ~ Hides(q[j], U)
    BY <1>1 DEF Held
  <2>2. i \in 0 .. k /\ k + 1 \in i + 1 .. k + 1 /\ \A j \in i + 1 .. k : j \in i + 1 .. k + 1
    <3>1. i # k + 1
      BY <1>1, <2>1
    <3> QED BY <3>1
  <2> QED BY <2>1, <2>2 DEF Held
<1>2. ASSUME Shows(q[k + 1], x) PROVE Held(q, h, k + 1, x, U)
  <2>1. k + 1 \in 0 .. k + 1 /\ k + 1 # 0 /\ \A j \in (k + 1) + 1 .. k + 1 : FALSE
    OBVIOUS
  <2> QED BY <1>2, <2>1 DEF Held
<1>3. ASSUME Held(q, h, k, x, U), ~ Hides(q[k + 1], U) PROVE Held(q, h, k + 1, x, U)
  <2>1. PICK i \in 0 .. k : /\ i = 0 => h
                            /\ i # 0 => Shows(q[i], x)
                            /\ \A j \in i + 1 .. k : ~ Hides(q[j], U)
    BY <1>3 DEF Held
  <2>2. i \in 0 .. k + 1 /\ \A j \in i + 1 .. k + 1 : j \in i + 1 .. k \/ j = k + 1
    OBVIOUS
  <2>3. \A j \in i + 1 .. k + 1 : ~ Hides(q[j], U)
    BY <1>3, <2>1, <2>2
  <2> QED BY <2>1, <2>2, <2>3 DEF Held
<1> QED BY <1>1, <1>2, <1>3

\* The same messages.
LEMMA HeldSame ==
  ASSUME NEW p, NEW q, NEW g, NEW h, NEW k \in Nat, NEW x, NEW U, \A i \in 1 .. k : q[i] = p[i], g <=> h
  PROVE  Held(q, g, k, x, U) <=> Held(p, h, k, x, U)
<1>1. \A i \in 0 .. k : i # 0 => i \in 1 .. k
  OBVIOUS
<1>2. \A i \in 0 .. k : \A j \in i + 1 .. k : j \in 1 .. k
  OBVIOUS
<1>3. \A i \in 0 .. k : (\A j \in i + 1 .. k : ~ Hides(q[j], U)) <=> (\A j \in i + 1 .. k : ~ Hides(p[j], U))
  BY <1>2
<1>4. \A i \in 0 .. k : (i # 0 => Shows(q[i], x)) <=> (i # 0 => Shows(p[i], x))
  BY <1>1
<1> QED BY <1>3, <1>4 DEF Held

\* The first is heard.
LEMMA HeldTail ==
  ASSUME NEW p, NEW q, NEW h, NEW g, NEW k \in Nat, NEW x, NEW U,
         \A i \in 1 .. k : q[i] = p[i + 1],
         g <=> Shows(p[1], x) \/ (h /\ ~ Hides(p[1], U))
  PROVE  Held(q, g, k, x, U) <=> Held(p, h, k + 1, x, U)
<1> DEFINE S == {i \in Nat : Held(q, g, i, x, U) <=> Held(p, h, i + 1, x, U)}
<1>1. 0 \in S
  <2>1. Held(q, g, 0, x, U) <=> g
    BY HeldNone
  <2>2. Held(p, h, 0, x, U) <=> h
    BY HeldNone
  <2>3. Held(p, h, 0 + 1, x, U) <=> Shows(p[0 + 1], x) \/ (Held(p, h, 0, x, U) /\ ~ Hides(p[0 + 1], U))
    BY HeldOne
  <2>4. 0 + 1 = 1 /\ 0 \in Nat
    OBVIOUS
  <2> QED BY <2>1, <2>2, <2>3, <2>4
<1>2. ASSUME NEW i \in 0 .. k, i < k, i \in S PROVE i + 1 \in S
  <2>1. i \in Nat /\ i + 1 \in Nat /\ i + 1 \in 1 .. k
    BY <1>2
  <2>2. Held(q, g, i + 1, x, U) <=> Shows(q[i + 1], x) \/ (Held(q, g, i, x, U) /\ ~ Hides(q[i + 1], U))
    BY <2>1, HeldOne
  <2>3. Held(p, h, (i + 1) + 1, x, U)
          <=> Shows(p[(i + 1) + 1], x) \/ (Held(p, h, i + 1, x, U) /\ ~ Hides(p[(i + 1) + 1], U))
    BY <2>1, HeldOne
  <2>4. q[i + 1] = p[(i + 1) + 1]
    BY <2>1
  <2>5. Held(q, g, i, x, U) <=> Held(p, h, i + 1, x, U)
    BY <1>2
  <2> QED BY <2>1, <2>2, <2>3, <2>4, <2>5
<1>3. k \in S
  <2> HIDE DEF S
  <2>1. k \in 0 .. k
    OBVIOUS
  <2> QED BY <1>1, <1>2, <2>1, UpTo
<1> QED BY <1>3

(* What Resume does, without the sequences that it is made of. *)
\* The n messages that c sends are those of the coroutines e[1], e[2] ..., and the
\* l that still wait are k[1], k[2] ...
Resumed(c, n, e, l, k) ==
  /\ n \in Nat /\ l \in Nat
  /\ Len(up'[c]) = Len(up[c]) + n /\ Len(waiting'[c]) = l
  /\ Extends(up'[c], up[c]) /\ Extends(tokens'[c], tokens[c])
  /\ k \in [1 .. l -> DOMAIN waiting[c] \ Ready(c)]
  /\ \A i \in 1 .. l : waiting'[c][i] = waiting[c][k[i]]
  /\ \A i, j \in 1 .. l : i < j => k[i] < k[j]
  /\ \A p \in DOMAIN waiting[c] \ Ready(c) : \E i \in 1 .. l : k[i] = p
  /\ e \in [1 .. n -> GoOn(c)]
  /\ \A i, j \in 1 .. n : i < j => e[i] < e[j]
  /\ \A p \in GoOn(c) : \E i \in 1 .. n : e[i] = p
  /\ \A i \in 1 .. n :
       LET w == waiting[c][e[i]] m == up'[c][Len(up[c]) + i]
       IN /\ w.n = 0 => /\ m.type = "request" /\ m.scene = w.scene
                        /\ m.token \in 1 .. Len(tokens'[c]) /\ tokens'[c][m.token] = w.scene
          /\ w.n # 0 => m = Calls(ident[w.scene], w.scene, w.n)
  /\ \A s \in Scenes :
       phase'[s] = IF \E i \in GoOn(c) : waiting[c][i].scene = s /\ waiting[c][i].n = 0
                     THEN "asked" ELSE phase[s]

LEMMA MakesSeq ==
  ASSUME NEW T, NEW n \in Nat, NEW g, g = [i \in 1 .. n |-> g[i]], \A i \in 1 .. n : g[i] \in T
  PROVE  g \in Seq(T) /\ Len(g) = n
OBVIOUS

(* The actions of clients that may send a request: what is not sent makes no    *)
(* difference to them.                                                          *)
SentAsk(c, s) ==
  /\ phase' = [phase EXCEPT ![s] = "asked"]
  /\ tokens' = [tokens EXCEPT ![c] = Append(@, s)]
  /\ up' = [up EXCEPT ![c] = Append(@, Asks(Len(tokens[c]) + 1, s))]

SentRequest(c, s, p) ==
  /\ c \in Connected \ polling /\ phase[s] = "new"
  /\ IF p = Place THEN c \in place ELSE HasNode(c, p)
  /\ maker' = [maker EXCEPT ![s] = c]
  /\ under' = [under EXCEPT ![s] = p]
  /\ IF p # Place /\ maker[p] = c /\ phase[p] = "asked"
       THEN /\ phase' = [phase EXCEPT ![s] = "parent"]
            /\ waiting' = [waiting EXCEPT ![c] = Append(@, [scene |-> s, n |-> 0])]
            /\ UNCHANGED <<tokens, up>>
       ELSE SentAsk(c, s) /\ UNCHANGED waiting
  /\ UNCHANGED <<server, ident, polling, place, copies, down, made, heard>>

SentResume(c) ==
  LET sent == Those(waiting[c], GoOn(c))
      asking == Those(waiting[c], {i \in GoOn(c) : waiting[c][i].n = 0})
      tokenOf(w) == Len(tokens[c]) + (CHOOSE i \in DOMAIN asking : asking[i] = w)
  IN /\ c \in polling
     /\ polling' = polling \ {c}
     /\ waiting' = [waiting EXCEPT ![c] = Those(@, DOMAIN @ \ Ready(c))]
     /\ up' = [up EXCEPT ![c] = @ \o
                 [i \in DOMAIN sent |-> IF sent[i].n = 0 THEN Asks(tokenOf(sent[i]), sent[i].scene)
                                        ELSE Calls(ident[sent[i].scene], sent[i].scene, sent[i].n)]]
     /\ tokens' = [tokens EXCEPT ![c] = @ \o [i \in DOMAIN asking |-> asking[i].scene]]
     /\ phase' = [s \in Scenes |-> IF [scene |-> s, n |-> 0] \in Range(asking) THEN "asked" ELSE phase[s]]
     /\ UNCHANGED <<server, maker, under, ident, place, copies, down, made, heard>>

\* What Resume does when the messages of the coroutines `sent' are sent.
ResumeOf(c, sent) ==
  LET asking == Those(waiting[c], {i \in GoOn(c) : waiting[c][i].n = 0})
      tokenOf(w) == Len(tokens[c]) + (CHOOSE i \in DOMAIN asking : asking[i] = w)
  IN /\ c \in polling
     /\ polling' = polling \ {c}
     /\ waiting' = [waiting EXCEPT ![c] = Those(@, DOMAIN @ \ Ready(c))]
     /\ up' = [up EXCEPT ![c] = @ \o
                 [i \in DOMAIN sent |-> IF sent[i].n = 0 THEN Asks(tokenOf(sent[i]), sent[i].scene)
                                        ELSE Calls(ident[sent[i].scene], sent[i].scene, sent[i].n)]]
     /\ tokens' = [tokens EXCEPT ![c] = @ \o [i \in DOMAIN asking |-> asking[i].scene]]
     /\ phase' = [s \in Scenes |-> IF [scene |-> s, n |-> 0] \in Range(asking) THEN "asked" ELSE phase[s]]

LEMMA ResumeSent ==
  ASSUME NEW c \in Clients, Resume(c), Sent(c) = Those(waiting[c], GoOn(c)),
         UNCHANGED <<server, maker, under, ident, place, copies, down, made, heard>>
  PROVE  SentResume(c)
<1>1. ResumeOf(c, Sent(c))
  BY Zenon DEF Resume, ResumeOf
<1>2. ResumeOf(c, Those(waiting[c], GoOn(c)))
  BY <1>1
<1> QED BY <1>2, Zenon DEF ResumeOf, SentResume

SentNext ==
  \/ \E c \in Clients, s \in Scenes :
       \/ \E p \in Scenes \cup {Place} : SentRequest(c, s, p)
       \/ Call(c, s) \/ FreeOwn(c, s)
  \/ \E c \in Clients : \/ HearAdd(c) \/ HearRemove(c) \/ HearIds(c) \/ HearCall(c) \/ SentResume(c)
                        \/ Accept(c) \/ Ignore(c) \/ Run(c)
                        \/ Hide(c) \/ Show(c) \/ Connect(c) \/ Disconnect(c)
  \/ \E s \in Scenes : CallAll(s) \/ Free(s)

\* The steps are these, where a client may ask.
LEMMA WhenSent == mayAsk /\ [Next]_vars => [SentNext]_vars /\ mayAsk'
<1> SUFFICES ASSUME mayAsk, [Next]_vars PROVE [SentNext]_vars /\ mayAsk'
  OBVIOUS
<1>1. mayAsk'
  BY DEF Next, vars
<1>2. ASSUME NEW c \in Clients, NEW s \in Scenes, NEW p \in Scenes \cup {Place}, Request(c, s, p)
      PROVE  SentRequest(c, s, p)
  <2>1. /\ c \in Connected \ polling /\ phase[s] = "new"
        /\ IF p = Place THEN c \in place ELSE HasNode(c, p)
        /\ maker' = [maker EXCEPT ![s] = c]
        /\ under' = [under EXCEPT ![s] = p]
        /\ UNCHANGED <<status, hidden, nodes, ident, polling, place, copies, down, made, heard>>
    BY <1>2 DEF Request
  <2>2. CASE p # Place /\ maker[p] = c /\ phase[p] = "asked"
    <3>1. /\ phase' = [phase EXCEPT ![s] = "parent"]
          /\ waiting' = [waiting EXCEPT ![c] = Append(@, [scene |-> s, n |-> 0])]
          /\ UNCHANGED <<tokens, up, unanswered>>
      BY <1>2, <2>2 DEF Request
    <3> QED BY <2>1, <2>2, <3>1 DEF SentRequest, server
  <2>3. CASE ~ (p # Place /\ maker[p] = c /\ phase[p] = "asked")
    <3>1. Ask(c, s) /\ UNCHANGED waiting
      BY <1>2, <2>3 DEF Request
    <3>2. SentAsk(c, s) /\ UNCHANGED unanswered
      BY <3>1 DEF Ask, SentAsk
    <3> QED BY <2>1, <2>3, <3>1, <3>2 DEF SentRequest, server
  <2> QED BY <2>2, <2>3
<1>3. ASSUME NEW c \in Clients, Resume(c) PROVE SentResume(c)
  <2>1. {i \in GoOn(c) : mayAsk \/ waiting[c][i].n > 0} = GoOn(c)
    OBVIOUS
  <2>2. Sent(c) = Those(waiting[c], GoOn(c))
    BY <2>1 DEF Sent
  <2>3. UNCHANGED <<server, maker, under, ident, place, copies, down, made, heard>>
    BY <1>3 DEF Resume, server
  <2> QED BY <1>3, <2>2, <2>3, ResumeSent
<1> QED BY <1>1, <1>2, <1>3, Zenon DEF Next, Step, SentNext

LEMMA ResumeDoes ==
  ASSUME TypesOK, NEW c \in Clients, SentResume(c)
  PROVE  /\ \E n, e, l, k : Resumed(c, n, e, l, k)
         /\ \A d \in Clients \ {c} : waiting'[d] = waiting[d] /\ up'[d] = up[d] /\ tokens'[d] = tokens[d]
         /\ waiting' \in [Clients -> Seq(Coroutine)] /\ up' \in [Clients -> Seq(UpMsg)]
         /\ tokens' \in [Clients -> Seq(Scenes)]
         /\ phase' \in [Scenes -> {"new", "parent", "asked", "named", "gone"}]
<1> DEFINE q == waiting[c]
           A == {i \in GoOn(c) : q[i].n = 0}
           sent == Those(q, GoOn(c))
           asking == Those(q, A)
           kept == Those(q, DOMAIN q \ Ready(c))
           tokenOf(w) == Len(tokens[c]) + (CHOOSE i \in DOMAIN asking : asking[i] = w)
           msg(w) == IF w.n = 0 THEN Asks(tokenOf(w), w.scene) ELSE Calls(ident[w.scene], w.scene, w.n)
           new == [i \in DOMAIN sent |-> msg(sent[i])]
           scs == [i \in DOMAIN asking |-> asking[i].scene]
<1>1. q \in Seq(Coroutine) /\ up[c] \in Seq(UpMsg) /\ tokens[c] \in Seq(Scenes)
  BY DEF TypesOK
<1>2. /\ waiting' = [waiting EXCEPT ![c] = kept]
      /\ up' = [up EXCEPT ![c] = up[c] \o new]
      /\ tokens' = [tokens EXCEPT ![c] = tokens[c] \o scs]
      /\ phase' = [s \in Scenes |-> IF [scene |-> s, n |-> 0] \in Range(asking) THEN "asked" ELSE phase[s]]
  BY Zenon DEF SentResume
<1>3. GoOn(c) \subseteq Ready(c) /\ Ready(c) \subseteq 1 .. Len(q) /\ DOMAIN q = 1 .. Len(q) /\ Len(q) \in Nat
  BY <1>1 DEF GoOn, Ready
<1>4. sent \in Seq(Coroutine) /\ \E e : Kept(sent, e, q, GoOn(c), Len(q))
  BY <1>1, ThoseKept
<1>5. asking \in Seq(Coroutine) /\ \E e : Kept(asking, e, q, A, Len(q))
  BY <1>1, ThoseKept
<1>6. kept \in Seq(Coroutine) /\ \E e : Kept(kept, e, q, DOMAIN q \ Ready(c), Len(q))
  BY <1>1, ThoseKept
<1> HIDE DEF sent, asking, kept
<1>7. PICK e : Kept(sent, e, q, GoOn(c), Len(q))
  BY <1>4
<1>8. PICK a : Kept(asking, a, q, A, Len(q))
  BY <1>5
<1>9. PICK k : Kept(kept, k, q, DOMAIN q \ Ready(c), Len(q))
  BY <1>6
<1>10. A = A \cap (1 .. Len(q)) /\ GoOn(c) = GoOn(c) \cap (1 .. Len(q))
       /\ DOMAIN q \ Ready(c) = (DOMAIN q \ Ready(c)) \cap (1 .. Len(q))
  BY <1>3
<1>11. ASSUME NEW i \in 1 .. Len(sent)
       PROVE  /\ sent[i] = q[e[i]] /\ e[i] \in GoOn(c) /\ sent[i] \in Coroutine
              /\ sent[i].n = 0 => /\ tokenOf(sent[i]) \in Nat
                                  /\ tokenOf(sent[i]) - Len(tokens[c]) \in 1 .. Len(asking)
                                  /\ asking[tokenOf(sent[i]) - Len(tokens[c])] = sent[i]
              /\ msg(sent[i]) \in UpMsg
  <2>1. sent[i] = q[e[i]] /\ e[i] \in GoOn(c) /\ sent[i] \in Coroutine
    BY <1>4, <1>7 DEF Kept
  <2>2. ASSUME sent[i].n = 0
        PROVE  /\ tokenOf(sent[i]) \in Nat
               /\ tokenOf(sent[i]) - Len(tokens[c]) \in 1 .. Len(asking)
               /\ asking[tokenOf(sent[i]) - Len(tokens[c])] = sent[i]
    <3>1. e[i] \in A
      BY <2>1, <2>2
    <3>2. \E j \in 1 .. Len(asking) : a[j] = e[i]
      BY <1>8, <1>10, <3>1 DEF Kept
    <3>3. \E j \in 1 .. Len(asking) : asking[j] = sent[i]
      BY <1>8, <2>1, <3>2 DEF Kept
    <3>4. DOMAIN asking = 1 .. Len(asking) /\ Len(asking) \in Nat
      BY <1>5
    <3> DEFINE j == CHOOSE j \in DOMAIN asking : asking[j] = sent[i]
    <3>5. j \in 1 .. Len(asking) /\ asking[j] = sent[i]
      BY <3>3, <3>4
    <3>6. tokenOf(sent[i]) = Len(tokens[c]) + j
      OBVIOUS
    <3>7. Len(tokens[c]) \in Nat
      BY <1>1
    <3> HIDE DEF j, tokenOf
    <3>8. (Len(tokens[c]) + j) - Len(tokens[c]) = j /\ Len(tokens[c]) + j \in Nat
      BY <3>4, <3>5, <3>7
    <3> QED BY <3>5, <3>6, <3>8
  <2>3. msg(sent[i]) \in UpMsg
    <3>1. sent[i].scene \in Scenes /\ sent[i].n \in Nat /\ ident[sent[i].scene] \in Scenes \cup {None}
      BY <2>1 DEF Coroutine, TypesOK
    <3> HIDE DEF tokenOf
    <3> QED BY <2>2, <3>1 DEF UpMsg, Asks, Calls
  <2> QED BY <2>1, <2>2, <2>3
<1>21. \A i \in 1 .. Len(sent) : sent[i] = q[e[i]] /\ e[i] \in GoOn(c)
  BY <1>11
<1>22. \A i \in 1 .. Len(sent) : msg(sent[i]) \in UpMsg
  BY <1>11
<1>23. \A i \in 1 .. Len(sent) : sent[i].n = 0 =>
         /\ tokenOf(sent[i]) \in Nat
         /\ tokenOf(sent[i]) - Len(tokens[c]) \in 1 .. Len(asking)
         /\ asking[tokenOf(sent[i]) - Len(tokens[c])] = sent[i]
  BY <1>11
<1> HIDE DEF msg, tokenOf
<1>24. DOMAIN sent = 1 .. Len(sent) /\ Len(sent) \in Nat
  BY <1>4
<1>12. \A i \in 1 .. Len(sent) : new[i] = msg(sent[i])
  BY <1>24
<1>25. new = [i \in 1 .. Len(sent) |-> new[i]]
  BY <1>24
<1>26. new \in Seq(UpMsg) /\ Len(new) = Len(sent)
  <2> HIDE DEF new
  <2>1. \A i \in 1 .. Len(sent) : new[i] \in UpMsg
    BY <1>12, <1>22
  <2> QED BY <1>24, <1>25, <2>1, MakesSeq
<1>13. scs \in Seq(Scenes) /\ Len(scs) = Len(asking) /\ \A i \in 1 .. Len(asking) : scs[i] = asking[i].scene
  <2>1. DOMAIN asking = 1 .. Len(asking) /\ Len(asking) \in Nat
    BY <1>5
  <2>2. \A i \in 1 .. Len(asking) : asking[i] \in Coroutine
    BY <1>5
  <2> QED BY <2>1, <2>2 DEF Coroutine
<1> HIDE DEF new, scs, q
<1>14. /\ waiting'[c] = kept /\ up'[c] = up[c] \o new /\ tokens'[c] = tokens[c] \o scs
       /\ waiting' \in [Clients -> Seq(Coroutine)] /\ up' \in [Clients -> Seq(UpMsg)]
       /\ tokens' \in [Clients -> Seq(Scenes)]
       /\ \A d \in Clients \ {c} : waiting'[d] = waiting[d] /\ up'[d] = up[d] /\ tokens'[d] = tokens[d]
  <2>1. up[c] \o new \in Seq(UpMsg) /\ tokens[c] \o scs \in Seq(Scenes)
    BY <1>1, <1>26, <1>13
  <2>2. waiting \in [Clients -> Seq(Coroutine)] /\ up \in [Clients -> Seq(UpMsg)] /\ tokens \in [Clients -> Seq(Scenes)]
    BY DEF TypesOK
  <2> QED BY <1>2, <1>6, <2>1, <2>2
<1>15. ASSUME NEW s \in Scenes
       PROVE  [scene |-> s, n |-> 0] \in Range(asking)
                <=> \E i \in GoOn(c) : waiting[c][i].scene = s /\ waiting[c][i].n = 0
  <2>1. DOMAIN asking = 1 .. Len(asking)
    BY <1>5
  <2>2. ASSUME [scene |-> s, n |-> 0] \in Range(asking)
        PROVE  \E i \in GoOn(c) : q[i].scene = s /\ q[i].n = 0
    <3>1. PICK j \in 1 .. Len(asking) : asking[j] = [scene |-> s, n |-> 0]
      BY <2>1, <2>2 DEF Range
    <3>2. a[j] \in GoOn(c) /\ q[a[j]] = asking[j]
      BY <1>8 DEF Kept
    <3> QED BY <3>1, <3>2
  <2>3. ASSUME NEW i \in GoOn(c), q[i].scene = s, q[i].n = 0
        PROVE  [scene |-> s, n |-> 0] \in Range(asking)
    <3>1. i \in A
      BY <2>3
    <3>2. PICK j \in 1 .. Len(asking) : a[j] = i
      BY <1>8, <1>10, <3>1 DEF Kept
    <3>3. asking[j] = q[i]
      BY <1>8, <3>2 DEF Kept
    <3>4. q[i] \in Coroutine
      BY <1>1, <1>3, <2>3
    <3>5. q[i] = [scene |-> s, n |-> 0]
      BY <2>3, <3>4 DEF Coroutine
    <3> QED BY <2>1, <3>3, <3>5 DEF Range
  <2> QED BY <2>2, <2>3 DEF q
<1>16. phase' \in [Scenes -> {"new", "parent", "asked", "named", "gone"}]
       /\ \A s \in Scenes : phase'[s] = IF \E i \in GoOn(c) : waiting[c][i].scene = s /\ waiting[c][i].n = 0
                                          THEN "asked" ELSE phase[s]
  <2>1. phase \in [Scenes -> {"new", "parent", "asked", "named", "gone"}]
    BY DEF TypesOK
  <2> QED BY <1>2, <1>15, <2>1
<1>17. /\ Len(up[c] \o new) = Len(up[c]) + Len(new) /\ Extends(up[c] \o new, up[c])
       /\ \A i \in 1 .. Len(new) : (up[c] \o new)[Len(up[c]) + i] = new[i]
  <2>1. up[c] \in Seq(UpMsg) /\ new \in Seq(UpMsg)
    BY <1>1, <1>26
  <2> QED BY <2>1 DEF Extends
<1>18. /\ Len(tokens[c] \o scs) = Len(tokens[c]) + Len(scs) /\ Extends(tokens[c] \o scs, tokens[c])
       /\ \A i \in 1 .. Len(scs) : (tokens[c] \o scs)[Len(tokens[c]) + i] = scs[i]
  <2>1. tokens[c] \in Seq(Scenes) /\ scs \in Seq(Scenes)
    BY <1>1, <1>13
  <2> QED BY <2>1 DEF Extends
<1>19. ASSUME NEW i \in 1 .. Len(sent)
       PROVE  LET w == waiting[c][e[i]] m == up'[c][Len(up[c]) + i]
              IN /\ w.n = 0 => /\ m.type = "request" /\ m.scene = w.scene
                               /\ m.token \in 1 .. Len(tokens'[c]) /\ tokens'[c][m.token] = w.scene
                 /\ w.n # 0 => m = Calls(ident[w.scene], w.scene, w.n)
  <2> DEFINE w == waiting[c][e[i]]
             m == up'[c][Len(up[c]) + i]
             t == tokenOf(w)
  <2>1. w = sent[i] /\ m = msg(w)
    BY <1>21, <1>12, <1>26, <1>14, <1>17 DEF q
  <2>2. ASSUME w.n = 0
        PROVE  /\ m.type = "request" /\ m.scene = w.scene
               /\ m.token \in 1 .. Len(tokens'[c]) /\ tokens'[c][m.token] = w.scene
    <3>1. m = Asks(t, w.scene)
      BY <2>1, <2>2 DEF msg
    <3>2. t \in Nat /\ t - Len(tokens[c]) \in 1 .. Len(asking) /\ asking[t - Len(tokens[c])] = w
      <4> HIDE DEF w
      <4> QED BY <1>23, <2>1, <2>2
    <3> DEFINE j == t - Len(tokens[c])
    <3>3. Len(tokens[c]) \in Nat /\ Len(asking) \in Nat
      BY <1>1, <1>5
    <3> HIDE DEF t, m, w
    <3>4. t = Len(tokens[c]) + j /\ j \in 1 .. Len(asking)
      BY <3>2, <3>3
    <3>5. t \in 1 .. Len(tokens'[c])
      <4>1. Len(tokens'[c]) = Len(tokens[c]) + Len(asking)
        BY <1>13, <1>14, <1>18
      <4> QED BY ONLY <3>3, <3>4, <4>1
    <3>6. (tokens[c] \o scs)[Len(tokens[c]) + j] = scs[j]
      BY <1>13, <1>18, <3>4
    <3>7. scs[j] = asking[j].scene /\ asking[j] = w
      BY <1>13, <3>2, <3>4
    <3> HIDE DEF j
    <3>8. tokens'[c][t] = w.scene
      BY <1>14, <3>4, <3>6, <3>7
    <3> QED BY <3>1, <3>5, <3>8 DEF Asks
  <2>3. ASSUME w.n # 0 PROVE m = Calls(ident[w.scene], w.scene, w.n)
    BY <2>1, <2>3 DEF msg
  <2> QED BY <2>2, <2>3
<1>20. Resumed(c, Len(sent), e, Len(kept), k)
  <2>1. Len(sent) \in Nat /\ Len(kept) \in Nat
    BY <1>4, <1>6
  <2>2. /\ k \in [1 .. Len(kept) -> DOMAIN waiting[c] \ Ready(c)]
        /\ \A i \in 1 .. Len(kept) : waiting'[c][i] = waiting[c][k[i]]
        /\ \A i, j \in 1 .. Len(kept) : i < j => k[i] < k[j]
        /\ \A p \in DOMAIN waiting[c] \ Ready(c) : \E i \in 1 .. Len(kept) : k[i] = p
    BY <1>9, <1>10, <1>14 DEF Kept, q
  <2>3. /\ e \in [1 .. Len(sent) -> GoOn(c)]
        /\ \A i, j \in 1 .. Len(sent) : i < j => e[i] < e[j]
        /\ \A p \in GoOn(c) : \E i \in 1 .. Len(sent) : e[i] = p
    BY <1>7, <1>10 DEF Kept
  <2>4. /\ Len(up'[c]) = Len(up[c]) + Len(sent) /\ Len(waiting'[c]) = Len(kept)
        /\ Extends(up'[c], up[c]) /\ Extends(tokens'[c], tokens[c])
    BY <1>26, <1>14, <1>17, <1>18
  <2> QED BY <1>16, <1>19, <2>1, <2>2, <2>3, <2>4 DEF Resumed
<1> QED BY <1>14, <1>16, <1>20

LEMMA AppendSeq ==
  ASSUME NEW T, NEW q \in Seq(T), NEW m \in T
  PROVE  /\ Append(q, m) \in Seq(T) /\ Len(Append(q, m)) = Len(q) + 1 /\ Extends(Append(q, m), q)
         /\ Append(q, m)[Len(q) + 1] = m /\ Len(q) \in Nat
BY DEF Extends

LEMMA TailSeq ==
  ASSUME NEW T, NEW q \in Seq(T), q # <<>>
  PROVE  /\ Tail(q) \in Seq(T) /\ Drops(Tail(q), q) /\ Head(q) = q[1] /\ q[1] \in T
         /\ Len(q) \in Nat \ {0} /\ Len(Tail(q)) \in Nat /\ 1 \in DOMAIN q
BY DEF Drops


\* A message is one of its kinds.
LEMMA UpKinds ==
  ASSUME NEW m \in UpMsg
  PROVE  \/ m.type = "request" /\ m.token \in Nat /\ m.scene \in Scenes /\ m = Asks(m.token, m.scene)
         \/ /\ m.type = "call" /\ m.scene \in Scenes \cup {None} /\ m.from \in Scenes /\ m.n \in Nat
            /\ m = Calls(m.scene, m.from, m.n)
BY DEF UpMsg, Asks, Calls

LEMMA DownKinds ==
  ASSUME NEW m \in DownMsg
  PROVE  \/ m.type = "add" /\ m.place \in BOOLEAN /\ m.scenes \in SUBSET Scenes
         \/ m.type = "remove" /\ m.scene \in Scenes \cup {Place}
         \/ m.type = "ids" /\ m.token \in Nat /\ m.scene \in Scenes
         \/ m.type = "call" /\ m.scene \in Scenes
BY DEF DownMsg

LEMMA MadeMessages ==
  /\ \A t \in Nat, s \in Scenes : Asks(t, s) \in UpMsg /\ Named(t, s) \in DownMsg
  /\ \A x \in Scenes \cup {None}, s \in Scenes, n \in Nat : Calls(x, s, n) \in UpMsg
  /\ \A s \in Scenes : FromServer(s) \in DownMsg
  /\ \A s \in Scenes \cup {Place} : Removed(s) \in DownMsg
  /\ \A p \in BOOLEAN, S \in SUBSET Scenes : Shown(p, S) \in DownMsg
<1>1. \A t \in Nat, s \in Scenes : Asks(t, s) \in UpMsg /\ Named(t, s) \in DownMsg
  BY DEF UpMsg, DownMsg, Asks, Named
<1>2. \A x \in Scenes \cup {None}, s \in Scenes, n \in Nat : Calls(x, s, n) \in UpMsg
  BY DEF UpMsg, Calls
<1>3. \A s \in Scenes : FromServer(s) \in DownMsg
  BY DEF DownMsg, Calls, FromServer
<1>4. \A s \in Scenes \cup {Place} : Removed(s) \in DownMsg
  BY DEF DownMsg, Removed
<1>5. \A p \in BOOLEAN, S \in SUBSET Scenes : Shown(p, S) \in DownMsg
  BY DEF DownMsg, Shown
<1> QED BY <1>1, <1>2, <1>3, <1>4, <1>5

LEMMA OthersScenes == \A d, S : Others(d, S) \subseteq S
BY DEF Others

LEMMA TypesInit == Init => TypesOK
<1> SUFFICES ASSUME Init PROVE TypesOK
  OBVIOUS
<1>1. status \in [Clients -> {"out", "in", "left"}]
  BY DEF Init
<1>2. place \subseteq Clients
  BY DEF Init, Connected
<1> QED BY <1>1, <1>2 DEF Init, TypesOK

USE DEF TypesOK

LEMMA RequestTypes ==
  ASSUME TypesOK, NEW c \in Clients, NEW s \in Scenes, NEW p \in Scenes \cup {Place}, SentRequest(c, s, p)
  PROVE  TypesOK'
<1>1. maker' \in [Scenes -> Clients \cup {None}] /\ under' \in [Scenes -> Scenes \cup {Place, None}]
  <2>1. maker' = [maker EXCEPT ![s] = c] /\ under' = [under EXCEPT ![s] = p]
    BY DEF SentRequest
  <2> QED BY <2>1
<1>2. [scene |-> s, n |-> 0] \in Coroutine /\ Asks(Len(tokens[c]) + 1, s) \in UpMsg
  <2>1. tokens[c] \in Seq(Scenes)
    OBVIOUS
  <2>2. Len(tokens[c]) + 1 \in Nat
    BY <2>1
  <2> HIDE DEF TypesOK
  <2> QED BY <2>2, MadeMessages DEF Coroutine
<1>3. phase' \in [Scenes -> {"new", "parent", "asked", "named", "gone"}]
  <2>1. phase' = [phase EXCEPT ![s] = "parent"] \/ phase' = [phase EXCEPT ![s] = "asked"]
    BY DEF SentRequest, SentAsk
  <2> QED BY <2>1
<1>4. waiting' \in [Clients -> Seq(Coroutine)] /\ tokens' \in [Clients -> Seq(Scenes)] /\ up' \in [Clients -> Seq(UpMsg)]
  <2> DEFINE w == [scene |-> s, n |-> 0]
             m == Asks(Len(tokens[c]) + 1, s)
  <2>1. /\ waiting' = waiting \/ waiting' = [waiting EXCEPT ![c] = Append(waiting[c], w)]
        /\ up' = up \/ up' = [up EXCEPT ![c] = Append(up[c], m)]
        /\ tokens' = tokens \/ tokens' = [tokens EXCEPT ![c] = Append(tokens[c], s)]
    BY DEF SentRequest, SentAsk
  <2>2. w \in Coroutine /\ m \in UpMsg
    BY <1>2
  <2> HIDE DEF w, m
  <2>3. /\ Append(waiting[c], w) \in Seq(Coroutine) /\ Append(up[c], m) \in Seq(UpMsg)
        /\ Append(tokens[c], s) \in Seq(Scenes)
    BY <2>2
  <2>4. waiting' \in [Clients -> Seq(Coroutine)]
    BY <2>1, <2>3
  <2>5. up' \in [Clients -> Seq(UpMsg)]
    <3>1. up' = up \/ up' = [up EXCEPT ![c] = Append(up[c], m)]
      BY <2>1
    <3> QED BY <2>3, <3>1
  <2>6. tokens' \in [Clients -> Seq(Scenes)]
    BY <2>1, <2>3
  <2> QED BY <2>4, <2>5, <2>6
<1> QED BY <1>1, <1>3, <1>4 DEF SentRequest, server, TypesOK

LEMMA CallTypes ==
  ASSUME TypesOK, NEW c \in Clients, NEW s \in Scenes, Call(c, s)
  PROVE  TypesOK'
<1>1. [scene |-> s, n |-> made[s] + 1] \in Coroutine /\ Calls(ident[s], s, made[s] + 1) \in UpMsg
  <2>1. made[s] + 1 \in Nat /\ ident[s] \in Scenes \cup {None}
    OBVIOUS
  <2> HIDE DEF TypesOK
  <2> QED BY <2>1, MadeMessages DEF Coroutine
<1>2. waiting' \in [Clients -> Seq(Coroutine)] /\ up' \in [Clients -> Seq(UpMsg)] /\ made' \in [Scenes -> Nat]
  <2> DEFINE w == [scene |-> s, n |-> made[s] + 1]
             m == Calls(ident[s], s, made[s] + 1)
  <2>1. /\ waiting' = waiting \/ waiting' = [waiting EXCEPT ![c] = Append(waiting[c], w)]
        /\ up' = up \/ up' = [up EXCEPT ![c] = Append(up[c], m)]
        /\ made' = [made EXCEPT ![s] = made[s] + 1]
        /\ waiting \in [Clients -> Seq(Coroutine)] /\ up \in [Clients -> Seq(UpMsg)] /\ made \in [Scenes -> Nat]
    BY DEF Call
  <2>2. w \in Coroutine /\ m \in UpMsg
    BY <1>1
  <2> HIDE DEF w, m
  <2>3. Append(waiting[c], w) \in Seq(Coroutine) /\ Append(up[c], m) \in Seq(UpMsg) /\ made[s] + 1 \in Nat
    BY <2>2
  <2>4. waiting' \in [Clients -> Seq(Coroutine)]
    BY ONLY c \in Clients, <2>1, <2>3
  <2>5. up' \in [Clients -> Seq(UpMsg)]
    BY ONLY c \in Clients, <2>1, <2>3
  <2>6. made' \in [Scenes -> Nat]
    BY <2>1, <2>3
  <2> QED BY <2>4, <2>5, <2>6
<1> QED BY <1>2 DEF Call, server, TypesOK

LEMMA WithoutTypes ==
  ASSUME TypesOK, NEW c \in Clients, NEW S, Without(c, S)
  PROVE  phase' \in [Scenes -> {"new", "parent", "asked", "named", "gone"}] /\ copies' \in [Clients -> SUBSET Scenes]
BY DEF Without

LEMMA FreeOwnTypes ==
  ASSUME TypesOK, NEW c \in Clients, NEW s \in Scenes, FreeOwn(c, s)
  PROVE  TypesOK'
BY WithoutTypes DEF FreeOwn, server

\* A message that c hears leaves its queue.
LEMMA HearsDoes ==
  ASSUME TypesOK, NEW c \in Clients, Hears(c)
  PROVE  /\ c \in Connected /\ down' \in [Clients -> Seq(DownMsg)] /\ polling' = polling \cup {c}
         /\ \A d \in Clients : down'[d] = IF d = c THEN Tail(down[c]) ELSE down[d]
         /\ Drops(down'[c], down[c]) /\ Head(down[c]) = down[c][1] /\ down[c][1] \in DownMsg
         /\ Head(down[c]) \in DownMsg /\ Len(down[c]) \in Nat \ {0} /\ 1 \in DOMAIN down[c]
         /\ UNCHANGED <<server, maker, under, tokens, waiting, up, made, heard>>
<1>1. down[c] \in Seq(DownMsg) /\ down[c] # <<>>
  BY DEF Hears
<1>2. /\ Tail(down[c]) \in Seq(DownMsg) /\ Drops(Tail(down[c]), down[c]) /\ Head(down[c]) = down[c][1]
      /\ down[c][1] \in DownMsg /\ Len(down[c]) \in Nat \ {0} /\ 1 \in DOMAIN down[c]
  BY <1>1, TailSeq
<1> QED BY <1>2 DEF Hears

LEMMA HearAddTypes ==
  ASSUME TypesOK, NEW c \in Clients, HearAdd(c)
  PROVE  TypesOK'
<1>1. Hears(c)
  BY DEF HearAdd
<1>2. down' \in [Clients -> Seq(DownMsg)]
  BY <1>1, HearsDoes
<1>3. Head(down[c]).scenes \in SUBSET Scenes
  <2>1. Head(down[c]) \in DownMsg
    BY <1>1, HearsDoes
  <2>2. Head(down[c]).type = "add"
    BY DEF HearAdd
  <2> QED BY <2>1, <2>2, DownKinds
<1>4. copies' \in [Clients -> SUBSET Scenes] /\ place' \subseteq Clients
  BY <1>3 DEF HearAdd
<1> QED BY <1>1, <1>2, <1>4 DEF HearAdd, Hears, server

LEMMA HearRemoveTypes ==
  ASSUME TypesOK, NEW c \in Clients, HearRemove(c)
  PROVE  TypesOK'
<1>1. Hears(c)
  BY DEF HearRemove
<1>2. down' \in [Clients -> Seq(DownMsg)]
  BY <1>1, HearsDoes
<1>3. phase' \in [Scenes -> {"new", "parent", "asked", "named", "gone"}] /\ copies' \in [Clients -> SUBSET Scenes]
  BY WithoutTypes DEF HearRemove
<1>4. place' \subseteq Clients
  BY DEF HearRemove
<1> QED BY <1>1, <1>2, <1>3, <1>4 DEF HearRemove, Hears, server

LEMMA HearIdsTypes ==
  ASSUME TypesOK, NEW c \in Clients, HearIds(c)
  PROVE  TypesOK'
<1>1. Hears(c)
  BY DEF HearIds
<1>2. down' \in [Clients -> Seq(DownMsg)]
  BY <1>1, HearsDoes
<1>3. Head(down[c]).scene \in Scenes
  <2>1. Head(down[c]) \in DownMsg
    BY <1>1, HearsDoes
  <2>2. Head(down[c]).type = "ids"
    BY DEF HearIds
  <2> QED BY <2>1, <2>2, DownKinds
<1>4. ident' \in [Scenes -> Scenes \cup {None}] /\ phase' \in [Scenes -> {"new", "parent", "asked", "named", "gone"}]
  BY <1>3 DEF HearIds
<1> QED BY <1>1, <1>2, <1>4 DEF HearIds, Hears, server

LEMMA HearCallTypes ==
  ASSUME TypesOK, NEW c \in Clients, HearCall(c)
  PROVE  TypesOK'
<1>1. Hears(c)
  BY DEF HearCall
<1>2. down' \in [Clients -> Seq(DownMsg)]
  BY <1>1, HearsDoes
<1> QED BY <1>1, <1>2 DEF HearCall, Hears, server

LEMMA ResumeTypes ==
  ASSUME TypesOK, NEW c \in Clients, SentResume(c)
  PROVE  TypesOK'
<1>1. /\ waiting' \in [Clients -> Seq(Coroutine)] /\ up' \in [Clients -> Seq(UpMsg)]
      /\ tokens' \in [Clients -> Seq(Scenes)]
      /\ phase' \in [Scenes -> {"new", "parent", "asked", "named", "gone"}]
  BY ResumeDoes
<1>2. polling' = polling \ {c} /\ UNCHANGED <<server, maker, under, ident, place, copies, down, made, heard>>
  BY DEF SentResume
<1> QED BY <1>1, <1>2 DEF server

LEMMA HandlesDoes ==
  ASSUME TypesOK, NEW c \in Clients, Handles(c)
  PROVE  /\ c \in Connected /\ up' \in [Clients -> Seq(UpMsg)]
         /\ \A d \in Clients : up'[d] = IF d = c THEN Tail(up[c]) ELSE up[d]
         /\ Drops(up'[c], up[c]) /\ Head(up[c]) = up[c][1] /\ up[c][1] \in UpMsg
         /\ Len(up[c]) \in Nat \ {0} /\ 1 \in DOMAIN up[c]
         /\ UNCHANGED <<status, hidden, maker, under, client, made>>
<1>1. up[c] \in Seq(UpMsg) /\ up[c] # <<>>
  BY DEF Handles
<1>2. /\ Tail(up[c]) \in Seq(UpMsg) /\ Drops(Tail(up[c]), up[c]) /\ Head(up[c]) = up[c][1]
      /\ up[c][1] \in UpMsg /\ Len(up[c]) \in Nat \ {0} /\ 1 \in DOMAIN up[c]
  BY <1>1, TailSeq
<1> QED BY <1>2 DEF Handles

Early(s) == IF InReady THEN <<FromServer(s)>> ELSE <<>>

\* What Accept sends to d.
LEMMA AcceptDoes ==
  ASSUME TypesOK, NEW c \in Clients, Accept(c)
  PROVE  LET m == up[c][1] s == m.scene IN
         /\ Handles(c) /\ m.type = "request" /\ s \in Scenes /\ m.token \in Nat
         /\ under[s] \in nodes \cup {Place} /\ nodes' = nodes \cup {s}
         /\ down' \in [Clients -> Seq(DownMsg)]
         /\ \A d \in Clients : down'[d] =
              IF d = c THEN down[d] \o Early(s) \o <<Named(m.token, s)>>
              ELSE IF s \in VisibleTo(d, nodes') THEN Append(down[d], Shown(FALSE, {s})) ELSE down[d]
         /\ UNCHANGED <<unanswered, heard>>
<1> DEFINE m == up[c][1]
           s == m.scene
<1>1. Handles(c) /\ Head(up[c]) = m /\ m \in UpMsg /\ m.type = "request"
  BY HandlesDoes DEF Accept
<1>2. s \in Scenes /\ m.token \in Nat
  BY <1>1, UpKinds
<1>3. down' = [d \in Clients |->
              IF d = c THEN down[d] \o Early(s) \o <<Named(m.token, s)>>
              ELSE IF s \in VisibleTo(d, nodes') THEN Append(down[d], Shown(FALSE, {s})) ELSE down[d]]
  BY <1>1 DEF Accept, Early
<1>4. Named(m.token, s) \in DownMsg /\ Shown(FALSE, {s}) \in DownMsg /\ FromServer(s) \in DownMsg
  <2> HIDE DEF s, m
  <2>1. FALSE \in BOOLEAN /\ {s} \in SUBSET Scenes
    BY <1>2
  <2> QED BY <1>2, <2>1, MadeMessages
<1>5. <<Named(m.token, s)>> \in Seq(DownMsg) /\ Early(s) \in Seq(DownMsg)
  BY <1>4 DEF Early
<1>6. \A d \in Clients : /\ down[d] \o Early(s) \o <<Named(m.token, s)>> \in Seq(DownMsg)
                         /\ Append(down[d], Shown(FALSE, {s})) \in Seq(DownMsg) /\ down[d] \in Seq(DownMsg)
  <2> HIDE DEF s, m
  <2> TAKE d \in Clients
  <2>1. down[d] \in Seq(DownMsg)
    OBVIOUS
  <2>2. down[d] \o Early(s) \in Seq(DownMsg)
    BY <1>5, <2>1
  <2>3. down[d] \o Early(s) \o <<Named(m.token, s)>> \in Seq(DownMsg)
    BY <1>5, <2>2
  <2>4. Append(down[d], Shown(FALSE, {s})) \in Seq(DownMsg)
    <3> DEFINE a == Shown(FALSE, {s})
    <3>1. a \in DownMsg
      BY <1>4
    <3> HIDE DEF a
    <3>2. Append(down[d], a) \in Seq(DownMsg)
      BY <2>1, <3>1
    <3> QED BY <3>2 DEF a
  <2> QED BY <2>1, <2>3, <2>4
<1>7. down' \in [Clients -> Seq(DownMsg)]
  <2> HIDE DEF s, m
  <2> QED BY <1>3, <1>6
<1>8. under[s] \in nodes \cup {Place} /\ nodes' = nodes \cup {s} /\ UNCHANGED <<unanswered, heard>>
  BY <1>1 DEF Accept
<1> QED BY <1>1, <1>2, <1>3, <1>7, <1>8

LEMMA AcceptTypes ==
  ASSUME TypesOK, NEW c \in Clients, Accept(c)
  PROVE  TypesOK'
<1>1. up' \in [Clients -> Seq(UpMsg)] /\ UNCHANGED <<status, hidden, maker, under, client, made>>
  BY AcceptDoes, HandlesDoes
<1>2. down' \in [Clients -> Seq(DownMsg)] /\ nodes' \subseteq Scenes /\ UNCHANGED <<unanswered, heard>>
  <2>1. up[c][1].scene \in Scenes /\ nodes' = nodes \cup {up[c][1].scene}
    BY AcceptDoes
  <2>2. down' \in [Clients -> Seq(DownMsg)] /\ UNCHANGED <<unanswered, heard>>
    BY AcceptDoes
  <2> QED BY <2>1, <2>2
<1> QED BY <1>1, <1>2 DEF client

LEMMA IgnoreTypes ==
  ASSUME TypesOK, NEW c \in Clients, Ignore(c)
  PROVE  TypesOK'
<1>1. Handles(c) /\ up' \in [Clients -> Seq(UpMsg)] /\ Head(up[c]).scene \in Scenes
  <2>1. Handles(c) /\ Head(up[c]).type = "request"
    BY DEF Ignore
  <2>2. Head(up[c]) \in UpMsg /\ up' \in [Clients -> Seq(UpMsg)]
    <3>1. up' \in [Clients -> Seq(UpMsg)] /\ Head(up[c]) = up[c][1] /\ up[c][1] \in UpMsg
      BY <2>1, HandlesDoes
    <3> QED BY ONLY <3>1
  <2> QED BY <2>1, <2>2, UpKinds
<1> QED BY <1>1 DEF Ignore, Handles, client

LEMMA RunTypes ==
  ASSUME TypesOK, NEW c \in Clients, Run(c)
  PROVE  TypesOK'
<1>1. Handles(c) /\ up' \in [Clients -> Seq(UpMsg)]
  BY HandlesDoes DEF Run
<1>2. [from |-> Head(up[c]).from, n |-> Head(up[c]).n] \in [from : Scenes \cup {None}, n : Nat]
  <2>1. Head(up[c]) \in UpMsg /\ Head(up[c]).type = "call"
    <3>1. Head(up[c]) = up[c][1] /\ up[c][1] \in UpMsg
      BY <1>1, HandlesDoes
    <3>2. Head(up[c]).type = "call"
      BY DEF Run
    <3> QED BY ONLY <3>1, <3>2
  <2>2. Head(up[c]).from \in Scenes /\ Head(up[c]).n \in Nat
    BY <2>1, UpKinds
  <2> QED BY <2>2
<1>3. heard' \in [Scenes -> Seq([from : Scenes \cup {None}, n : Nat])]
  <2> DEFINE r == [from |-> Head(up[c]).from, n |-> Head(up[c]).n]
             T == [from : Scenes \cup {None}, n : Nat]
             x == Head(up[c]).scene
  <2>1. heard' = heard \/ (x \in nodes /\ heard' = [heard EXCEPT ![x] = Append(heard[x], r)])
    BY DEF Run
  <2>2. r \in T /\ heard \in [Scenes -> Seq(T)]
    BY <1>2
  <2> HIDE DEF r, T, x
  <2>3. x \in nodes => x \in Scenes /\ Append(heard[x], r) \in Seq(T)
    BY <2>2
  <2>4. heard' \in [Scenes -> Seq(T)]
    BY <2>1, <2>2, <2>3
  <2> QED BY <2>4 DEF T
<1> QED BY <1>1, <1>3 DEF Run, Handles, client

\* The server tells something to some of the clients.
Tells(m, D) == down' = [d \in Clients |-> IF d \in D THEN Append(down[d], m) ELSE down[d]]

LEMMA TellsDoes ==
  ASSUME TypesOK, NEW m \in DownMsg, NEW D, Tells(m, D)
  PROVE  /\ down' \in [Clients -> Seq(DownMsg)]
         /\ \A d \in Clients : down'[d] = IF d \in D THEN Append(down[d], m) ELSE down[d]
<1>1. \A d \in Clients : down[d] \in Seq(DownMsg) /\ Append(down[d], m) \in Seq(DownMsg)
  BY AppendSeq
<1> QED BY <1>1 DEF Tells

LEMMA CallAllDoes ==
  ASSUME TypesOK, NEW s \in Scenes, CallAll(s)
  PROVE  /\ s \in nodes /\ Tells(FromServer(s), Observing(s)) /\ FromServer(s) \in DownMsg
         /\ UNCHANGED <<server, maker, under, client, up, made, heard>>
BY MadeMessages DEF CallAll, Tells

LEMMA FreeDoes ==
  ASSUME TypesOK, NEW s \in Scenes, Free(s)
  PROVE  /\ s \in nodes /\ Tells(Removed(s), Observing(s)) /\ Removed(s) \in DownMsg
         /\ nodes' = nodes \ Below(s)
         /\ UNCHANGED <<status, hidden, unanswered, maker, under, client, up, made, heard>>
BY MadeMessages DEF Free, Tells

LEMMA HideDoes ==
  ASSUME TypesOK, NEW c \in Clients, Hide(c)
  PROVE  /\ c \in Connected \ hidden /\ hidden' = hidden \cup {c}
         /\ Tells(Removed(Place), {c}) /\ Removed(Place) \in DownMsg
         /\ UNCHANGED <<status, nodes, unanswered, maker, under, client, up, made, heard>>
BY MadeMessages DEF Hide, Tells

LEMMA ShowDoes ==
  ASSUME TypesOK, NEW c \in Clients, Show(c)
  PROVE  /\ c \in hidden /\ hidden' = hidden \ {c}
         /\ Tells(Shown(TRUE, Others(c, nodes)), {c}) /\ Shown(TRUE, Others(c, nodes)) \in DownMsg
         /\ UNCHANGED <<status, nodes, unanswered, maker, under, client, up, made, heard>>
<1>1. TRUE \in BOOLEAN /\ Others(c, nodes) \in SUBSET Scenes
  BY OthersScenes
<1>2. Shown(TRUE, Others(c, nodes)) \in DownMsg
  BY <1>1, MadeMessages
<1> QED BY <1>2 DEF Show, Tells

LEMMA CallAllTypes ==
  ASSUME TypesOK, NEW s \in Scenes, CallAll(s)
  PROVE  TypesOK'
<1>1. down' \in [Clients -> Seq(DownMsg)]
  BY CallAllDoes, TellsDoes
<1> QED BY <1>1 DEF CallAll, client, server

LEMMA FreeTypes ==
  ASSUME TypesOK, NEW s \in Scenes, Free(s)
  PROVE  TypesOK'
<1>1. down' \in [Clients -> Seq(DownMsg)]
  BY FreeDoes, TellsDoes
<1> QED BY <1>1 DEF Free, client

LEMMA HideTypes ==
  ASSUME TypesOK, NEW c \in Clients, Hide(c)
  PROVE  TypesOK'
<1>1. down' \in [Clients -> Seq(DownMsg)]
  BY HideDoes, TellsDoes
<1> QED BY <1>1 DEF Hide, client

LEMMA ShowTypes ==
  ASSUME TypesOK, NEW c \in Clients, Show(c)
  PROVE  TypesOK'
<1>1. down' \in [Clients -> Seq(DownMsg)]
  BY ShowDoes, TellsDoes
<1> QED BY <1>1 DEF Show, client

LEMMA ConnectTypes ==
  ASSUME TypesOK, NEW c \in Clients, Connect(c)
  PROVE  TypesOK' /\ Shown(TRUE, Others(c, nodes)) \in DownMsg
<1>1. TRUE \in BOOLEAN /\ Others(c, nodes) \in SUBSET Scenes
  BY OthersScenes
<1>2. Shown(TRUE, Others(c, nodes)) \in DownMsg
  BY <1>1, MadeMessages
<1>3. <<Shown(TRUE, Others(c, nodes))>> \in Seq(DownMsg)
  <2> DEFINE m == Shown(TRUE, Others(c, nodes))
  <2>1. m \in DownMsg
    BY <1>2
  <2> HIDE DEF m
  <2>2. <<m>> \in Seq(DownMsg)
    BY <2>1
  <2> QED BY <2>2 DEF m
<1>4. down' \in [Clients -> Seq(DownMsg)]
  BY <1>3 DEF Connect
<1>5. status' \in [Clients -> {"out", "in", "left"}]
  BY DEF Connect
<1> QED BY <1>2, <1>4, <1>5 DEF Connect, client

LEMMA DisconnectTypes ==
  ASSUME TypesOK, NEW c \in Clients, Disconnect(c)
  PROVE  TypesOK'
<1>1. phase' \in [Scenes -> {"new", "parent", "asked", "named", "gone"}] /\ copies' \in [Clients -> SUBSET Scenes]
  BY WithoutTypes DEF Disconnect
<1>2. /\ down' \in [Clients -> Seq(DownMsg)] /\ up' \in [Clients -> Seq(UpMsg)]
      /\ waiting' \in [Clients -> Seq(Coroutine)] /\ status' \in [Clients -> {"out", "in", "left"}]
  <2>1. <<>> \in Seq(DownMsg) /\ <<>> \in Seq(UpMsg) /\ <<>> \in Seq(Coroutine)
    OBVIOUS
  <2> QED BY <2>1 DEF Disconnect
<1> QED BY <1>1, <1>2 DEF Disconnect

HIDE DEF TypesOK

LEMMA TypesNext == TypesOK /\ [SentNext]_vars => TypesOK'
<1> SUFFICES ASSUME TypesOK, [SentNext]_vars PROVE TypesOK'
  OBVIOUS
<1>1. ASSUME NEW c \in Clients, NEW s \in Scenes, NEW p \in Scenes \cup {Place}, SentRequest(c, s, p) PROVE TypesOK'
  BY <1>1, RequestTypes
<1>2. ASSUME NEW c \in Clients, NEW s \in Scenes, Call(c, s) \/ FreeOwn(c, s) PROVE TypesOK'
  BY <1>2, CallTypes, FreeOwnTypes
<1>3. ASSUME NEW c \in Clients, HearAdd(c) \/ HearRemove(c) \/ HearIds(c) \/ HearCall(c) \/ SentResume(c) PROVE TypesOK'
  BY <1>3, HearAddTypes, HearRemoveTypes, HearIdsTypes, HearCallTypes, ResumeTypes
<1>4. ASSUME NEW c \in Clients, Accept(c) \/ Ignore(c) \/ Run(c) PROVE TypesOK'
  BY <1>4, AcceptTypes, IgnoreTypes, RunTypes
<1>5. ASSUME NEW c \in Clients, Hide(c) \/ Show(c) \/ Connect(c) \/ Disconnect(c) PROVE TypesOK'
  BY <1>5, HideTypes, ShowTypes, ConnectTypes, DisconnectTypes
<1>6. ASSUME NEW s \in Scenes, CallAll(s) \/ Free(s) PROVE TypesOK'
  BY <1>6, CallAllTypes, FreeTypes
<1>7. CASE UNCHANGED vars
  BY <1>7 DEF vars, server, client, TypesOK
<1> QED BY <1>1, <1>2, <1>3, <1>4, <1>5, <1>6, <1>7 DEF SentNext

HIDE DEF TypesOK

(* The invariants. *)
Live(s) == phase[s] \in {"parent", "asked", "named"}
NotOwn(c, s) == \A y \in Path(s) : maker[y] \notin {c, None}
Sees(c) == IF c \in Connected \ hidden THEN {Place} \cup Others(c, nodes) ELSE {}

\* What has no maker is not there yet; the rest is in a tree.
Tree ==
  /\ \A s \in Scenes : phase[s] = "new" <=> maker[s] = None
  /\ \A s \in Scenes : maker[s] = None => under[s] = None
  /\ \A s \in Scenes : maker[s] # None => under[s] = Place \/ (under[s] \in Scenes /\ maker[under[s]] # None)
  /\ \A s \in nodes \cup unanswered : maker[s] # None
  /\ \A s \in nodes : under[s] = Place \/ under[s] \in nodes

\* Nothing that a client makes in another's scene has a scene of its own above that.
OwnAtTheEnd ==
  \A s \in Scenes : maker[s] # None /\ under[s] \in Scenes /\ maker[under[s]] # maker[s] =>
    \A y \in Path(under[s]) : maker[y] # maker[s]

\* Of a client that is not connected.
NothingLeft ==
  \A c \in Clients : c \notin Connected =>
    /\ down[c] = <<>> /\ up[c] = <<>> /\ waiting[c] = <<>> /\ c \notin polling /\ c \notin hidden
    /\ \A s \in Scenes : maker[s] = c => phase[s] = "gone"

\* A client that hears all that is on its way has what it is to see.
ViewRight == \A c \in Clients, x \in Places : At(c, Len(down[c]), x) <=> x \in Sees(c)

\* A message that shows something comes when its parent is there, or with it.
Fits(c, m, k) ==
  m.type = "add" =>
    /\ m.place \/ At(c, k, Place)
    /\ \A s \in m.scenes : NotOwn(c, s) /\ (Shows(m, under[s]) \/ At(c, k, under[s]))
ParentsFirst == \A c \in Clients : \A i \in 1 .. Len(down[c]) : Fits(c, down[c][i], i - 1)

CopiesOfOthers == \A c \in Clients : \A s \in copies[c] : c \in place /\ NotOwn(c, s)

\* What a client made is somewhere.
OwnHasParent ==
  \A s \in Scenes : Live(s) =>
    /\ maker[s] \in place
    /\ under[s] \in Scenes /\ maker[under[s]] = maker[s] => phase[under[s]] \in {"asked", "named"}

(* The kinds of steps, for a client. *)
HasSame(d) == \A x \in Places : Has(d, x)' <=> Has(d, x)
Quiet(d) ==
  /\ HasSame(d) /\ Extends(down'[d], down[d])
  /\ \A i \in Len(down[d]) + 1 .. Len(down'[d]) : down'[d][i].type \in {"ids", "call"}
Told(d, m) == HasSame(d) /\ down'[d] = Append(down[d], m)
HeardBy(d) ==
  /\ Drops(down'[d], down[d])
  /\ \A x \in Places : Has(d, x)' <=> Shows(down[d][1], x) \/ (Has(d, x) /\ ~ Hides(down[d][1], Up(x)))

LEMMA UpSame ==
  ASSUME under' = under
  PROVE  \A x : Up(x)' = Up(x)
BY PathSame DEF Up

LEMMA LenNat ==
  ASSUME TypesOK
  PROVE  \A c \in Clients : Len(down[c]) \in Nat /\ Len(up[c]) \in Nat /\ Len(waiting[c]) \in Nat /\ Len(tokens[c]) \in Nat
BY DEF TypesOK

LEMMA AtQuiet ==
  ASSUME TypesOK, TypesOK', NEW d \in Clients, Quiet(d), NEW x \in Places, Up(x)' = Up(x), NEW k \in Nat
  PROVE  /\ k <= Len(down[d]) => (At(d, k, x)' <=> At(d, k, x))
         /\ k \in Len(down[d]) .. Len(down'[d]) => (At(d, k, x)' <=> At(d, Len(down[d]), x))
<1>0. PICK n \in Nat, m \in Nat : n = Len(down[d]) /\ m = Len(down'[d])
  BY DEF TypesOK
<1>1. n <= m
  BY <1>0 DEF Quiet, Extends
<1>2. /\ \A i \in 1 .. n : down'[d][i] = down[d][i]
      /\ \A i \in n + 1 .. m : down'[d][i].type \in {"ids", "call"}
      /\ Has(d, x)' <=> Has(d, x)
  BY <1>0 DEF Quiet, Extends, HasSame
<1>3. ASSUME NEW j \in 0 .. n PROVE At(d, j, x)' <=> At(d, j, x)
  <2>1. \A i \in 1 .. j : down'[d][i] = down[d][i]
    BY <1>1, <1>2
  <2>2. j \in Nat
    BY <1>1
  <2>3. Held(down'[d], Has(d, x)', j, x, Up(x)) <=> Held(down[d], Has(d, x), j, x, Up(x))
    BY <1>2, <2>1, <2>2, HeldSame
  <2> QED BY <2>3 DEF At
<1> DEFINE S == {j \in Nat : n + j <= m => (At(d, n + j, x)' <=> At(d, n, x))}
<1>4. 0 \in S
  <2>1. n \in 0 .. n /\ n + 0 = n
    BY <1>1
  <2> QED BY <1>3, <2>1
<1>5. ASSUME NEW j \in 0 .. m, j < m, j \in S PROVE j + 1 \in S
  <2> SUFFICES ASSUME n + (j + 1) <= m PROVE At(d, n + (j + 1), x)' <=> At(d, n, x)
    BY <1>1
  <2>1. n + j \in Nat /\ n + j <= m /\ (n + j) + 1 = n + (j + 1) /\ (n + j) + 1 \in n + 1 .. m
    BY <1>1
  <2>2. ~ Shows(down'[d][(n + j) + 1], x) /\ ~ Hides(down'[d][(n + j) + 1], Up(x))
    BY <1>2, <2>1 DEF Shows, Hides
  <2>3. Held(down'[d], Has(d, x)', (n + j) + 1, x, Up(x)) <=> Held(down'[d], Has(d, x)', n + j, x, Up(x))
    BY <2>1, <2>2, HeldOne
  <2>4. At(d, (n + j) + 1, x)' <=> At(d, n + j, x)'
    BY <2>3 DEF At
  <2>5. At(d, n + j, x)' <=> At(d, n, x)
    BY <1>5, <2>1
  <2>6. At(d, n + (j + 1), x)' <=> At(d, (n + j) + 1, x)'
    BY <2>1
  <2> QED BY <2>4, <2>5, <2>6
<1>6. ASSUME NEW i \in n .. m PROVE At(d, i, x)' <=> At(d, n, x)
  <2>1. i - n \in 0 .. m /\ n + (i - n) = i /\ i - n \in Nat /\ n + (i - n) <= m
    BY <1>1
  <2>2. \A j \in 0 .. m : j \in S
    <3> HIDE DEF S
    <3> QED BY <1>1, <1>4, <1>5, UpTo
  <2>3. i - n \in S
    BY <2>1, <2>2
  <2>4. At(d, n + (i - n), x)' <=> At(d, n, x)
    BY <2>1, <2>3
  <2> HIDE DEF S
  <2> QED BY <2>1, <2>4
<1>7. k <= n => k \in 0 .. n
  BY <1>0
<1> QED BY <1>0, <1>3, <1>6, <1>7

LEMMA ToldDoes ==
  ASSUME TypesOK, NEW d \in Clients, NEW m \in DownMsg, down'[d] = Append(down[d], m)
  PROVE  /\ Len(down[d]) \in Nat /\ Len(down'[d]) = Len(down[d]) + 1 /\ down'[d][Len(down[d]) + 1] = m
         /\ \A i \in 1 .. Len(down[d]) : down'[d][i] = down[d][i]
         /\ Extends(down'[d], down[d])
<1>1. down[d] \in Seq(DownMsg)
  BY DEF TypesOK
<1> QED BY <1>1, AppendSeq DEF Extends

LEMMA AtTold ==
  ASSUME TypesOK, TypesOK', NEW d \in Clients, NEW m \in DownMsg, Told(d, m), NEW x \in Places, Up(x)' = Up(x),
         NEW k \in Nat
  PROVE  /\ k <= Len(down[d]) => (At(d, k, x)' <=> At(d, k, x))
         /\ k = Len(down[d]) + 1 =>
              (At(d, k, x)' <=> Shows(m, x) \/ (At(d, Len(down[d]), x) /\ ~ Hides(m, Up(x))))
<1>0. PICK n \in Nat : n = Len(down[d])
  BY LenNat
<1>1. Len(down'[d]) = n + 1 /\ down'[d][n + 1] = m /\ \A i \in 1 .. n : down'[d][i] = down[d][i]
  BY <1>0, ToldDoes DEF Told
<1>2. Has(d, x)' <=> Has(d, x)
  BY DEF Told, HasSame
<1>3. ASSUME NEW i \in 0 .. n PROVE At(d, i, x)' <=> At(d, i, x)
  <2>1. \A j \in 1 .. i : down'[d][j] = down[d][j]
    BY <1>1
  <2>2. i \in Nat
    BY <1>1
  <2>3. Held(down'[d], Has(d, x)', i, x, Up(x)) <=> Held(down[d], Has(d, x), i, x, Up(x))
    BY <1>2, <2>1, <2>2, HeldSame
  <2> QED BY <2>3 DEF At
<1>4. Held(down'[d], Has(d, x)', n + 1, x, Up(x))
        <=> Shows(down'[d][n + 1], x) \/ (Held(down'[d], Has(d, x)', n, x, Up(x)) /\ ~ Hides(down'[d][n + 1], Up(x)))
  BY HeldOne
<1>5. n \in 0 .. n
  OBVIOUS
<1>6. At(d, n, x)' <=> At(d, n, x)
  BY <1>3, <1>5
<1>7. At(d, n + 1, x)' <=> Shows(m, x) \/ (At(d, n, x) /\ ~ Hides(m, Up(x)))
  BY <1>1, <1>4, <1>6 DEF At
<1>8. k <= n => k \in 0 .. n
  OBVIOUS
<1> QED BY <1>0, <1>3, <1>7, <1>8

LEMMA AtHeard ==
  ASSUME TypesOK, TypesOK', NEW d \in Clients, HeardBy(d), NEW x \in Places, Up(x)' = Up(x),
         NEW k \in 0 .. Len(down'[d])
  PROVE  At(d, k, x)' <=> At(d, k + 1, x)
<1>1. Len(down'[d]) \in Nat /\ Len(down[d]) = Len(down'[d]) + 1 /\ k \in Nat
  BY LenNat DEF HeardBy, Drops, TypesOK
<1>2. \A i \in 1 .. k : down'[d][i] = down[d][i + 1]
  BY <1>1 DEF HeardBy, Drops
<1>3. Has(d, x)' <=> Shows(down[d][1], x) \/ (Has(d, x) /\ ~ Hides(down[d][1], Up(x)))
  BY DEF HeardBy
<1>4. Held(down'[d], Has(d, x)', k, x, Up(x)) <=> Held(down[d], Has(d, x), k + 1, x, Up(x))
  <2> QED BY <1>1, <1>2, <1>3, HeldTail
<1> QED BY <1>4 DEF At

LEMMA AtNone ==
  ASSUME NEW d, NEW x
  PROVE  At(d, 0, x) <=> Has(d, x)
BY HeldNone DEF At

(* What is above. *)
LEMMA MadeAbove ==
  ASSUME TypesOK, Tree, NEW s \in Scenes, maker[s] # None
  PROVE  \A y \in Path(s) : maker[y] # None
<1> DEFINE S == {x \in Scenes : maker[x] # None}
<1>1. Closed(S)
  BY NotAScene DEF Tree, Closed
<1>2. \A y \in Path(s) : y \in S
  BY <1>1, PathIn
<1> QED BY <1>2

LEMMA NodesAbove ==
  ASSUME TypesOK, Tree, NEW s \in nodes
  PROVE  Path(s) \subseteq nodes
<1>1. Closed(nodes) /\ nodes \subseteq Scenes
  BY NotAScene DEF Tree, Closed, TypesOK
<1> QED BY <1>1, PathIn

LEMMA NotOwnAbove ==
  ASSUME NEW c, NEW s, NotOwn(c, s), NEW y \in Path(s)
  PROVE  NotOwn(c, y)
BY PathTrans DEF NotOwn

LEMMA OthersAbove ==
  ASSUME NEW c, NEW S \in SUBSET Scenes, NEW s \in Others(c, S), NEW y \in Path(s)
  PROVE  y \in Others(c, S)
BY PathTrans DEF Others

LEMMA OwnAbove ==
  ASSUME TypesOK, Tree, OwnAtTheEnd, NEW s \in Scenes, maker[s] # None, NEW y \in Path(s), maker[y] # maker[s]
  PROVE  \A z \in Path(y) : maker[z] # maker[s]
<1> DEFINE S == {x \in Scenes : maker[x] = maker[s] \/ \A z \in Path(x) : maker[z] # maker[s]}
<1>1. ASSUME NEW x \in S, under[x] \in Scenes PROVE under[x] \in S
  <2>1. CASE maker[x] = maker[s]
    BY <1>1, <2>1 DEF OwnAtTheEnd
  <2>2. CASE \A z \in Path(x) : maker[z] # maker[s]
    <3>1. Path(under[x]) \subseteq Path(x)
      BY <1>1, PathUnder
    <3> QED BY <1>1, <2>2, <3>1
  <2> QED BY <2>1, <2>2
<1>2. Closed(S) /\ s \in S /\ S \in SUBSET Scenes
  BY <1>1 DEF Closed
<1>3. y \in S
  <2> HIDE DEF S
  <2> QED BY <1>2, PathIn
<1> QED BY <1>3

(* What each action is for the clients. *)
Still(d) == HasSame(d) /\ down'[d] = down[d]

LEMMA StillQuiet ==
  ASSUME TypesOK, NEW d \in Clients, Still(d)
  PROVE  Quiet(d)
<1>1. Len(down[d]) \in Nat
  BY LenNat
<1> QED BY <1>1 DEF Still, Quiet, Extends

LEMMA HasKept ==
  ASSUME UNCHANGED <<place, copies>>
  PROVE  \A d : HasSame(d)
BY DEF HasSame, Has

LEMMA HearAddHears ==
  ASSUME TypesOK, ParentsFirst, NEW c \in Clients, HearAdd(c)
  PROVE  HeardBy(c) /\ \A d \in Clients \ {c} : Still(d)
<1> DEFINE m == down[c][1]
<1>1. Hears(c)
  BY DEF HearAdd
<1>2. /\ Drops(down'[c], down[c]) /\ m = Head(down[c]) /\ 1 \in 1 .. Len(down[c]) /\ under' = under
      /\ \A d \in Clients \ {c} : down'[d] = down[d]
  BY <1>1, HearsDoes
<1>3. m.type = "add"
  BY <1>2 DEF HearAdd
<1>4. m \in DownMsg
  BY <1>1, HearsDoes
<1>5. m.place \in BOOLEAN /\ m.scenes \in SUBSET Scenes
  BY <1>3, <1>4, DownKinds
<1>6. Fits(c, m, 0)
  BY <1>2 DEF ParentsFirst
<1>7. \A s \in m.scenes : Shows(m, under[s]) \/ Has(c, under[s])
  BY <1>3, <1>6, AtNone DEF Fits
<1>8. place' = IF m.place THEN place \cup {c} ELSE place
  BY <1>2 DEF HearAdd
<1>9. copies' = [copies EXCEPT ![c] = copies[c] \cup {s \in m.scenes :
                   IF under[s] = Place THEN m.place \/ c \in place ELSE under[s] \in copies[c] \cup m.scenes}]
  BY <1>2 DEF HearAdd
<1>10. copies' = [copies EXCEPT ![c] = copies[c] \cup m.scenes]
  <2>1. {s \in m.scenes : IF under[s] = Place THEN m.place \/ c \in place ELSE under[s] \in copies[c] \cup m.scenes}
          = m.scenes
    BY <1>3, <1>7 DEF Shows, Has
  <2> QED BY <1>9, <2>1
<1>11. copies'[c] = copies[c] \cup m.scenes /\ \A d \in Clients \ {c} : copies'[d] = copies[d]
  BY <1>10 DEF TypesOK
<1>12. \A x : ~ Hides(m, Up(x))
  BY <1>3 DEF Hides
<1>13. \A x \in Places : Has(c, x)' <=> Shows(m, x) \/ Has(c, x)
  BY <1>3, <1>5, <1>8, <1>11 DEF Has, Shows
<1>14. \A d \in Clients \ {c} : HasSame(d)
  BY <1>8, <1>11 DEF HasSame, Has
<1> QED BY <1>2, <1>12, <1>13, <1>14 DEF HeardBy, Still

LEMMA HearRemoveHears ==
  ASSUME TypesOK, NEW c \in Clients, HearRemove(c)
  PROVE  HeardBy(c) /\ \A d \in Clients \ {c} : Still(d)
<1> DEFINE m == down[c][1]
           s == m.scene
<1>1. Hears(c)
  BY DEF HearRemove
<1>2. /\ Drops(down'[c], down[c]) /\ m = Head(down[c])
      /\ \A d \in Clients \ {c} : down'[d] = down[d]
  BY <1>1, HearsDoes
<1>3. m.type = "remove"
  BY <1>2 DEF HearRemove
<1>4. m \in DownMsg
  BY <1>1, HearsDoes
<1>5. s \in Places
  BY <1>3, <1>4, DownKinds DEF Places
<1>6. place' = IF s = Place THEN place \ {c} ELSE place
  BY <1>2 DEF HearRemove
<1>7. copies' = [copies EXCEPT ![c] = copies[c] \ (IF s = Place THEN Scenes ELSE Below(s))]
  BY <1>2 DEF HearRemove, Without
<1>8. copies'[c] = copies[c] \ (IF s = Place THEN Scenes ELSE Below(s)) /\ \A d \in Clients \ {c} : copies'[d] = copies[d]
  BY <1>7 DEF TypesOK
<1>9. \A x \in Places : Hides(m, Up(x)) <=> s = Place \/ (x # Place /\ s \in Path(x))
  BY <1>3, NotAScene DEF Hides, Up, Places
<1>10. \A x : ~ Shows(m, x)
  BY <1>3 DEF Shows
<1>11. \A x \in Places : Has(c, x)' <=> Has(c, x) /\ ~ Hides(m, Up(x))
  <2> TAKE x \in Places
  <2>1. CASE x = Place
    BY <1>6, <1>9, <2>1 DEF Has
  <2>2. CASE x # Place
    <3>1. x \in Scenes
      BY <2>2 DEF Places
    <3> HIDE DEF s, m
    <3> QED BY <1>8, <1>9, <2>2, <3>1 DEF Has, Below
  <2> QED BY <2>1, <2>2
<1>12. \A d \in Clients \ {c} : HasSame(d)
  BY <1>6, <1>8 DEF HasSame, Has
<1> QED BY <1>2, <1>10, <1>11, <1>12 DEF HeardBy, Still

LEMMA HearOtherHears ==
  ASSUME TypesOK, NEW c \in Clients, HearIds(c) \/ HearCall(c)
  PROVE  HeardBy(c) /\ \A d \in Clients \ {c} : Still(d)
<1> DEFINE m == down[c][1]
<1>1. Hears(c) /\ UNCHANGED <<place, copies>>
  BY DEF HearIds, HearCall
<1>2. /\ Drops(down'[c], down[c]) /\ m = Head(down[c])
      /\ \A d \in Clients \ {c} : down'[d] = down[d]
  BY <1>1, HearsDoes
<1>3. m.type \in {"ids", "call"}
  BY <1>2 DEF HearIds, HearCall
<1>4. \A x : ~ Shows(m, x) /\ \A U : ~ Hides(m, U)
  BY <1>3 DEF Shows, Hides
<1>5. \A d \in Clients : HasSame(d)
  BY <1>1, HasKept
<1> QED BY <1>2, <1>4, <1>5 DEF HeardBy, Still, HasSame

LEMMA FreeOwnStill ==
  ASSUME TypesOK, CopiesOfOthers, NEW c \in Clients, NEW s \in Scenes, FreeOwn(c, s)
  PROVE  copies' = copies /\ \A d \in Clients : Still(d)
<1>1. maker[s] = c /\ UNCHANGED <<down, place>> /\ copies' = [copies EXCEPT ![c] = copies[c] \ Below(s)]
  BY DEF FreeOwn, Without
<1>2. copies[c] \ Below(s) = copies[c]
  BY <1>1 DEF CopiesOfOthers, NotOwn, Below
<1>3. copies' = copies
  BY <1>1, <1>2 DEF TypesOK
<1>4. \A d \in Clients : HasSame(d)
  BY <1>1, <1>3, HasKept
<1> QED BY <1>1, <1>3, <1>4 DEF Still

\* Accept tells its maker the identifier, and those that see it of the node.
LEMMA AcceptTells ==
  ASSUME TypesOK, NEW c \in Clients, Accept(c)
  PROVE  LET s == up[c][1].scene IN
         /\ Quiet(c)
         /\ \A d \in Clients \ {c} :
              IF s \in VisibleTo(d, nodes') THEN Told(d, Shown(FALSE, {s})) ELSE Still(d)
         /\ Len(down'[c]) >= Len(down[c]) + 1 /\ down'[c][Len(down'[c])] = Named(up[c][1].token, s)
         /\ \A i \in Len(down[c]) + 1 .. Len(down'[c]) :
              i # Len(down'[c]) => InReady /\ down'[c][i] = FromServer(s)
<1> DEFINE m == up[c][1]
           s == m.scene
           z == Named(m.token, s)
<1>0. /\ Handles(c) /\ \A d \in Clients : down'[d] =
              IF d = c THEN down[d] \o Early(s) \o <<z>>
              ELSE IF s \in VisibleTo(d, nodes') THEN Append(down[d], Shown(FALSE, {s})) ELSE down[d]
  BY AcceptDoes
<1>1. UNCHANGED <<place, copies>>
  BY <1>0, HandlesDoes DEF client
<1>2. \A d \in Clients : HasSame(d)
  BY <1>1, HasKept
<1>3. \A d \in Clients \ {c} : IF s \in VisibleTo(d, nodes') THEN Told(d, Shown(FALSE, {s})) ELSE Still(d)
  <2> HIDE DEF s
  <2> QED BY <1>0, <1>2 DEF Told, Still
<1>4. down'[c] = down[c] \o Early(s) \o <<z>> /\ down[c] \in Seq(DownMsg) /\ down'[c] \in Seq(DownMsg)
  <2>1. down[c] \in Seq(DownMsg)
    BY DEF TypesOK
  <2>2. down'[c] \in Seq(DownMsg)
    BY AcceptDoes
  <2> QED BY <1>0, <2>1, <2>2
<1>5. s \in Scenes
  BY AcceptDoes
<1> DEFINE y == FromServer(s)
<1>6. y.type = "call" /\ z.type = "ids" /\ y \in DownMsg /\ z \in DownMsg
  <2>1. up[c][1].token \in Nat
    BY AcceptDoes
  <2> QED BY <1>5, <2>1, MadeMessages DEF FromServer, Calls, Named
<1> HIDE DEF s, m, z, y
<1>7. PICK n \in Nat : n = Len(down[c])
  BY LenNat
<1>8. CASE InReady
  <2>1. Early(s) = <<y>>
    BY <1>8 DEF Early, y
  <2>2. /\ Len(down'[c]) = n + 2 /\ down'[c][n + 1] = y /\ down'[c][n + 2] = z
        /\ \A i \in 1 .. n : down'[c][i] = down[c][i]
    BY <1>4, <1>6, <1>7, <2>1
  <2>3. Extends(down'[c], down[c])
    BY <1>7, <2>2 DEF Extends
  <2>4. \A i \in n + 1 .. n + 2 : i = n + 1 \/ i = n + 2
    OBVIOUS
  <2>5. Quiet(c)
    BY <1>2, <1>6, <1>7, <2>2, <2>3, <2>4 DEF Quiet
  <2>6. \A i \in n + 1 .. n + 2 : i # n + 2 => InReady /\ down'[c][i] = FromServer(s)
    BY <1>8, <2>2, <2>4 DEF y
  <2>7. Len(down'[c]) >= n + 1
    BY <2>2
  <2> QED BY <1>3, <1>7, <2>2, <2>5, <2>6, <2>7 DEF z, s, m
<1>9. CASE ~ InReady
  <2>1. Early(s) = <<>>
    BY <1>9 DEF Early
  <2>2. /\ Len(down'[c]) = n + 1 /\ down'[c][n + 1] = z
        /\ \A i \in 1 .. n : down'[c][i] = down[c][i]
    BY <1>4, <1>6, <1>7, <2>1
  <2>3. Extends(down'[c], down[c])
    BY <1>7, <2>2 DEF Extends
  <2>4. \A i \in n + 1 .. n + 1 : i = n + 1
    OBVIOUS
  <2>5. Quiet(c)
    BY <1>2, <1>6, <1>7, <2>2, <2>3, <2>4 DEF Quiet
  <2>6. \A i \in n + 1 .. n + 1 : i # n + 1 => InReady /\ down'[c][i] = FromServer(s)
    BY <2>4
  <2>7. Len(down'[c]) >= n + 1
    BY <2>2
  <2> QED BY <1>3, <1>7, <2>2, <2>5, <2>6, <2>7 DEF z, s, m
<1> QED BY <1>8, <1>9

LEMMA TellsTold ==
  ASSUME TypesOK, NEW m \in DownMsg, NEW D, Tells(m, D), UNCHANGED <<place, copies>>
  PROVE  \A d \in Clients : IF d \in D THEN Told(d, m) ELSE Still(d)
<1>1. \A d \in Clients : HasSame(d)
  BY HasKept
<1> QED BY <1>1, TellsDoes DEF Told, Still

(* The answers. *)
Req(m, s) == m.type = "request" /\ m.scene = s
Ids(m, s) == m.type = "ids" /\ m.scene = s
IsCall(m, s, n) == m.type = "call" /\ m.from = s /\ m.n = n
HasIds(c, k, s) == \E i \in 1 .. k : Ids(down[c][i], s)

\* A node that waits for its identifier has asked for it.
AskedFor ==
  \A s \in Scenes : phase[s] = "asked" =>
    \/ s \in unanswered
    \/ \E i \in 1 .. Len(up[maker[s]]) : Req(up[maker[s]][i], s)
    \/ HasIds(maker[s], Len(down[maker[s]]), s)

\* One that waits for its parent has a coroutine that does.
ParentWaits ==
  \A s \in Scenes : phase[s] = "parent" =>
    /\ under[s] \in Scenes /\ maker[under[s]] = maker[s]
    /\ \E i \in 1 .. Len(waiting[maker[s]]) :
         waiting[maker[s]][i].scene = s /\ waiting[maker[s]][i].n = 0

Waits(c, w) ==
  /\ maker[w.scene] = c /\ w.n <= made[w.scene]
  /\ w.n = 0 => under[w.scene] \in Scenes /\ maker[under[w.scene]] = c /\ phase[w.scene] \in {"parent", "gone"}
  /\ w.n # 0 => phase[w.scene] \in {"asked", "named", "gone"}
WaitersRight == \A c \in Clients : \A i \in 1 .. Len(waiting[c]) : Waits(c, waiting[c][i])
WaitersDiffer == \A c \in Clients : \A i, j \in 1 .. Len(waiting[c]) : i # j => waiting[c][i] # waiting[c][j]

\* There is one request for a scene, or one answer, or its calls.
Token(c, m) == m.token \in 1 .. Len(tokens[c]) /\ tokens[c][m.token] = m.scene /\ maker[m.scene] = c
RequestsRight ==
  \A c \in Clients : \A i \in 1 .. Len(up[c]) : up[c][i].type = "request" =>
    /\ Token(c, up[c][i]) /\ up[c][i].scene \notin nodes \cup unanswered
    /\ phase[up[c][i].scene] \in {"asked", "gone"}
OneRequest ==
  \A c \in Clients : \A i, j \in 1 .. Len(up[c]) : up[c][i].type = "request" /\ i # j =>
    ~ Req(up[c][j], up[c][i].scene)
RequestOrCall ==
  \A c \in Clients : \A i, j \in 1 .. Len(up[c]) : up[c][i].type = "request" /\ up[c][j].type = "call" =>
    up[c][j].from # up[c][i].scene
RequestOrIds ==
  \A c \in Clients : \A i \in 1 .. Len(up[c]), j \in 1 .. Len(down[c]) : up[c][i].type = "request" =>
    ~ Ids(down[c][j], up[c][i].scene)
IdsRight ==
  \A c \in Clients : \A i \in 1 .. Len(down[c]) : down[c][i].type = "ids" =>
    /\ Token(c, down[c][i]) /\ down[c][i].scene \notin unanswered
    /\ phase[down[c][i].scene] \in {"asked", "gone"}
OneAnswer ==
  \A c \in Clients : \A i, j \in 1 .. Len(down[c]) : down[c][i].type = "ids" /\ i # j =>
    ~ Ids(down[c][j], down[c][i].scene)
UnansweredAsked == \A s \in unanswered : phase[s] \in {"asked", "gone"}

\* A call that was sent.
SentCall(c, m) ==
  /\ maker[m.from] = c /\ m.scene = m.from /\ phase[m.from] \in {"named", "gone"}
  /\ m.n # 0 /\ m.n <= made[m.from]
CallsRight == \A c \in Clients : \A i \in 1 .. Len(up[c]) : up[c][i].type = "call" => SentCall(c, up[c][i])
CallsDiffer ==
  \A c \in Clients : \A i, j \in 1 .. Len(up[c]) : up[c][i].type = "call" /\ i # j =>
    ~ IsCall(up[c][j], up[c][i].from, up[c][i].n)
SentOrWaits ==
  \A c \in Clients : \A i \in 1 .. Len(up[c]), j \in 1 .. Len(waiting[c]) : up[c][i].type = "call" =>
    waiting[c][j].scene # up[c][i].from \/ waiting[c][j].n # up[c][i].n

NamedRight == \A s \in Scenes : phase[s] = "named" => ident[s] = s

\* The maker of a node knows its identifier, or is about to, and the node is there
\* as long as its maker has it or is not told otherwise.
Knows(s) == phase[s] = "named" \/ (phase[s] = "asked" /\ HasIds(maker[s], Len(down[maker[s]]), s))
Leaving(s) == \E i \in 1 .. Len(down[maker[s]]) : Hides(down[maker[s]][i], Up(s))
NodesKnown == \A s \in nodes : phase[s] = "gone" \/ Knows(s)
KnownStay == \A s \in Scenes : Knows(s) => s \in nodes \/ Leaving(s)

\* A call of the server finds its node when it arrives.
Finds(c, m, k) ==
  m.type = "call" =>
    \/ At(c, k, m.scene)
    \/ /\ maker[m.scene] = c
       /\ phase[m.scene] \in {"named", "gone"} \/ (phase[m.scene] = "asked" /\ HasIds(c, k, m.scene))
CallsFind == \A c \in Clients : \A i \in 1 .. Len(down[c]) : Finds(c, down[c][i], i - 1)

\* Between frames all coroutines that wait have to.
StillWait ==
  \A c \in Clients \ polling : \A i \in 1 .. Len(waiting[c]) :
    Resumes(waiting[c][i]) => phase[waiting[c][i].scene] = "gone"

NoneYet == \A s \in Scenes : phase[s] \in {"new", "parent"} => made[s] = 0 /\ heard[s] = <<>>

Structure == Tree /\ OwnAtTheEnd /\ NothingLeft
View == ViewRight /\ ParentsFirst /\ CopiesOfOthers /\ OwnHasParent
Waiting == ParentWaits /\ WaitersRight /\ WaitersDiffer
Asking == RequestsRight /\ OneRequest /\ RequestOrCall /\ RequestOrIds /\ IdsRight /\ OneAnswer /\ UnansweredAsked
Calling == CallsRight /\ CallsDiffer /\ SentOrWaits
Naming == NamedRight /\ NodesKnown /\ KnownStay

Core ==
  /\ Structure /\ View /\ Waiting /\ Asking /\ Calling /\ Naming
  /\ AskedFor /\ StillWait /\ NoneYet

LEMMA CoreParts ==
  ASSUME Core
  PROVE  /\ Tree /\ OwnAtTheEnd /\ NothingLeft
         /\ ViewRight /\ ParentsFirst /\ CopiesOfOthers /\ OwnHasParent
         /\ ParentWaits /\ WaitersRight /\ WaitersDiffer
         /\ RequestsRight /\ OneRequest /\ RequestOrCall /\ RequestOrIds /\ IdsRight /\ OneAnswer /\ UnansweredAsked
         /\ CallsRight /\ CallsDiffer /\ SentOrWaits
         /\ NamedRight /\ NodesKnown /\ KnownStay
         /\ AskedFor /\ StillWait /\ NoneYet
BY DEF Core, Structure, View, Waiting, Asking, Calling, Naming

LEMMA SameTree ==
  ASSUME UNCHANGED <<maker, under>>
  PROVE  /\ \A c, s : NotOwn(c, s)' <=> NotOwn(c, s)
         /\ OwnAtTheEnd => OwnAtTheEnd'
<1>1. \A s : Path(s)' = Path(s)
  BY PathSame
<1>2. \A c, s : NotOwn(c, s)' <=> NotOwn(c, s)
  BY <1>1 DEF NotOwn
<1>3. OwnAtTheEnd => OwnAtTheEnd'
  BY <1>1 DEF OwnAtTheEnd
<1> QED BY <1>2, <1>3

(* The server tells something. *)
LEMMA TellingAsks ==
  ASSUME TypesOK, TypesOK', Core, NEW m \in DownMsg, m.type # "ids", NEW D,
         \A d \in Clients : IF d \in D THEN Told(d, m) ELSE Still(d),
         UNCHANGED <<unanswered, maker, under, client, up, made, heard>>, nodes' \subseteq nodes
  PROVE  /\ Asking' /\ AskedFor' /\ NodesKnown'
         /\ \A d \in Clients : Extends(down'[d], down[d])
<1>1. \A d \in Clients : /\ Len(down[d]) \in Nat /\ Len(down'[d]) \in Nat /\ Extends(down'[d], down[d])
                         /\ \A i \in 1 .. Len(down'[d]) : i \in 1 .. Len(down[d]) \/ down'[d][i].type # "ids"
  <2> TAKE d \in Clients
  <2>1. Len(down[d]) \in Nat
    BY LenNat
  <2>2. CASE d \in D
    <3>1. down'[d] = Append(down[d], m)
      BY <2>2 DEF Told
    <3>2. /\ Len(down'[d]) = Len(down[d]) + 1 /\ down'[d][Len(down[d]) + 1] = m
          /\ \A i \in 1 .. Len(down[d]) : down'[d][i] = down[d][i]
      BY <3>1, ToldDoes
    <3> QED BY <2>1, <3>2 DEF Extends
  <2>3. CASE d \notin D
    BY <2>1, <2>3 DEF Still, Extends
  <2> QED BY <2>2, <2>3
<1>2. \A d \in Clients : \A i \in 1 .. Len(down[d]) : i \in 1 .. Len(down'[d]) /\ down'[d][i] = down[d][i]
  BY <1>1 DEF Extends
<1>3. \A d \in Clients : \A i \in 1 .. Len(down'[d]) :
        down'[d][i].type = "ids" => i \in 1 .. Len(down[d]) /\ down'[d][i] = down[d][i]
  BY <1>1, <1>2
<1>4. UNCHANGED <<unanswered, maker, phase, up, tokens>>
  BY DEF client
<1>5. RequestsRight' /\ OneRequest' /\ RequestOrCall' /\ UnansweredAsked'
  <2>1. RequestsRight'
    BY <1>4, CoreParts DEF RequestsRight, Token
  <2>2. OneRequest'
    BY <1>4, CoreParts DEF OneRequest, Req
  <2>3. RequestOrCall' /\ UnansweredAsked'
    BY <1>4, CoreParts DEF RequestOrCall, UnansweredAsked
  <2> QED BY <2>1, <2>2, <2>3
<1>6. RequestOrIds'
  <2> SUFFICES ASSUME NEW d \in Clients, NEW i \in 1 .. Len(up[d]), NEW j \in 1 .. Len(down'[d]),
                      up[d][i].type = "request", Ids(down'[d][j], up[d][i].scene)
               PROVE  FALSE
    BY <1>4 DEF RequestOrIds, Ids
  <2>1. j \in 1 .. Len(down[d]) /\ Ids(down[d][j], up[d][i].scene)
    BY <1>3 DEF Ids
  <2>2. RequestOrIds
    BY CoreParts
  <2> QED BY <2>1, <2>2 DEF RequestOrIds
<1>7. IdsRight'
  BY <1>3, <1>4, CoreParts DEF IdsRight, Token
<1>8. OneAnswer'
  BY <1>3, <1>4, CoreParts DEF OneAnswer, Ids
<1>9. ASSUME NEW s \in Scenes, phase[s] = "asked", HasIds(maker[s], Len(down[maker[s]]), s)
      PROVE  HasIds(maker[s], Len(down[maker[s]]), s)'
  <2>1. maker[s] \in Clients
    BY <1>9, CoreParts DEF TypesOK, Tree
  <2> QED BY <1>2, <1>4, <1>9, <2>1 DEF HasIds, Ids
<1>10. AskedFor'
  BY <1>4, <1>9, CoreParts DEF AskedFor, Req
<1>11. NodesKnown'
  <2>1. nodes \subseteq Scenes
    BY DEF TypesOK
  <2> QED BY <1>4, <1>9, <2>1, CoreParts DEF NodesKnown, Knows
<1> QED BY <1>1, <1>5, <1>6, <1>7, <1>8, <1>10, <1>11 DEF Asking

LEMMA TellingFrame ==
  ASSUME Core, UNCHANGED <<unanswered, maker, under, client, up, made, heard>>
  PROVE  /\ OwnAtTheEnd' /\ CopiesOfOthers' /\ OwnHasParent' /\ Waiting' /\ Calling' /\ NamedRight'
         /\ StillWait' /\ NoneYet'
<1>1. UNCHANGED <<phase, ident, tokens, waiting, polling, place, copies>>
  BY DEF client
<1>2. OwnAtTheEnd'
  BY CoreParts, SameTree
<1>3. CopiesOfOthers' /\ OwnHasParent'
  BY <1>1, CoreParts, SameTree DEF CopiesOfOthers, OwnHasParent, Live
<1>4. Waiting'
  BY <1>1, CoreParts DEF Waiting, ParentWaits, WaitersRight, WaitersDiffer, Waits
<1>5. Calling'
  BY <1>1, CoreParts DEF Calling, CallsRight, CallsDiffer, SentOrWaits, SentCall, IsCall
<1>6. NamedRight' /\ StillWait' /\ NoneYet'
  BY <1>1, CoreParts DEF NamedRight, StillWait, NoneYet, Resumes
<1> QED BY <1>2, <1>3, <1>4, <1>5, <1>6

Seen(d, x) == At(d, Len(down[d]), x)
ParentsAt(d) == \A i \in 1 .. Len(down[d]) : Fits(d, down[d][i], i - 1)

LEMMA SeenQuiet ==
  ASSUME TypesOK, TypesOK', NEW d \in Clients, Quiet(d), NEW x \in Places, Up(x)' = Up(x)
  PROVE  Seen(d, x)' <=> Seen(d, x)
<1>1. PICK n \in Nat : n = Len(down'[d])
  BY DEF TypesOK
<1>2. n \in Len(down[d]) .. Len(down'[d])
  BY <1>1, LenNat DEF Quiet, Extends
<1>3. At(d, n, x)' <=> At(d, Len(down[d]), x)
  BY <1>2, AtQuiet
<1> QED BY <1>1, <1>3 DEF Seen, At

LEMMA SeenTold ==
  ASSUME TypesOK, TypesOK', NEW d \in Clients, NEW m \in DownMsg, Told(d, m), NEW x \in Places, Up(x)' = Up(x)
  PROVE  Seen(d, x)' <=> Shows(m, x) \/ (Seen(d, x) /\ ~ Hides(m, Up(x)))
<1>1. PICK n \in Nat : n = Len(down[d]) + 1 /\ n = Len(down'[d])
  BY LenNat, ToldDoes DEF Told
<1>2. At(d, n, x)' <=> Shows(m, x) \/ (At(d, Len(down[d]), x) /\ ~ Hides(m, Up(x)))
  BY <1>1, AtTold
<1> QED BY <1>1, <1>2 DEF Seen, At

LEMMA SeenHeard ==
  ASSUME TypesOK, TypesOK', NEW d \in Clients, HeardBy(d), NEW x \in Places, Up(x)' = Up(x)
  PROVE  Seen(d, x)' <=> Seen(d, x)
<1>1. PICK n \in Nat : n = Len(down'[d])
  BY DEF TypesOK
<1>2. n \in 0 .. Len(down'[d]) /\ n + 1 = Len(down[d])
  BY <1>1, LenNat DEF HeardBy, Drops
<1>3. At(d, n, x)' <=> At(d, n + 1, x)
  BY <1>2, AtHeard
<1> QED BY <1>1, <1>2, <1>3 DEF Seen, At

LEMMA UnderPlaces ==
  ASSUME TypesOK, Tree, NEW s \in Scenes, maker[s] # None
  PROVE  under[s] \in Places
BY DEF Tree, Places

\* What a message shows keeps fitting when nothing is heard otherwise.
LEMMA FitsSame ==
  ASSUME TypesOK, Tree, UNCHANGED <<maker, under>>, NEW d \in Clients, NEW m \in DownMsg,
         NEW j \in Nat, NEW k \in Nat, \A x \in Places : At(d, k, x)' <=> At(d, j, x),
         Fits(d, m, j)
  PROVE  Fits(d, m, k)'
<1> SUFFICES ASSUME m.type = "add"
             PROVE  /\ m.place \/ At(d, k, Place)'
                    /\ \A s \in m.scenes : NotOwn(d, s)' /\ (Shows(m, under[s]) \/ At(d, k, under[s])')
  BY DEF Fits
<1>1. m.scenes \in SUBSET Scenes /\ Place \in Places
  BY DownKinds DEF Places
<1>2. m.place \/ At(d, k, Place)'
  BY <1>1 DEF Fits
<1>3. ASSUME NEW s \in m.scenes
      PROVE  NotOwn(d, s)' /\ (Shows(m, under[s]) \/ At(d, k, under[s])')
  <2>1. NotOwn(d, s) /\ (Shows(m, under[s]) \/ At(d, j, under[s]))
    BY <1>3 DEF Fits
  <2>2. maker[s] # None /\ s \in Scenes
    BY <1>1, <2>1, PathHas DEF NotOwn
  <2>3. PICK u \in Places : u = under[s] /\ u = under'[s]
    BY <2>2, UnderPlaces
  <2>4. At(d, k, u)' <=> At(d, j, u)
    BY <2>3
  <2>5. At(d, k, u)' <=> At(d, k, under[s])'
    BY <2>3 DEF At
  <2> QED BY <2>1, <2>3, <2>4, <2>5, SameTree
<1> QED BY <1>2, <1>3

LEMMA FitsOther ==
  ASSUME NEW d, NEW m, NEW k, m.type # "add"
  PROVE  Fits(d, m, k)'
BY DEF Fits

LEMMA ParentsQuiet ==
  ASSUME TypesOK, TypesOK', Tree, UNCHANGED <<maker, under>>, NEW d \in Clients, Quiet(d), ParentsAt(d)
  PROVE  ParentsAt(d)'
<1>1. PICK n \in Nat, l \in Nat : n = Len(down[d]) /\ l = Len(down'[d])
  BY DEF TypesOK
<1>2. \A x : Up(x)' = Up(x)
  BY UpSame
<1> SUFFICES ASSUME NEW i \in 1 .. l PROVE Fits(d, down[d][i], i - 1)'
  BY <1>1 DEF ParentsAt
<1>3. PICK m \in DownMsg : m = down'[d][i]
  BY <1>1 DEF TypesOK
<1>4. Fits(d, m, i - 1)'
  <2>1. CASE i <= n
    <3>1. m = down[d][i] /\ i \in 1 .. n
      BY <1>1, <1>3, <2>1 DEF Quiet, Extends
    <3>2. Fits(d, m, i - 1) /\ i - 1 \in Nat /\ i - 1 <= n
      BY <1>1, <3>1 DEF ParentsAt
    <3>3. \A x \in Places : At(d, i - 1, x)' <=> At(d, i - 1, x)
      BY <1>1, <1>2, <3>2, AtQuiet
    <3> QED BY <3>2, <3>3, FitsSame
  <2>2. CASE i > n
    <3>1. m.type # "add"
      BY <1>1, <1>3, <2>2 DEF Quiet
    <3> QED BY <3>1, FitsOther
  <2> QED BY <1>1, <2>1, <2>2
<1> QED BY <1>3, <1>4 DEF Fits, At, Shows

LEMMA ParentsTold ==
  ASSUME TypesOK, TypesOK', Tree, UNCHANGED <<maker, under>>, NEW d \in Clients, NEW a \in DownMsg, Told(d, a),
         ParentsAt(d), Fits(d, a, Len(down[d]))
  PROVE  ParentsAt(d)'
<1>1. PICK n \in Nat : n = Len(down[d]) /\ Len(down'[d]) = n + 1
  BY LenNat, ToldDoes DEF Told
<1>2. \A x : Up(x)' = Up(x)
  BY UpSame
<1> SUFFICES ASSUME NEW i \in 1 .. n + 1 PROVE Fits(d, down[d][i], i - 1)'
  BY <1>1 DEF ParentsAt
<1>3. PICK m \in DownMsg : m = down'[d][i]
  BY <1>1 DEF TypesOK
<1>4. \A x \in Places : At(d, i - 1, x)' <=> At(d, i - 1, x)
  BY <1>1, <1>2, AtTold
<1>5. Fits(d, m, i - 1)
  <2>1. CASE i <= n
    <3>1. m = down[d][i] /\ i \in 1 .. n
      BY <1>1, <1>3, <2>1, ToldDoes DEF Told
    <3> QED BY <1>1, <3>1 DEF ParentsAt
  <2>2. CASE i = n + 1
    <3>1. m = a /\ i - 1 = n
      BY <1>1, <1>3, <2>2, ToldDoes DEF Told
    <3> QED BY <1>1, <3>1
  <2> QED BY <1>1, <2>1, <2>2
<1>6. Fits(d, m, i - 1)'
  BY <1>1, <1>4, <1>5, FitsSame
<1> QED BY <1>3, <1>6 DEF Fits, At, Shows

LEMMA ParentsHeard ==
  ASSUME TypesOK, TypesOK', Tree, UNCHANGED <<maker, under>>, NEW d \in Clients, HeardBy(d), ParentsAt(d)
  PROVE  ParentsAt(d)'
<1>1. PICK n \in Nat : Len(down[d]) = n + 1 /\ Len(down'[d]) = n
  BY LenNat DEF HeardBy, Drops, TypesOK
<1>2. \A x : Up(x)' = Up(x)
  BY UpSame
<1> SUFFICES ASSUME NEW i \in 1 .. n PROVE Fits(d, down[d][i], i - 1)'
  BY <1>1 DEF ParentsAt
<1>3. PICK m \in DownMsg : m = down'[d][i]
  BY <1>1 DEF TypesOK
<1>4. \A x \in Places : At(d, i - 1, x)' <=> At(d, i, x)
  BY <1>1, <1>2, AtHeard
<1>5. Fits(d, m, i)
  <2>1. m = down[d][i + 1] /\ i + 1 \in 1 .. n + 1 /\ (i + 1) - 1 = i
    BY <1>1, <1>3 DEF HeardBy, Drops
  <2> QED BY <1>1, <2>1 DEF ParentsAt
<1>6. Fits(d, m, i - 1)'
  BY <1>1, <1>4, <1>5, FitsSame
<1> QED BY <1>3, <1>6 DEF Fits, At, Shows

LEMMA OthersSame ==
  ASSUME UNCHANGED <<maker, under>>
  PROVE  \A d, S : Others(d, S)' = Others(d, S)
BY PathSame DEF Others

LEMMA TellingView ==
  ASSUME TypesOK, TypesOK', Core, NEW m \in DownMsg, NEW D,
         \A d \in Clients : IF d \in D THEN Told(d, m) ELSE Still(d),
         UNCHANGED <<maker, under>>,
         \A d \in Clients : d \in D => Fits(d, m, Len(down[d])),
         \A d \in Clients, x \in Places : x \in Sees(d)' <=>
            IF d \in D THEN Shows(m, x) \/ (x \in Sees(d) /\ ~ Hides(m, Up(x))) ELSE x \in Sees(d)
  PROVE  ViewRight' /\ ParentsFirst'
<1>1. \A x : Up(x)' = Up(x)
  BY UpSame
<1>2. ASSUME NEW d \in Clients, NEW x \in Places PROVE Seen(d, x)' <=> x \in Sees(d)'
  <2>1. Seen(d, x) <=> x \in Sees(d)
    BY CoreParts DEF ViewRight, Seen
  <2>2. CASE d \in D
    <3>1. Seen(d, x)' <=> Shows(m, x) \/ (Seen(d, x) /\ ~ Hides(m, Up(x)))
      BY <1>1, <2>2, SeenTold
    <3> QED BY <2>1, <2>2, <3>1
  <2>3. CASE d \notin D
    <3>1. Seen(d, x)' <=> Seen(d, x)
      BY <1>1, <2>3, StillQuiet, SeenQuiet
    <3> QED BY <2>1, <2>3, <3>1
  <2> QED BY <2>2, <2>3
<1>3. ASSUME NEW d \in Clients PROVE ParentsAt(d)'
  <2>1. ParentsAt(d) /\ Tree
    BY CoreParts DEF ParentsFirst, ParentsAt
  <2>2. CASE d \in D
    BY <2>1, <2>2, ParentsTold
  <2>3. CASE d \notin D
    BY <2>1, <2>3, StillQuiet, ParentsQuiet
  <2> QED BY <2>2, <2>3
<1>4. ViewRight'
  BY <1>2 DEF ViewRight, Seen
<1>5. ParentsFirst'
  BY <1>3 DEF ParentsFirst, ParentsAt
<1> QED BY <1>4, <1>5

\* What is said of a client that is not connected, when one is told something.
LEMMA TellingLeft ==
  ASSUME Core, NEW m, NEW D, \A d \in Clients : IF d \in D THEN Told(d, m) ELSE Still(d),
         \A d \in Clients : d \notin Connected' => d \notin D /\ d \notin Connected,
         hidden' \subseteq hidden \cup Connected',
         UNCHANGED <<maker, client, up>>
  PROVE  NothingLeft'
<1> SUFFICES ASSUME NEW c \in Clients, c \notin Connected'
             PROVE  /\ down'[c] = <<>> /\ up'[c] = <<>> /\ waiting'[c] = <<>> /\ c \notin polling' /\ c \notin hidden'
                    /\ \A s \in Scenes : maker'[s] = c => phase'[s] = "gone"
  BY DEF NothingLeft
<1>1. Still(c) /\ c \notin Connected
  OBVIOUS
<1> QED BY <1>1, CoreParts DEF NothingLeft, Still, client

LEMMA StayMore ==
  ASSUME TypesOK, Core, \A d \in Clients : Extends(down'[d], down[d]),
         UNCHANGED <<maker, under, phase>>, NEW s \in Scenes, phase[s] # "new", Leaving(s)
  PROVE  Leaving(s)'
<1>1. maker[s] \in Clients
  BY CoreParts DEF TypesOK, Tree
<1>2. PICK i \in 1 .. Len(down[maker[s]]) : Hides(down[maker[s]][i], Up(s))
  BY DEF Leaving
<1>3. i \in 1 .. Len(down'[maker[s]]) /\ down'[maker[s]][i] = down[maker[s]][i]
  BY <1>1, LenNat DEF Extends
<1>4. Up(s)' = Up(s)
  BY UpSame
<1> QED BY <1>2, <1>3, <1>4 DEF Leaving

\* Knowing an identifier does not come with what is told.
LEMMA KnowsTold ==
  ASSUME TypesOK, Core, NEW m \in DownMsg, m.type # "ids", NEW D,
         \A d \in Clients : IF d \in D THEN Told(d, m) ELSE Still(d), UNCHANGED <<maker, phase>>,
         NEW s \in Scenes, Knows(s)'
  PROVE  Knows(s)
<1>1. CASE phase[s] = "asked" /\ HasIds(maker[s], Len(down[maker[s]]), s)'
  <2>1. PICK c \in Clients : c = maker[s]
    BY <1>1, CoreParts DEF TypesOK, Tree
  <2>2. PICK i \in 1 .. Len(down'[c]) : Ids(down'[c][i], s)
    BY <1>1, <2>1 DEF HasIds
  <2>3. i \in 1 .. Len(down[c]) /\ down[c][i] = down'[c][i]
    <3>1. CASE c \in D
      <4>1. i # Len(down[c]) + 1
        BY <2>2, <3>1, ToldDoes DEF Told, Ids
      <4> QED BY <2>2, <3>1, <4>1, ToldDoes DEF Told
    <3>2. CASE c \notin D
      BY <2>2, <3>2 DEF Still
    <3> QED BY <3>1, <3>2
  <2> QED BY <1>1, <2>1, <2>2, <2>3 DEF Knows, HasIds
<1> QED BY <1>1 DEF Knows

LEMMA TellingStay ==
  ASSUME TypesOK, Core, NEW m \in DownMsg, m.type # "ids", NEW D,
         \A d \in Clients : IF d \in D THEN Told(d, m) ELSE Still(d),
         \A d \in Clients : Extends(down'[d], down[d]), UNCHANGED <<maker, under, phase>>, nodes' = nodes
  PROVE  KnownStay'
<1> SUFFICES ASSUME NEW s \in Scenes, Knows(s)' PROVE s \in nodes' \/ Leaving(s)'
  BY DEF KnownStay
<1>1. Knows(s)
  BY KnowsTold
<1>2. s \in nodes \/ Leaving(s)
  BY <1>1, CoreParts DEF KnownStay
<1>3. phase[s] # "new"
  BY <1>1 DEF Knows
<1> QED BY <1>2, <1>3, StayMore

LEMMA CallAllKeeps ==
  ASSUME TypesOK, TypesOK', Core, NEW s \in Scenes, CallAll(s)
  PROVE  Core'
<1> DEFINE m == FromServer(s)
           D == Observing(s)
<1>1. /\ m \in DownMsg /\ m.type = "call" /\ D \subseteq Connected
      /\ UNCHANGED <<server, maker, under, client, up, made, heard>>
      /\ \A d \in Clients : IF d \in D THEN Told(d, m) ELSE Still(d)
  <2>1. m \in DownMsg /\ Tells(m, D) /\ UNCHANGED <<server, maker, under, client, up, made, heard>>
    BY CallAllDoes
  <2>2. UNCHANGED <<place, copies>>
    BY <2>1 DEF client
  <2>3. \A d \in Clients : IF d \in D THEN Told(d, m) ELSE Still(d)
    BY <2>1, <2>2, TellsTold
  <2> QED BY <2>1, <2>3 DEF FromServer, Calls, Observing
<1> HIDE DEF m, D
<1>2. UNCHANGED <<status, hidden, nodes, unanswered, maker, under, phase>>
  BY <1>1 DEF server, client
<1>3. /\ Asking' /\ AskedFor' /\ NodesKnown' /\ \A d \in Clients : Extends(down'[d], down[d])
  BY <1>1, <1>2, TellingAsks
<1>4. /\ OwnAtTheEnd' /\ CopiesOfOthers' /\ OwnHasParent' /\ Waiting' /\ Calling' /\ NamedRight'
      /\ StillWait' /\ NoneYet'
  BY <1>1, <1>2, TellingFrame
<1>5. ViewRight' /\ ParentsFirst'
  <2>1. \A x : ~ Shows(m, x) /\ \A U : ~ Hides(m, U)
    BY <1>1 DEF Shows, Hides
  <2>2. \A d : Sees(d)' = Sees(d)
    <3>1. \A d : Others(d, nodes)' = Others(d, nodes)
      BY <1>2, PathSame DEF Others
    <3> QED BY <1>2, <3>1 DEF Sees, Connected
  <2>3. \A d \in Clients : Fits(d, m, Len(down[d]))
    BY <1>1 DEF Fits
  <2> QED BY <1>1, <1>2, <2>1, <2>2, <2>3, TellingView
<1>6. NothingLeft'
  <2>1. Connected' = Connected
    BY <1>2 DEF Connected
  <2> QED BY <1>1, <1>2, <2>1, TellingLeft
<1>7. KnownStay'
  BY <1>1, <1>2, <1>3, TellingStay
<1>8. Tree'
  BY <1>2, CoreParts DEF Tree
<1> QED BY <1>3, <1>4, <1>5, <1>6, <1>7, <1>8 DEF Core, Structure, View, Naming

LEMMA HideKeeps ==
  ASSUME TypesOK, TypesOK', Core, NEW c \in Clients, Hide(c)
  PROVE  Core'
<1> DEFINE m == Removed(Place)
           D == {c}
<1>1. /\ m \in DownMsg /\ m.type = "remove" /\ m.scene = Place /\ c \in Connected \ hidden /\ hidden' = hidden \cup {c}
      /\ UNCHANGED <<status, nodes, unanswered, maker, under, client, up, made, heard>>
      /\ \A d \in Clients : IF d \in D THEN Told(d, m) ELSE Still(d)
  <2>1. /\ m \in DownMsg /\ Tells(m, D) /\ c \in Connected \ hidden /\ hidden' = hidden \cup {c}
        /\ UNCHANGED <<status, nodes, unanswered, maker, under, client, up, made, heard>>
    BY HideDoes
  <2>2. UNCHANGED <<place, copies>>
    BY <2>1 DEF client
  <2>3. \A d \in Clients : IF d \in D THEN Told(d, m) ELSE Still(d)
    BY <2>1, <2>2, TellsTold
  <2> QED BY <2>1, <2>3 DEF Removed
<1>0. \A d : d \in D <=> d = c
  OBVIOUS
<1> HIDE DEF m, D
<1>2. UNCHANGED <<status, nodes, unanswered, maker, under, phase>>
  BY <1>1 DEF client
<1>3. /\ Asking' /\ AskedFor' /\ NodesKnown' /\ \A d \in Clients : Extends(down'[d], down[d])
  BY <1>1, <1>2, TellingAsks
<1>4. /\ OwnAtTheEnd' /\ CopiesOfOthers' /\ OwnHasParent' /\ Waiting' /\ Calling' /\ NamedRight'
      /\ StillWait' /\ NoneYet'
  BY <1>1, <1>2, TellingFrame
<1>5. ViewRight' /\ ParentsFirst'
  <2>1. \A x \in Places : ~ Shows(m, x) /\ Hides(m, Up(x))
    BY <1>1 DEF Shows, Hides, Up
  <2>2. \A d \in Clients : Sees(d)' = IF d = c THEN {} ELSE Sees(d)
    <3>1. \A d : Others(d, nodes)' = Others(d, nodes)
      BY <1>2, PathSame DEF Others
    <3> QED BY <1>1, <1>2, <3>1 DEF Sees, Connected
  <2>3. \A d \in Clients : Fits(d, m, Len(down[d]))
    BY <1>1 DEF Fits
  <2>9. \A d \in Clients, x \in Places : x \in Sees(d)' <=>
            IF d \in D THEN Shows(m, x) \/ (x \in Sees(d) /\ ~ Hides(m, Up(x))) ELSE x \in Sees(d)
    BY <1>0, <2>1, <2>2
  <2> QED BY <1>1, <1>2, <2>3, <2>9, TellingView
<1>6. NothingLeft'
  <2>1. Connected' = Connected
    BY <1>2 DEF Connected
  <2> QED BY <1>0, <1>1, <1>2, <2>1, TellingLeft
<1>7. KnownStay'
  BY <1>1, <1>2, <1>3, TellingStay
<1>8. Tree'
  BY <1>2, CoreParts DEF Tree
<1> QED BY <1>3, <1>4, <1>5, <1>6, <1>7, <1>8 DEF Core, Structure, View, Naming

\* Showing the place, of Show and Connect.
LEMMA ShowingKeeps ==
  ASSUME TypesOK, TypesOK', Core, NEW c \in Clients, c \in hidden \/ c \notin Connected,
         Told(c, Shown(TRUE, Others(c, nodes))), \A d \in Clients \ {c} : Still(d),
         c \in Connected' \ hidden', hidden' = hidden \ {c}, Connected' = Connected \cup {c},
         UNCHANGED <<nodes, unanswered, maker, under, client, up, made, heard>>
  PROVE  Core'
<1> DEFINE m == Shown(TRUE, Others(c, nodes))
           D == {c}
<1>1. m \in DownMsg /\ m.type = "add" /\ m.place = TRUE /\ m.scenes = Others(c, nodes)
  <2>1. TRUE \in BOOLEAN /\ Others(c, nodes) \in SUBSET Scenes
    BY OthersScenes DEF TypesOK
  <2> QED BY <2>1, MadeMessages DEF Shown
<1>2. \A d \in Clients : IF d \in D THEN Told(d, m) ELSE Still(d)
  OBVIOUS
<1>0. \A d : d \in D <=> d = c
  OBVIOUS
<1> HIDE DEF m, D
<1>3. UNCHANGED <<nodes, unanswered, maker, under, phase>>
  BY DEF client
<1>4. /\ Asking' /\ AskedFor' /\ NodesKnown' /\ \A d \in Clients : Extends(down'[d], down[d])
  BY <1>1, <1>2, <1>3, TellingAsks
<1>5. /\ OwnAtTheEnd' /\ CopiesOfOthers' /\ OwnHasParent' /\ Waiting' /\ Calling' /\ NamedRight'
      /\ StillWait' /\ NoneYet'
  BY <1>3, TellingFrame
<1>6. ViewRight' /\ ParentsFirst'
  <2>1. \A x \in Places : ~ Hides(m, Up(x)) /\ (Shows(m, x) <=> x \in {Place} \cup Others(c, nodes))
    <3>1. Place \notin Others(c, nodes)
      BY OthersScenes, NotAScene DEF TypesOK
    <3> QED BY <1>1, <3>1 DEF Shows, Hides, Places
  <2>2. \A d \in Clients : Sees(d)' = IF d = c THEN {Place} \cup Others(c, nodes) ELSE Sees(d)
    <3>1. \A d : Others(d, nodes)' = Others(d, nodes)
      BY <1>3, PathSame DEF Others
    <3> QED BY <3>1 DEF Sees
  <2>3. Sees(c) = {}
    BY DEF Sees
  <2>4. Fits(c, m, Len(down[c]))
    <3>1. ASSUME NEW s \in Others(c, nodes)
          PROVE  NotOwn(c, s) /\ under[s] \in {Place} \cup Others(c, nodes) /\ under[s] \in Places
      <4>1. s \in nodes /\ maker[s] # None /\ s \in Scenes
        BY CoreParts DEF Others, Tree, TypesOK
      <4>2. NotOwn(c, s)
        BY <4>1, CoreParts, MadeAbove DEF NotOwn, Others
      <4>3. under[s] = Place \/ (under[s] \in Scenes /\ under[s] \in Path(s))
        BY <4>1, CoreParts, PathHas, PathUnder DEF Tree
      <4>4. under[s] \in {Place} \cup Others(c, nodes)
        BY <4>1, <4>3, OthersAbove DEF TypesOK
      <4> QED BY <4>2, <4>3, <4>4 DEF Places
    <3> QED BY <1>1, <2>1, <3>1 DEF Fits
  <2>9. \A d \in Clients, x \in Places : x \in Sees(d)' <=>
            IF d \in D THEN Shows(m, x) \/ (x \in Sees(d) /\ ~ Hides(m, Up(x))) ELSE x \in Sees(d)
    BY <1>0, <2>1, <2>2, <2>3
  <2>10. \A d \in Clients : d \in D => Fits(d, m, Len(down[d]))
    BY <1>0, <2>4
  <2> QED BY <1>1, <1>2, <1>3, <2>9, <2>10, TellingView
<1>7. NothingLeft'
  BY <1>0, <1>2, <1>3, TellingLeft
<1>8. KnownStay'
  BY <1>1, <1>2, <1>3, <1>4, TellingStay
<1>9. Tree'
  BY <1>3, CoreParts DEF Tree
<1> QED BY <1>4, <1>5, <1>6, <1>7, <1>8, <1>9 DEF Core, Structure, View, Naming

LEMMA ShowKeeps ==
  ASSUME TypesOK, TypesOK', Core, NEW c \in Clients, Show(c)
  PROVE  Core'
<1> DEFINE m == Shown(TRUE, Others(c, nodes))
<1>1. /\ c \in hidden /\ hidden' = hidden \ {c} /\ Tells(m, {c}) /\ m \in DownMsg
      /\ UNCHANGED <<status, nodes, unanswered, maker, under, client, up, made, heard>>
  BY ShowDoes
<1>2. UNCHANGED <<place, copies>>
  BY <1>1 DEF client
<1> HIDE DEF m
<1>3. \A d \in Clients : IF d \in {c} THEN Told(d, m) ELSE Still(d)
  BY <1>1, <1>2, TellsTold
<1>4. c \in Connected /\ Connected' = Connected
  BY <1>1, CoreParts DEF NothingLeft, Connected
<1>5. Told(c, m) /\ \A d \in Clients \ {c} : Still(d)
  BY <1>3
<1> QED BY <1>1, <1>4, <1>5, ShowingKeeps DEF m

LEMMA ConnectKeeps ==
  ASSUME TypesOK, TypesOK', Core, NEW c \in Clients, Connect(c)
  PROVE  Core'
<1> DEFINE m == Shown(TRUE, Others(c, nodes))
<1>1. /\ status[c] = "out" /\ status' = [status EXCEPT ![c] = "in"] /\ down' = [down EXCEPT ![c] = <<m>>]
      /\ UNCHANGED <<hidden, nodes, unanswered, maker, under, client, up, made, heard>>
  BY DEF Connect
<1>2. UNCHANGED <<place, copies>>
  BY <1>1 DEF client
<1> HIDE DEF m
<1>3. c \notin Connected /\ Connected' = Connected \cup {c}
  BY <1>1 DEF Connected, TypesOK
<1>4. down[c] = <<>> /\ c \notin hidden
  BY <1>3, CoreParts DEF NothingLeft
<1>5. down'[c] = Append(down[c], m) /\ \A d \in Clients \ {c} : down'[d] = down[d]
  <2>1. down'[c] = <<m>>
    BY <1>1 DEF TypesOK
  <2>2. <<m>> = Append(<<>>, m)
    OBVIOUS
  <2> QED BY <1>1, <1>4, <2>1, <2>2
<1>6. \A d \in Clients : HasSame(d)
  BY <1>2, HasKept
<1>7. Told(c, m) /\ \A d \in Clients \ {c} : Still(d)
  BY <1>5, <1>6 DEF Told, Still
<1>8. c \in Connected' \ hidden' /\ hidden' = hidden \ {c}
  BY <1>1, <1>3, <1>4
<1> QED BY <1>1, <1>3, <1>7, <1>8, ShowingKeeps DEF m

LEMMA FreeOthers ==
  ASSUME TypesOK, NEW d, NEW s \in Scenes
  PROVE  Others(d, nodes \ Below(s)) = Others(d, nodes) \ Below(s)
<1>1. ASSUME NEW x \in Others(d, nodes \ Below(s)) PROVE x \in Others(d, nodes) \ Below(s)
  BY DEF Others
<1>2. ASSUME NEW x \in Others(d, nodes) \ Below(s) PROVE x \in Others(d, nodes \ Below(s))
  <2>1. x \in nodes /\ x \in Scenes /\ s \notin Path(x)
    BY DEF Others, Below, TypesOK
  <2>2. \A y \in Path(x) : s \notin Path(y)
    BY <2>1, PathTrans
  <2> QED BY <2>1, <2>2 DEF Others, Below
<1> QED BY <1>1, <1>2

\* Who does not observe a scene sees nothing in it.
LEMMA FreeSees ==
  ASSUME TypesOK, NEW s \in Scenes, NEW d \in Clients, d \notin Observing(s), NEW x \in Sees(d), x # Place
  PROVE  x \notin Below(s)
<1>1. d \in Connected \ hidden /\ x \in Others(d, nodes)
  BY DEF Sees
<1>2. ASSUME s \in Path(x) PROVE FALSE
  <2>1. s \in Others(d, nodes)
    BY <1>1, <1>2, OthersAbove DEF TypesOK
  <2> QED BY <1>1, <2>1 DEF Observing, VisibleTo
<1> QED BY <1>2 DEF Below

\* The maker of a node that goes is told, or has been told that the place is hidden.
LEMMA FreeTellsMaker ==
  ASSUME TypesOK, Core, NEW s \in Scenes, NEW x \in nodes, s \in Path(x), Live(x), maker[x] \notin Observing(s)
  PROVE  Leaving(x)
<1> DEFINE d == maker[x]
<1>1. x \in Scenes /\ maker[x] # None /\ d \in Clients
  BY CoreParts DEF TypesOK, Tree
<1>2. d \in Connected
  BY <1>1, CoreParts DEF NothingLeft, Live
<1>3. Path(x) \subseteq nodes /\ Path(s) \subseteq Path(x) /\ s \in nodes
  BY CoreParts, NodesAbove, PathTrans
<1>4. maker[s] # d
  BY <1>2 DEF Observing
<1>5. \A z \in Path(s) : maker[z] # d
  BY <1>1, <1>4, CoreParts, OwnAbove
<1>6. s \in Others(d, nodes)
  BY <1>3, <1>5 DEF Others
<1>7. d \in hidden
  BY <1>2, <1>6 DEF Observing, VisibleTo
<1>8. Place \notin Sees(d)
  BY <1>7 DEF Sees
<1>9. ~ Seen(d, Place)
  BY <1>1, <1>8, CoreParts DEF ViewRight, Seen, Places
<1>10. d \in place
  BY <1>1, CoreParts DEF OwnHasParent
<1> HIDE DEF d
<1>11. PICK n \in Nat : n = Len(down[d])
  BY <1>1, LenNat
<1>12. \E j \in 1 .. n : Hides(down[d][j], Up(Place))
  <2>1. ~ Held(down[d], Has(d, Place), n, Place, Up(Place))
    BY <1>9, <1>11 DEF Seen, At
  <2>2. 0 \in 0 .. n /\ Has(d, Place)
    BY <1>10 DEF Has
  <2>3. 0 + 1 = 1
    OBVIOUS
  <2> QED BY <2>1, <2>2, <2>3 DEF Held
<1>13. Up(Place) \subseteq Up(x)
  BY DEF Up
<1> QED BY <1>11, <1>12, <1>13 DEF Leaving, Hides, d

LEMMA FreeKeeps ==
  ASSUME TypesOK, TypesOK', Core, NEW s \in Scenes, Free(s)
  PROVE  Core'
<1> DEFINE m == Removed(s)
           D == Observing(s)
<1>1. /\ m \in DownMsg /\ m.type = "remove" /\ m.scene = s /\ D \subseteq Connected /\ nodes' = nodes \ Below(s)
      /\ UNCHANGED <<status, hidden, unanswered, maker, under, client, up, made, heard>>
      /\ \A d \in Clients : IF d \in D THEN Told(d, m) ELSE Still(d)
  <2>1. /\ m \in DownMsg /\ Tells(m, D) /\ nodes' = nodes \ Below(s)
        /\ UNCHANGED <<status, hidden, unanswered, maker, under, client, up, made, heard>>
    BY FreeDoes
  <2>2. UNCHANGED <<place, copies>>
    BY <2>1 DEF client
  <2>3. \A d \in Clients : IF d \in D THEN Told(d, m) ELSE Still(d)
    BY <2>1, <2>2, TellsTold
  <2> QED BY <2>1, <2>3 DEF Removed, Observing
<1>0. \A d : d \in Observing(s) <=> d \in D
  OBVIOUS
<1> HIDE DEF m, D
<1>2. UNCHANGED <<status, hidden, unanswered, maker, under, phase>>
  BY <1>1 DEF client
<1>3. /\ Asking' /\ AskedFor' /\ NodesKnown' /\ \A d \in Clients : Extends(down'[d], down[d])
  BY <1>1, <1>2, TellingAsks
<1>4. /\ OwnAtTheEnd' /\ CopiesOfOthers' /\ OwnHasParent' /\ Waiting' /\ Calling' /\ NamedRight'
      /\ StillWait' /\ NoneYet'
  BY <1>1, <1>2, TellingFrame
<1>5. ViewRight' /\ ParentsFirst'
  <2>1. \A x \in Places : ~ Shows(m, x) /\ (Hides(m, Up(x)) <=> x # Place /\ x \in Below(s))
    BY <1>1, NotAScene DEF Shows, Hides, Up, Below, Places
  <2>2. \A d \in Clients : Sees(d)' = IF d \in Connected \ hidden THEN {Place} \cup (Others(d, nodes) \ Below(s)) ELSE {}
    <3>1. \A x : Path(x)' = Path(x)
      BY <1>2, PathSame
    <3>2. nodes' = nodes \ Below(s) /\ maker' = maker
      BY <1>1
    <3> DEFINE N == nodes \ Below(s)
    <3>3. \A d : Others(d, nodes)' = Others(d, N)
      <4> HIDE DEF N
      <4>1. nodes' = N
        BY <3>2 DEF N
      <4> QED BY <3>1, <3>2, <4>1 DEF Others
    <3> QED BY <1>2, <3>3, FreeOthers DEF Sees, Connected
  <2>3. \A d \in Clients : Fits(d, m, Len(down[d]))
    BY <1>1 DEF Fits
  <2>4. ASSUME NEW d \in Clients, NEW x \in Places
        PROVE  x \in Sees(d)' <=>
                 IF d \in D THEN Shows(m, x) \/ (x \in Sees(d) /\ ~ Hides(m, Up(x))) ELSE x \in Sees(d)
    <3>1. Place \notin Others(d, nodes)
      BY OthersScenes, NotAScene DEF TypesOK
    <3>2. CASE d \in D
      BY <2>1, <2>2, <3>1, <3>2 DEF Sees
    <3>3. CASE d \notin D
      <4>1. x \in Sees(d) /\ x # Place => x \notin Below(s)
        BY <1>0, <3>3, FreeSees
      <4> QED BY <2>2, <3>1, <3>3, <4>1 DEF Sees
    <3> QED BY <3>2, <3>3
  <2> QED BY <1>1, <1>2, <2>3, <2>4, TellingView
<1>6. NothingLeft'
  <2>1. Connected' = Connected
    BY <1>2 DEF Connected
  <2> QED BY <1>1, <1>2, <2>1, TellingLeft
<1>7. KnownStay'
  <2> SUFFICES ASSUME NEW x \in Scenes, Knows(x)' PROVE x \in nodes' \/ Leaving(x)'
    BY DEF KnownStay
  <2>1. Knows(x) /\ phase[x] # "new" /\ Live(x) /\ maker[x] \in Clients
    <3>1. Knows(x)
      BY <1>1, <1>2, KnowsTold
    <3> QED BY <3>1, CoreParts DEF Knows, Live, Tree, TypesOK
  <2>2. CASE Leaving(x)
    BY <1>2, <1>3, <2>1, <2>2, StayMore
  <2>3. CASE ~ Leaving(x) /\ s \notin Path(x)
    <3>1. x \in nodes
      BY <2>1, <2>3, CoreParts DEF KnownStay
    <3> QED BY <1>1, <2>3, <3>1 DEF Below
  <2>4. CASE ~ Leaving(x) /\ s \in Path(x)
    <3>1. x \in nodes
      BY <2>1, <2>4, CoreParts DEF KnownStay
    <3>2. maker[x] \in D
      BY <1>0, <2>1, <2>4, <3>1, FreeTellsMaker
    <3>3. Told(maker[x], m)
      BY <1>1, <2>1, <3>2
    <3>4. PICK n \in Nat : n = Len(down[maker[x]])
      BY <2>1, LenNat
    <3>5. n + 1 \in 1 .. Len(down'[maker[x]]) /\ down'[maker[x]][n + 1] = m
      BY <1>1, <2>1, <3>3, <3>4, ToldDoes DEF Told
    <3>6. Hides(m, Up(x)')
      <4>1. Up(x)' = Up(x) /\ s \in Up(x)
        BY <1>2, <2>4, UpSame, NotAScene DEF Up
      <4> QED BY <1>1, <4>1 DEF Hides
    <3> QED BY <1>2, <3>5, <3>6 DEF Leaving
  <2> QED BY <2>2, <2>3, <2>4
<1>8. Tree'
  <2>1. \A x \in nodes' : under[x] = Place \/ under[x] \in nodes'
    <3> SUFFICES ASSUME NEW x \in nodes', under[x] # Place PROVE under[x] \in nodes'
      OBVIOUS
    <3>1. x \in nodes /\ x \in Scenes /\ under[x] \in nodes /\ under[x] \in Scenes /\ s \notin Path(x)
      BY <1>1, CoreParts DEF Tree, TypesOK, Below
    <3>2. s \notin Path(under[x])
      BY <3>1, PathUnder
    <3> QED BY <1>1, <3>1, <3>2 DEF Below
  <2> QED BY <1>1, <1>2, <2>1, CoreParts DEF Tree
<1> QED BY <1>3, <1>4, <1>5, <1>6, <1>7, <1>8 DEF Core, Structure, View, Naming

(* A client hears a message. *)
HeardPhase(c, s) ==
  LET m == down[c][1] IN
  \/ maker[s] = c /\ Hides(m, Up(s)) /\ phase'[s] = "gone"
  \/ ~ (maker[s] = c /\ Hides(m, Up(s))) /\ Ids(m, s) /\ phase[s] = "asked" /\ phase'[s] = "named" /\ ident'[s] = s
  \/ /\ ~ (maker[s] = c /\ Hides(m, Up(s))) /\ ~ (Ids(m, s) /\ phase[s] = "asked")
     /\ phase'[s] = phase[s] /\ ident'[s] = ident[s]
Heard(c) ==
  /\ HeardBy(c) /\ \A d \in Clients \ {c} : Still(d)
  /\ polling' = polling \cup {c} /\ c \in Connected
  /\ UNCHANGED <<server, maker, under, tokens, waiting, up, made, heard>>
  /\ \A s \in Scenes : HeardPhase(c, s)

LEMMA PhaseSame ==
  ASSUME NEW c, ~ \E x : Ids(down[c][1], x), \A U : ~ Hides(down[c][1], U), UNCHANGED <<phase, ident>>
  PROVE  \A s \in Scenes : HeardPhase(c, s)
BY DEF HeardPhase

LEMMA HearAddHeard ==
  ASSUME TypesOK, Core, NEW c \in Clients, HearAdd(c)
  PROVE  Heard(c)
<1>1. HeardBy(c) /\ \A d \in Clients \ {c} : Still(d)
  BY CoreParts, HearAddHears
<1>2. Hears(c) /\ UNCHANGED <<phase, ident>> /\ Head(down[c]).type = "add"
  BY DEF HearAdd
<1>3. /\ polling' = polling \cup {c} /\ UNCHANGED <<server, maker, under, tokens, waiting, up, made, heard>>
      /\ down[c][1].type = "add" /\ c \in Connected
  BY <1>2, HearsDoes
<1>4. \A s \in Scenes : HeardPhase(c, s)
  BY <1>2, <1>3, PhaseSame DEF Hides, Ids
<1> QED BY <1>1, <1>3, <1>4 DEF Heard

LEMMA HearCallHeard ==
  ASSUME TypesOK, Core, NEW c \in Clients, HearCall(c)
  PROVE  Heard(c)
<1>1. HeardBy(c) /\ \A d \in Clients \ {c} : Still(d)
  BY HearOtherHears
<1>2. Hears(c) /\ UNCHANGED <<phase, ident>> /\ Head(down[c]).type = "call"
  BY DEF HearCall
<1>3. /\ polling' = polling \cup {c} /\ UNCHANGED <<server, maker, under, tokens, waiting, up, made, heard>>
      /\ down[c][1].type = "call" /\ c \in Connected
  BY <1>2, HearsDoes
<1>4. \A s \in Scenes : HeardPhase(c, s)
  BY <1>2, <1>3, PhaseSame DEF Hides, Ids
<1> QED BY <1>1, <1>3, <1>4 DEF Heard

LEMMA HearIdsHeard ==
  ASSUME TypesOK, Core, NEW c \in Clients, HearIds(c)
  PROVE  Heard(c)
<1> DEFINE m == down[c][1]
           s == m.scene
<1>1. HeardBy(c) /\ \A d \in Clients \ {c} : Still(d)
  BY HearOtherHears
<1>2. Hears(c)
  BY DEF HearIds
<1>3. /\ polling' = polling \cup {c} /\ UNCHANGED <<server, maker, under, tokens, waiting, up, made, heard>>
      /\ c \in Connected /\ m = Head(down[c]) /\ 1 \in 1 .. Len(down[c])
  BY <1>2, HearsDoes
<1>4. m.type = "ids"
  BY <1>3 DEF HearIds
<1>5. tokens[c][m.token] = s
  BY <1>3, <1>4, CoreParts DEF IdsRight, Token
<1>6. s \in Scenes
  <2>1. m \in DownMsg
    BY <1>2, HearsDoes
  <2> QED BY <1>4, <2>1, DownKinds
<1>7. IF phase[s] = "asked" THEN phase' = [phase EXCEPT ![s] = "named"] /\ ident' = [ident EXCEPT ![s] = s]
                            ELSE UNCHANGED <<phase, ident>>
  BY <1>3, <1>5 DEF HearIds, Answered
<1> HIDE DEF s, m
<1>8. \A x \in Scenes : HeardPhase(c, x)
  <2> TAKE x \in Scenes
  <2>1. ~ Hides(down[c][1], Up(x)) /\ (Ids(down[c][1], x) <=> x = s)
    BY <1>4 DEF Hides, Ids, m, s
  <2>2. CASE x = s /\ phase[s] = "asked"
    BY <1>6, <1>7, <2>1, <2>2 DEF HeardPhase, TypesOK
  <2>3. CASE ~ (x = s /\ phase[s] = "asked")
    BY <1>6, <1>7, <2>1, <2>3 DEF HeardPhase, TypesOK
  <2> QED BY <2>2, <2>3
<1> QED BY <1>1, <1>3, <1>8 DEF Heard

LEMMA HearRemoveHeard ==
  ASSUME TypesOK, Core, NEW c \in Clients, HearRemove(c)
  PROVE  Heard(c)
<1> DEFINE m == down[c][1]
           s == m.scene
<1>1. HeardBy(c) /\ \A d \in Clients \ {c} : Still(d)
  BY HearRemoveHears
<1>2. Hears(c)
  BY DEF HearRemove
<1>3. /\ polling' = polling \cup {c} /\ UNCHANGED <<server, maker, under, tokens, waiting, up, made, heard>>
      /\ c \in Connected /\ m = Head(down[c])
  BY <1>2, HearsDoes
<1>4. m.type = "remove"
  BY <1>3 DEF HearRemove
<1>5. s \in Places
  <2>1. m \in DownMsg
    BY <1>2, HearsDoes
  <2> QED BY <1>4, <2>1, DownKinds DEF Places
<1>6. /\ phase' = [x \in Scenes |-> IF x \in (IF s = Place THEN Scenes ELSE Below(s)) /\ maker[x] = c
                                      THEN "gone" ELSE phase[x]]
      /\ ident' = ident
  BY <1>3 DEF HearRemove, Without
<1> HIDE DEF s, m
<1>7. \A x \in Scenes : HeardPhase(c, x)
  <2> TAKE x \in Scenes
  <2>1. ~ Ids(down[c][1], x)
    BY <1>4 DEF Ids, m
  <2>2. Hides(down[c][1], Up(x)) <=> x \in (IF s = Place THEN Scenes ELSE Below(s))
    BY <1>4, <1>5, NotAScene DEF Hides, Up, Below, m, s, Places
  <2> QED BY <1>6, <2>1, <2>2 DEF HeardPhase
<1> QED BY <1>1, <1>3, <1>7 DEF Heard

\* What becomes of the phases.
LEMMA HeardPhases ==
  ASSUME TypesOK, TypesOK', Core, NEW c \in Clients, Heard(c), NEW s \in Scenes
  PROVE  /\ maker[s] # c => phase'[s] = phase[s] /\ ident'[s] = ident[s]
         /\ phase'[s] \in {"new", "parent"} => phase'[s] = phase[s]
         /\ phase'[s] = "asked" => phase[s] = "asked" /\ ~ Ids(down[c][1], s)
         /\ phase'[s] = "named" => ident'[s] = s /\ (phase[s] = "named" \/ (phase[s] = "asked" /\ Ids(down[c][1], s)))
         /\ phase'[s] # phase[s] => \/ phase'[s] = "gone" /\ maker[s] = c /\ Hides(down[c][1], Up(s))
                                    \/ phase'[s] = "named" /\ phase[s] = "asked" /\ Ids(down[c][1], s)
         /\ maker[s] = c /\ Hides(down[c][1], Up(s)) => phase'[s] = "gone"
         /\ phase[s] = "asked" /\ Ids(down[c][1], s) => phase'[s] \in {"named", "gone"}
<1>1. HeardPhase(c, s)
  BY DEF Heard
<1>2. 1 \in 1 .. Len(down[c])
  <2>1. Len(down'[c]) + 1 = Len(down[c])
    BY DEF Heard, HeardBy, Drops
  <2>2. down'[c] \in Seq(DownMsg)
    <3>1. down' \in [Clients -> Seq(DownMsg)]
      BY ONLY TypesOK' DEF TypesOK
    <3> QED BY ONLY <3>1, c \in Clients
  <2>3. Len(down'[c]) \in Nat
    BY ONLY <2>2
  <2> QED BY ONLY <2>1, <2>3
<1>3. Ids(down[c][1], s) => maker[s] = c
  BY <1>2, CoreParts DEF IdsRight, Token, Ids
<1>4. phase[s] = "named" => ident[s] = s
  BY CoreParts DEF NamedRight
<1> QED BY <1>1, <1>3, <1>4 DEF HeardPhase

LEMMA HeardDown ==
  ASSUME TypesOK, TypesOK', NEW c \in Clients, Heard(c)
  PROVE  /\ Len(down[c]) = Len(down'[c]) + 1 /\ Len(down'[c]) \in Nat /\ 1 \in 1 .. Len(down[c])
         /\ \A i \in 1 .. Len(down'[c]) : i + 1 \in 1 .. Len(down[c]) /\ down'[c][i] = down[c][i + 1]
         /\ \A i \in 1 .. Len(down[c]) : i = 1 \/ (i - 1 \in 1 .. Len(down'[c]) /\ down'[c][i - 1] = down[c][i])
         /\ \A d \in Clients \ {c} : down'[d] = down[d]
<1>1. Len(down[c]) = Len(down'[c]) + 1 /\ Len(down'[c]) \in Nat
  BY LenNat DEF Heard, HeardBy, Drops, TypesOK
<1>2. \A i \in 1 .. Len(down'[c]) : down'[c][i] = down[c][i + 1]
  BY DEF Heard, HeardBy, Drops
<1>3. \A d \in Clients \ {c} : down'[d] = down[d]
  BY DEF Heard, Still
<1>4. \A i \in 1 .. Len(down[c]) : i = 1 \/ (i - 1 \in 1 .. Len(down'[c]) /\ (i - 1) + 1 = i)
  BY <1>1
<1> QED BY <1>1, <1>2, <1>3, <1>4

LEMMA WaitTypes ==
  ASSUME TypesOK, NEW d \in Clients, NEW i \in 1 .. Len(waiting[d])
  PROVE  waiting[d][i] \in Coroutine /\ waiting[d][i].scene \in Scenes /\ waiting[d][i].n \in Nat
<1>1. waiting[d] \in Seq(Coroutine)
  BY DEF TypesOK
<1>2. waiting[d][i] \in Coroutine
  BY <1>1
<1> QED BY <1>2 DEF Coroutine

LEMMA UpTypes ==
  ASSUME TypesOK, NEW d \in Clients, NEW i \in 1 .. Len(up[d])
  PROVE  up[d][i] \in UpMsg
BY DEF TypesOK

LEMMA DownTypes ==
  ASSUME TypesOK, NEW d \in Clients, NEW i \in 1 .. Len(down[d])
  PROVE  down[d][i] \in DownMsg
BY DEF TypesOK

LEMMA HeardAsking ==
  ASSUME TypesOK, TypesOK', Core, NEW c \in Clients, Heard(c)
  PROVE  Asking'
<1>1. UNCHANGED <<nodes, unanswered, maker, tokens, up>>
  BY DEF Heard, server
<1>2. RequestsRight'
  <2> SUFFICES ASSUME NEW d \in Clients, NEW i \in 1 .. Len(up[d]), up[d][i].type = "request"
               PROVE  /\ Token(d, up[d][i])' /\ up[d][i].scene \notin nodes' \cup unanswered'
                      /\ phase'[up[d][i].scene] \in {"asked", "gone"}
    BY <1>1 DEF RequestsRight
  <2> DEFINE s == up[d][i].scene
  <2>1. Token(d, up[d][i]) /\ s \notin nodes \cup unanswered /\ phase[s] \in {"asked", "gone"}
    BY CoreParts DEF RequestsRight
  <2>2. s \in Scenes
    <3>1. up \in [Clients -> Seq(UpMsg)]
      BY ONLY TypesOK DEF TypesOK
    <3>2. up[d] \in Seq(UpMsg)
      BY <3>1
    <3>3. up[d][i] \in UpMsg
      BY ONLY <3>2, i \in 1 .. Len(up[d])
    <3> QED BY <3>3, UpKinds
  <2>3. ~ Ids(down[c][1], s) \/ d # c
    BY HeardDown, CoreParts DEF RequestOrIds
  <2>4. phase'[s] \in {"asked", "gone"}
    <3>1. d # c => maker[s] # c
      BY <2>1 DEF Token
    <3> QED BY <2>1, <2>2, <2>3, <3>1, HeardPhases
  <2> QED BY <1>1, <2>1, <2>4 DEF Token
<1>3. OneRequest' /\ RequestOrCall'
  BY <1>1, CoreParts DEF OneRequest, RequestOrCall, Req
<1>4. RequestOrIds'
  <2> SUFFICES ASSUME NEW d \in Clients, NEW i \in 1 .. Len(up[d]), NEW j \in 1 .. Len(down'[d]),
                      up[d][i].type = "request"
               PROVE  ~ Ids(down'[d][j], up[d][i].scene)
    BY <1>1 DEF RequestOrIds
  <2> QED BY HeardDown, CoreParts DEF RequestOrIds
<1>5. IdsRight'
  <2> SUFFICES ASSUME NEW d \in Clients, NEW i \in 1 .. Len(down'[d]), down'[d][i].type = "ids"
               PROVE  /\ Token(d, down'[d][i]) /\ down'[d][i].scene \notin unanswered
                      /\ phase'[down'[d][i].scene] \in {"asked", "gone"}
    BY <1>1 DEF IdsRight, Token
  <2> DEFINE m == down'[d][i]
  <2>1. m \in DownMsg /\ m.scene \in Scenes
    <3>1. down' \in [Clients -> Seq(DownMsg)]
      BY ONLY TypesOK' DEF TypesOK
    <3>2. down'[d] \in Seq(DownMsg)
      BY <3>1
    <3>3. m \in DownMsg
      BY ONLY <3>2, i \in 1 .. Len(down'[d])
    <3> QED BY <3>3, DownKinds
  <2>2. Token(d, m) /\ m.scene \notin unanswered /\ phase[m.scene] \in {"asked", "gone"}
    <3>1. \E j \in 1 .. Len(down[d]) : m = down[d][j]
      BY HeardDown
    <3> QED BY <3>1, CoreParts DEF IdsRight
  <2>3. d # c \/ ~ Ids(down[c][1], m.scene)
    <3> SUFFICES ASSUME d = c PROVE ~ Ids(down[c][1], m.scene)
      OBVIOUS
    <3>1. i + 1 \in 1 .. Len(down[c]) /\ m = down[c][i + 1] /\ 1 \in 1 .. Len(down[c]) /\ i + 1 # 1
      BY HeardDown
    <3> QED BY <3>1, CoreParts DEF OneAnswer
  <2>4. phase'[m.scene] \in {"asked", "gone"}
    <3>1. d # c => maker[m.scene] # c
      BY <2>2 DEF Token
    <3> QED BY <2>1, <2>2, <2>3, <3>1, HeardPhases
  <2> QED BY <2>2, <2>4
<1>6. OneAnswer'
  <2> SUFFICES ASSUME NEW d \in Clients, NEW i \in 1 .. Len(down'[d]), NEW j \in 1 .. Len(down'[d]),
                      down'[d][i].type = "ids", i # j
               PROVE  ~ Ids(down'[d][j], down'[d][i].scene)
    BY DEF OneAnswer
  <2>1. CASE d = c
    <3>1. /\ i + 1 \in 1 .. Len(down[c]) /\ down'[c][i] = down[c][i + 1]
          /\ j + 1 \in 1 .. Len(down[c]) /\ down'[c][j] = down[c][j + 1] /\ i + 1 # j + 1
      BY <2>1, HeardDown
    <3> QED BY <2>1, <3>1, CoreParts DEF OneAnswer
  <2>2. CASE d # c
    BY <2>2, HeardDown, CoreParts DEF OneAnswer
  <2> QED BY <2>1, <2>2
<1>7. UnansweredAsked'
  <2> SUFFICES ASSUME NEW s \in unanswered PROVE phase'[s] \in {"asked", "gone"}
    BY <1>1 DEF UnansweredAsked
  <2>1. s \in Scenes /\ phase[s] \in {"asked", "gone"}
    BY CoreParts DEF UnansweredAsked, TypesOK
  <2>2. ~ Ids(down[c][1], s)
    BY HeardDown, CoreParts DEF IdsRight, Ids
  <2> QED BY <2>1, <2>2, HeardPhases
<1> QED BY <1>2, <1>3, <1>4, <1>5, <1>6, <1>7 DEF Asking

\* What is left of the answers and removals that are on their way to s's maker.
LEMMA HeardIdsLeft ==
  ASSUME TypesOK, TypesOK', Core, NEW c \in Clients, Heard(c), NEW s \in Scenes, maker[s] \in Clients
  PROVE  /\ HasIds(maker[s], Len(down[maker[s]]), s)' =>
              HasIds(maker[s], Len(down[maker[s]]), s) /\ (maker[s] = c => ~ Ids(down[c][1], s))
         /\ HasIds(maker[s], Len(down[maker[s]]), s) =>
              HasIds(maker[s], Len(down[maker[s]]), s)' \/ (maker[s] = c /\ Ids(down[c][1], s))
         /\ Leaving(s) => Leaving(s)' \/ (maker[s] = c /\ Hides(down[c][1], Up(s)))
<1>1. maker' = maker /\ Up(s)' = Up(s)
  BY UpSame DEF Heard
<1>2. CASE maker[s] = c
  <2>1. ASSUME NEW i \in 1 .. Len(down'[c]), Ids(down'[c][i], s)
        PROVE  HasIds(c, Len(down[c]), s) /\ ~ Ids(down[c][1], s)
    <3>1. i + 1 \in 1 .. Len(down[c]) /\ down'[c][i] = down[c][i + 1] /\ 1 \in 1 .. Len(down[c]) /\ i + 1 # 1
      BY HeardDown
    <3>2. ~ Ids(down[c][1], s)
      BY <2>1, <3>1, CoreParts DEF OneAnswer, Ids
    <3> QED BY <2>1, <3>1, <3>2 DEF HasIds
  <2>2. ASSUME NEW i \in 1 .. Len(down[c]), Ids(down[c][i], s), ~ Ids(down[c][1], s)
        PROVE  \E j \in 1 .. Len(down'[c]) : Ids(down'[c][j], s)
    BY <2>2, HeardDown
  <2>3. ASSUME NEW i \in 1 .. Len(down[c]), Hides(down[c][i], Up(s)), ~ Hides(down[c][1], Up(s))
        PROVE  \E j \in 1 .. Len(down'[c]) : Hides(down'[c][j], Up(s))
    BY <2>3, HeardDown
  <2> QED BY <1>1, <1>2, <2>1, <2>2, <2>3 DEF HasIds, Leaving
<1>3. CASE maker[s] # c
  <2>1. down'[maker[s]] = down[maker[s]]
    BY <1>3, HeardDown
  <2> QED BY <1>1, <1>3, <2>1 DEF HasIds, Leaving
<1> QED BY <1>2, <1>3

LEMMA HeardNaming ==
  ASSUME TypesOK, TypesOK', Core, NEW c \in Clients, Heard(c)
  PROVE  NamedRight' /\ NodesKnown' /\ KnownStay' /\ AskedFor'
<1>1. UNCHANGED <<nodes, unanswered, maker, up>>
  BY DEF Heard, server
<1>2. NamedRight'
  BY HeardPhases DEF NamedRight
<1>3. NodesKnown'
  <2> SUFFICES ASSUME NEW s \in nodes, phase'[s] # "gone"
               PROVE  phase'[s] = "named" \/ (phase'[s] = "asked" /\ HasIds(maker[s], Len(down[maker[s]]), s)')
    BY <1>1 DEF NodesKnown, Knows
  <2>1. s \in Scenes /\ maker[s] \in Clients
    BY CoreParts DEF Tree, TypesOK
  <2>2. phase[s] \in {"asked", "named", "gone"} /\ (phase[s] = "asked" => HasIds(maker[s], Len(down[maker[s]]), s))
    BY CoreParts DEF NodesKnown, Knows
  <2>3. CASE phase'[s] = phase[s]
    BY <2>1, <2>2, <2>3, HeardPhases, HeardIdsLeft
  <2>4. CASE phase'[s] # phase[s]
    BY <2>1, <2>4, HeardPhases
  <2> QED BY <2>3, <2>4
<1>4. KnownStay'
  <2> SUFFICES ASSUME NEW s \in Scenes,
                      phase'[s] = "named" \/ (phase'[s] = "asked" /\ HasIds(maker[s], Len(down[maker[s]]), s)')
               PROVE  s \in nodes \/ Leaving(s)'
    BY <1>1 DEF KnownStay, Knows
  <2>1. maker[s] \in Clients
    <3>1. phase[s] \in {"asked", "named"}
      BY HeardPhases
    <3>2. phase[s] # "new"
      BY <3>1
    <3> QED BY <3>2, CoreParts DEF Tree, TypesOK
  <2>2. Knows(s)
    <3>1. CASE phase'[s] = "named"
      <4>1. ASSUME phase[s] = "asked", Ids(down[c][1], s)
            PROVE  HasIds(maker[s], Len(down[maker[s]]), s)
        <5>1. 1 \in 1 .. Len(down[c])
          BY HeardDown
        <5>2. maker[s] = c
          BY <4>1, <5>1, CoreParts DEF IdsRight, Token, Ids
        <5> QED BY <4>1, <5>1, <5>2 DEF HasIds
      <4> QED BY <3>1, <4>1, HeardPhases DEF Knows
    <3>2. CASE phase'[s] # "named"
      BY <2>1, <3>2, HeardPhases, HeardIdsLeft DEF Knows
    <3> QED BY <3>1, <3>2
  <2>3. s \in nodes \/ Leaving(s)
    BY <2>2, CoreParts DEF KnownStay
  <2>4. ~ (maker[s] = c /\ Hides(down[c][1], Up(s)))
    BY HeardPhases
  <2> QED BY <2>1, <2>3, <2>4, HeardIdsLeft
<1>5. AskedFor'
  <2> SUFFICES ASSUME NEW s \in Scenes, phase'[s] = "asked"
               PROVE  \/ s \in unanswered
                      \/ \E i \in 1 .. Len(up[maker[s]]) : Req(up[maker[s]][i], s)
                      \/ HasIds(maker[s], Len(down[maker[s]]), s)'
    BY <1>1 DEF AskedFor
  <2>1. phase[s] = "asked" /\ ~ Ids(down[c][1], s)
    BY HeardPhases
  <2>2. maker[s] \in Clients
    BY <2>1, CoreParts DEF Tree, TypesOK
  <2> QED BY <2>1, <2>2, HeardIdsLeft, CoreParts DEF AskedFor
<1> QED BY <1>2, <1>3, <1>4, <1>5

LEMMA HeardStructure ==
  ASSUME TypesOK, TypesOK', Core, NEW c \in Clients, Heard(c)
  PROVE  Structure' /\ NoneYet'
<1>1. UNCHANGED <<status, hidden, nodes, unanswered, maker, under, up, waiting, made, heard>>
  BY DEF Heard, server
<1>2. Tree'
  <2>1. \A s \in Scenes : phase'[s] = "new" <=> maker'[s] = None
    <3> TAKE s \in Scenes
    <3>1. phase[s] = "new" <=> maker[s] = None
      BY CoreParts DEF Tree
    <3>2. phase'[s] # phase[s] => phase[s] # "new" /\ phase'[s] # "new"
      BY <3>1, HeardPhases, NotAClient
    <3> QED BY <1>1, <3>1, <3>2
  <2> QED BY <1>1, <2>1, CoreParts DEF Tree
<1>3. OwnAtTheEnd'
  BY <1>1, CoreParts, SameTree
<1>4. NothingLeft'
  <2> SUFFICES ASSUME NEW d \in Clients, d \notin Connected
               PROVE  /\ down'[d] = <<>> /\ up'[d] = <<>> /\ waiting'[d] = <<>> /\ d \notin polling' /\ d \notin hidden'
                      /\ \A s \in Scenes : maker'[s] = d => phase'[s] = "gone"
    BY <1>1 DEF NothingLeft, Connected
  <2>1. d # c /\ down'[d] = down[d] /\ polling' = polling \cup {c}
    BY DEF Heard, Still
  <2>2. \A s \in Scenes : maker[s] = d => phase'[s] = "gone"
    BY <2>1, HeardPhases, CoreParts DEF NothingLeft
  <2> QED BY <1>1, <2>1, <2>2, CoreParts DEF NothingLeft
<1>5. NoneYet'
  BY <1>1, HeardPhases, CoreParts DEF NoneYet
<1> QED BY <1>2, <1>3, <1>4, <1>5 DEF Structure

LEMMA HeardView ==
  ASSUME TypesOK, TypesOK', Core, NEW c \in Clients, Heard(c)
  PROVE  View'
<1>1. UNCHANGED <<status, hidden, nodes, maker, under>>
  BY DEF Heard, server
<1>2. \A x : Up(x)' = Up(x)
  BY <1>1, UpSame
<1>3. ViewRight'
  <2> SUFFICES ASSUME NEW d \in Clients, NEW x \in Places PROVE Seen(d, x)' <=> x \in Sees(d)'
    BY DEF ViewRight, Seen
  <2>1. Seen(d, x) <=> x \in Sees(d)
    BY CoreParts DEF ViewRight, Seen
  <2>2. Sees(d)' = Sees(d)
    <3>1. \A s : Path(s)' = Path(s)
      BY <1>1, PathSame
    <3>2. Others(d, nodes)' = Others(d, nodes)
      BY <1>1, <3>1 DEF Others
    <3> QED BY <1>1, <3>2 DEF Sees, Connected
  <2>3. Seen(d, x)' <=> Seen(d, x)
    <3>1. CASE d = c
      BY <1>2, <3>1, SeenHeard DEF Heard
    <3>2. CASE d # c
      BY <1>2, <3>2, StillQuiet, SeenQuiet DEF Heard
    <3> QED BY <3>1, <3>2
  <2> QED BY <2>1, <2>2, <2>3
<1>4. ParentsFirst'
  <2> SUFFICES ASSUME NEW d \in Clients PROVE ParentsAt(d)'
    BY DEF ParentsFirst, ParentsAt
  <2>1. ParentsAt(d) /\ Tree
    BY CoreParts DEF ParentsFirst, ParentsAt
  <2>2. CASE d = c
    BY <1>1, <2>1, <2>2, ParentsHeard DEF Heard
  <2>3. CASE d # c
    BY <1>1, <2>1, <2>3, StillQuiet, ParentsQuiet DEF Heard
  <2> QED BY <2>2, <2>3
<1> DEFINE m == down[c][1]
<1>5. \A x \in Places : Has(c, x)' <=> Shows(m, x) \/ (Has(c, x) /\ ~ Hides(m, Up(x)))
  BY DEF Heard, HeardBy
<1>6. \A d \in Clients \ {c} : HasSame(d)
  BY DEF Heard, Still
<1>7. Place \in Places /\ Scenes \subseteq Places /\ Place \notin Scenes
  BY NotAScene DEF Places
<1>8. \A x : Hides(m, Up(Place)) => Hides(m, Up(x))
  BY DEF Up, Hides
<1> HIDE DEF m
<1>9. CopiesOfOthers'
  <2> SUFFICES ASSUME NEW d \in Clients, NEW s \in Scenes, Has(d, s)' PROVE Has(d, Place)' /\ NotOwn(d, s)
    BY <1>1, <1>7, SameTree DEF CopiesOfOthers, Has, TypesOK
  <2>1. Has(d, s) => Has(d, Place) /\ NotOwn(d, s)
    BY <1>7, CoreParts DEF CopiesOfOthers, Has
  <2>2. CASE d # c
    BY <1>6, <1>7, <2>1, <2>2 DEF HasSame
  <2>3. CASE d = c /\ Shows(m, s)
    <3>1. Fits(c, m, 0)
      <4>1. 1 \in 1 .. Len(down[c]) /\ 1 - 1 = 0
        BY HeardDown
      <4> QED BY <4>1, CoreParts DEF ParentsFirst, m
    <3>2. m.type = "add" /\ s \in m.scenes
      BY <1>7, <2>3 DEF Shows
    <3>3. NotOwn(c, s) /\ (m.place \/ Has(c, Place))
      BY <3>1, <3>2, AtNone DEF Fits
    <3>4. (m.place => Shows(m, Place)) /\ ~ Hides(m, Up(Place))
      BY <3>2 DEF Shows, Hides
    <3> QED BY <1>5, <1>7, <2>3, <3>3, <3>4
  <2>4. CASE d = c /\ ~ Shows(m, s)
    BY <1>5, <1>7, <1>8, <2>1, <2>4
  <2> QED BY <2>2, <2>3, <2>4
<1>10. OwnHasParent'
  <2> SUFFICES ASSUME NEW s \in Scenes, phase'[s] \in {"parent", "asked", "named"}
               PROVE  /\ maker[s] \in place'
                      /\ under[s] \in Scenes /\ maker[under[s]] = maker[s] => phase'[under[s]] \in {"asked", "named"}
    BY <1>1 DEF OwnHasParent, Live
  <2>1. Live(s)
    BY HeardPhases DEF Live
  <2>2. /\ maker[s] \in place /\ maker[s] \in Clients
        /\ under[s] \in Scenes /\ maker[under[s]] = maker[s] => phase[under[s]] \in {"asked", "named"}
    BY <2>1, CoreParts DEF OwnHasParent, TypesOK
  <2>3. ~ (maker[s] = c /\ Hides(m, Up(s)))
    BY HeardPhases DEF m
  <2>4. maker[s] \in place'
    <3>1. CASE maker[s] = c
      BY <1>5, <1>7, <1>8, <2>2, <2>3, <3>1 DEF Has
    <3>2. CASE maker[s] # c
      BY <1>6, <1>7, <2>2, <3>2 DEF HasSame, Has
    <3> QED BY <3>1, <3>2
  <2>5. ASSUME under[s] \in Scenes, maker[under[s]] = maker[s] PROVE phase'[under[s]] \in {"asked", "named"}
    <3>1. phase[under[s]] \in {"asked", "named"}
      BY <2>2, <2>5
    <3>2. Up(under[s]) \subseteq Up(s)
      BY <2>5, <1>7, PathUnder DEF Up
    <3>3. ~ (maker[under[s]] = c /\ Hides(m, Up(under[s])))
      BY <2>3, <2>5, <3>2 DEF Hides
    <3> QED BY <2>5, <3>1, <3>3, HeardPhases DEF m
  <2> QED BY <2>4, <2>5
<1> QED BY <1>3, <1>4, <1>9, <1>10 DEF View

LEMMA HeardWaiting ==
  ASSUME TypesOK, TypesOK', Core, NEW c \in Clients, Heard(c)
  PROVE  Waiting' /\ Calling' /\ StillWait'
<1>1. UNCHANGED <<maker, under, up, waiting, made>> /\ polling' = polling \cup {c}
  BY DEF Heard
<1>2. \A d \in Clients : \A i \in 1 .. Len(waiting[d]) : waiting[d][i].scene \in Scenes /\ waiting[d][i].n \in Nat
  BY WaitTypes
<1>3. ParentWaits'
  BY <1>1, HeardPhases, CoreParts DEF ParentWaits
<1>4. WaitersDiffer'
  BY <1>1, CoreParts DEF WaitersDiffer
<1>5. WaitersRight'
  <2> SUFFICES ASSUME NEW d \in Clients, NEW i \in 1 .. Len(waiting[d]) PROVE Waits(d, waiting[d][i])'
    BY <1>1 DEF WaitersRight, Waits
  <2>1. Waits(d, waiting[d][i]) /\ waiting[d][i].scene \in Scenes
    BY <1>2, CoreParts DEF WaitersRight
  <2> QED BY <1>1, <2>1, HeardPhases DEF Waits
<1>6. CallsRight'
  <2> SUFFICES ASSUME NEW d \in Clients, NEW i \in 1 .. Len(up[d]), up[d][i].type = "call" PROVE SentCall(d, up[d][i])'
    BY <1>1 DEF CallsRight, SentCall
  <2>1. SentCall(d, up[d][i])
    BY CoreParts DEF CallsRight
  <2>2. up[d][i].from \in Scenes
    <3>1. up \in [Clients -> Seq(UpMsg)]
      BY ONLY TypesOK DEF TypesOK
    <3>2. up[d] \in Seq(UpMsg)
      BY <3>1
    <3>3. up[d][i] \in UpMsg
      BY ONLY <3>2, i \in 1 .. Len(up[d])
    <3> QED BY <3>3, UpKinds
  <2>3. phase'[up[d][i].from] \in {"named", "gone"}
    BY <2>1, <2>2, HeardPhases DEF SentCall
  <2> QED BY <1>1, <2>1, <2>3 DEF SentCall
<1>7. CallsDiffer' /\ SentOrWaits'
  BY <1>1, CoreParts DEF CallsDiffer, SentOrWaits, IsCall
<1>8. StillWait'
  <2> SUFFICES ASSUME NEW d \in Clients \ polling', NEW i \in 1 .. Len(waiting[d]), Resumes(waiting[d][i])'
               PROVE  phase'[waiting[d][i].scene] = "gone"
    BY <1>1 DEF StillWait, Resumes
  <2>1. Waits(d, waiting[d][i]) /\ waiting[d][i].scene \in Scenes /\ waiting[d][i].n \in Nat /\ d # c /\ d \notin polling
    BY <1>1, <1>2, CoreParts DEF WaitersRight
  <2>2. Resumes(waiting[d][i])
    BY <1>1, <2>1, HeardPhases DEF Resumes, Waits
  <2> QED BY <2>1, <2>2, HeardPhases, CoreParts DEF StillWait, Waits
<1> QED BY <1>3, <1>4, <1>5, <1>6, <1>7, <1>8 DEF Waiting, Calling

LEMMA HeardKeeps ==
  ASSUME TypesOK, TypesOK', Core, NEW c \in Clients, Heard(c)
  PROVE  Core'
BY HeardAsking, HeardNaming, HeardStructure, HeardView, HeardWaiting DEF Core, Naming

(* The steps of a client. *)
LEMMA ViewFrame ==
  ASSUME Core, UNCHANGED <<status, hidden, nodes, maker, under, place, copies, down>>
  PROVE  ViewRight' /\ ParentsFirst' /\ CopiesOfOthers'
<1>1. \A x : Up(x)' = Up(x)
  BY UpSame
<1>2. \A d, k, x : At(d, k, x)' <=> At(d, k, x)
  BY <1>1 DEF At, Has
<1>3. \A d : Sees(d)' = Sees(d)
  <2>1. \A d : Others(d, nodes)' = Others(d, nodes)
    BY PathSame DEF Others
  <2> QED BY <2>1 DEF Sees, Connected
<1>4. ViewRight'
  <2> SUFFICES ASSUME NEW d \in Clients, NEW x \in Places PROVE At(d, Len(down[d]), x)' <=> x \in Sees(d)'
    BY DEF ViewRight
  <2>1. At(d, Len(down[d]), x)' <=> At(d, Len(down[d]), x)
    BY <1>1 DEF At, Has
  <2> QED BY <1>3, <2>1, CoreParts DEF ViewRight
<1>5. ParentsFirst'
  <2>1. \A d, m, k : Fits(d, m, k)' <=> Fits(d, m, k)
    BY <1>1, SameTree DEF Fits, At, Has
  <2> SUFFICES ASSUME NEW d \in Clients, NEW i \in 1 .. Len(down[d]) PROVE Fits(d, down[d][i], i - 1)'
    BY DEF ParentsFirst
  <2>2. PICK m : m = down[d][i] /\ m = down'[d][i]
    OBVIOUS
  <2>3. Fits(d, m, i - 1)'
    BY <2>1, <2>2, CoreParts DEF ParentsFirst
  <2> QED BY <2>2, <2>3 DEF Fits, At, Shows
<1>6. CopiesOfOthers'
  BY CoreParts, SameTree DEF CopiesOfOthers
<1> QED BY <1>4, <1>5, <1>6


LEMMA FreeOwnKeeps ==
  ASSUME TypesOK, TypesOK', Core, NEW c \in Clients, NEW s \in Scenes, FreeOwn(c, s)
  PROVE  Core'
<1>1. /\ c \in Connected
      /\ UNCHANGED <<status, hidden, nodes, unanswered, maker, under, ident, tokens, waiting, polling, place, up, down,
                     made, heard>>
  BY DEF FreeOwn, server
<1>2. copies' = copies
  BY CoreParts, FreeOwnStill
<1>3. \A x \in Scenes : phase'[x] = IF x \in Below(s) /\ maker[x] = c THEN "gone" ELSE phase[x]
  BY DEF FreeOwn, Without
<1>4. ViewRight' /\ ParentsFirst' /\ CopiesOfOthers'
  BY <1>1, <1>2, ViewFrame
<1>5. OwnHasParent'
  <2> SUFFICES ASSUME NEW x \in Scenes, phase'[x] \in {"parent", "asked", "named"}
               PROVE  /\ maker[x] \in place
                      /\ under[x] \in Scenes /\ maker[under[x]] = maker[x] => phase'[under[x]] \in {"asked", "named"}
    BY <1>1 DEF OwnHasParent, Live
  <2>1. phase[x] = phase'[x] /\ ~ (x \in Below(s) /\ maker[x] = c)
    BY <1>3
  <2>2. /\ maker[x] \in place
        /\ under[x] \in Scenes /\ maker[under[x]] = maker[x] => phase[under[x]] \in {"asked", "named"}
    BY <2>1, CoreParts DEF OwnHasParent, Live
  <2>3. ASSUME under[x] \in Scenes, maker[under[x]] = maker[x] PROVE phase'[under[x]] = phase[under[x]]
    <3>1. under[x] \in Below(s) => x \in Below(s)
      BY <2>3, PathUnder DEF Below
    <3> QED BY <1>3, <2>1, <2>3, <3>1
  <2> QED BY <2>2, <2>3
<1>6. Structure'
  <2>1. Tree'
    <3>1. \A x \in Scenes : phase'[x] = "new" <=> maker'[x] = None
      BY <1>1, <1>3, CoreParts, NotAClient DEF Tree
    <3> QED BY <1>1, <3>1, CoreParts DEF Tree
  <2>2. OwnAtTheEnd'
    BY <1>1, CoreParts, SameTree
  <2>3. NothingLeft'
    BY <1>1, <1>3, CoreParts DEF NothingLeft, Connected
  <2> QED BY <2>1, <2>2, <2>3 DEF Structure
<1>7. Waiting'
  <2>1. ParentWaits' /\ WaitersDiffer'
    BY <1>1, <1>3, CoreParts DEF ParentWaits, WaitersDiffer
  <2>2. WaitersRight'
    <3> SUFFICES ASSUME NEW d \in Clients, NEW i \in 1 .. Len(waiting[d]) PROVE Waits(d, waiting[d][i])'
      BY <1>1 DEF WaitersRight, Waits
    <3>1. Waits(d, waiting[d][i]) /\ waiting[d][i].scene \in Scenes
      BY WaitTypes, CoreParts DEF WaitersRight
    <3> QED BY <1>1, <1>3, <3>1 DEF Waits
  <2> QED BY <2>1, <2>2 DEF Waiting
<1>8. Asking' /\ AskedFor'
  <2>1. RequestsRight'
    <3> SUFFICES ASSUME NEW d \in Clients, NEW i \in 1 .. Len(up[d]), up[d][i].type = "request"
                 PROVE  /\ Token(d, up[d][i]) /\ up[d][i].scene \notin nodes \cup unanswered
                        /\ phase'[up[d][i].scene] \in {"asked", "gone"}
      BY <1>1 DEF RequestsRight, Token
    <3>1. up[d][i].scene \in Scenes
      BY UpTypes, UpKinds
    <3> QED BY <1>3, <3>1, CoreParts DEF RequestsRight
  <2>2. OneRequest' /\ RequestOrCall'
    BY <1>1, CoreParts DEF OneRequest, RequestOrCall, Req
  <2>3. RequestOrIds' /\ OneAnswer'
    BY <1>1, CoreParts DEF RequestOrIds, OneAnswer, Ids
  <2>4. IdsRight'
    <3> SUFFICES ASSUME NEW d \in Clients, NEW i \in 1 .. Len(down[d]), down[d][i].type = "ids"
                 PROVE  /\ Token(d, down[d][i]) /\ down[d][i].scene \notin unanswered
                        /\ phase'[down[d][i].scene] \in {"asked", "gone"}
      BY <1>1 DEF IdsRight, Token
    <3>1. down[d][i].scene \in Scenes
      BY DownTypes, DownKinds
    <3> QED BY <1>3, <3>1, CoreParts DEF IdsRight
  <2>5. UnansweredAsked'
    BY <1>1, <1>3, CoreParts DEF UnansweredAsked, TypesOK
  <2>6. AskedFor'
    BY <1>1, <1>3, CoreParts DEF AskedFor, Req, HasIds
  <2> QED BY <2>1, <2>2, <2>3, <2>4, <2>5, <2>6 DEF Asking
<1>9. Calling'
  <2>1. CallsRight'
    <3> SUFFICES ASSUME NEW d \in Clients, NEW i \in 1 .. Len(up[d]), up[d][i].type = "call" PROVE SentCall(d, up[d][i])'
      BY <1>1 DEF CallsRight, SentCall
    <3>1. up[d][i].from \in Scenes /\ SentCall(d, up[d][i])
      BY UpTypes, UpKinds, CoreParts DEF CallsRight
    <3> QED BY <1>1, <1>3, <3>1 DEF SentCall
  <2>2. CallsDiffer' /\ SentOrWaits'
    BY <1>1, CoreParts DEF CallsDiffer, SentOrWaits, IsCall
  <2> QED BY <2>1, <2>2 DEF Calling
<1>10. Naming'
  <2>1. NamedRight'
    BY <1>1, <1>3, CoreParts DEF NamedRight
  <2>2. NodesKnown'
    BY <1>1, <1>3, CoreParts DEF NodesKnown, Knows, HasIds, TypesOK
  <2>3. \A x \in Scenes : Knows(x)' => Knows(x)
    BY <1>1, <1>3 DEF Knows, HasIds
  <2>4. \A x \in Scenes : Leaving(x) => Leaving(x)'
    BY <1>1, UpSame DEF Leaving
  <2>5. KnownStay'
    BY <1>1, <2>3, <2>4, CoreParts DEF KnownStay
  <2> QED BY <2>1, <2>2, <2>5 DEF Naming
<1>11. StillWait'
  <2> SUFFICES ASSUME NEW d \in Clients \ polling, NEW i \in 1 .. Len(waiting[d]), Resumes(waiting[d][i])'
               PROVE  phase'[waiting[d][i].scene] = "gone"
    BY <1>1 DEF StillWait, Resumes
  <2> DEFINE w == waiting[d][i]
  <2>1. Waits(d, w) /\ w.scene \in Scenes /\ w.n \in Nat
    BY WaitTypes, CoreParts DEF WaitersRight
  <2>2. CASE Resumes(w)
    BY <1>3, <2>1, <2>2, CoreParts DEF StillWait
  <2>3. CASE ~ Resumes(w) /\ w.n > 0
    BY <1>1, <1>3, <2>1, <2>3 DEF Resumes
  <2>4. CASE ~ Resumes(w) /\ w.n = 0
    <3>1. under[w.scene] \in Scenes /\ phase'[under[w.scene]] # phase[under[w.scene]]
      BY <1>1, <2>1, <2>4 DEF Resumes, Waits
    <3>2. under[w.scene] \in Below(s) /\ maker[under[w.scene]] = c /\ maker[w.scene] = c
      BY <1>3, <2>1, <2>4, <3>1 DEF Waits
    <3>3. w.scene \in Below(s)
      BY <2>1, <3>1, <3>2, PathUnder DEF Below
    <3> QED BY <1>3, <2>1, <3>2, <3>3
  <2> QED BY <2>1, <2>2, <2>3, <2>4
<1>12. NoneYet'
  BY <1>1, <1>3, CoreParts DEF NoneYet
<1> QED BY <1>4, <1>5, <1>6, <1>7, <1>8, <1>9, <1>10, <1>11, <1>12 DEF Core, View

\* One of the queues of c grows by w or m.
Grows1(q, p, m) == Len(q) = Len(p) + 1 /\ Extends(q, p) /\ q[Len(p) + 1] = m

LEMMA CallDoes ==
  ASSUME TypesOK, Core, NEW c \in Clients, NEW s \in Scenes, Call(c, s)
  PROVE  LET w == [scene |-> s, n |-> made[s] + 1] m == Calls(s, s, made[s] + 1) IN
         /\ c \in Connected /\ maker[s] = c /\ made' = [made EXCEPT ![s] = @ + 1]
         /\ UNCHANGED <<server, maker, under, phase, ident, tokens, polling, place, copies, down, heard>>
         /\ \A d \in Clients \ {c} : up'[d] = up[d] /\ waiting'[d] = waiting[d]
         /\ \/ phase[s] = "asked" /\ up'[c] = up[c] /\ Grows1(waiting'[c], waiting[c], w)
            \/ phase[s] = "named" /\ waiting'[c] = waiting[c] /\ Grows1(up'[c], up[c], m)
<1> DEFINE w == [scene |-> s, n |-> made[s] + 1]
           m == Calls(s, s, made[s] + 1)
<1>1. /\ c \in Connected /\ maker[s] = c /\ made' = [made EXCEPT ![s] = @ + 1] /\ phase[s] \in {"asked", "named"}
      /\ UNCHANGED <<server, maker, under, phase, ident, tokens, polling, place, copies, down, heard>>
  BY DEF Call
<1>2. /\ phase[s] = "asked" => up' = up /\ waiting' = [waiting EXCEPT ![c] = Append(@, w)]
      /\ phase[s] = "named" => up' = [up EXCEPT ![c] = Append(@, m)] /\ waiting' = waiting
  BY CoreParts DEF Call, NamedRight
<1>3. waiting[c] \in Seq(Coroutine) /\ up[c] \in Seq(UpMsg) /\ w \in Coroutine /\ m \in UpMsg
  <2>1. made[s] + 1 \in Nat
    BY DEF TypesOK
  <2> QED BY <2>1, MadeMessages DEF TypesOK, Coroutine
<1> HIDE DEF w, m
<1>4. phase[s] = "asked" =>
        up' = up /\ Grows1(waiting'[c], waiting[c], w) /\ \A d \in Clients \ {c} : waiting'[d] = waiting[d]
  <2>1. Grows1(Append(waiting[c], w), waiting[c], w)
    BY <1>3, AppendSeq DEF Grows1
  <2> QED BY <1>2, <2>1 DEF TypesOK
<1>5. phase[s] = "named" =>
        waiting' = waiting /\ Grows1(up'[c], up[c], m) /\ \A d \in Clients \ {c} : up'[d] = up[d]
  <2>1. Grows1(Append(up[c], m), up[c], m)
    BY <1>3, AppendSeq DEF Grows1
  <2> QED BY <1>2, <2>1 DEF TypesOK
<1> QED BY <1>1, <1>4, <1>5 DEF w, m

\* The elements of a queue that grew.
LEMMA GrownBy ==
  ASSUME NEW p, NEW q, NEW m, Len(p) \in Nat, Grows1(q, p, m)
  PROVE  /\ \A i \in 1 .. Len(p) : i \in 1 .. Len(q) /\ q[i] = p[i]
         /\ \A i \in 1 .. Len(q) : (i \in 1 .. Len(p) /\ q[i] = p[i]) \/ (i = Len(p) + 1 /\ q[i] = m)
<1>1. Len(q) = Len(p) + 1
  BY DEF Grows1
<1>2. \A i \in 1 .. Len(q) : i \in 1 .. Len(p) \/ i = Len(p) + 1
  BY <1>1
<1>3. \A i \in 1 .. Len(p) : i \in 1 .. Len(q)
  BY <1>1
<1> QED BY <1>1, <1>2, <1>3 DEF Grows1, Extends

LEMMA CallKeeps ==
  ASSUME TypesOK, TypesOK', Core, NEW c \in Clients, NEW s \in Scenes, Call(c, s)
  PROVE  Core'
<1> DEFINE w == [scene |-> s, n |-> made[s] + 1]
           m == Calls(s, s, made[s] + 1)
<1>1. /\ c \in Connected /\ maker[s] = c /\ made' = [made EXCEPT ![s] = @ + 1]
      /\ UNCHANGED <<server, maker, under, phase, ident, tokens, polling, place, copies, down, heard>>
      /\ \A d \in Clients \ {c} : up'[d] = up[d] /\ waiting'[d] = waiting[d]
      /\ \/ phase[s] = "asked" /\ up'[c] = up[c] /\ Grows1(waiting'[c], waiting[c], w)
         \/ phase[s] = "named" /\ waiting'[c] = waiting[c] /\ Grows1(up'[c], up[c], m)
  BY CallDoes
<1>0. w.scene = s /\ w.n = made[s] + 1 /\ m.type = "call" /\ m.scene = s /\ m.from = s /\ m.n = made[s] + 1
  BY DEF Calls
<1> HIDE DEF w, m
<1>2. UNCHANGED <<status, hidden, nodes, unanswered>>
  BY <1>1 DEF server
<1>3. \A d \in Clients : /\ \A i \in 1 .. Len(up[d]) : i \in 1 .. Len(up'[d]) /\ up'[d][i] = up[d][i]
                         /\ \A i \in 1 .. Len(up'[d]) : \/ i \in 1 .. Len(up[d]) /\ up'[d][i] = up[d][i]
                                                        \/ d = c /\ i = Len(up[c]) + 1 /\ up'[d][i] = m /\ phase[s] = "named"
  BY <1>1, GrownBy, LenNat
<1>4. \A d \in Clients : /\ \A i \in 1 .. Len(waiting[d]) : i \in 1 .. Len(waiting'[d]) /\ waiting'[d][i] = waiting[d][i]
                         /\ \A i \in 1 .. Len(waiting'[d]) :
                              \/ i \in 1 .. Len(waiting[d]) /\ waiting'[d][i] = waiting[d][i]
                              \/ d = c /\ i = Len(waiting[c]) + 1 /\ waiting'[d][i] = w /\ phase[s] = "asked"
  BY <1>1, GrownBy, LenNat
<1>5. made \in [Scenes -> Nat] /\ made'[s] = made[s] + 1 /\ \A x \in Scenes : made[x] \in Nat /\ made'[x] \in Nat /\ made[x] <= made'[x]
  BY <1>1 DEF TypesOK
<1>20. \A d \in Clients : \A i \in 1 .. Len(waiting[d]) : waiting[d][i].scene \in Scenes /\ waiting[d][i].n \in Nat
  BY WaitTypes
<1>21. \A d \in Clients : \A i \in 1 .. Len(up[d]) : up[d][i].type = "call" => up[d][i].from \in Scenes /\ up[d][i].n \in Nat
  BY UpTypes, UpKinds
<1>22. \A d \in Clients : \A i \in 1 .. Len(up[d]) : ~ IsCall(up[d][i], s, made[s] + 1)
  BY <1>5, <1>21, CoreParts DEF IsCall, CallsRight, SentCall
<1>23. \A d \in Clients : \A i \in 1 .. Len(waiting[d]) : waiting[d][i].scene # s \/ waiting[d][i].n # made[s] + 1
  BY <1>5, <1>20, CoreParts DEF WaitersRight, Waits
<1>6. Structure'
  <2>1. Tree'
    BY <1>1, <1>2, CoreParts DEF Tree
  <2>2. OwnAtTheEnd'
    BY <1>1, CoreParts, SameTree
  <2>3. NothingLeft'
    BY <1>1, <1>2, CoreParts DEF NothingLeft, Connected
  <2> QED BY <2>1, <2>2, <2>3 DEF Structure
<1>7. View'
  <2>1. ViewRight' /\ ParentsFirst' /\ CopiesOfOthers'
    BY <1>1, <1>2, ViewFrame
  <2>2. OwnHasParent'
    BY <1>1, CoreParts DEF OwnHasParent, Live
  <2> QED BY <2>1, <2>2 DEF View
<1>8. Waiting'
  <2>1. ParentWaits'
    <3> SUFFICES ASSUME NEW x \in Scenes, phase[x] = "parent"
                 PROVE  /\ under[x] \in Scenes /\ maker[under[x]] = maker[x]
                        /\ \E i \in 1 .. Len(waiting'[maker[x]]) :
                             waiting'[maker[x]][i].scene = x /\ waiting'[maker[x]][i].n = 0
      BY <1>1 DEF ParentWaits
    <3>1. maker[x] \in Clients
      BY CoreParts DEF Tree, TypesOK
    <3>2. /\ under[x] \in Scenes /\ maker[under[x]] = maker[x]
          /\ \E i \in 1 .. Len(waiting[maker[x]]) : waiting[maker[x]][i].scene = x /\ waiting[maker[x]][i].n = 0
      BY CoreParts DEF ParentWaits
    <3> QED BY <1>4, <3>1, <3>2
  <2>2. WaitersRight'
    <3> SUFFICES ASSUME NEW d \in Clients, NEW i \in 1 .. Len(waiting'[d])
                 PROVE  LET v == waiting'[d][i] IN
                        /\ maker[v.scene] = d /\ v.n <= made'[v.scene]
                        /\ v.n = 0 => under[v.scene] \in Scenes /\ maker[under[v.scene]] = d /\ phase[v.scene] \in {"parent", "gone"}
                        /\ v.n # 0 => phase[v.scene] \in {"asked", "named", "gone"}
      BY <1>1 DEF WaitersRight, Waits
    <3>1. CASE i \in 1 .. Len(waiting[d]) /\ waiting'[d][i] = waiting[d][i]
      <4>1. Waits(d, waiting[d][i]) /\ waiting[d][i].scene \in Scenes /\ waiting[d][i].n \in Nat
        BY <1>20, <3>1, CoreParts DEF WaitersRight
      <4>2. waiting[d][i].n <= made'[waiting[d][i].scene]
        BY <1>5, <4>1 DEF Waits
      <4> QED BY <3>1, <4>1, <4>2 DEF Waits
    <3>2. CASE d = c /\ waiting'[d][i] = w /\ phase[s] = "asked"
      BY <1>0, <1>1, <1>5, <3>2
    <3> QED BY <1>4, <3>1, <3>2
  <2>3. WaitersDiffer'
    <3> SUFFICES ASSUME NEW d \in Clients, NEW i \in 1 .. Len(waiting'[d]), NEW j \in 1 .. Len(waiting'[d]), i # j
                 PROVE  waiting'[d][i] # waiting'[d][j]
      BY DEF WaitersDiffer
    <3>1. WaitersDiffer
      BY CoreParts
    <3>2. CASE d # c
      BY <1>4, <3>1, <3>2 DEF WaitersDiffer
    <3>3. CASE d = c
      <4>1. CASE i \in 1 .. Len(waiting[c]) /\ waiting'[c][i] = waiting[c][i] /\ j \in 1 .. Len(waiting[c]) /\ waiting'[c][j] = waiting[c][j]
        BY <3>1, <3>3, <4>1 DEF WaitersDiffer
      <4>2. CASE ~ (i \in 1 .. Len(waiting[c]) /\ waiting'[c][i] = waiting[c][i] /\ j \in 1 .. Len(waiting[c]) /\ waiting'[c][j] = waiting[c][j])
        BY <1>0, <1>4, <1>23, <3>3, <4>2
      <4> QED BY <4>1, <4>2
    <3> QED BY <3>2, <3>3
  <2> QED BY <2>1, <2>2, <2>3 DEF Waiting
<1>9. Asking'
  <2>1. \A d \in Clients : \A i \in 1 .. Len(up'[d]) : up'[d][i].type = "request" => i \in 1 .. Len(up[d]) /\ up'[d][i] = up[d][i]
    BY <1>0, <1>3
  <2>2. RequestsRight'
    <3> SUFFICES ASSUME NEW d \in Clients, NEW i \in 1 .. Len(up'[d]), up'[d][i].type = "request"
                 PROVE  LET v == up'[d][i] IN
                        /\ v.token \in 1 .. Len(tokens[d]) /\ tokens[d][v.token] = v.scene /\ maker[v.scene] = d
                        /\ v.scene \notin nodes \cup unanswered /\ phase[v.scene] \in {"asked", "gone"}
      BY <1>1, <1>2 DEF RequestsRight, Token
    <3>1. i \in 1 .. Len(up[d]) /\ up'[d][i] = up[d][i]
      BY <2>1
    <3>2. /\ Token(d, up[d][i]) /\ up[d][i].scene \notin nodes \cup unanswered
          /\ phase[up[d][i].scene] \in {"asked", "gone"}
      BY <3>1, CoreParts DEF RequestsRight
    <3> QED BY <3>1, <3>2 DEF Token
  <2>3. OneRequest'
    <3> SUFFICES ASSUME NEW d \in Clients, NEW i \in 1 .. Len(up'[d]), NEW j \in 1 .. Len(up'[d]), i # j,
                        up'[d][i].type = "request", up'[d][j].type = "request"
                 PROVE  up'[d][j].scene # up'[d][i].scene
      BY DEF OneRequest, Req
    <3>1. i \in 1 .. Len(up[d]) /\ up'[d][i] = up[d][i] /\ j \in 1 .. Len(up[d]) /\ up'[d][j] = up[d][j]
      BY <2>1
    <3>2. OneRequest
      BY CoreParts
    <3> QED BY <3>1, <3>2 DEF OneRequest, Req
  <2>4. RequestOrCall'
    <3> SUFFICES ASSUME NEW d \in Clients, NEW i \in 1 .. Len(up'[d]), NEW j \in 1 .. Len(up'[d]),
                        up'[d][i].type = "request", up'[d][j].type = "call"
                 PROVE  up'[d][j].from # up'[d][i].scene
      BY DEF RequestOrCall
    <3>1. i \in 1 .. Len(up[d]) /\ up'[d][i] = up[d][i] /\ phase[up[d][i].scene] \in {"asked", "gone"}
      BY <2>1, CoreParts DEF RequestsRight
    <3>2. CASE up'[d][j] = m /\ phase[s] = "named"
      BY <1>0, <3>1, <3>2
    <3>3. CASE j \in 1 .. Len(up[d]) /\ up'[d][j] = up[d][j]
      BY <3>1, <3>3, CoreParts DEF RequestOrCall
    <3> QED BY <1>3, <3>2, <3>3
  <2>5. RequestOrIds'
    <3> SUFFICES ASSUME NEW d \in Clients, NEW i \in 1 .. Len(up'[d]), NEW j \in 1 .. Len(down[d]), up'[d][i].type = "request"
                 PROVE  ~ Ids(down[d][j], up'[d][i].scene)
      BY <1>1 DEF RequestOrIds, Ids
    <3>1. i \in 1 .. Len(up[d]) /\ up'[d][i] = up[d][i]
      BY <2>1
    <3>2. RequestOrIds
      BY CoreParts
    <3> QED BY <3>1, <3>2 DEF RequestOrIds
  <2>6. IdsRight' /\ OneAnswer' /\ UnansweredAsked'
    BY <1>1, <1>2, CoreParts DEF IdsRight, OneAnswer, UnansweredAsked, Token, Ids
  <2> QED BY <2>2, <2>3, <2>4, <2>5, <2>6 DEF Asking
<1>10. Calling'
  <2>1. CallsRight'
    <3> SUFFICES ASSUME NEW d \in Clients, NEW i \in 1 .. Len(up'[d]), up'[d][i].type = "call"
                 PROVE  LET v == up'[d][i] IN
                        /\ maker[v.from] = d /\ v.scene = v.from /\ phase[v.from] \in {"named", "gone"}
                        /\ v.n # 0 /\ v.n <= made'[v.from]
      BY <1>1 DEF CallsRight, SentCall
    <3>1. CASE i \in 1 .. Len(up[d]) /\ up'[d][i] = up[d][i]
      <4>1. SentCall(d, up[d][i]) /\ up[d][i].from \in Scenes /\ up[d][i].n \in Nat
        BY <1>21, <3>1, CoreParts DEF CallsRight
      <4>2. up[d][i].n <= made'[up[d][i].from]
        BY <1>5, <4>1 DEF SentCall
      <4> QED BY <3>1, <4>1, <4>2 DEF SentCall
    <3>2. CASE d = c /\ up'[d][i] = m /\ phase[s] = "named"
      BY <1>0, <1>1, <1>5, <3>2
    <3> QED BY <1>3, <3>1, <3>2
  <2>2. CallsDiffer'
    <3> SUFFICES ASSUME NEW d \in Clients, NEW i \in 1 .. Len(up'[d]), NEW j \in 1 .. Len(up'[d]), i # j,
                        up'[d][i].type = "call"
                 PROVE  ~ IsCall(up'[d][j], up'[d][i].from, up'[d][i].n)
      BY DEF CallsDiffer, IsCall
    <3>1. ASSUME i \in 1 .. Len(up[d]), up'[d][i] = up[d][i], j \in 1 .. Len(up[d]), up'[d][j] = up[d][j]
          PROVE  ~ IsCall(up'[d][j], up'[d][i].from, up'[d][i].n)
      BY <3>1, CoreParts DEF CallsDiffer
    <3>2. ASSUME up'[d][i] = m, j \in 1 .. Len(up[d]), up'[d][j] = up[d][j]
          PROVE  ~ IsCall(up'[d][j], up'[d][i].from, up'[d][i].n)
      BY <1>0, <1>22, <3>2
    <3>3. ASSUME up'[d][j] = m, i \in 1 .. Len(up[d]), up'[d][i] = up[d][i]
          PROVE  ~ IsCall(up'[d][j], up'[d][i].from, up'[d][i].n)
      BY <1>0, <1>22, <3>3 DEF IsCall
    <3> QED BY <1>3, <3>1, <3>2, <3>3
  <2>3. SentOrWaits'
    <3> SUFFICES ASSUME NEW d \in Clients, NEW i \in 1 .. Len(up'[d]), NEW j \in 1 .. Len(waiting'[d]), up'[d][i].type = "call"
                 PROVE  waiting'[d][j].scene # up'[d][i].from \/ waiting'[d][j].n # up'[d][i].n
      BY DEF SentOrWaits
    <3>1. ASSUME i \in 1 .. Len(up[d]), up'[d][i] = up[d][i], j \in 1 .. Len(waiting[d]), waiting'[d][j] = waiting[d][j]
          PROVE  waiting'[d][j].scene # up'[d][i].from \/ waiting'[d][j].n # up'[d][i].n
      BY <3>1, CoreParts DEF SentOrWaits
    <3>2. ASSUME up'[d][i] = m, j \in 1 .. Len(waiting[d]), waiting'[d][j] = waiting[d][j]
          PROVE  waiting'[d][j].scene # up'[d][i].from \/ waiting'[d][j].n # up'[d][i].n
      BY <1>0, <1>23, <3>2
    <3>3. ASSUME waiting'[d][j] = w, i \in 1 .. Len(up[d]), up'[d][i] = up[d][i]
          PROVE  waiting'[d][j].scene # up'[d][i].from \/ waiting'[d][j].n # up'[d][i].n
      BY <1>0, <1>22, <3>3 DEF IsCall
    <3> QED BY <1>3, <1>4, <3>1, <3>2, <3>3
  <2> QED BY <2>1, <2>2, <2>3 DEF Calling
<1>11. Naming'
  <2>1. NamedRight' /\ NodesKnown'
    BY <1>1, <1>2, CoreParts DEF NamedRight, NodesKnown, Knows, HasIds
  <2>2. \A x \in Scenes : (Knows(x)' <=> Knows(x)) /\ (Leaving(x) => Leaving(x)')
    BY <1>1, UpSame DEF Leaving, Knows, HasIds
  <2>3. KnownStay'
    BY <1>2, <2>2, CoreParts DEF KnownStay
  <2> QED BY <2>1, <2>3 DEF Naming
<1>12. AskedFor'
  <2> SUFFICES ASSUME NEW x \in Scenes, phase[x] = "asked"
               PROVE  \/ x \in unanswered
                      \/ \E i \in 1 .. Len(up'[maker[x]]) : Req(up'[maker[x]][i], x)
                      \/ HasIds(maker[x], Len(down[maker[x]]), x)
    BY <1>1, <1>2 DEF AskedFor, HasIds
  <2>1. maker[x] \in Clients
    BY CoreParts DEF Tree, TypesOK
  <2> QED BY <1>3, <2>1, CoreParts DEF AskedFor
<1>13. StillWait'
  <2> SUFFICES ASSUME NEW d \in Clients \ polling, NEW i \in 1 .. Len(waiting'[d]), Resumes(waiting'[d][i])
               PROVE  phase[waiting'[d][i].scene] = "gone"
    BY <1>1 DEF StillWait, Resumes
  <2>1. CASE waiting'[d][i] = w /\ phase[s] = "asked"
    <3>1. w.n > 0
      BY <1>0, <1>5
    <3> QED BY <1>0, <2>1, <3>1 DEF Resumes
  <2> QED BY <1>4, <2>1, CoreParts DEF StillWait
<1>14. NoneYet'
  BY <1>1, CoreParts DEF NoneYet
<1> QED BY <1>6, <1>7, <1>8, <1>9, <1>10, <1>11, <1>12, <1>13, <1>14 DEF Core

(* The server handles a message. *)
After(c, d, i) == IF d = c THEN i + 1 ELSE i

LEMMA HandlesUp ==
  ASSUME TypesOK, TypesOK', NEW c \in Clients, Handles(c)
  PROVE  /\ c \in Connected /\ 1 \in 1 .. Len(up[c])
         /\ UNCHANGED <<status, hidden, maker, under, client, made>>
         /\ UNCHANGED <<phase, ident, tokens, waiting, polling, place, copies>>
         /\ \A d \in Clients : \A i \in 1 .. Len(up'[d]) :
              After(c, d, i) \in 1 .. Len(up[d]) /\ up'[d][i] = up[d][After(c, d, i)]
         /\ \A d \in Clients : \A i, j \in 1 .. Len(up'[d]) : i # j => After(c, d, i) # After(c, d, j)
         /\ \A d \in Clients : \A i \in 1 .. Len(up'[d]) :
              \E k \in 1 .. Len(up[d]) : up'[d][i] = up[d][k] /\ (d = c => k # 1)
         /\ \A d \in Clients : \A i \in 1 .. Len(up[d]) :
              (d = c /\ i = 1) \/ \E j \in 1 .. Len(up'[d]) : up'[d][j] = up[d][i]
         /\ \A d \in Clients \ {c} : up'[d] = up[d]
<1>1. /\ c \in Connected /\ Drops(up'[c], up[c]) /\ \A d \in Clients \ {c} : up'[d] = up[d]
      /\ UNCHANGED <<status, hidden, maker, under, client, made>>
  BY HandlesDoes
<1>2. Len(up[c]) = Len(up'[c]) + 1 /\ Len(up'[c]) \in Nat /\ \A i \in 1 .. Len(up'[c]) : up'[c][i] = up[c][i + 1]
  BY <1>1, LenNat DEF Drops, TypesOK
<1>3. \A i \in 1 .. Len(up[c]) : i = 1 \/ (i - 1 \in 1 .. Len(up'[c]) /\ (i - 1) + 1 = i)
  BY <1>2
<1>4. UNCHANGED <<phase, ident, tokens, waiting, polling, place, copies>>
  BY <1>1 DEF client
<1>5. \A d \in Clients : \A i \in 1 .. Len(up'[d]) :
        After(c, d, i) \in 1 .. Len(up[d]) /\ up'[d][i] = up[d][After(c, d, i)]
  BY <1>1, <1>2 DEF After
<1>6. /\ \A d \in Clients : \A i, j \in 1 .. Len(up'[d]) : i # j => After(c, d, i) # After(c, d, j)
      /\ \A i \in 1 .. Len(up'[c]) : After(c, c, i) # 1
  BY <1>2 DEF After
<1>9. \A d \in Clients : \A i \in 1 .. Len(up'[d]) :
        \E k \in 1 .. Len(up[d]) : up'[d][i] = up[d][k] /\ (d = c => k # 1)
  BY <1>5, <1>6
<1>7. 1 \in 1 .. Len(up[c])
  BY <1>2
<1>8. \A d \in Clients : \A i \in 1 .. Len(up[d]) :
        (d = c /\ i = 1) \/ \E j \in 1 .. Len(up'[d]) : up'[d][j] = up[d][i]
  <2> SUFFICES ASSUME NEW d \in Clients, NEW i \in 1 .. Len(up[d]), ~ (d = c /\ i = 1)
               PROVE  \E j \in 1 .. Len(up'[d]) : up'[d][j] = up[d][i]
    OBVIOUS
  <2>1. CASE d = c
    <3>1. i - 1 \in 1 .. Len(up'[c]) /\ up'[c][i - 1] = up[c][i]
      BY <1>2, <1>3, <2>1
    <3> QED BY <2>1, <3>1
  <2>2. CASE d # c
    BY <1>1, <2>2
  <2> QED BY <2>1, <2>2
<1> QED BY <1>1, <1>4, <1>5, <1>6, <1>7, <1>8, <1>9

LEMMA HandlesFrame ==
  ASSUME TypesOK, TypesOK', Core, NEW c \in Clients, Handles(c)
  PROVE  /\ OwnAtTheEnd' /\ CopiesOfOthers' /\ OwnHasParent' /\ Waiting' /\ Calling' /\ NamedRight' /\ StillWait'
         /\ OneRequest' /\ RequestOrCall'
<1>1. UNCHANGED <<maker, under, made, phase, ident, tokens, waiting, polling, place, copies>>
  BY HandlesUp
<1>2. OwnAtTheEnd' /\ CopiesOfOthers' /\ OwnHasParent'
  BY <1>1, CoreParts, SameTree DEF CopiesOfOthers, OwnHasParent, Live
<1>3. Waiting'
  BY <1>1, CoreParts DEF Waiting, ParentWaits, WaitersRight, WaitersDiffer, Waits
<1>4. NamedRight' /\ StillWait'
  BY <1>1, CoreParts DEF NamedRight, StillWait, Resumes
<1>5. \A d \in Clients : \A i \in 1 .. Len(up'[d]) :
        After(c, d, i) \in 1 .. Len(up[d]) /\ up'[d][i] = up[d][After(c, d, i)]
  BY HandlesUp
<1>6. \A d \in Clients : \A i, j \in 1 .. Len(up'[d]) : i # j => After(c, d, i) # After(c, d, j)
  BY HandlesUp
<1>7. Calling'
  <2>1. CallsRight'
    BY <1>1, <1>5, CoreParts DEF CallsRight, SentCall
  <2>2. CallsDiffer'
    <3> SUFFICES ASSUME NEW d \in Clients, NEW i \in 1 .. Len(up'[d]), NEW j \in 1 .. Len(up'[d]), i # j,
                        up'[d][i].type = "call"
                 PROVE  ~ IsCall(up'[d][j], up'[d][i].from, up'[d][i].n)
      BY DEF CallsDiffer, IsCall
    <3> DEFINE a == After(c, d, i)
               b == After(c, d, j)
    <3>1. a \in 1 .. Len(up[d]) /\ b \in 1 .. Len(up[d]) /\ up'[d][i] = up[d][a] /\ up'[d][j] = up[d][b]
      BY <1>5
    <3>2. a # b
      BY <1>6
    <3> HIDE DEF a, b
    <3> QED BY <3>1, <3>2, CoreParts DEF CallsDiffer
  <2>3. SentOrWaits'
    <3> SUFFICES ASSUME NEW d \in Clients, NEW i \in 1 .. Len(up'[d]), NEW j \in 1 .. Len(waiting[d]), up'[d][i].type = "call"
                 PROVE  waiting[d][j].scene # up'[d][i].from \/ waiting[d][j].n # up'[d][i].n
      BY <1>1 DEF SentOrWaits
    <3>1. PICK k \in 1 .. Len(up[d]) : up'[d][i] = up[d][k]
      BY <1>5
    <3> QED BY <3>1, CoreParts DEF SentOrWaits
  <2> QED BY <2>1, <2>2, <2>3 DEF Calling
<1>8. OneRequest'
  <2> SUFFICES ASSUME NEW d \in Clients, NEW i \in 1 .. Len(up'[d]), NEW j \in 1 .. Len(up'[d]), i # j,
                      up'[d][i].type = "request"
               PROVE  ~ Req(up'[d][j], up'[d][i].scene)
    BY DEF OneRequest, Req
  <2> DEFINE a == After(c, d, i)
             b == After(c, d, j)
  <2>1. a \in 1 .. Len(up[d]) /\ b \in 1 .. Len(up[d]) /\ up'[d][i] = up[d][a] /\ up'[d][j] = up[d][b]
    BY <1>5
  <2>2. a # b
    BY <1>6
  <2> HIDE DEF a, b
  <2> QED BY <2>1, <2>2, CoreParts DEF OneRequest
<1>9. RequestOrCall'
  <2> SUFFICES ASSUME NEW d \in Clients, NEW i \in 1 .. Len(up'[d]), NEW j \in 1 .. Len(up'[d]),
                      up'[d][i].type = "request", up'[d][j].type = "call"
               PROVE  up'[d][j].from # up'[d][i].scene
    BY DEF RequestOrCall
  <2>1. PICK a \in 1 .. Len(up[d]), b \in 1 .. Len(up[d]) : up'[d][i] = up[d][a] /\ up'[d][j] = up[d][b]
    BY <1>5
  <2>2. RequestOrCall
    BY CoreParts
  <2> QED BY <2>1, <2>2 DEF RequestOrCall
<1> QED BY <1>2, <1>3, <1>4, <1>7, <1>8, <1>9

\* Nothing is sent.
LEMMA HandlesStill ==
  ASSUME TypesOK, TypesOK', Core, NEW c \in Clients, Handles(c), UNCHANGED <<nodes, down>>
  PROVE  /\ View' /\ NothingLeft' /\ RequestOrIds' /\ OneAnswer' /\ NodesKnown' /\ KnownStay'
<1>1. /\ UNCHANGED <<status, hidden, maker, under, made, phase, ident, tokens, waiting, polling, place, copies>>
      /\ c \in Connected /\ \A d \in Clients \ {c} : up'[d] = up[d]
  BY HandlesUp
<1>2. View'
  <2>1. ViewRight' /\ ParentsFirst' /\ CopiesOfOthers'
    BY <1>1, ViewFrame
  <2> QED BY <2>1, HandlesFrame DEF View
<1>3. NothingLeft'
  BY <1>1, CoreParts DEF NothingLeft, Connected
<1>4. RequestOrIds'
  <2> SUFFICES ASSUME NEW d \in Clients, NEW i \in 1 .. Len(up'[d]), NEW j \in 1 .. Len(down[d]), up'[d][i].type = "request"
               PROVE  ~ Ids(down[d][j], up'[d][i].scene)
    BY DEF RequestOrIds, Ids
  <2>1. \E k \in 1 .. Len(up[d]) : up'[d][i] = up[d][k]
    BY HandlesUp
  <2> QED BY <2>1, CoreParts DEF RequestOrIds
<1>5. OneAnswer' /\ NodesKnown'
  BY <1>1, CoreParts DEF OneAnswer, NodesKnown, Knows, HasIds, Ids
<1>6. \A x \in Scenes : (Knows(x)' <=> Knows(x)) /\ (Leaving(x) => Leaving(x)')
  BY <1>1, UpSame DEF Leaving, Knows, HasIds
<1>7. KnownStay'
  BY <1>6, CoreParts DEF KnownStay
<1> QED BY <1>2, <1>3, <1>4, <1>5, <1>7

LEMMA IgnoreKeeps ==
  ASSUME TypesOK, TypesOK', Core, NEW c \in Clients, Ignore(c)
  PROVE  Core'
<1> DEFINE s == up[c][1].scene
<1>1. Handles(c) /\ Head(up[c]).type = "request" /\ UNCHANGED <<nodes, down, heard>>
      /\ unanswered' = unanswered \cup {Head(up[c]).scene}
  BY DEF Ignore
<1>2. Head(up[c]) = up[c][1] /\ 1 \in 1 .. Len(up[c])
  BY <1>1, HandlesDoes, HandlesUp
<1>3. up[c][1].type = "request" /\ unanswered' = unanswered \cup {s}
  BY <1>1, <1>2
<1>4. /\ maker[s] = c /\ s \notin nodes \cup unanswered /\ phase[s] \in {"asked", "gone"}
  BY <1>2, <1>3, CoreParts DEF RequestsRight, Token
<1>5. UNCHANGED <<status, hidden, maker, under, made, phase, ident, tokens, waiting, polling, place, copies>>
  BY <1>1, HandlesUp
<1>6. \A d \in Clients : \A i \in 1 .. Len(up'[d]) :
        \E k \in 1 .. Len(up[d]) : up'[d][i] = up[d][k] /\ (d = c => k # 1)
  BY <1>1, HandlesUp
<1>7. View' /\ NothingLeft' /\ RequestOrIds' /\ OneAnswer' /\ NodesKnown' /\ KnownStay'
  BY <1>1, HandlesStill
<1>8. /\ OwnAtTheEnd' /\ Waiting' /\ Calling' /\ NamedRight' /\ StillWait' /\ OneRequest' /\ RequestOrCall'
  BY <1>1, HandlesFrame
<1>9. Tree'
  BY <1>1, <1>3, <1>4, <1>5, CoreParts, NotAClient DEF Tree
<1>10. RequestsRight'
  <2> SUFFICES ASSUME NEW d \in Clients, NEW i \in 1 .. Len(up'[d]), up'[d][i].type = "request"
               PROVE  /\ Token(d, up'[d][i]) /\ up'[d][i].scene \notin nodes \cup unanswered'
                      /\ phase[up'[d][i].scene] \in {"asked", "gone"}
    BY <1>1, <1>5 DEF RequestsRight, Token
  <2>1. PICK k \in 1 .. Len(up[d]) : up'[d][i] = up[d][k] /\ (d = c => k # 1)
    BY <1>6
  <2>2. Token(d, up[d][k]) /\ up[d][k].scene \notin nodes \cup unanswered /\ phase[up[d][k].scene] \in {"asked", "gone"}
    BY <2>1, CoreParts DEF RequestsRight
  <2>3. up[d][k].scene # s
    <3>1. CASE d = c
      BY <1>2, <1>3, <2>1, <3>1, CoreParts DEF OneRequest, Req
    <3>2. CASE d # c
      BY <1>4, <2>2, <3>2 DEF Token
    <3> QED BY <3>1, <3>2
  <2> QED BY <1>3, <2>1, <2>2, <2>3
<1>11. IdsRight'
  <2> SUFFICES ASSUME NEW d \in Clients, NEW i \in 1 .. Len(down[d]), down[d][i].type = "ids"
               PROVE  Token(d, down[d][i]) /\ down[d][i].scene \notin unanswered' /\ phase[down[d][i].scene] \in {"asked", "gone"}
    BY <1>1, <1>5 DEF IdsRight, Token
  <2>1. Token(d, down[d][i]) /\ down[d][i].scene \notin unanswered /\ phase[down[d][i].scene] \in {"asked", "gone"}
    BY CoreParts DEF IdsRight
  <2>2. down[d][i].scene # s
    <3>1. d = c => ~ Ids(down[c][i], s)
      BY <1>2, <1>3, CoreParts DEF RequestOrIds
    <3> QED BY <1>4, <2>1, <3>1 DEF Token, Ids
  <2> QED BY <1>3, <2>1, <2>2
<1>12. UnansweredAsked'
  BY <1>3, <1>4, <1>5, CoreParts DEF UnansweredAsked
<1>15. \A d \in Clients : \A i \in 1 .. Len(up[d]) :
          (d = c /\ i = 1) \/ \E j \in 1 .. Len(up'[d]) : up'[d][j] = up[d][i]
  BY <1>1, HandlesUp
<1>13. AskedFor'
  <2> SUFFICES ASSUME NEW x \in Scenes, phase[x] = "asked", x # s
               PROVE  \/ x \in unanswered
                      \/ \E i \in 1 .. Len(up'[maker[x]]) : Req(up'[maker[x]][i], x)
                      \/ HasIds(maker[x], Len(down[maker[x]]), x)
    BY <1>1, <1>3, <1>5 DEF AskedFor, HasIds
  <2>1. maker[x] \in Clients
    BY CoreParts DEF Tree, TypesOK
  <2>2. ASSUME NEW i \in 1 .. Len(up[maker[x]]), Req(up[maker[x]][i], x)
        PROVE  \E j \in 1 .. Len(up'[maker[x]]) : Req(up'[maker[x]][j], x)
    <3>1. ~ (maker[x] = c /\ i = 1)
      BY <2>2 DEF Req
    <3>2. PICK j \in 1 .. Len(up'[maker[x]]) : up'[maker[x]][j] = up[maker[x]][i]
      BY <1>15, <2>1, <3>1
    <3> QED BY <2>2, <3>2
  <2> QED BY <2>2, CoreParts DEF AskedFor
<1>14. NoneYet'
  BY <1>1, <1>5, CoreParts DEF NoneYet
<1> QED BY <1>7, <1>8, <1>9, <1>10, <1>11, <1>12, <1>13, <1>14 DEF Core, Structure, Asking, Naming

LEMMA RunKeeps ==
  ASSUME TypesOK, TypesOK', Core, NEW c \in Clients, Run(c)
  PROVE  Core'
<1> DEFINE s == up[c][1].from
<1>1. Handles(c) /\ Head(up[c]).type = "call" /\ UNCHANGED <<nodes, unanswered, down>>
  BY DEF Run
<1>2. Head(up[c]) = up[c][1] /\ 1 \in 1 .. Len(up[c])
  BY <1>1, HandlesDoes, HandlesUp
<1>3. up[c][1].type = "call"
  BY <1>1, <1>2
<1>4. maker[s] = c /\ up[c][1].scene = s /\ phase[s] \in {"named", "gone"}
  BY <1>2, <1>3, CoreParts DEF CallsRight, SentCall
<1>5. UNCHANGED <<status, hidden, maker, under, made, phase, ident, tokens, waiting, polling, place, copies>>
  BY <1>1, HandlesUp
<1>6. \A d \in Clients : \A i \in 1 .. Len(up'[d]) : \E k \in 1 .. Len(up[d]) : up'[d][i] = up[d][k]
  BY <1>1, HandlesUp
<1>7. View' /\ NothingLeft' /\ RequestOrIds' /\ OneAnswer' /\ NodesKnown' /\ KnownStay'
  BY <1>1, HandlesStill
<1>8. /\ OwnAtTheEnd' /\ Waiting' /\ Calling' /\ NamedRight' /\ StillWait' /\ OneRequest' /\ RequestOrCall'
  BY <1>1, HandlesFrame
<1>9. Tree'
  BY <1>1, <1>5, CoreParts DEF Tree
<1>10. RequestsRight'
  <2> SUFFICES ASSUME NEW d \in Clients, NEW i \in 1 .. Len(up'[d]), up'[d][i].type = "request"
               PROVE  /\ Token(d, up'[d][i]) /\ up'[d][i].scene \notin nodes \cup unanswered
                      /\ phase[up'[d][i].scene] \in {"asked", "gone"}
    BY <1>1, <1>5 DEF RequestsRight, Token
  <2>1. PICK k \in 1 .. Len(up[d]) : up'[d][i] = up[d][k]
    BY <1>6
  <2> QED BY <2>1, CoreParts DEF RequestsRight
<1>11. IdsRight' /\ UnansweredAsked'
  BY <1>1, <1>5, CoreParts DEF IdsRight, UnansweredAsked, Token
<1>15. \A d \in Clients : \A i \in 1 .. Len(up[d]) :
          (d = c /\ i = 1) \/ \E j \in 1 .. Len(up'[d]) : up'[d][j] = up[d][i]
  BY <1>1, HandlesUp
<1>13. AskedFor'
  <2> SUFFICES ASSUME NEW x \in Scenes, phase[x] = "asked"
               PROVE  \/ x \in unanswered
                      \/ \E i \in 1 .. Len(up'[maker[x]]) : Req(up'[maker[x]][i], x)
                      \/ HasIds(maker[x], Len(down[maker[x]]), x)
    BY <1>1, <1>5 DEF AskedFor, HasIds
  <2>1. maker[x] \in Clients
    BY CoreParts DEF Tree, TypesOK
  <2>2. ASSUME NEW i \in 1 .. Len(up[maker[x]]), Req(up[maker[x]][i], x)
        PROVE  \E j \in 1 .. Len(up'[maker[x]]) : Req(up'[maker[x]][j], x)
    <3>1. \A j : Req(up'[maker[x]][j], x) <=> up'[maker[x]][j].type = "request" /\ up'[maker[x]][j].scene = x
      BY DEF Req
    <3>2. up[maker[x]][i].type = "request" /\ up[maker[x]][i].scene = x
      BY <2>2 DEF Req
    <3>3. ~ (maker[x] = c /\ i = 1)
      BY <1>3, <2>2, <3>2
    <3>4. PICK j \in 1 .. Len(up'[maker[x]]) : up'[maker[x]][j] = up[maker[x]][i]
      BY <1>15, <2>1, <3>3
    <3> QED BY <3>1, <3>2, <3>4
  <2> QED BY <2>2, CoreParts DEF AskedFor
<1>14. NoneYet'
  <2> SUFFICES ASSUME NEW x \in Scenes, phase[x] \in {"new", "parent"} PROVE made[x] = 0 /\ heard'[x] = <<>>
    BY <1>5 DEF NoneYet
  <2>1. x # s
    BY <1>4
  <2>2. heard'[x] = heard[x]
    BY <1>2, <1>4, <2>1 DEF Run, TypesOK
  <2> QED BY <2>2, CoreParts DEF NoneYet
<1> QED BY <1>7, <1>8, <1>9, <1>10, <1>11, <1>13, <1>14 DEF Core, Structure, Asking, Naming

(* Accept. *)
\* What of the scene s, which is below what is there, is seen when it is there too.
LEMMA OthersMore ==
  ASSUME TypesOK, Core, NEW s \in Scenes, s \notin nodes, NEW d
  PROVE  \A x : x \in Others(d, nodes \cup {s}) <=> x \in Others(d, nodes) \/ (x = s /\ s \in Others(d, nodes \cup {s}))
<1>1. ASSUME NEW x \in Others(d, nodes \cup {s}), x # s PROVE x \in Others(d, nodes)
  <2>1. x \in nodes /\ \A y \in Path(x) : maker[y] # d
    BY <1>1 DEF Others
  <2>2. Path(x) \subseteq nodes
    BY <2>1, CoreParts, NodesAbove
  <2> QED BY <2>1, <2>2 DEF Others
<1>2. \A x \in Others(d, nodes) : x \in Others(d, nodes \cup {s})
  BY DEF Others
<1> QED BY <1>1, <1>2

AcceptFacts(c, s) ==
  /\ 1 \in 1 .. Len(up[c]) /\ Req(up[c][1], s) /\ Token(c, up[c][1])
  /\ s \in Scenes /\ s \notin nodes \cup unanswered /\ phase[s] \in {"asked", "gone"} /\ maker[s] = c
  /\ under[s] \in nodes \cup {Place} /\ nodes' = nodes \cup {s}
  /\ UNCHANGED <<unanswered, heard, status, hidden, maker, under, made>>
  /\ UNCHANGED <<phase, ident, tokens, waiting, polling, place, copies>>

LEMMA AcceptHas ==
  ASSUME TypesOK, TypesOK', Core, NEW c \in Clients, Accept(c)
  PROVE  AcceptFacts(c, up[c][1].scene) /\ Handles(c)
<1> DEFINE s == up[c][1].scene
<1>1. /\ Handles(c) /\ up[c][1].type = "request" /\ s \in Scenes
      /\ under[s] \in nodes \cup {Place} /\ nodes' = nodes \cup {s} /\ UNCHANGED <<unanswered, heard>>
  BY AcceptDoes
<1>2. /\ UNCHANGED <<status, hidden, maker, under, made>> /\ 1 \in 1 .. Len(up[c])
      /\ UNCHANGED <<phase, ident, tokens, waiting, polling, place, copies>>
  BY <1>1, HandlesUp
<1>3. Token(c, up[c][1]) /\ s \notin nodes \cup unanswered /\ phase[s] \in {"asked", "gone"}
  BY <1>1, <1>2, CoreParts DEF RequestsRight
<1>4. maker[s] = c
  BY <1>3 DEF Token
<1> QED BY <1>1, <1>2, <1>3, <1>4 DEF AcceptFacts, Req

\* What is sent, for each client.
LEMMA AcceptDown ==
  ASSUME TypesOK, TypesOK', Core, NEW c \in Clients, Accept(c), NEW s, s = up[c][1].scene
  PROVE  /\ \A d \in Clients : Extends(down'[d], down[d]) /\ Len(down'[d]) \in Nat
         /\ \A d \in Clients : \A i \in 1 .. Len(down[d]) : i \in 1 .. Len(down'[d]) /\ down'[d][i] = down[d][i]
         /\ \A d \in Clients : \A i \in 1 .. Len(down'[d]) :
              \/ i \in 1 .. Len(down[d]) /\ down'[d][i] = down[d][i]
              \/ down'[d][i].type # "ids"
              \/ d = c /\ i = Len(down'[c]) /\ i \notin 1 .. Len(down[c]) /\ down'[d][i] = Named(up[c][1].token, s)
         /\ Len(down'[c]) \in 1 .. Len(down'[c]) /\ down'[c][Len(down'[c])] = Named(up[c][1].token, s)
<1>1. /\ Quiet(c)
      /\ \A d \in Clients \ {c} :
           IF s \in VisibleTo(d, nodes') THEN Told(d, Shown(FALSE, {s})) ELSE Still(d)
      /\ Len(down'[c]) >= Len(down[c]) + 1 /\ down'[c][Len(down'[c])] = Named(up[c][1].token, s)
      /\ \A i \in Len(down[c]) + 1 .. Len(down'[c]) :
           i # Len(down'[c]) => InReady /\ down'[c][i] = FromServer(s)
  BY AcceptTells
<1>2. \A d \in Clients : Len(down[d]) \in Nat /\ Len(down'[d]) \in Nat
  <2>1. \A d \in Clients : Len(down'[d]) \in Nat
    BY DEF TypesOK
  <2> QED BY <2>1, LenNat
<1>3. Shown(FALSE, {s}) \in DownMsg
  <2>1. s \in Scenes /\ FALSE \in BOOLEAN /\ {s} \in SUBSET Scenes
    BY AcceptDoes
  <2> QED BY <2>1, MadeMessages
<1>4. \A d \in Clients \ {c} : /\ Extends(down'[d], down[d])
                               /\ \A i \in 1 .. Len(down'[d]) : i \in 1 .. Len(down[d]) \/ down'[d][i].type = "add"
  <2> SUFFICES ASSUME NEW d \in Clients \ {c}
               PROVE  /\ Extends(down'[d], down[d])
                      /\ \A i \in 1 .. Len(down'[d]) : i \in 1 .. Len(down[d]) \/ down'[d][i].type = "add"
    OBVIOUS
  <2> DEFINE m == Shown(FALSE, {s})
  <2>0. m.type = "add" /\ m \in DownMsg
    BY <1>3 DEF Shown
  <2> HIDE DEF m
  <2>1. CASE Told(d, m)
    <3>1. /\ Len(down'[d]) = Len(down[d]) + 1 /\ down'[d][Len(down[d]) + 1] = m /\ Extends(down'[d], down[d])
      BY <2>0, <2>1, ToldDoes DEF Told
    <3>2. \A i \in 1 .. Len(down'[d]) : i \in 1 .. Len(down[d]) \/ i = Len(down[d]) + 1
      BY <1>2, <3>1
    <3> QED BY <2>0, <3>1, <3>2
  <2>2. CASE Still(d)
    BY <1>2, <2>2 DEF Still, Extends
  <2> QED BY <1>1, <2>1, <2>2 DEF m
<1>5. \A d \in Clients : Extends(down'[d], down[d])
  BY <1>1, <1>4 DEF Quiet
<1>6. \A d \in Clients : \A i \in 1 .. Len(down[d]) : i \in 1 .. Len(down'[d]) /\ down'[d][i] = down[d][i]
  BY <1>2, <1>5 DEF Extends
<1>7. ASSUME NEW i \in 1 .. Len(down'[c])
      PROVE  \/ i \in 1 .. Len(down[c])
             \/ down'[c][i].type # "ids"
             \/ i = Len(down'[c]) /\ i \notin 1 .. Len(down[c]) /\ down'[c][i] = Named(up[c][1].token, s)
  <2>1. i \in 1 .. Len(down[c]) \/ (i \in Len(down[c]) + 1 .. Len(down'[c]) /\ i \notin 1 .. Len(down[c]))
    BY <1>2
  <2> QED BY <1>1, <2>1 DEF FromServer, Calls
<1>8. Len(down'[c]) \in 1 .. Len(down'[c])
  BY <1>1, <1>2
<1>9. \A d \in Clients : \A i \in 1 .. Len(down'[d]) :
        \/ i \in 1 .. Len(down[d]) /\ down'[d][i] = down[d][i]
        \/ down'[d][i].type # "ids"
        \/ d = c /\ i = Len(down'[c]) /\ i \notin 1 .. Len(down[c]) /\ down'[d][i] = Named(up[c][1].token, s)
  BY <1>4, <1>6, <1>7
<1> QED BY <1>1, <1>2, <1>5, <1>6, <1>8, <1>9

LEMMA AcceptView ==
  ASSUME TypesOK, TypesOK', Core, NEW c \in Clients, Accept(c)
  PROVE  ViewRight' /\ ParentsFirst' /\ NothingLeft'
<1> DEFINE s == up[c][1].scene
           m == Shown(FALSE, {s})
<1>1. AcceptFacts(c, s) /\ Handles(c)
  BY AcceptHas
<1>2. /\ Quiet(c)
      /\ \A d \in Clients \ {c} : IF s \in VisibleTo(d, nodes') THEN Told(d, m) ELSE Still(d)
  BY AcceptTells
<1>3. m \in DownMsg
  <2>1. s \in Scenes /\ FALSE \in BOOLEAN /\ {s} \in SUBSET Scenes
    BY <1>1 DEF AcceptFacts
  <2> QED BY <2>1, MadeMessages
<1>4. m.type = "add" /\ m.place = FALSE /\ m.scenes = {s}
  BY DEF Shown
<1> HIDE DEF m, s
<1>5. /\ s \in Scenes /\ s \notin nodes /\ maker[s] = c /\ under[s] \in nodes \cup {Place} /\ nodes' = nodes \cup {s}
      /\ UNCHANGED <<status, hidden, maker, under, waiting, polling, phase>>
  BY <1>1 DEF AcceptFacts
<1>6. \A x : Up(x)' = Up(x)
  BY <1>5, UpSame
<1>7. \A d, S : Others(d, S)' = Others(d, S)
  BY <1>5, OthersSame
<1> DEFINE N == nodes \cup {s}
<1>8. \A d : Others(d, nodes)' = Others(d, N)
  <2> HIDE DEF N
  <2>1. nodes' = N
    BY <1>5 DEF N
  <2>2. \A x : Path(x)' = Path(x)
    BY <1>5, PathSame
  <2> QED BY <1>5, <2>1, <2>2 DEF Others
<1>9. \A d : \A x : x \in Others(d, N) <=> x \in Others(d, nodes) \/ (x = s /\ s \in Others(d, N))
  BY <1>5, OthersMore
<1>10. s \notin Others(c, N)
  BY <1>5, PathHas DEF Others
<1>11. \A d : s \in VisibleTo(d, nodes') <=> d \in Connected \ hidden /\ s \in Others(d, N)
  BY <1>5 DEF VisibleTo
<1> HIDE DEF N
<1>12. \A d : Sees(d)' = IF d \in Connected \ hidden THEN {Place} \cup Others(d, N) ELSE {}
  BY <1>5, <1>8 DEF Sees, Connected
<1>13. ViewRight'
  <2> SUFFICES ASSUME NEW d \in Clients, NEW x \in Places PROVE Seen(d, x)' <=> x \in Sees(d)'
    BY DEF ViewRight, Seen
  <2>1. Seen(d, x) <=> x \in Sees(d)
    BY CoreParts DEF ViewRight, Seen
  <2>2. CASE d # c /\ s \in VisibleTo(d, nodes')
    <3>1. Seen(d, x)' <=> Shows(m, x) \/ (Seen(d, x) /\ ~ Hides(m, Up(x)))
      BY <1>2, <1>3, <1>6, <2>2, SeenTold
    <3>2. Shows(m, x) <=> x = s
      BY <1>4, <1>5, NotAScene DEF Shows
    <3>3. ~ Hides(m, Up(x))
      BY <1>4 DEF Hides
    <3> QED BY <1>9, <1>11, <1>12, <2>1, <2>2, <3>1, <3>2, <3>3 DEF Sees
  <2>3. CASE d = c \/ s \notin VisibleTo(d, nodes')
    <3>1. Quiet(d)
      BY <1>2, <2>3, StillQuiet
    <3>2. Seen(d, x)' <=> Seen(d, x)
      BY <1>6, <3>1, SeenQuiet
    <3> QED BY <1>9, <1>10, <1>11, <1>12, <2>1, <2>3, <3>2 DEF Sees
  <2> QED BY <2>2, <2>3
<1>14. ParentsFirst'
  <2> SUFFICES ASSUME NEW d \in Clients PROVE ParentsAt(d)'
    BY DEF ParentsFirst, ParentsAt
  <2>1. ParentsAt(d) /\ Tree
    BY CoreParts DEF ParentsFirst, ParentsAt
  <2>2. CASE d # c /\ s \in VisibleTo(d, nodes')
    <3>1. d \in Connected \ hidden /\ s \in Others(d, N)
      BY <1>11, <2>2
    <3>2. Place \in Sees(d)
      BY <3>1 DEF Sees
    <3>3. under[s] \in Sees(d)
      <4> SUFFICES ASSUME under[s] \in nodes PROVE under[s] \in Others(d, nodes)
        BY <1>5, <3>1, <3>2 DEF Sees
      <4>1. under[s] \in Scenes /\ under[s] # s
        BY <1>5 DEF TypesOK
      <4>2. under[s] \in Path(s)
        BY <1>5, <4>1, PathUnder, PathHas
      <4>3. N \in SUBSET Scenes
        BY <1>5 DEF N, TypesOK
      <4>4. under[s] \in Others(d, N)
        BY <3>1, <4>2, <4>3, OthersAbove
      <4> QED BY <1>9, <4>1, <4>4
    <3>4. NotOwn(d, s)
      <4>1. \A y \in Path(s) : maker[y] # None
        BY <1>5, CoreParts, MadeAbove, NotAClient
      <4> QED BY <3>1, <4>1 DEF NotOwn, Others
    <3>5. At(d, Len(down[d]), Place) /\ At(d, Len(down[d]), under[s])
      <4>1. Place \in Places /\ under[s] \in Places
        BY <1>5 DEF Places, TypesOK
      <4> QED BY <3>2, <3>3, <4>1, CoreParts DEF ViewRight
    <3>6. Fits(d, m, Len(down[d]))
      BY <1>4, <3>4, <3>5 DEF Fits
    <3> QED BY <1>2, <1>3, <1>5, <2>1, <2>2, <3>6, ParentsTold
  <2>3. CASE d = c \/ s \notin VisibleTo(d, nodes')
    <3>1. Quiet(d)
      BY <1>2, <2>3, StillQuiet
    <3> QED BY <1>5, <2>1, <3>1, ParentsQuiet
  <2> QED BY <2>2, <2>3
<1>15. NothingLeft'
  <2> SUFFICES ASSUME NEW d \in Clients, d \notin Connected
               PROVE  /\ down'[d] = <<>> /\ up'[d] = <<>> /\ waiting[d] = <<>> /\ d \notin polling /\ d \notin hidden
                      /\ \A x \in Scenes : maker[x] = d => phase[x] = "gone"
    BY <1>5 DEF NothingLeft, Connected
  <2>1. d # c /\ up'[d] = up[d]
    BY <1>1, HandlesUp
  <2>2. Still(d)
    BY <1>2, <1>11, <2>1
  <2> QED BY <2>1, <2>2, CoreParts DEF NothingLeft, Still
<1> QED BY <1>13, <1>14, <1>15

LEMMA AcceptKeeps ==
  ASSUME TypesOK, TypesOK', Core, NEW c \in Clients, Accept(c)
  PROVE  Core'
<1>0. PICK s, z : s = up[c][1].scene /\ z = Named(up[c][1].token, s)
  OBVIOUS
<1>1. AcceptFacts(c, s) /\ Handles(c)
  BY <1>0, AcceptHas
<1>2. /\ \A d \in Clients : Extends(down'[d], down[d]) /\ Len(down'[d]) \in Nat
      /\ \A d \in Clients : \A i \in 1 .. Len(down[d]) : i \in 1 .. Len(down'[d]) /\ down'[d][i] = down[d][i]
      /\ \A d \in Clients : \A i \in 1 .. Len(down'[d]) :
           \/ i \in 1 .. Len(down[d]) /\ down'[d][i] = down[d][i]
           \/ down'[d][i].type # "ids"
           \/ d = c /\ i = Len(down'[c]) /\ i \notin 1 .. Len(down[c]) /\ down'[d][i] = z
      /\ Len(down'[c]) \in 1 .. Len(down'[c]) /\ down'[c][Len(down'[c])] = z
  BY <1>0, AcceptDown
<1>3. Token(c, z) /\ Ids(z, s) /\ z.scene = s
  BY <1>0, <1>1 DEF AcceptFacts, Token, Named, Ids
<1>4. /\ 1 \in 1 .. Len(up[c]) /\ up[c][1].type = "request" /\ up[c][1].scene = s
      /\ s \in Scenes /\ s \notin nodes \cup unanswered /\ phase[s] \in {"asked", "gone"} /\ maker[s] = c
      /\ under[s] \in nodes \cup {Place} /\ nodes' = nodes \cup {s}
      /\ UNCHANGED <<unanswered, heard, status, hidden, maker, under, made>>
      /\ UNCHANGED <<phase, ident, tokens, waiting, polling, place, copies>>
  BY <1>1 DEF AcceptFacts, Req
<1>5. /\ \A d \in Clients : \A i \in 1 .. Len(up'[d]) :
           \E k \in 1 .. Len(up[d]) : up'[d][i] = up[d][k] /\ (d = c => k # 1)
      /\ \A d \in Clients : \A i \in 1 .. Len(up[d]) :
           (d = c /\ i = 1) \/ \E j \in 1 .. Len(up'[d]) : up'[d][j] = up[d][i]
  BY <1>1, HandlesUp
<1>6. ViewRight' /\ ParentsFirst' /\ NothingLeft'
  BY AcceptView
<1>7. /\ OwnAtTheEnd' /\ CopiesOfOthers' /\ OwnHasParent' /\ Waiting' /\ Calling' /\ NamedRight' /\ StillWait'
      /\ OneRequest' /\ RequestOrCall'
  BY <1>1, HandlesFrame
<1>8. Tree'
  <2>1. \A x \in nodes' : maker[x] # None /\ (under[x] = Place \/ under[x] \in nodes')
    BY <1>4, CoreParts, NotAClient DEF Tree
  <2> QED BY <1>4, <2>1, CoreParts DEF Tree
\* No other request for s, and no answer to it.
<1>9. \A d \in Clients : \A i \in 1 .. Len(up'[d]) : up'[d][i].type = "request" =>
        /\ Token(d, up'[d][i]) /\ up'[d][i].scene \notin nodes \cup unanswered /\ up'[d][i].scene # s
        /\ phase[up'[d][i].scene] \in {"asked", "gone"}
  <2> SUFFICES ASSUME NEW d \in Clients, NEW i \in 1 .. Len(up'[d]), up'[d][i].type = "request"
               PROVE  /\ Token(d, up'[d][i]) /\ up'[d][i].scene \notin nodes \cup unanswered /\ up'[d][i].scene # s
                      /\ phase[up'[d][i].scene] \in {"asked", "gone"}
    OBVIOUS
  <2>1. PICK k \in 1 .. Len(up[d]) : up'[d][i] = up[d][k] /\ (d = c => k # 1)
    BY <1>5
  <2>2. Token(d, up[d][k]) /\ up[d][k].scene \notin nodes \cup unanswered /\ phase[up[d][k].scene] \in {"asked", "gone"}
    BY <2>1, CoreParts DEF RequestsRight
  <2>3. up[d][k].scene # s
    <3>1. CASE d = c
      BY <1>4, <2>1, <3>1, CoreParts DEF OneRequest, Req
    <3>2. CASE d # c
      BY <1>4, <2>2, <3>2 DEF Token
    <3> QED BY <3>1, <3>2
  <2> QED BY <2>1, <2>2, <2>3
<1>10. \A d \in Clients : \A i \in 1 .. Len(down[d]) : ~ Ids(down[d][i], s)
  <2> SUFFICES ASSUME NEW d \in Clients, NEW i \in 1 .. Len(down[d]), Ids(down[d][i], s) PROVE FALSE
    OBVIOUS
  <2>1. d = c
    BY <1>4, CoreParts DEF IdsRight, Token, Ids
  <2> QED BY <1>4, <2>1, CoreParts DEF RequestOrIds
<1>11. RequestsRight'
  <2> SUFFICES ASSUME NEW d \in Clients, NEW i \in 1 .. Len(up'[d]), up'[d][i].type = "request"
               PROVE  /\ Token(d, up'[d][i]) /\ up'[d][i].scene \notin nodes' \cup unanswered
                      /\ phase[up'[d][i].scene] \in {"asked", "gone"}
    BY <1>4 DEF RequestsRight, Token
  <2> QED BY <1>4, <1>9
<1>12. RequestOrIds'
  <2> SUFFICES ASSUME NEW d \in Clients, NEW i \in 1 .. Len(up'[d]), NEW j \in 1 .. Len(down'[d]),
                      up'[d][i].type = "request"
               PROVE  ~ Ids(down'[d][j], up'[d][i].scene)
    BY DEF RequestOrIds, Ids
  <2>1. PICK k \in 1 .. Len(up[d]) : up'[d][i] = up[d][k]
    BY <1>5
  <2>2. CASE j \in 1 .. Len(down[d]) /\ down'[d][j] = down[d][j]
    BY <2>1, <2>2, CoreParts DEF RequestOrIds
  <2>3. CASE down'[d][j] = z
    BY <1>3, <1>9, <2>3 DEF Ids
  <2> QED BY <1>2, <2>2, <2>3 DEF Ids
<1>13. IdsRight'
  <2> SUFFICES ASSUME NEW d \in Clients, NEW i \in 1 .. Len(down'[d]), down'[d][i].type = "ids"
               PROVE  Token(d, down'[d][i]) /\ down'[d][i].scene \notin unanswered /\ phase[down'[d][i].scene] \in {"asked", "gone"}
    BY <1>4 DEF IdsRight, Token
  <2>1. CASE i \in 1 .. Len(down[d]) /\ down'[d][i] = down[d][i]
    BY <2>1, CoreParts DEF IdsRight
  <2>2. CASE d = c /\ down'[d][i] = z
    BY <1>3, <1>4, <2>2
  <2> QED BY <1>2, <2>1, <2>2
<1>14. OneAnswer'
  <2> SUFFICES ASSUME NEW d \in Clients, NEW i \in 1 .. Len(down'[d]), NEW j \in 1 .. Len(down'[d]), i # j,
                      down'[d][i].type = "ids", Ids(down'[d][j], down'[d][i].scene)
               PROVE  FALSE
    BY DEF OneAnswer, Ids
  <2>1. ASSUME i \in 1 .. Len(down[d]), down'[d][i] = down[d][i], j \in 1 .. Len(down[d]), down'[d][j] = down[d][j]
        PROVE  FALSE
    BY <2>1, CoreParts DEF OneAnswer
  <2>2. ASSUME down'[d][i] = z, j \in 1 .. Len(down[d]), down'[d][j] = down[d][j] PROVE FALSE
    BY <1>3, <1>10, <2>2
  <2>3. ASSUME down'[d][j] = z, i \in 1 .. Len(down[d]), down'[d][i] = down[d][i] PROVE FALSE
    BY <1>3, <1>10, <2>3 DEF Ids
  <2>4. down'[d][j].type = "ids"
    BY DEF Ids
  <2> QED BY <1>2, <2>1, <2>2, <2>3, <2>4
<1>15. UnansweredAsked'
  BY <1>4, CoreParts DEF UnansweredAsked
<1>16. \A x \in Scenes : maker[x] \in Clients /\ HasIds(maker[x], Len(down[maker[x]]), x) =>
         HasIds(maker[x], Len(down[maker[x]]), x)'
  BY <1>2, <1>4 DEF HasIds, Ids
<1>17. HasIds(c, Len(down[c]), s)'
  BY <1>2, <1>3 DEF HasIds, Ids
<1>18. NodesKnown'
  <2> SUFFICES ASSUME NEW x \in nodes', phase[x] # "gone"
               PROVE  phase[x] = "named" \/ (phase[x] = "asked" /\ HasIds(maker[x], Len(down[maker[x]]), x)')
    BY <1>4 DEF NodesKnown, Knows
  <2>1. CASE x = s
    BY <1>4, <1>17, <2>1 DEF HasIds
  <2>2. CASE x # s
    <3>1. x \in nodes /\ x \in Scenes /\ maker[x] \in Clients
      BY <1>4, <2>2, CoreParts DEF Tree, TypesOK
    <3> QED BY <1>16, <3>1, CoreParts DEF NodesKnown, Knows
  <2> QED BY <2>1, <2>2
<1>19. KnownStay'
  <2> SUFFICES ASSUME NEW x \in Scenes, Knows(x)', x # s PROVE x \in nodes \/ Leaving(x)'
    BY <1>4 DEF KnownStay
  <2>1. phase[x] = "named" \/ (phase[x] = "asked" /\ HasIds(maker[x], Len(down[maker[x]]), x)')
    BY <1>4 DEF Knows
  <2>2. phase[x] # "new" /\ maker[x] \in Clients
    <3>1. phase[x] # "new"
      BY <2>1
    <3> QED BY <3>1, CoreParts DEF Tree, TypesOK
  <2>3. ASSUME HasIds(maker[x], Len(down[maker[x]]), x)' PROVE HasIds(maker[x], Len(down[maker[x]]), x)
    <3>1. PICK i \in 1 .. Len(down'[maker[x]]) : Ids(down'[maker[x]][i], x)
      BY <1>4, <2>3 DEF HasIds, Ids
    <3>2. down'[maker[x]][i] # z /\ down'[maker[x]][i].type = "ids"
      BY <1>3, <3>1 DEF Ids
    <3>3. i \in 1 .. Len(down[maker[x]]) /\ down'[maker[x]][i] = down[maker[x]][i]
      BY <1>2, <2>2, <3>2
    <3> QED BY <3>1, <3>3 DEF HasIds
  <2>4. x \in nodes \/ Leaving(x)
    BY <2>1, <2>3, CoreParts DEF KnownStay, Knows
  <2>5. Leaving(x) => Leaving(x)'
    BY <1>2, <1>4, <2>2, StayMore
  <2> QED BY <2>4, <2>5
<1>20. AskedFor'
  <2> SUFFICES ASSUME NEW x \in Scenes, phase[x] = "asked"
               PROVE  \/ x \in unanswered
                      \/ \E i \in 1 .. Len(up'[maker[x]]) : Req(up'[maker[x]][i], x)
                      \/ HasIds(maker[x], Len(down[maker[x]]), x)'
    BY <1>4 DEF AskedFor
  <2>1. maker[x] \in Clients
    BY CoreParts DEF Tree, TypesOK
  <2>2. CASE x = s
    BY <1>4, <1>17, <2>2 DEF HasIds
  <2>3. CASE x # s
    <3>1. ASSUME NEW i \in 1 .. Len(up[maker[x]]), Req(up[maker[x]][i], x)
          PROVE  \E j \in 1 .. Len(up'[maker[x]]) : Req(up'[maker[x]][j], x)
      <4>1. ~ (maker[x] = c /\ i = 1)
        BY <1>4, <2>3, <3>1 DEF Req
      <4> QED BY <1>5, <2>1, <3>1, <4>1
    <3> QED BY <1>16, <2>1, <3>1, CoreParts DEF AskedFor
  <2> QED BY <2>2, <2>3
<1>21. NoneYet'
  BY <1>4, CoreParts DEF NoneYet
<1> QED BY <1>6, <1>7, <1>8, <1>11, <1>12, <1>13, <1>14, <1>15, <1>18, <1>19, <1>20, <1>21
        DEF Core, Structure, View, Asking, Naming

LEMMA DisconnectDoes ==
  ASSUME TypesOK, NEW c \in Clients, Disconnect(c)
  PROVE  /\ UNCHANGED <<nodes, unanswered, maker, under, ident, tokens, made, heard>>
         /\ \A x \in Scenes : phase'[x] = IF maker[x] = c THEN "gone" ELSE phase[x]
         /\ up'[c] = <<>> /\ down'[c] = <<>> /\ waiting'[c] = <<>> /\ copies'[c] = {}
         /\ c \notin polling' /\ c \notin place' /\ c \notin hidden' /\ c \notin Connected'
         /\ \A d \in Clients \ {c} :
              /\ up'[d] = up[d] /\ down'[d] = down[d] /\ waiting'[d] = waiting[d] /\ copies'[d] = copies[d]
              /\ d \in polling' <=> d \in polling
              /\ d \in place' <=> d \in place
              /\ d \in hidden' <=> d \in hidden
              /\ d \in Connected' <=> d \in Connected
         /\ Len(up'[c]) = 0 /\ Len(down'[c]) = 0 /\ Len(waiting'[c]) = 0
<1>1. /\ UNCHANGED <<nodes, unanswered, maker, under, ident, tokens, made, heard>>
      /\ status' = [status EXCEPT ![c] = "left"] /\ hidden' = hidden \ {c}
      /\ up' = [up EXCEPT ![c] = <<>>] /\ down' = [down EXCEPT ![c] = <<>>]
      /\ waiting' = [waiting EXCEPT ![c] = <<>>] /\ polling' = polling \ {c} /\ place' = place \ {c}
  BY DEF Disconnect
<1>2. /\ \A x \in Scenes : phase'[x] = IF maker[x] = c THEN "gone" ELSE phase[x]
      /\ copies' = [copies EXCEPT ![c] = copies[c] \ Scenes]
  BY DEF Disconnect, Without
<1>3. copies'[c] = {} /\ \A d \in Clients \ {c} : copies'[d] = copies[d]
  BY <1>2 DEF TypesOK
<1>4. up'[c] = <<>> /\ down'[c] = <<>> /\ waiting'[c] = <<>>
  BY <1>1 DEF TypesOK
<1>5. \A d \in Clients \ {c} : up'[d] = up[d] /\ down'[d] = down[d] /\ waiting'[d] = waiting[d]
  BY <1>1 DEF TypesOK
<1>6. c \notin Connected' /\ \A d \in Clients \ {c} : d \in Connected' <=> d \in Connected
  BY <1>1 DEF Connected, TypesOK
<1>7. Len(<<>>) = 0
  OBVIOUS
<1> QED BY <1>1, <1>2, <1>3, <1>4, <1>5, <1>6, <1>7

LEMMA DisconnectView ==
  ASSUME TypesOK, TypesOK', Core, NEW c \in Clients, Disconnect(c)
  PROVE  View'
<1>1. /\ UNCHANGED <<nodes, unanswered, maker, under, ident, tokens, made, heard>>
      /\ \A x \in Scenes : phase'[x] = IF maker[x] = c THEN "gone" ELSE phase[x]
      /\ down'[c] = <<>> /\ copies'[c] = {} /\ c \notin place' /\ c \notin Connected' /\ Len(down'[c]) = 0
      /\ \A d \in Clients \ {c} :
              /\ down'[d] = down[d] /\ copies'[d] = copies[d]
              /\ d \in place' <=> d \in place
              /\ d \in hidden' <=> d \in hidden
              /\ d \in Connected' <=> d \in Connected
  BY DisconnectDoes
<1>2. \A d \in Clients \ {c} : Still(d)
  BY <1>1 DEF Still, HasSame, Has
<1>3. \A x : Up(x)' = Up(x)
  BY <1>1, UpSame
<1>4. ViewRight'
  <2> SUFFICES ASSUME NEW d \in Clients, NEW x \in Places PROVE Seen(d, x)' <=> x \in Sees(d)'
    BY DEF ViewRight, Seen
  <2>1. CASE d = c
    <3>1. ~ At(c, 0, x)'
      <4>1. ~ Has(c, x)'
        BY <1>1, NotAScene DEF Has
      <4> QED BY <4>1, HeldNone DEF At
    <3>2. ~ Seen(c, x)'
      BY <1>1, <3>1 DEF Seen, At
    <3>3. Sees(c)' = {}
      BY <1>1 DEF Sees
    <3> QED BY <2>1, <3>2, <3>3
  <2>2. CASE d # c
    <3>1. Seen(d, x) <=> x \in Sees(d)
      BY CoreParts DEF ViewRight, Seen
    <3>2. Seen(d, x)' <=> Seen(d, x)
      BY <1>2, <1>3, <2>2, StillQuiet, SeenQuiet
    <3>3. Sees(d)' = Sees(d)
      <4>1. \A s : Path(s)' = Path(s)
        BY <1>1, PathSame
      <4>2. Others(d, nodes)' = Others(d, nodes)
        BY <1>1, <4>1 DEF Others
      <4> QED BY <1>1, <2>2, <4>2 DEF Sees
    <3> QED BY <3>1, <3>2, <3>3
  <2> QED BY <2>1, <2>2
<1>5. ParentsFirst'
  <2> SUFFICES ASSUME NEW d \in Clients PROVE ParentsAt(d)'
    BY DEF ParentsFirst, ParentsAt
  <2>1. CASE d = c
    BY <1>1, <2>1 DEF ParentsAt
  <2>2. CASE d # c
    <3>1. ParentsAt(d) /\ Tree
      BY CoreParts DEF ParentsFirst, ParentsAt
    <3> QED BY <1>1, <1>2, <2>2, <3>1, StillQuiet, ParentsQuiet
  <2> QED BY <2>1, <2>2
<1>6. CopiesOfOthers'
  <2> SUFFICES ASSUME NEW d \in Clients, NEW s \in copies'[d] PROVE d \in place' /\ NotOwn(d, s)
    BY <1>1, SameTree DEF CopiesOfOthers
  <2> QED BY <1>1, CoreParts DEF CopiesOfOthers
<1>7. OwnHasParent'
  <2> SUFFICES ASSUME NEW s \in Scenes, phase'[s] \in {"parent", "asked", "named"}
               PROVE  /\ maker[s] \in place'
                      /\ under[s] \in Scenes /\ maker[under[s]] = maker[s] => phase'[under[s]] \in {"asked", "named"}
    BY <1>1 DEF OwnHasParent, Live
  <2>1. phase[s] = phase'[s] /\ maker[s] # c
    BY <1>1
  <2>2. /\ maker[s] \in place /\ maker[s] \in Clients
        /\ under[s] \in Scenes /\ maker[under[s]] = maker[s] => phase[under[s]] \in {"asked", "named"}
    BY <2>1, CoreParts DEF OwnHasParent, Live, TypesOK
  <2> QED BY <1>1, <2>1, <2>2
<1> QED BY <1>4, <1>5, <1>6, <1>7 DEF View

LEMMA DisconnectKeeps ==
  ASSUME TypesOK, TypesOK', Core, NEW c \in Clients, Disconnect(c)
  PROVE  Core'
<1>1. /\ UNCHANGED <<nodes, unanswered, maker, under, ident, tokens, made, heard>>
      /\ \A x \in Scenes : phase'[x] = IF maker[x] = c THEN "gone" ELSE phase[x]
      /\ up'[c] = <<>> /\ down'[c] = <<>> /\ waiting'[c] = <<>> /\ copies'[c] = {}
      /\ c \notin polling' /\ c \notin place' /\ c \notin hidden' /\ c \notin Connected'
      /\ \A d \in Clients \ {c} :
              /\ up'[d] = up[d] /\ down'[d] = down[d] /\ waiting'[d] = waiting[d] /\ copies'[d] = copies[d]
              /\ d \in polling' <=> d \in polling
              /\ d \in place' <=> d \in place
              /\ d \in hidden' <=> d \in hidden
              /\ d \in Connected' <=> d \in Connected
      /\ Len(up'[c]) = 0 /\ Len(down'[c]) = 0 /\ Len(waiting'[c]) = 0
  BY DisconnectDoes
<1>2. View'
  BY DisconnectView
<1>3. Structure'
  <2>1. Tree'
    <3>1. \A x \in Scenes : phase'[x] = "new" <=> maker'[x] = None
      BY <1>1, CoreParts, NotAClient DEF Tree
    <3> QED BY <1>1, <3>1, CoreParts DEF Tree
  <2>2. OwnAtTheEnd'
    BY <1>1, CoreParts, SameTree
  <2>3. NothingLeft'
    <3> SUFFICES ASSUME NEW d \in Clients, d \notin Connected'
                 PROVE  /\ down'[d] = <<>> /\ up'[d] = <<>> /\ waiting'[d] = <<>> /\ d \notin polling' /\ d \notin hidden'
                        /\ \A s \in Scenes : maker[s] = d => phase'[s] = "gone"
      BY <1>1 DEF NothingLeft
    <3> QED BY <1>1, CoreParts DEF NothingLeft
  <2> QED BY <2>1, <2>2, <2>3 DEF Structure
\* Only queues of others are left, and those are about scenes of others.
<1>4. \A d \in Clients : d # c \/ (Len(up'[d]) = 0 /\ Len(down'[d]) = 0 /\ Len(waiting'[d]) = 0)
  BY <1>1
<1>5. \A d \in Clients : \A i \in 1 .. Len(up'[d]) : d # c /\ i \in 1 .. Len(up[d]) /\ up'[d][i] = up[d][i]
  BY <1>1, <1>4
<1>6. \A d \in Clients : \A i \in 1 .. Len(down'[d]) : d # c /\ i \in 1 .. Len(down[d]) /\ down'[d][i] = down[d][i]
  BY <1>1, <1>4
<1>7. \A d \in Clients : \A i \in 1 .. Len(waiting'[d]) : d # c /\ i \in 1 .. Len(waiting[d]) /\ waiting'[d][i] = waiting[d][i]
  BY <1>1, <1>4
<1>8. \A x \in Scenes : phase'[x] # "gone" => phase'[x] = phase[x] /\ maker[x] # c
  BY <1>1
<1>9. \A x \in Scenes : maker[x] # c => phase'[x] = phase[x]
  BY <1>1
<1>10. Waiting'
  <2>1. ParentWaits'
    <3> SUFFICES ASSUME NEW s \in Scenes, phase'[s] = "parent"
                 PROVE  /\ under[s] \in Scenes /\ maker[under[s]] = maker[s]
                        /\ \E i \in 1 .. Len(waiting'[maker[s]]) :
                             waiting'[maker[s]][i].scene = s /\ waiting'[maker[s]][i].n = 0
      BY <1>1 DEF ParentWaits
    <3>1. phase[s] = "parent" /\ maker[s] \in Clients \ {c}
      <4>1. phase[s] = "parent" /\ maker[s] # c /\ phase[s] # "new"
        BY <1>8
      <4> QED BY <4>1, CoreParts DEF Tree, TypesOK
    <3>2. waiting'[maker[s]] = waiting[maker[s]]
      BY <1>1, <3>1
    <3> QED BY <3>1, <3>2, CoreParts DEF ParentWaits
  <2>2. WaitersRight'
    <3> SUFFICES ASSUME NEW d \in Clients, NEW i \in 1 .. Len(waiting'[d]), NEW w, w = waiting'[d][i] PROVE Waits(d, w)'
      BY DEF WaitersRight, Waits
    <3>1. d # c /\ i \in 1 .. Len(waiting[d]) /\ w = waiting[d][i]
      BY <1>7
    <3>2. Waits(d, w) /\ w.scene \in Scenes
      BY <3>1, WaitTypes, CoreParts DEF WaitersRight
    <3> QED BY <1>1, <1>9, <3>1, <3>2 DEF Waits
  <2>3. WaitersDiffer'
    <3> SUFFICES ASSUME NEW d \in Clients, NEW i \in 1 .. Len(waiting'[d]), NEW j \in 1 .. Len(waiting'[d]), i # j
                 PROVE  waiting'[d][i] # waiting'[d][j]
      BY DEF WaitersDiffer
    <3> QED BY <1>7, CoreParts DEF WaitersDiffer
  <2> QED BY <2>1, <2>2, <2>3 DEF Waiting
<1>11. Asking'
  <2>1. RequestsRight'
    <3> SUFFICES ASSUME NEW d \in Clients, NEW i \in 1 .. Len(up'[d]), up'[d][i].type = "request"
                 PROVE  /\ Token(d, up'[d][i]) /\ up'[d][i].scene \notin nodes \cup unanswered
                        /\ phase'[up'[d][i].scene] \in {"asked", "gone"}
      BY <1>1 DEF RequestsRight, Token
    <3>1. d # c /\ i \in 1 .. Len(up[d]) /\ up'[d][i] = up[d][i]
      BY <1>5
    <3>2. up[d][i].scene \in Scenes
      BY <3>1, UpTypes, UpKinds
    <3> QED BY <1>1, <3>1, <3>2, CoreParts DEF RequestsRight
  <2>2. IdsRight'
    <3> SUFFICES ASSUME NEW d \in Clients, NEW i \in 1 .. Len(down'[d]), down'[d][i].type = "ids"
                 PROVE  /\ Token(d, down'[d][i]) /\ down'[d][i].scene \notin unanswered
                        /\ phase'[down'[d][i].scene] \in {"asked", "gone"}
      BY <1>1 DEF IdsRight, Token
    <3>1. d # c /\ i \in 1 .. Len(down[d]) /\ down'[d][i] = down[d][i]
      BY <1>6
    <3>2. down[d][i].scene \in Scenes
      BY <3>1, DownTypes, DownKinds
    <3> QED BY <1>1, <3>1, <3>2, CoreParts DEF IdsRight
  <2>3. OneRequest' /\ RequestOrCall'
    <3>1. OneRequest'
      <4> SUFFICES ASSUME NEW d \in Clients, NEW i \in 1 .. Len(up'[d]), NEW j \in 1 .. Len(up'[d]), i # j,
                          up'[d][i].type = "request"
                   PROVE  ~ Req(up'[d][j], up'[d][i].scene)
        BY DEF OneRequest, Req
      <4> QED BY <1>5, CoreParts DEF OneRequest
    <3>2. RequestOrCall'
      BY <1>5, CoreParts DEF RequestOrCall
    <3> QED BY <3>1, <3>2
  <2>4. RequestOrIds' /\ OneAnswer'
    <3>1. RequestOrIds'
      <4> SUFFICES ASSUME NEW d \in Clients, NEW i \in 1 .. Len(up'[d]), NEW j \in 1 .. Len(down'[d]),
                          up'[d][i].type = "request"
                   PROVE  ~ Ids(down'[d][j], up'[d][i].scene)
        BY DEF RequestOrIds, Ids
      <4> QED BY <1>5, <1>6, CoreParts DEF RequestOrIds
    <3>2. OneAnswer'
      <4> SUFFICES ASSUME NEW d \in Clients, NEW i \in 1 .. Len(down'[d]), NEW j \in 1 .. Len(down'[d]), i # j,
                          down'[d][i].type = "ids"
                   PROVE  ~ Ids(down'[d][j], down'[d][i].scene)
        BY DEF OneAnswer, Ids
      <4> QED BY <1>6, CoreParts DEF OneAnswer
    <3> QED BY <3>1, <3>2
  <2>5. UnansweredAsked'
    BY <1>1, CoreParts DEF UnansweredAsked, TypesOK
  <2> QED BY <2>1, <2>2, <2>3, <2>4, <2>5 DEF Asking
<1>12. Calling'
  <2>1. CallsRight'
    <3> SUFFICES ASSUME NEW d \in Clients, NEW i \in 1 .. Len(up'[d]), up'[d][i].type = "call"
                 PROVE  LET v == up'[d][i] IN
                        /\ maker[v.from] = d /\ v.scene = v.from /\ phase'[v.from] \in {"named", "gone"}
                        /\ v.n # 0 /\ v.n <= made[v.from]
      BY <1>1 DEF CallsRight, SentCall
    <3>1. d # c /\ i \in 1 .. Len(up[d]) /\ up'[d][i] = up[d][i]
      BY <1>5
    <3>2. up[d][i].from \in Scenes
      BY <3>1, UpTypes, UpKinds
    <3>3. SentCall(d, up[d][i])
      BY <3>1, CoreParts DEF CallsRight
    <3> QED BY <1>1, <3>1, <3>2, <3>3 DEF SentCall
  <2>2. CallsDiffer'
    <3> SUFFICES ASSUME NEW d \in Clients, NEW i \in 1 .. Len(up'[d]), NEW j \in 1 .. Len(up'[d]), i # j,
                        up'[d][i].type = "call"
                 PROVE  ~ IsCall(up'[d][j], up'[d][i].from, up'[d][i].n)
      BY DEF CallsDiffer, IsCall
    <3> QED BY <1>5, CoreParts DEF CallsDiffer
  <2>3. SentOrWaits'
    <3> SUFFICES ASSUME NEW d \in Clients, NEW i \in 1 .. Len(up'[d]), NEW j \in 1 .. Len(waiting'[d]), up'[d][i].type = "call"
                 PROVE  waiting'[d][j].scene # up'[d][i].from \/ waiting'[d][j].n # up'[d][i].n
      BY DEF SentOrWaits
    <3>1. i \in 1 .. Len(up[d]) /\ up'[d][i] = up[d][i] /\ j \in 1 .. Len(waiting[d]) /\ waiting'[d][j] = waiting[d][j]
      BY <1>5, <1>7
    <3> QED BY <3>1, CoreParts DEF SentOrWaits
  <2> QED BY <2>1, <2>2, <2>3 DEF Calling
\* What others know and are told.
<1>13. ASSUME NEW x \in Scenes, phase'[x] \in {"asked", "named"}
       PROVE  /\ maker[x] \in Clients \ {c} /\ phase'[x] = phase[x] /\ maker' = maker
              /\ down'[maker[x]] = down[maker[x]] /\ up'[maker[x]] = up[maker[x]]
  <2>1. phase'[x] = phase[x] /\ maker[x] # c /\ phase[x] # "new"
    BY <1>8, <1>13
  <2>2. maker[x] \in Clients
    BY <2>1, CoreParts DEF Tree, TypesOK
  <2> QED BY <1>1, <2>1, <2>2
<1>14. Naming'
  <2>1. NamedRight'
    BY <1>1, <1>8, CoreParts DEF NamedRight
  <2>2. NodesKnown'
    <3> SUFFICES ASSUME NEW s \in nodes, phase'[s] # "gone"
                 PROVE  phase'[s] = "named" \/ (phase'[s] = "asked" /\ HasIds(maker[s], Len(down[maker[s]]), s)')
      BY <1>1 DEF NodesKnown, Knows
    <3>1. s \in Scenes
      BY DEF TypesOK
    <3>2. phase'[s] = phase[s] /\ Knows(s)
      BY <1>8, <3>1, CoreParts DEF NodesKnown
    <3>3. phase'[s] \in {"asked", "named"}
      BY <3>2 DEF Knows
    <3> QED BY <1>13, <3>1, <3>2, <3>3 DEF Knows, HasIds
  <2>3. KnownStay'
    <3> SUFFICES ASSUME NEW s \in Scenes, Knows(s)' PROVE s \in nodes \/ Leaving(s)'
      BY <1>1 DEF KnownStay
    <3>1. phase'[s] \in {"asked", "named"}
      BY DEF Knows
    <3>2. Knows(s)
      BY <1>13, <3>1 DEF Knows, HasIds
    <3>3. Leaving(s) => Leaving(s)'
      <4>1. Up(s)' = Up(s)
        BY <1>1, UpSame
      <4> QED BY <1>13, <3>1, <4>1 DEF Leaving
    <3> QED BY <3>2, <3>3, CoreParts DEF KnownStay
  <2> QED BY <2>1, <2>2, <2>3 DEF Naming
<1>15. AskedFor'
  <2> SUFFICES ASSUME NEW s \in Scenes, phase'[s] = "asked"
               PROVE  \/ s \in unanswered
                      \/ \E i \in 1 .. Len(up'[maker[s]]) : Req(up'[maker[s]][i], s)
                      \/ HasIds(maker[s], Len(down[maker[s]]), s)'
    BY <1>1 DEF AskedFor
  <2> QED BY <1>13, CoreParts DEF AskedFor, HasIds
<1>16. StillWait'
  <2> SUFFICES ASSUME NEW d \in Clients \ polling', NEW i \in 1 .. Len(waiting'[d]),
                      NEW w, w = waiting'[d][i], Resumes(w)'
               PROVE  phase'[w.scene] = "gone"
    BY DEF StillWait, Resumes
  <2>1. d # c /\ i \in 1 .. Len(waiting[d]) /\ w = waiting[d][i] /\ d \notin polling
    BY <1>1, <1>7
  <2>2. Waits(d, w) /\ w.scene \in Scenes /\ w.n \in Nat
    BY <2>1, WaitTypes, CoreParts DEF WaitersRight
  <2>3. phase'[w.scene] = phase[w.scene] /\ (w.n = 0 => phase'[under[w.scene]] = phase[under[w.scene]])
    BY <1>9, <2>1, <2>2 DEF Waits
  <2>4. Resumes(w)
    BY <1>1, <2>2, <2>3 DEF Resumes
  <2> QED BY <2>1, <2>3, <2>4, CoreParts DEF StillWait
<1>17. NoneYet'
  BY <1>1, <1>8, CoreParts DEF NoneYet
<1> QED BY <1>2, <1>3, <1>10, <1>11, <1>12, <1>14, <1>15, <1>16, <1>17 DEF Core

(* Resume. *)
\* There is one coroutine for a call or a request.
LEMMA OneWaiter ==
  ASSUME TypesOK, Core, NEW d \in Clients, NEW a \in 1 .. Len(waiting[d]), NEW b \in 1 .. Len(waiting[d]),
         waiting[d][a].scene = waiting[d][b].scene, waiting[d][a].n = waiting[d][b].n
  PROVE  a = b
<1>1. waiting[d][a] \in Coroutine /\ waiting[d][b] \in Coroutine
  BY WaitTypes
<1>2. waiting[d][a] = waiting[d][b]
  BY <1>1 DEF Coroutine
<1> QED BY <1>2, CoreParts DEF WaitersDiffer

\* m is sent for the coroutine w; the phases become ph, the tokens tk.
SentFor(c, w, m, ph, tk) ==
  /\ w.scene \in Scenes /\ w.n \in Nat /\ maker[w.scene] = c
  /\ \/ /\ w.n = 0 /\ Req(m, w.scene) /\ m.token \in 1 .. Len(tk) /\ tk[m.token] = w.scene
        /\ phase[w.scene] = "parent" /\ ph[w.scene] = "asked" /\ w.scene \notin nodes \cup unanswered
     \/ /\ w.n # 0 /\ m = Calls(w.scene, w.scene, w.n) /\ w.n <= made[w.scene]
        /\ phase[w.scene] = "named" /\ ph[w.scene] = "named"

ResumeFacts(c, n, e, l, k) ==
  /\ c \in Connected /\ c \in polling /\ polling' = polling \ {c}
  /\ UNCHANGED <<status, hidden, nodes, unanswered, maker, under, ident, place, copies, down, made, heard>>
  /\ \A d \in Clients \ {c} : waiting'[d] = waiting[d] /\ up'[d] = up[d] /\ tokens'[d] = tokens[d]
  /\ Extends(tokens'[c], tokens[c])
  /\ \A x \in Scenes : \/ phase'[x] = phase[x]
                       \/ phase[x] = "parent" /\ phase'[x] = "asked" /\ maker[x] = c /\ x \notin nodes \cup unanswered
  \* the coroutines that go on
  /\ n \in Nat /\ e \in [1 .. n -> GoOn(c)] /\ GoOn(c) \subseteq Ready(c) /\ Ready(c) \subseteq 1 .. Len(waiting[c])
  /\ \A i, j \in 1 .. n : i # j => e[i] # e[j]
  /\ \A p \in GoOn(c) : \E i \in 1 .. n : e[i] = p
  /\ \A i \in 1 .. Len(up[c]) : i \in 1 .. Len(up'[c]) /\ up'[c][i] = up[c][i]
  /\ \A i \in 1 .. n : Len(up[c]) + i \in 1 .. Len(up'[c]) /\ SentFor(c, waiting[c][e[i]], up'[c][Len(up[c]) + i], phase', tokens'[c])
  /\ \A i \in 1 .. Len(up'[c]) :
       (i \in 1 .. Len(up[c]) /\ up'[c][i] = up[c][i]) \/ (i - Len(up[c]) \in 1 .. n /\ Len(up[c]) + (i - Len(up[c])) = i)
  \* those that still wait
  /\ l \in Nat /\ Len(waiting'[c]) = l /\ k \in [1 .. l -> (1 .. Len(waiting[c])) \ Ready(c)]
  /\ \A i \in 1 .. l : waiting'[c][i] = waiting[c][k[i]]
  /\ \A i, j \in 1 .. l : i # j => k[i] # k[j]
  /\ \A p \in (1 .. Len(waiting[c])) \ Ready(c) : \E i \in 1 .. l : k[i] = p

LEMMA ResumeHas ==
  ASSUME TypesOK, TypesOK', Core, NEW c \in Clients, SentResume(c)
  PROVE  \E n, e, l, k : Resumed(c, n, e, l, k) /\ ResumeFacts(c, n, e, l, k)
<1>1. PICK n, e, l, k : Resumed(c, n, e, l, k)
  BY ResumeDoes
<1>2. /\ c \in polling /\ polling' = polling \ {c}
      /\ UNCHANGED <<status, hidden, nodes, unanswered, maker, under, ident, place, copies, down, made, heard>>
  BY DEF SentResume, server
<1>3. \A d \in Clients \ {c} : waiting'[d] = waiting[d] /\ up'[d] = up[d] /\ tokens'[d] = tokens[d]
  BY ResumeDoes
<1>4. c \in Connected
  BY <1>2, CoreParts DEF NothingLeft
<1>5. PICK u \in Nat, v \in Nat : u = Len(up[c]) /\ v = Len(waiting[c])
  BY LenNat
<1>6. DOMAIN waiting[c] = 1 .. v /\ GoOn(c) \subseteq Ready(c) /\ Ready(c) \subseteq 1 .. v
  <2>1. waiting[c] \in Seq(Coroutine)
    BY DEF TypesOK
  <2> QED BY <1>5, <2>1 DEF GoOn, Ready
<1>7. ASSUME NEW p \in GoOn(c)
      PROVE  LET w == waiting[c][p] IN
             /\ w.scene \in Scenes /\ w.n \in Nat /\ maker[w.scene] = c
             /\ w.n = 0 => phase[w.scene] = "parent" /\ phase'[w.scene] = "asked" /\ w.scene \notin nodes \cup unanswered
             /\ w.n # 0 => phase[w.scene] = "named" /\ w.n <= made[w.scene]
  <2>1. p \in 1 .. Len(waiting[c])
    BY <1>5, <1>6
  <2> DEFINE w == waiting[c][p]
  <2>2. w.scene \in Scenes /\ w.n \in Nat /\ Waits(c, w) /\ phase[w.scene] \in {"named", "parent"}
    BY <2>1, WaitTypes, CoreParts DEF WaitersRight, GoOn
  <2>3. CASE w.n = 0
    <3>1. phase[w.scene] = "parent"
      BY <2>2, <2>3 DEF Waits
    <3>2. phase'[w.scene] = "asked"
      BY <1>1, <2>2, <2>3 DEF Resumed
    <3>3. w.scene \notin nodes \cup unanswered
      BY <3>1, CoreParts DEF NodesKnown, Knows, UnansweredAsked
    <3> QED BY <2>2, <2>3, <3>1, <3>2, <3>3 DEF Waits
  <2>4. CASE w.n # 0
    BY <2>2, <2>4 DEF Waits
  <2> QED BY <2>3, <2>4
<1>8. ASSUME NEW x \in Scenes
      PROVE  \/ phase'[x] = phase[x]
             \/ phase[x] = "parent" /\ phase'[x] = "asked" /\ maker[x] = c /\ x \notin nodes \cup unanswered
  <2>1. CASE \E i \in GoOn(c) : waiting[c][i].scene = x /\ waiting[c][i].n = 0
    BY <1>7, <2>1
  <2>2. CASE ~ \E i \in GoOn(c) : waiting[c][i].scene = x /\ waiting[c][i].n = 0
    BY <1>1, <2>2 DEF Resumed
  <2> QED BY <2>1, <2>2
<1>9. /\ n \in Nat /\ e \in [1 .. n -> GoOn(c)] /\ Len(up'[c]) = u + n /\ Extends(up'[c], up[c])
      /\ \A i, j \in 1 .. n : i < j => e[i] < e[j]
      /\ \A p \in GoOn(c) : \E i \in 1 .. n : e[i] = p
      /\ l \in Nat /\ Len(waiting'[c]) = l /\ k \in [1 .. l -> (1 .. v) \ Ready(c)]
      /\ \A i \in 1 .. l : waiting'[c][i] = waiting[c][k[i]]
      /\ \A i, j \in 1 .. l : i < j => k[i] < k[j]
      /\ \A p \in (1 .. v) \ Ready(c) : \E i \in 1 .. l : k[i] = p
      /\ Extends(tokens'[c], tokens[c])
  BY <1>1, <1>5, <1>6 DEF Resumed
<1>10. \A i, j \in 1 .. n : i # j => e[i] # e[j]
  <2>1. \A i \in 1 .. n : e[i] \in Nat
    <3>1. GoOn(c) \subseteq Nat
      BY <1>6
    <3>2. e \in [1 .. n -> GoOn(c)]
      BY <1>9
    <3> QED BY ONLY <3>1, <3>2
  <2>2. \A i, j \in 1 .. n : i # j => i < j \/ j < i
    BY <1>9
  <2> QED BY <1>9, <2>1, <2>2
<1>11. \A i, j \in 1 .. l : i # j => k[i] # k[j]
  <2>1. \A i \in 1 .. l : k[i] \in Nat
    BY <1>9
  <2>2. \A i, j \in 1 .. l : i # j => i < j \/ j < i
    BY <1>9
  <2> QED BY <1>9, <2>1, <2>2
<1>12. \A i \in 1 .. u : i \in 1 .. Len(up'[c]) /\ up'[c][i] = up[c][i]
  BY <1>5, <1>9 DEF Extends
<1>13. \A i \in 1 .. Len(up'[c]) : (i \in 1 .. u /\ up'[c][i] = up[c][i]) \/ (i - u \in 1 .. n /\ u + (i - u) = i)
  BY <1>5, <1>9, <1>12
<1>14. ASSUME NEW i \in 1 .. n
       PROVE  u + i \in 1 .. Len(up'[c]) /\ SentFor(c, waiting[c][e[i]], up'[c][u + i], phase', tokens'[c])
  <2> DEFINE w == waiting[c][e[i]]
             m == up'[c][u + i]
  <2>1. u + i \in 1 .. Len(up'[c])
    BY <1>9
  <2>2. e[i] \in GoOn(c)
    BY <1>9
  <2>3. /\ w.n = 0 => /\ m.type = "request" /\ m.scene = w.scene
                      /\ m.token \in 1 .. Len(tokens'[c]) /\ tokens'[c][m.token] = w.scene
        /\ w.n # 0 => m = Calls(ident[w.scene], w.scene, w.n)
    BY <1>1, <1>5 DEF Resumed
  <2>4. /\ w.scene \in Scenes /\ w.n \in Nat /\ maker[w.scene] = c
        /\ w.n = 0 => phase[w.scene] = "parent" /\ phase'[w.scene] = "asked" /\ w.scene \notin nodes \cup unanswered
        /\ w.n # 0 => phase[w.scene] = "named" /\ w.n <= made[w.scene]
    BY <1>7, <2>2
  <2> HIDE DEF w, m
  <2>5. w.n = 0 => Req(m, w.scene)
    BY <2>3 DEF Req
  <2>6. w.n # 0 => m = Calls(w.scene, w.scene, w.n) /\ phase'[w.scene] = "named"
    <3> SUFFICES ASSUME w.n # 0 PROVE m = Calls(w.scene, w.scene, w.n) /\ phase'[w.scene] = "named"
      OBVIOUS
    <3>1. ident[w.scene] = w.scene
      BY <2>4, CoreParts DEF NamedRight
    <3>2. phase'[w.scene] = "named"
      BY <1>8, <2>4
    <3> QED BY <2>3, <3>1, <3>2
  <2>7. SentFor(c, w, m, phase', tokens'[c])
    BY <2>3, <2>4, <2>5, <2>6 DEF SentFor
  <2> QED BY <2>1, <2>7 DEF w, m
<1>15. ResumeFacts(c, n, e, l, k)
  BY <1>2, <1>3, <1>4, <1>5, <1>6, <1>8, <1>9, <1>10, <1>11, <1>12, <1>13, <1>14 DEF ResumeFacts
<1> QED BY <1>1, <1>15

LEMMA SentKinds ==
  ASSUME NEW c, NEW w, NEW m, NEW ph, NEW tk, SentFor(c, w, m, ph, tk)
  PROVE  /\ m.type \in {"request", "call"}
         /\ m.type = "request" => w.n = 0 /\ m.scene = w.scene /\ m.token \in 1 .. Len(tk) /\ tk[m.token] = w.scene
                                  /\ phase[w.scene] = "parent" /\ ph[w.scene] = "asked" /\ w.scene \notin nodes \cup unanswered
         /\ m.type = "call" => w.n # 0 /\ m.from = w.scene /\ m.scene = w.scene /\ m.n = w.n /\ w.n <= made[w.scene]
                               /\ phase[w.scene] = "named" /\ ph[w.scene] = "named"
BY DEF SentFor, Req, Calls

LEMMA ResumeKeeps ==
  ASSUME TypesOK, TypesOK', Core, NEW c \in Clients, SentResume(c)
  PROVE  Core'
<1>1. PICK n, e, l, k : Resumed(c, n, e, l, k) /\ ResumeFacts(c, n, e, l, k)
  BY ResumeHas
<1>2. /\ c \in Connected /\ c \in polling /\ polling' = polling \ {c}
      /\ UNCHANGED <<status, hidden, nodes, unanswered, maker, under, ident, place, copies, down, made, heard>>
  BY <1>1 DEF ResumeFacts
<1>3. \A x \in Scenes : \/ phase'[x] = phase[x]
                        \/ phase[x] = "parent" /\ phase'[x] = "asked" /\ maker[x] = c /\ x \notin nodes \cup unanswered
  BY <1>1 DEF ResumeFacts
<1>4. ASSUME NEW x \in Scenes, phase'[x] # phase[x]
      PROVE  \E p \in GoOn(c) : waiting[c][p].scene = x /\ waiting[c][p].n = 0
  BY <1>1, <1>4 DEF Resumed
<1>5. /\ GoOn(c) \subseteq Ready(c) /\ Ready(c) \subseteq 1 .. Len(waiting[c])
      /\ e \in [1 .. n -> GoOn(c)] /\ \A p \in GoOn(c) : \E i \in 1 .. n : e[i] = p
      /\ \A i, j \in 1 .. n : i # j => e[i] # e[j]
  BY <1>1 DEF ResumeFacts
<1>6. \A d \in Clients : \A i \in 1 .. Len(up[d]) : i \in 1 .. Len(up'[d]) /\ up'[d][i] = up[d][i]
  BY <1>1 DEF ResumeFacts
\* what is sent
<1> DEFINE By(i, p) == p \in 1 .. n /\ i = Len(up[c]) + p
<1>7. \A d \in Clients : \A i \in 1 .. Len(up'[d]) :
        (i \in 1 .. Len(up[d]) /\ up'[d][i] = up[d][i]) \/ (d = c /\ \E p \in 1 .. n : By(i, p))
  <2> SUFFICES ASSUME NEW d \in Clients, NEW i \in 1 .. Len(up'[d])
               PROVE  (i \in 1 .. Len(up[d]) /\ up'[d][i] = up[d][i]) \/ (d = c /\ \E p \in 1 .. n : By(i, p))
    OBVIOUS
  <2>1. CASE d = c
    <3>1. (i \in 1 .. Len(up[c]) /\ up'[c][i] = up[c][i]) \/ (i - Len(up[c]) \in 1 .. n /\ Len(up[c]) + (i - Len(up[c])) = i)
      BY <1>1, <2>1 DEF ResumeFacts
    <3> QED BY <2>1, <3>1
  <2>2. CASE d # c
    BY <1>1, <2>2 DEF ResumeFacts
  <2> QED BY <2>1, <2>2
<1>8. \A i, p : By(i, p) => /\ SentFor(c, waiting[c][e[p]], up'[c][i], phase', tokens'[c])
                            /\ e[p] \in GoOn(c) /\ e[p] \in Ready(c) /\ e[p] \in 1 .. Len(waiting[c])
                            /\ waiting[c][e[p]].scene \in Scenes
  <2>1. \A p \in 1 .. n : SentFor(c, waiting[c][e[p]], up'[c][Len(up[c]) + p], phase', tokens'[c])
    BY <1>1 DEF ResumeFacts
  <2>2. \A p \in 1 .. n : e[p] \in GoOn(c) /\ e[p] \in Ready(c) /\ e[p] \in 1 .. Len(waiting[c])
    BY <1>5
  <2> QED BY <2>1, <2>2, WaitTypes
<1>9. \A p \in GoOn(c) : \E i \in 1 .. Len(up'[c]), q \in 1 .. n : By(i, q) /\ e[q] = p
  <2>1. \A q \in 1 .. n : Len(up[c]) + q \in 1 .. Len(up'[c])
    BY <1>1 DEF ResumeFacts
  <2> QED BY <1>5, <2>1
<1>10. ASSUME NEW i, NEW j, NEW p, NEW q, By(i, p), By(j, q), i # j
       PROVE  waiting[c][e[p]].scene # waiting[c][e[q]].scene \/ waiting[c][e[p]].n # waiting[c][e[q]].n
  <2>1. e[p] # e[q]
    BY <1>5, <1>10
  <2> HIDE DEF By
  <2> QED BY <1>8, <1>10, <2>1, OneWaiter
<1> HIDE DEF By
\* those that still wait
<1> DEFINE K(d, i) == IF d = c THEN k[i] ELSE i
<1>11. \A d \in Clients : \A i \in 1 .. Len(waiting'[d]) :
         /\ K(d, i) \in 1 .. Len(waiting[d]) /\ waiting'[d][i] = waiting[d][K(d, i)]
         /\ d = c => K(d, i) \notin Ready(c)
  BY <1>1 DEF ResumeFacts
<1>12. \A d \in Clients : \A i, j \in 1 .. Len(waiting'[d]) : i # j => K(d, i) # K(d, j)
  BY <1>1 DEF ResumeFacts
<1>13. \A d \in Clients : \A p \in 1 .. Len(waiting[d]) :
         (d = c /\ p \in Ready(c)) \/ \E i \in 1 .. Len(waiting'[d]) : K(d, i) = p
  BY <1>1 DEF ResumeFacts
<1> HIDE DEF K
<1>14. \A d \in Clients : \A i \in 1 .. Len(tokens[d]) : i \in 1 .. Len(tokens'[d]) /\ tokens'[d][i] = tokens[d][i]
  <2>1. Len(tokens[c]) \in Nat
    BY DEF TypesOK
  <2>2. Len(tokens'[c]) \in Nat
    BY DEF TypesOK
  <2>3. Extends(tokens'[c], tokens[c]) /\ \A d \in Clients \ {c} : tokens'[d] = tokens[d]
    BY <1>1 DEF ResumeFacts
  <2> QED BY <2>1, <2>2, <2>3 DEF Extends
<1>15. ASSUME NEW d \in Clients, NEW i \in 1 .. Len(up[d])
       PROVE  up[d][i].scene \in Scenes \cup {None} /\ (up[d][i].type = "request" => up[d][i].scene \in Scenes)
              /\ (up[d][i].type = "call" => up[d][i].from \in Scenes)
  BY UpTypes, UpKinds
<1>16. ASSUME NEW d \in Clients, NEW i \in 1 .. Len(down[d]), down[d][i].type = "ids"
       PROVE  down[d][i].scene \in Scenes
  BY <1>16, DownTypes, DownKinds
<1>17. \A x \in Scenes : phase[x] \in {"asked", "named", "gone"} => phase'[x] = phase[x]
  BY <1>3
<1>20. Structure'
  <2>1. Tree'
    BY <1>2, <1>3, CoreParts DEF Tree
  <2>2. OwnAtTheEnd'
    BY <1>2, CoreParts, SameTree
  <2>3. NothingLeft'
    <3> SUFFICES ASSUME NEW d \in Clients, d \notin Connected'
                 PROVE  /\ down'[d] = <<>> /\ up'[d] = <<>> /\ waiting'[d] = <<>> /\ d \notin polling' /\ d \notin hidden'
                        /\ \A s \in Scenes : maker'[s] = d => phase'[s] = "gone"
      BY DEF NothingLeft
    <3>1. d # c /\ d \notin Connected
      BY <1>2 DEF Connected
    <3>2. waiting'[d] = waiting[d] /\ up'[d] = up[d]
      BY <1>1, <3>1 DEF ResumeFacts
    <3> QED BY <1>2, <1>17, <3>1, <3>2, CoreParts DEF NothingLeft
  <2> QED BY <2>1, <2>2, <2>3 DEF Structure
<1>21. View'
  <2>1. ViewRight' /\ ParentsFirst' /\ CopiesOfOthers'
    BY <1>2, ViewFrame
  <2>2. OwnHasParent'
    <3> SUFFICES ASSUME NEW s \in Scenes, phase'[s] \in {"parent", "asked", "named"}
                 PROVE  /\ maker[s] \in place
                        /\ under[s] \in Scenes /\ maker[under[s]] = maker[s] => phase'[under[s]] \in {"asked", "named"}
      BY <1>2 DEF OwnHasParent, Live
    <3>1. phase[s] \in {"parent", "asked", "named"}
      BY <1>3
    <3> QED BY <1>17, <3>1, CoreParts DEF OwnHasParent, Live
  <2> QED BY <2>1, <2>2 DEF View
<1>22. Waiting'
  <2>1. ParentWaits'
    <3> SUFFICES ASSUME NEW x \in Scenes, phase'[x] = "parent"
                 PROVE  /\ under[x] \in Scenes /\ maker[under[x]] = maker[x]
                        /\ \E i \in 1 .. Len(waiting'[maker[x]]) :
                             waiting'[maker[x]][i].scene = x /\ waiting'[maker[x]][i].n = 0
      BY <1>2 DEF ParentWaits
    <3>1. phase[x] = "parent"
      BY <1>3
    <3>2. maker[x] \in Clients
      BY <3>1, CoreParts DEF Tree, TypesOK
    <3>3. PICK p \in 1 .. Len(waiting[maker[x]]) : waiting[maker[x]][p].scene = x /\ waiting[maker[x]][p].n = 0
      BY <3>1, CoreParts DEF ParentWaits
    <3>4. ~ (maker[x] = c /\ p \in Ready(c))
      <4> SUFFICES ASSUME maker[x] = c, p \in Ready(c) PROVE FALSE
        OBVIOUS
      <4>1. p \in GoOn(c)
        BY <3>1, <3>3 DEF GoOn
      <4>2. phase'[x] = "asked"
        BY <1>1, <3>3, <4>1 DEF Resumed
      <4> QED BY <4>2
    <3>5. PICK i \in 1 .. Len(waiting'[maker[x]]) : K(maker[x], i) = p
      BY <1>13, <3>2, <3>4
    <3>6. waiting'[maker[x]][i] = waiting[maker[x]][p]
      BY <1>11, <3>2, <3>5
    <3> QED BY <3>1, <3>3, <3>6, CoreParts DEF ParentWaits
  <2>2. WaitersRight'
    <3> SUFFICES ASSUME NEW d \in Clients, NEW i \in 1 .. Len(waiting'[d])
                 PROVE  LET v == waiting'[d][i] IN
                        /\ maker[v.scene] = d /\ v.n <= made[v.scene]
                        /\ v.n = 0 => under[v.scene] \in Scenes /\ maker[under[v.scene]] = d /\ phase'[v.scene] \in {"parent", "gone"}
                        /\ v.n # 0 => phase'[v.scene] \in {"asked", "named", "gone"}
      BY <1>2 DEF WaitersRight, Waits
    <3>1. PICK j \in 1 .. Len(waiting[d]) : waiting'[d][i] = waiting[d][j] /\ (d = c => j \notin Ready(c))
      BY <1>11
    <3> DEFINE v == waiting[d][j]
    <3>2. Waits(d, v) /\ v.scene \in Scenes
      BY WaitTypes, CoreParts DEF WaitersRight
    <3>3. v.n = 0 => phase'[v.scene] = phase[v.scene]
      <4> SUFFICES ASSUME v.n = 0, phase'[v.scene] # phase[v.scene] PROVE FALSE
        OBVIOUS
      <4>1. PICK p \in GoOn(c) : waiting[c][p].scene = v.scene /\ waiting[c][p].n = 0
        BY <1>4, <3>2
      <4>2. d = c
        BY <1>3, <3>2 DEF Waits
      <4>3. p = j
        BY <1>5, <4>1, <4>2, OneWaiter
      <4> QED BY <1>5, <3>1, <4>2, <4>3
    <3> QED BY <1>17, <3>1, <3>2, <3>3 DEF Waits
  <2>3. WaitersDiffer'
    <3> SUFFICES ASSUME NEW d \in Clients, NEW i \in 1 .. Len(waiting'[d]), NEW j \in 1 .. Len(waiting'[d]), i # j
                 PROVE  waiting'[d][i] # waiting'[d][j]
      BY DEF WaitersDiffer
    <3>1. waiting'[d][i] = waiting[d][K(d, i)] /\ waiting'[d][j] = waiting[d][K(d, j)]
      BY <1>11
    <3>2. K(d, i) \in 1 .. Len(waiting[d]) /\ K(d, j) \in 1 .. Len(waiting[d]) /\ K(d, i) # K(d, j)
      BY <1>11, <1>12
    <3>3. waiting[d][K(d, i)] # waiting[d][K(d, j)]
      BY <3>2, CoreParts DEF WaitersDiffer
    <3> QED BY <3>1, <3>3
  <2> QED BY <2>1, <2>2, <2>3 DEF Waiting
<1>23. Asking'
  <2>1. ASSUME NEW d \in Clients, NEW i \in 1 .. Len(up'[d]), up'[d][i].type = "request",
               ~ (i \in 1 .. Len(up[d]) /\ up'[d][i] = up[d][i])
        PROVE  d = c /\ \E p \in 1 .. n : By(i, p) /\ waiting[c][e[p]].n = 0 /\ up'[c][i].scene = waiting[c][e[p]].scene
                                         /\ up'[c][i].scene \in Scenes /\ maker[up'[c][i].scene] = c
                                         /\ up'[c][i].token \in 1 .. Len(tokens'[c]) /\ tokens'[c][up'[c][i].token] = up'[c][i].scene
                                         /\ phase[up'[c][i].scene] = "parent" /\ phase'[up'[c][i].scene] = "asked"
                                         /\ up'[c][i].scene \notin nodes \cup unanswered
    <3>1. PICK p \in 1 .. n : By(i, p) /\ d = c
      BY <1>7, <2>1
    <3>2. SentFor(c, waiting[c][e[p]], up'[c][i], phase', tokens'[c]) /\ waiting[c][e[p]].scene \in Scenes
      BY <1>8, <3>1
    <3>3. maker[waiting[c][e[p]].scene] = c
      BY <3>2 DEF SentFor
    <3> QED BY <2>1, <3>1, <3>2, <3>3, SentKinds
  <2>2. ASSUME NEW d \in Clients, NEW i \in 1 .. Len(up'[d]), up'[d][i].type = "call",
               ~ (i \in 1 .. Len(up[d]) /\ up'[d][i] = up[d][i])
        PROVE  d = c /\ \E p \in 1 .. n : By(i, p) /\ up'[c][i].from = waiting[c][e[p]].scene /\ phase[up'[c][i].from] = "named"
    <3>1. PICK p \in 1 .. n : By(i, p) /\ d = c
      BY <1>7, <2>2
    <3>2. SentFor(c, waiting[c][e[p]], up'[c][i], phase', tokens'[c])
      BY <1>8, <3>1
    <3> QED BY <2>2, <3>1, <3>2, SentKinds
  <2>3. \A d \in Clients : \A m : Token(d, m) => m.token \in 1 .. Len(tokens'[d]) /\ tokens'[d][m.token] = m.scene /\ maker[m.scene] = d
    BY <1>14 DEF Token
  <2>4. RequestsRight'
    <3> SUFFICES ASSUME NEW d \in Clients, NEW i \in 1 .. Len(up'[d]), up'[d][i].type = "request"
                 PROVE  LET m == up'[d][i] IN
                        /\ m.token \in 1 .. Len(tokens'[d]) /\ tokens'[d][m.token] = m.scene /\ maker[m.scene] = d
                        /\ m.scene \notin nodes \cup unanswered /\ phase'[m.scene] \in {"asked", "gone"}
      BY <1>2 DEF RequestsRight, Token
    <3>1. CASE i \in 1 .. Len(up[d]) /\ up'[d][i] = up[d][i]
      <4>1. Token(d, up[d][i]) /\ up[d][i].scene \notin nodes \cup unanswered /\ phase[up[d][i].scene] \in {"asked", "gone"}
        BY <3>1, CoreParts DEF RequestsRight
      <4>2. up[d][i].scene \in Scenes
        BY <1>15, <3>1
      <4> QED BY <1>17, <2>3, <3>1, <4>1, <4>2
    <3>2. CASE ~ (i \in 1 .. Len(up[d]) /\ up'[d][i] = up[d][i])
      BY <2>1, <3>2
    <3> QED BY <3>1, <3>2
  <2>5. ASSUME NEW d \in Clients, NEW i \in 1 .. Len(up[d]), up[d][i].type = "request"
        PROVE  phase[up[d][i].scene] \in {"asked", "gone"}
    BY <2>5, CoreParts DEF RequestsRight
  <2>6. OneRequest'
    <3> SUFFICES ASSUME NEW d \in Clients, NEW i \in 1 .. Len(up'[d]), NEW j \in 1 .. Len(up'[d]), i # j,
                        up'[d][i].type = "request", up'[d][j].type = "request", up'[d][i].scene = up'[d][j].scene
                 PROVE  FALSE
      BY DEF OneRequest, Req
    <3> DEFINE Old(x) == x \in 1 .. Len(up[d]) /\ up'[d][x] = up[d][x]
    <3>1. CASE Old(i) /\ Old(j)
      BY <3>1, CoreParts DEF OneRequest, Req
    <3>2. CASE Old(i) /\ ~ Old(j)
      BY <2>1, <2>5, <3>2
    <3>3. CASE ~ Old(i) /\ Old(j)
      BY <2>1, <2>5, <3>3
    <3>4. CASE ~ Old(i) /\ ~ Old(j)
      <4>1. d = c
        BY <2>1, <3>4
      <4>2. PICK p \in 1 .. n : By(i, p) /\ waiting[c][e[p]].n = 0 /\ up'[c][i].scene = waiting[c][e[p]].scene
        BY <2>1, <3>4
      <4>3. PICK q \in 1 .. n : By(j, q) /\ waiting[c][e[q]].n = 0 /\ up'[c][j].scene = waiting[c][e[q]].scene
        BY <2>1, <3>4
      <4> QED BY <1>10, <4>1, <4>2, <4>3
    <3> QED BY <3>1, <3>2, <3>3, <3>4
  <2>7. RequestOrCall'
    <3> SUFFICES ASSUME NEW d \in Clients, NEW i \in 1 .. Len(up'[d]), NEW j \in 1 .. Len(up'[d]),
                        up'[d][i].type = "request", up'[d][j].type = "call", up'[d][j].from = up'[d][i].scene
                 PROVE  FALSE
      BY DEF RequestOrCall
    <3> DEFINE Old(x) == x \in 1 .. Len(up[d]) /\ up'[d][x] = up[d][x]
    <3>1. CASE Old(i) /\ Old(j)
      BY <3>1, CoreParts DEF RequestOrCall
    <3>2. CASE Old(i) /\ ~ Old(j)
      BY <2>2, <2>5, <3>2
    <3>3. CASE ~ Old(i) /\ Old(j)
      <4>1. phase[up[d][j].from] \in {"named", "gone"}
        BY <3>3, CoreParts DEF CallsRight, SentCall
      <4> QED BY <2>1, <3>3, <4>1
    <3>4. CASE ~ Old(i) /\ ~ Old(j)
      BY <2>1, <2>2, <3>4
    <3> QED BY <3>1, <3>2, <3>3, <3>4
  <2>8. RequestOrIds'
    <3> SUFFICES ASSUME NEW d \in Clients, NEW i \in 1 .. Len(up'[d]), NEW j \in 1 .. Len(down[d]),
                        up'[d][i].type = "request", Ids(down[d][j], up'[d][i].scene)
                 PROVE  FALSE
      BY <1>2 DEF RequestOrIds, Ids
    <3>1. phase[down[d][j].scene] \in {"asked", "gone"}
      BY CoreParts DEF IdsRight, Ids
    <3>2. CASE i \in 1 .. Len(up[d]) /\ up'[d][i] = up[d][i]
      BY <3>2, CoreParts DEF RequestOrIds
    <3> QED BY <2>1, <3>1, <3>2 DEF Ids
  <2>9. IdsRight'
    <3> SUFFICES ASSUME NEW d \in Clients, NEW i \in 1 .. Len(down[d]), down[d][i].type = "ids"
                 PROVE  LET m == down[d][i] IN
                        /\ m.token \in 1 .. Len(tokens'[d]) /\ tokens'[d][m.token] = m.scene /\ maker[m.scene] = d
                        /\ m.scene \notin unanswered /\ phase'[m.scene] \in {"asked", "gone"}
      BY <1>2 DEF IdsRight, Token
    <3>1. Token(d, down[d][i]) /\ down[d][i].scene \notin unanswered /\ phase[down[d][i].scene] \in {"asked", "gone"}
      BY CoreParts DEF IdsRight
    <3> QED BY <1>16, <1>17, <2>3, <3>1
  <2>10. OneAnswer'
    BY <1>2, CoreParts DEF OneAnswer, Ids
  <2>11. UnansweredAsked'
    <3>1. unanswered \subseteq Scenes
      BY DEF TypesOK
    <3> QED BY <1>2, <1>17, <3>1, CoreParts DEF UnansweredAsked
  <2> QED BY <2>4, <2>6, <2>7, <2>8, <2>9, <2>10, <2>11 DEF Asking
<1>24. Calling'
  <2>1. ASSUME NEW d \in Clients, NEW i \in 1 .. Len(up'[d]), up'[d][i].type = "call",
               ~ (i \in 1 .. Len(up[d]) /\ up'[d][i] = up[d][i])
        PROVE  d = c /\ \E p \in 1 .. n : LET w == waiting[c][e[p]] m == up'[c][i] IN
                          /\ By(i, p) /\ w.n # 0 /\ m.from = w.scene /\ m.scene = w.scene /\ m.n = w.n /\ w.n <= made[w.scene]
                          /\ phase'[w.scene] = "named" /\ maker[w.scene] = c
                          /\ e[p] \in 1 .. Len(waiting[c]) /\ e[p] \in Ready(c)
    <3>1. PICK p \in 1 .. n : By(i, p) /\ d = c
      BY <1>7, <2>1
    <3>2. SentFor(c, waiting[c][e[p]], up'[c][i], phase', tokens'[c]) /\ e[p] \in 1 .. Len(waiting[c]) /\ e[p] \in Ready(c)
      BY <1>8, <3>1
    <3>3. maker[waiting[c][e[p]].scene] = c
      BY <3>2 DEF SentFor
    <3> DEFINE w == waiting[c][e[p]]
               m == up'[c][i]
    <3>4. m.type = "call"
      BY <2>1, <3>1
    <3>5. w.n # 0 /\ m.from = w.scene /\ m.scene = w.scene /\ m.n = w.n /\ w.n <= made[w.scene] /\ phase'[w.scene] = "named"
      BY ONLY <3>2, <3>4, SentKinds
    <3> QED BY <3>1, <3>2, <3>3, <3>5
  <2>2. CallsRight'
    <3> SUFFICES ASSUME NEW d \in Clients, NEW i \in 1 .. Len(up'[d]), up'[d][i].type = "call"
                 PROVE  LET v == up'[d][i] IN
                        /\ maker[v.from] = d /\ v.scene = v.from /\ phase'[v.from] \in {"named", "gone"}
                        /\ v.n # 0 /\ v.n <= made[v.from]
      BY <1>2 DEF CallsRight, SentCall
    <3>1. CASE i \in 1 .. Len(up[d]) /\ up'[d][i] = up[d][i]
      <4>1. SentCall(d, up[d][i]) /\ up[d][i].from \in Scenes
        BY <1>15, <3>1, CoreParts DEF CallsRight
      <4> QED BY <1>17, <3>1, <4>1 DEF SentCall
    <3>2. CASE ~ (i \in 1 .. Len(up[d]) /\ up'[d][i] = up[d][i])
      <4>1. PICK p \in 1 .. n :
              LET w == waiting[c][e[p]] m == up'[c][i] IN
              /\ w.n # 0 /\ m.from = w.scene /\ m.scene = w.scene /\ m.n = w.n /\ w.n <= made[w.scene]
              /\ phase'[w.scene] = "named" /\ maker[w.scene] = c
        BY <2>1, <3>2
      <4>2. d = c
        BY <2>1, <3>2
      <4> QED BY <4>1, <4>2
    <3> QED BY <3>1, <3>2
  <2>3. CallsDiffer'
    <3> SUFFICES ASSUME NEW d \in Clients, NEW i \in 1 .. Len(up'[d]), NEW j \in 1 .. Len(up'[d]), i # j,
                        up'[d][i].type = "call", up'[d][j].type = "call",
                        up'[d][j].from = up'[d][i].from, up'[d][j].n = up'[d][i].n
                 PROVE  FALSE
      BY DEF CallsDiffer, IsCall
    <3> DEFINE Old(x) == x \in 1 .. Len(up[d]) /\ up'[d][x] = up[d][x]
    <3>1. CASE Old(i) /\ Old(j)
      BY <3>1, CoreParts DEF CallsDiffer, IsCall
    <3>2. CASE Old(i) /\ ~ Old(j)
      <4>1. d = c
        BY <2>1, <3>2
      <4>2. PICK p \in 1 .. Len(waiting[c]) : up'[c][j].from = waiting[c][p].scene /\ up'[c][j].n = waiting[c][p].n
        BY <2>1, <3>2
      <4>3. i \in 1 .. Len(up[c]) /\ up[c][i].type = "call" /\ up[c][i] = up'[c][i]
        BY <4>1, <3>2
      <4> QED BY <4>1, <4>2, <4>3, CoreParts DEF SentOrWaits
    <3>3. CASE ~ Old(i) /\ Old(j)
      <4>1. d = c
        BY <2>1, <3>3
      <4>2. PICK p \in 1 .. Len(waiting[c]) : up'[c][i].from = waiting[c][p].scene /\ up'[c][i].n = waiting[c][p].n
        BY <2>1, <3>3
      <4>3. j \in 1 .. Len(up[c]) /\ up[c][j].type = "call" /\ up[c][j] = up'[c][j]
        BY <4>1, <3>3
      <4> QED BY <4>1, <4>2, <4>3, CoreParts DEF SentOrWaits
    <3>4. CASE ~ Old(i) /\ ~ Old(j)
      <4>1. d = c
        BY <2>1, <3>4
      <4>2. PICK p \in 1 .. n : By(i, p) /\ up'[c][i].from = waiting[c][e[p]].scene /\ up'[c][i].n = waiting[c][e[p]].n
        BY <2>1, <3>4
      <4>3. PICK q \in 1 .. n : By(j, q) /\ up'[c][j].from = waiting[c][e[q]].scene /\ up'[c][j].n = waiting[c][e[q]].n
        BY <2>1, <3>4
      <4> QED BY <1>10, <4>1, <4>2, <4>3
    <3> QED BY <3>1, <3>2, <3>3, <3>4
  <2>4. SentOrWaits'
    <3> SUFFICES ASSUME NEW d \in Clients, NEW i \in 1 .. Len(up'[d]), NEW j \in 1 .. Len(waiting'[d]), up'[d][i].type = "call",
                        waiting'[d][j].scene = up'[d][i].from, waiting'[d][j].n = up'[d][i].n
                 PROVE  FALSE
      BY DEF SentOrWaits
    <3>1. PICK q \in 1 .. Len(waiting[d]) : waiting'[d][j] = waiting[d][q] /\ (d = c => q \notin Ready(c))
      BY <1>11
    <3>2. CASE i \in 1 .. Len(up[d]) /\ up'[d][i] = up[d][i]
      BY <3>1, <3>2, CoreParts DEF SentOrWaits
    <3>3. CASE ~ (i \in 1 .. Len(up[d]) /\ up'[d][i] = up[d][i])
      <4>1. d = c
        BY <2>1, <3>3
      <4>2. PICK p \in Ready(c) : /\ p \in 1 .. Len(waiting[c])
                                 /\ up'[c][i].from = waiting[c][p].scene /\ up'[c][i].n = waiting[c][p].n
        BY <2>1, <3>3
      <4>3. q \in 1 .. Len(waiting[c]) /\ q \notin Ready(c)
            /\ waiting[c][q].scene = waiting[c][p].scene /\ waiting[c][q].n = waiting[c][p].n
        BY <3>1, <4>1, <4>2
      <4>4. p = q
        BY <4>2, <4>3, OneWaiter
      <4> QED BY <4>2, <4>3, <4>4
    <3> QED BY <3>2, <3>3
  <2> QED BY <2>2, <2>3, <2>4 DEF Calling
<1>25. Naming'
  <2>1. NamedRight'
    BY <1>2, <1>3, CoreParts DEF NamedRight
  <2>2. NodesKnown'
    <3>1. nodes \subseteq Scenes
      BY DEF TypesOK
    <3> QED BY <1>2, <1>17, <3>1, CoreParts DEF NodesKnown, Knows, HasIds
  <2>3. ASSUME NEW x \in Scenes, Knows(x)' PROVE Knows(x)
    <3>1. CASE phase'[x] = phase[x]
      BY <1>2, <2>3, <3>1 DEF Knows, HasIds
    <3>2. CASE phase'[x] # phase[x]
      <4>1. phase[x] = "parent" /\ maker[x] = c /\ phase'[x] = "asked"
        BY <1>3, <3>2
      <4>2. HasIds(maker[x], Len(down[maker[x]]), x)
        BY <1>2, <2>3, <4>1 DEF Knows, HasIds
      <4>3. PICK i \in 1 .. Len(down[c]) : Ids(down[c][i], x)
        BY <4>1, <4>2 DEF HasIds
      <4> QED BY <4>1, <4>3, CoreParts DEF IdsRight, Ids
    <3> QED BY <3>1, <3>2
  <2>4. \A x \in Scenes : Leaving(x) => Leaving(x)'
    BY <1>2, UpSame DEF Leaving
  <2>5. KnownStay'
    BY <1>2, <2>3, <2>4, CoreParts DEF KnownStay
  <2> QED BY <2>1, <2>2, <2>5 DEF Naming
<1>26. AskedFor'
  <2> SUFFICES ASSUME NEW x \in Scenes, phase'[x] = "asked"
               PROVE  \/ x \in unanswered
                      \/ \E i \in 1 .. Len(up'[maker[x]]) : Req(up'[maker[x]][i], x)
                      \/ HasIds(maker[x], Len(down[maker[x]]), x)
    BY <1>2 DEF AskedFor, HasIds
  <2>1. CASE phase'[x] = phase[x]
    <3>1. maker[x] \in Clients
      BY <2>1, CoreParts DEF Tree, TypesOK
    <3> QED BY <1>6, <2>1, <3>1, CoreParts DEF AskedFor
  <2>2. CASE phase'[x] # phase[x]
    <3>1. PICK p \in GoOn(c) : waiting[c][p].scene = x /\ waiting[c][p].n = 0
      BY <1>4, <2>2
    <3>2. PICK i \in 1 .. Len(up'[c]), q \in 1 .. n : By(i, q) /\ e[q] = p
      BY <1>9
    <3>3. Req(up'[c][i], x)
      <4>1. SentFor(c, waiting[c][p], up'[c][i], phase', tokens'[c])
        BY <1>8, <3>2
      <4> QED BY <3>1, <4>1 DEF SentFor
    <3> QED BY <1>3, <2>2, <3>3
  <2> QED BY <2>1, <2>2
<1>27. StillWait'
  <2> SUFFICES ASSUME NEW d \in Clients \ polling', NEW i \in 1 .. Len(waiting'[d]), NEW w, w = waiting'[d][i],
                      (IF w.n > 0 THEN phase'[w.scene] # "asked" ELSE phase'[under[w.scene]] # "asked")
               PROVE  phase'[w.scene] = "gone"
    BY <1>2 DEF StillWait, Resumes
  <2>1. PICK j \in 1 .. Len(waiting[d]) : w = waiting[d][j] /\ (d = c => j \notin Ready(c))
    BY <1>11
  <2>2. w.scene \in Scenes /\ w.n \in Nat /\ Waits(d, w)
    BY <2>1, WaitTypes, CoreParts DEF WaitersRight
  <2>3. CASE d = c
    <3>1. ~ Resumes(w)
      <4>1. waiting[c] \in Seq(Coroutine)
        BY DEF TypesOK
      <4> QED BY <2>1, <2>3, <4>1 DEF Ready
    <3>2. w.n > 0 => phase[w.scene] = "asked"
      BY <3>1 DEF Resumes
    <3>3. ~ w.n > 0 => phase[under[w.scene]] = "asked" /\ under[w.scene] \in Scenes
      BY <2>2, <3>1 DEF Resumes, Waits
    <3> QED BY <1>17, <2>2, <3>2, <3>3
  <2>4. CASE d # c
    <3>1. phase'[w.scene] = phase[w.scene]
      BY <1>3, <2>2, <2>4 DEF Waits
    <3>2. ~ w.n > 0 => phase'[under[w.scene]] = phase[under[w.scene]]
      BY <1>3, <2>2, <2>4 DEF Waits
    <3>3. Resumes(w)
      BY <3>1, <3>2 DEF Resumes
    <3> QED BY <1>2, <2>1, <2>4, <3>1, <3>3, CoreParts DEF StillWait
  <2> QED BY <2>3, <2>4
<1>28. NoneYet'
  BY <1>2, <1>3, CoreParts DEF NoneYet
<1> QED BY <1>20, <1>21, <1>22, <1>23, <1>24, <1>25, <1>26, <1>27, <1>28 DEF Core

(* Request. *)
LEMMA RequestDoes ==
  ASSUME TypesOK, Core, NEW c \in Clients, NEW s \in Scenes, NEW p \in Scenes \cup {Place}, SentRequest(c, s, p)
  PROVE  LET w == [scene |-> s, n |-> 0] m == Asks(Len(tokens[c]) + 1, s) IN
         /\ c \in Connected /\ c \notin polling /\ phase[s] = "new" /\ maker[s] = None /\ under[s] = None
         /\ p = Place => c \in place
         /\ p # Place => p \in Scenes /\ p # s /\ HasNode(c, p) /\ maker[p] # None
         /\ maker' = [maker EXCEPT ![s] = c] /\ under' = [under EXCEPT ![s] = p]
         /\ UNCHANGED <<status, hidden, nodes, unanswered, ident, polling, place, copies, down, made, heard>>
         /\ \A d \in Clients \ {c} : up'[d] = up[d] /\ waiting'[d] = waiting[d] /\ tokens'[d] = tokens[d]
         /\ \A x \in Scenes \ {s} : phase'[x] = phase[x]
         /\ \/ /\ p \in Scenes /\ maker[p] = c /\ phase[p] = "asked" /\ phase'[s] = "parent"
               /\ up'[c] = up[c] /\ tokens'[c] = tokens[c] /\ Grows1(waiting'[c], waiting[c], w)
            \/ /\ phase'[s] = "asked" /\ ~ (p # Place /\ maker[p] = c /\ phase[p] = "asked")
               /\ waiting'[c] = waiting[c] /\ Grows1(up'[c], up[c], m) /\ Grows1(tokens'[c], tokens[c], s)
<1> DEFINE w == [scene |-> s, n |-> 0]
           m == Asks(Len(tokens[c]) + 1, s)
<1>1. /\ c \in Connected /\ c \notin polling /\ phase[s] = "new"
      /\ p = Place => c \in place
      /\ p # Place => p \in Scenes /\ HasNode(c, p)
      /\ maker' = [maker EXCEPT ![s] = c] /\ under' = [under EXCEPT ![s] = p]
      /\ UNCHANGED <<status, hidden, nodes, unanswered, ident, polling, place, copies, down, made, heard>>
  BY DEF SentRequest, server
<1>2. /\ p # Place /\ maker[p] = c /\ phase[p] = "asked" =>
           /\ phase' = [phase EXCEPT ![s] = "parent"] /\ up' = up /\ tokens' = tokens
           /\ waiting' = [waiting EXCEPT ![c] = Append(@, w)]
      /\ ~ (p # Place /\ maker[p] = c /\ phase[p] = "asked") =>
           /\ phase' = [phase EXCEPT ![s] = "asked"] /\ up' = [up EXCEPT ![c] = Append(@, m)]
           /\ tokens' = [tokens EXCEPT ![c] = Append(@, s)] /\ waiting' = waiting
  BY DEF SentRequest, SentAsk
<1>3. maker[s] = None /\ under[s] = None
  BY <1>1, CoreParts DEF Tree
<1>4. p # Place => p # s /\ maker[p] # None
  <2> SUFFICES ASSUME p # Place PROVE maker[p] # None
    BY <1>3
  <2>1. CASE p \in copies[c]
    <3>1. NotOwn(c, p) /\ p \in Path(p)
      BY <1>1, <2>1, PathHas, CoreParts DEF CopiesOfOthers
    <3> QED BY <3>1 DEF NotOwn
  <2>2. CASE maker[p] = c
    BY <2>2, NotAClient
  <2> QED BY <1>1, <2>1, <2>2 DEF HasNode
<1>5. waiting[c] \in Seq(Coroutine) /\ up[c] \in Seq(UpMsg) /\ tokens[c] \in Seq(Scenes) /\ w \in Coroutine /\ m \in UpMsg
  <2>1. tokens[c] \in Seq(Scenes)
    BY DEF TypesOK
  <2>2. Len(tokens[c]) + 1 \in Nat
    BY <2>1
  <2> QED BY <2>1, <2>2, MadeMessages DEF TypesOK, Coroutine
<1> HIDE DEF w, m
<1>6. /\ Grows1(Append(waiting[c], w), waiting[c], w) /\ Grows1(Append(up[c], m), up[c], m)
      /\ Grows1(Append(tokens[c], s), tokens[c], s)
  BY <1>5, AppendSeq DEF Grows1
<1>7. \A x \in Scenes \ {s} : phase'[x] = phase[x]
  BY <1>2 DEF TypesOK
<1>8. \A d \in Clients \ {c} : up'[d] = up[d] /\ waiting'[d] = waiting[d] /\ tokens'[d] = tokens[d]
  BY <1>2 DEF TypesOK
<1>9. CASE p # Place /\ maker[p] = c /\ phase[p] = "asked"
  <2>1. phase'[s] = "parent"
    BY <1>2, <1>9 DEF TypesOK
  <2>2. Grows1(waiting'[c], waiting[c], w) /\ up' = up /\ tokens' = tokens
    <3>1. waiting'[c] = Append(waiting[c], w) /\ up' = up /\ tokens' = tokens
      BY <1>2, <1>9 DEF TypesOK
    <3> QED BY <1>6, <3>1
  <2> QED BY <1>1, <1>3, <1>4, <1>7, <1>8, <1>9, <2>1, <2>2 DEF w, m
<1>10. CASE ~ (p # Place /\ maker[p] = c /\ phase[p] = "asked")
  <2>1. phase'[s] = "asked"
    BY <1>2, <1>10 DEF TypesOK
  <2>2. waiting' = waiting /\ Grows1(up'[c], up[c], m) /\ Grows1(tokens'[c], tokens[c], s)
    <3>1. up'[c] = Append(up[c], m) /\ tokens'[c] = Append(tokens[c], s) /\ waiting' = waiting
      BY <1>2, <1>10 DEF TypesOK
    <3> QED BY <1>6, <3>1
  <2> QED BY <1>1, <1>3, <1>4, <1>7, <1>8, <1>10, <2>1, <2>2 DEF w, m
<1> QED BY <1>9, <1>10

\* A scene that nobody made is nowhere.
LEMMA NotMade ==
  ASSUME TypesOK, Core, NEW s \in Scenes, maker[s] = None
  PROVE  /\ s \notin nodes \cup unanswered
         /\ \A x \in Scenes : under[x] # s
         /\ \A d \in Clients : \A x : NotOwn(d, x) => s \notin Path(x)
         /\ \A d \in Clients : s \notin copies[d]
         /\ \A d \in Clients : \A i \in 1 .. Len(down[d]) : ~ Shows(down[d][i], s) /\ ~ Ids(down[d][i], s)
         /\ \A d \in Clients : \A i \in 1 .. Len(up[d]) :
              ~ Req(up[d][i], s) /\ (up[d][i].type = "call" => up[d][i].from # s)
         /\ \A d \in Clients : \A i \in 1 .. Len(waiting[d]) : waiting[d][i].scene # s
<1>1. s \notin nodes \cup unanswered
  BY CoreParts DEF Tree
<1>2. \A x \in Scenes : under[x] # s
  <2>1. \A x \in Scenes : under[x] = None \/ under[x] = Place \/ maker[under[x]] # None
    BY CoreParts DEF Tree
  <2> QED BY <2>1, NotAScene
<1>3. \A d \in Clients : \A x : NotOwn(d, x) => s \notin Path(x)
  BY DEF NotOwn
<1>4. \A d \in Clients : s \notin copies[d]
  BY <1>3, PathHas, CoreParts DEF CopiesOfOthers
<1>5. \A d \in Clients : maker[s] # d
  BY NotAClient
<1>6. \A d \in Clients : \A i \in 1 .. Len(down[d]) : ~ Shows(down[d][i], s) /\ ~ Ids(down[d][i], s)
  <2> TAKE d \in Clients
  <2> TAKE i \in 1 .. Len(down[d])
  <2>1. ~ Shows(down[d][i], s)
    <3>1. Fits(d, down[d][i], i - 1)
      BY CoreParts DEF ParentsFirst
    <3>2. s # Place
      BY NotAScene
    <3> QED BY <1>3, <3>1, <3>2, PathHas DEF Fits, Shows
  <2>2. ~ Ids(down[d][i], s)
    BY <1>5, CoreParts DEF IdsRight, Ids, Token
  <2> QED BY <2>1, <2>2
<1>7. \A d \in Clients : \A i \in 1 .. Len(up[d]) :
        ~ Req(up[d][i], s) /\ (up[d][i].type = "call" => up[d][i].from # s)
  BY <1>5, CoreParts DEF RequestsRight, Req, Token, CallsRight, SentCall
<1>8. \A d \in Clients : \A i \in 1 .. Len(waiting[d]) : waiting[d][i].scene # s
  BY <1>5, CoreParts DEF WaitersRight, Waits
<1> QED BY <1>1, <1>2, <1>3, <1>4, <1>6, <1>7, <1>8

\* A scene that nobody made yet is made by c in p.
Makes(c, s, p) ==
  /\ c \in Connected /\ maker[s] = None
  /\ p = Place => c \in place
  /\ p # Place => p \in Scenes /\ p # s /\ HasNode(c, p) /\ maker[p] # None
  /\ maker' = [maker EXCEPT ![s] = c] /\ under' = [under EXCEPT ![s] = p]
  /\ UNCHANGED <<status, hidden, nodes, unanswered, polling, place, copies, down, made>>
  /\ phase'[s] \in {"parent", "asked"} /\ \A x \in Scenes \ {s} : phase'[x] = phase[x]

LEMMA MakesTree ==
  ASSUME TypesOK, TypesOK', Core, NEW c \in Clients, NEW s \in Scenes, NEW p \in Scenes \cup {Place}, Makes(c, s, p)
  PROVE  /\ \A x \in Scenes \ {s} : Path(x)' = Path(x) /\ maker'[x] = maker[x] /\ under'[x] = under[x]
         /\ maker'[s] = c /\ under'[s] = p
         /\ \A d \in Clients : \A x \in Scenes \ {s} : NotOwn(d, x) => NotOwn(d, x)'
         /\ Tree' /\ OwnAtTheEnd' /\ CopiesOfOthers' /\ OwnHasParent'
<1>1. /\ maker'[s] = c /\ under'[s] = p
      /\ \A x \in Scenes \ {s} : maker'[x] = maker[x] /\ under'[x] = under[x]
  BY DEF Makes, TypesOK
<1>2. \A x \in Scenes : under[x] # s
  BY NotMade DEF Makes
<1>3. \A x \in Scenes \ {s} : Path(x)' = Path(x)
  <2> DEFINE M == Scenes \ {s}
  <2>1. M \in SUBSET Scenes /\ Closed(M) /\ \A y \in M : under'[y] = under[y]
    BY <1>1, <1>2 DEF Closed
  <2> QED BY <2>1, PathNew
<1>4. \A x \in Scenes \ {s} : s \notin Path(x)
  <2>1. Closed(Scenes \ {s})
    BY <1>2 DEF Closed
  <2> QED BY <2>1, PathIn
<1>5. ASSUME NEW d \in Clients, NEW x \in Scenes \ {s}, NotOwn(d, x) PROVE NotOwn(d, x)'
  BY <1>1, <1>3, <1>4, <1>5, PathScenes DEF NotOwn
<1>6. Tree'
  <2>1. s \notin nodes \cup unanswered
    BY NotMade DEF Makes
  <2>2. nodes \subseteq Scenes /\ unanswered \subseteq Scenes
    BY DEF TypesOK
  <2> QED BY <1>1, <2>1, <2>2, NotAClient, CoreParts DEF Tree, Makes
<1>7. OwnAtTheEnd'
  <2> SUFFICES ASSUME NEW x \in Scenes, maker'[x] # None, under'[x] \in Scenes, maker'[under'[x]] # maker'[x],
                      NEW u, u = under'[x], NEW y \in Path(u)'
               PROVE  maker'[y] # maker'[x]
    BY DEF OwnAtTheEnd, Path
  <2>1. u = under'[x]
    OBVIOUS
  <2>2. u # s /\ u \in Scenes
    BY <1>1, <1>2, <2>1 DEF Makes
  <2>3. y \in Path(u)
    BY <1>3, <2>2
  <2>4. y # s /\ y \in Scenes
    BY <1>4, <2>2, <2>3, PathScenes
  <2>5. CASE x = s
    <3>1. HasNode(c, u) /\ maker[u] # c
      BY <1>1, <2>1, <2>2, <2>5, NotAScene DEF Makes
    <3>2. NotOwn(c, u)
      BY <3>1, CoreParts DEF HasNode, CopiesOfOthers
    <3> QED BY <1>1, <2>3, <2>4, <2>5, <3>2 DEF NotOwn
  <2>6. CASE x # s
    BY <1>1, <2>1, <2>2, <2>3, <2>4, <2>6, CoreParts DEF OwnAtTheEnd
  <2> QED BY <2>5, <2>6
<1>8. CopiesOfOthers'
  <2> SUFFICES ASSUME NEW d \in Clients, NEW x \in copies[d] PROVE d \in place /\ NotOwn(d, x)'
    BY DEF CopiesOfOthers, Makes
  <2>1. x \in Scenes \ {s}
    BY NotMade DEF Makes, TypesOK
  <2> QED BY <1>5, <2>1, CoreParts DEF CopiesOfOthers
<1>9. OwnHasParent'
  <2> SUFFICES ASSUME NEW x \in Scenes, phase'[x] \in {"parent", "asked", "named"}
               PROVE  /\ maker'[x] \in place
                      /\ under'[x] \in Scenes /\ maker'[under'[x]] = maker'[x] => phase'[under'[x]] \in {"asked", "named"}
    BY DEF OwnHasParent, Live, Makes
  <2>1. CASE x # s
    <3>1. under[x] # s /\ phase[x] = phase'[x]
      BY <1>2, <2>1 DEF Makes
    <3> QED BY <1>1, <2>1, <3>1, CoreParts DEF OwnHasParent, Live, Makes
  <2>2. CASE x = s
    <3>1. c \in place
      BY CoreParts DEF Makes, HasNode, CopiesOfOthers, OwnHasParent, Live
    <3>2. ASSUME p \in Scenes, maker'[p] = c PROVE phase'[p] \in {"asked", "named"}
      <4>1. p # s /\ maker[p] = c /\ HasNode(c, p)
        BY <1>1, <3>2, NotAScene DEF Makes
      <4>2. p \notin copies[c]
        BY <4>1, <3>2, PathHas, CoreParts DEF CopiesOfOthers, NotOwn
      <4> QED BY <3>2, <4>1, <4>2 DEF HasNode, Makes
    <3> QED BY <1>1, <2>2, <3>1, <3>2
  <2> QED BY <2>1, <2>2
<1> QED BY <1>1, <1>3, <1>5, <1>6, <1>7, <1>8, <1>9

LEMMA MakesView ==
  ASSUME TypesOK, TypesOK', Core, NEW c \in Clients, NEW s \in Scenes, NEW p \in Scenes \cup {Place}, Makes(c, s, p)
  PROVE  View' /\ (\A x \in Places \ {s} : Up(x)' = Up(x))
<1>1. /\ \A x \in Scenes \ {s} : Path(x)' = Path(x) /\ maker'[x] = maker[x] /\ under'[x] = under[x]
      /\ maker'[s] = c /\ under'[s] = p
      /\ \A d \in Clients : \A x \in Scenes \ {s} : NotOwn(d, x) => NotOwn(d, x)'
      /\ Tree' /\ OwnAtTheEnd' /\ CopiesOfOthers' /\ OwnHasParent'
  BY MakesTree
<1>2. UNCHANGED <<status, hidden, nodes, unanswered, polling, place, copies, down>> /\ maker[s] = None
  BY DEF Makes
<1>3. \A x \in Places \ {s} : Up(x)' = Up(x)
  BY <1>1 DEF Up, Places
<1>4. \A d, k : \A x \in Places \ {s} : At(d, k, x)' <=> At(d, k, x)
  BY <1>2, <1>3 DEF At, Has
<1>5. ViewRight'
  <2> SUFFICES ASSUME NEW d \in Clients, NEW x \in Places PROVE At(d, Len(down[d]), x)' <=> x \in Sees(d)'
    BY <1>2 DEF ViewRight, At
  <2>1. CASE x # s
    <3>1. At(d, Len(down[d]), x)' <=> At(d, Len(down[d]), x)
      BY <1>2, <1>3, <2>1 DEF At, Has
    <3>2. x \in Sees(d)' <=> x \in Sees(d)
      <4>1. CASE x \in nodes
        <5>1. x \in Scenes /\ Path(x)' = Path(x) /\ Path(x) \subseteq nodes /\ s \notin nodes
          BY <1>1, <1>2, <2>1, <4>1, NodesAbove, NotMade, CoreParts DEF TypesOK
        <5>2. \A y \in Path(x) : maker'[y] = maker[y]
          BY <1>1, <5>1, PathScenes
        <5>3. x \in Others(d, nodes)' <=> x \in Others(d, nodes)
          BY <1>2, <5>1, <5>2 DEF Others
        <5> QED BY <1>2, <5>3 DEF Sees, Connected
      <4>2. CASE x \notin nodes
        BY <1>2, <4>2, OthersScenes DEF Sees, Connected, Others
      <4> QED BY <4>1, <4>2
    <3> QED BY <3>1, <3>2, CoreParts DEF ViewRight
  <2>2. CASE x = s
    <3>1. s \notin nodes /\ s # Place /\ s \notin copies[d] /\ \A i \in 1 .. Len(down[d]) : ~ Shows(down[d][i], s)
      BY <1>2, NotMade, NotAScene
    <3>2. s \notin Sees(d)'
      BY <1>2, <3>1 DEF Sees, Others
    <3>3. ~ Has(d, s)'
      BY <1>2, <3>1 DEF Has
    <3>4. ~ At(d, Len(down[d]), s)'
      <4>1. \A i \in 0 .. Len(down[d]) : i # 0 => i \in 1 .. Len(down[d])
        BY LenNat
      <4> QED BY <1>2, <3>1, <3>3, <4>1 DEF At, Held, Shows
    <3> QED BY <2>2, <3>2, <3>4
  <2> QED BY <2>1, <2>2
<1>6. ParentsFirst'
  <2> SUFFICES ASSUME NEW d \in Clients, NEW i \in 1 .. Len(down[d]), NEW m, m = down[d][i], NEW k, k = i - 1, m.type = "add"
               PROVE  /\ m.place \/ At(d, k, Place)'
                      /\ \A x \in m.scenes : NotOwn(d, x)' /\ (Shows(m, under'[x]) \/ At(d, k, under[x])')
    BY <1>2 DEF ParentsFirst, Fits, At, Shows
  <2>1. Fits(d, m, k)
    BY CoreParts DEF ParentsFirst
  <2>2. m \in DownMsg /\ m.scenes \in SUBSET Scenes /\ s \notin m.scenes
    <3>1. ~ Shows(m, s) /\ s # Place
      BY <1>2, NotMade, NotAScene
    <3> QED BY <3>1, DownTypes, DownKinds DEF Shows
  <2>3. m.place \/ At(d, k, Place)'
    <3>1. Place \in Places \ {s}
      BY NotAScene DEF Places
    <3>2. At(d, k, Place)' <=> At(d, k, Place)
      BY <1>4, <3>1
    <3> QED BY <2>1, <3>2 DEF Fits
  <2>4. ASSUME NEW x \in m.scenes PROVE NotOwn(d, x)' /\ (Shows(m, under'[x]) \/ At(d, k, under[x])')
    <3>1. NotOwn(d, x) /\ (Shows(m, under[x]) \/ At(d, k, under[x])) /\ x \in Scenes \ {s}
      BY <2>1, <2>2 DEF Fits
    <3>2. maker[x] # None
      BY <3>1, PathHas DEF NotOwn
    <3>3. PICK u : u = under[x] /\ u = under'[x]
      BY <1>1, <3>1
    <3>4. u \in Places \ {s}
      BY <1>2, <3>1, <3>2, <3>3, UnderPlaces, NotMade, CoreParts
    <3>5. At(d, k, u)' <=> At(d, k, u)
      BY <1>4, <3>4
    <3>6. At(d, k, under[x])' <=> At(d, k, u)'
      BY <3>3 DEF At
    <3> QED BY <1>1, <3>1, <3>3, <3>5, <3>6
  <2> QED BY <2>3, <2>4
<1> QED BY <1>1, <1>3, <1>5, <1>6 DEF View

LEMMA RequestKeeps ==
  ASSUME TypesOK, TypesOK', Core, NEW c \in Clients, NEW s \in Scenes, NEW p \in Scenes \cup {Place}, SentRequest(c, s, p)
  PROVE  Core'
<1> DEFINE w == [scene |-> s, n |-> 0]
           m == Asks(Len(tokens[c]) + 1, s)
<1>1. /\ c \in Connected /\ c \notin polling /\ phase[s] = "new" /\ maker[s] = None /\ under[s] = None
      /\ p = Place => c \in place
      /\ p # Place => p \in Scenes /\ p # s /\ HasNode(c, p) /\ maker[p] # None
      /\ maker' = [maker EXCEPT ![s] = c] /\ under' = [under EXCEPT ![s] = p]
      /\ UNCHANGED <<status, hidden, nodes, unanswered, ident, polling, place, copies, down, made, heard>>
      /\ \A d \in Clients \ {c} : up'[d] = up[d] /\ waiting'[d] = waiting[d] /\ tokens'[d] = tokens[d]
      /\ \A x \in Scenes \ {s} : phase'[x] = phase[x]
      /\ \/ /\ p \in Scenes /\ maker[p] = c /\ phase[p] = "asked" /\ phase'[s] = "parent"
            /\ up'[c] = up[c] /\ tokens'[c] = tokens[c] /\ Grows1(waiting'[c], waiting[c], w)
         \/ /\ phase'[s] = "asked" /\ ~ (p # Place /\ maker[p] = c /\ phase[p] = "asked")
            /\ waiting'[c] = waiting[c] /\ Grows1(up'[c], up[c], m) /\ Grows1(tokens'[c], tokens[c], s)
  BY RequestDoes
<1>0. w.scene = s /\ w.n = 0 /\ m.type = "request" /\ m.scene = s /\ m.token = Len(tokens[c]) + 1
  BY DEF Asks
<1> HIDE DEF w, m
<1>2. Makes(c, s, p)
  BY <1>1 DEF Makes
<1>3. /\ \A x \in Scenes \ {s} : maker'[x] = maker[x] /\ under'[x] = under[x]
      /\ maker'[s] = c /\ under'[s] = p /\ Tree' /\ OwnAtTheEnd'
  BY <1>2, MakesTree
<1>4. View' /\ (\A x \in Places \ {s} : Up(x)' = Up(x))
  BY <1>2, MakesView
<1>5. /\ s \notin nodes \cup unanswered
      /\ \A x \in Scenes : under[x] # s
      /\ \A d \in Clients : \A i \in 1 .. Len(down[d]) : ~ Ids(down[d][i], s)
      /\ \A d \in Clients : \A i \in 1 .. Len(up[d]) :
           ~ Req(up[d][i], s) /\ (up[d][i].type = "call" => up[d][i].from # s)
      /\ \A d \in Clients : \A i \in 1 .. Len(waiting[d]) : waiting[d][i].scene # s
  BY <1>1, NotMade
<1>6. \A d \in Clients :
        /\ \A i \in 1 .. Len(up[d]) : i \in 1 .. Len(up'[d]) /\ up'[d][i] = up[d][i]
        /\ \A i \in 1 .. Len(up'[d]) : \/ i \in 1 .. Len(up[d]) /\ up'[d][i] = up[d][i]
                                       \/ d = c /\ i = Len(up[c]) + 1 /\ up'[d][i] = m /\ phase'[s] = "asked"
                                          /\ Len(tokens[c]) + 1 \in 1 .. Len(tokens'[c]) /\ tokens'[c][Len(tokens[c]) + 1] = s
  <2>1. Len(tokens[c]) \in Nat
    BY DEF TypesOK
  <2>2. phase'[s] = "asked" => Len(tokens[c]) + 1 \in 1 .. Len(tokens'[c]) /\ tokens'[c][Len(tokens[c]) + 1] = s
    BY <1>1, <2>1 DEF Grows1
  <2>3. CASE up'[c] = up[c]
    BY <1>1, <2>3
  <2>4. CASE phase'[s] = "asked" /\ Grows1(up'[c], up[c], m)
    <3>1. Len(up[c]) \in Nat
      BY LenNat
    <3>2. /\ \A i \in 1 .. Len(up[c]) : i \in 1 .. Len(up'[c]) /\ up'[c][i] = up[c][i]
          /\ \A i \in 1 .. Len(up'[c]) : (i \in 1 .. Len(up[c]) /\ up'[c][i] = up[c][i]) \/ (i = Len(up[c]) + 1 /\ up'[c][i] = m)
      BY <2>4, <3>1, GrownBy
    <3>3. \A d \in Clients \ {c} : up'[d] = up[d]
      BY <1>1
    <3> QED BY <2>2, <2>4, <3>2, <3>3
  <2> QED BY <1>1, <2>3, <2>4
<1>7. phase'[s] = "asked" => \E i \in 1 .. Len(up'[c]) : up'[c][i] = m
  <2>1. Len(up[c]) \in Nat
    BY LenNat
  <2> QED BY <1>1, <2>1 DEF Grows1
<1>8. \A d \in Clients :
        /\ \A i \in 1 .. Len(waiting[d]) : i \in 1 .. Len(waiting'[d]) /\ waiting'[d][i] = waiting[d][i]
        /\ \A i \in 1 .. Len(waiting'[d]) :
             \/ i \in 1 .. Len(waiting[d]) /\ waiting'[d][i] = waiting[d][i]
             \/ d = c /\ i = Len(waiting[c]) + 1 /\ waiting'[d][i] = w /\ phase'[s] = "parent"
                /\ p \in Scenes /\ p # s /\ maker[p] = c /\ phase[p] = "asked"
  BY <1>1, NotAScene, GrownBy, LenNat
<1>9. phase'[s] = "parent" => /\ p \in Scenes /\ p # s /\ maker[p] = c
                              /\ \E i \in 1 .. Len(waiting'[c]) : waiting'[c][i] = w
  <2>1. Len(waiting[c]) \in Nat
    BY LenNat
  <2> QED BY <1>1, <2>1, NotAScene DEF Grows1
<1>10. \A d \in Clients : \A i \in 1 .. Len(tokens[d]) : i \in 1 .. Len(tokens'[d]) /\ tokens'[d][i] = tokens[d][i]
  <2>1. Len(tokens[c]) \in Nat
    BY DEF TypesOK
  <2> QED BY <1>1, <2>1, GrownBy
<1>11. \A d \in Clients : \A i \in 1 .. Len(waiting[d]) : waiting[d][i].scene \in Scenes /\ waiting[d][i].n \in Nat
  BY WaitTypes
<1>12. \A d \in Clients : \A i \in 1 .. Len(up[d]) :
         /\ up[d][i].type = "request" => up[d][i].scene \in Scenes
         /\ up[d][i].type = "call" => up[d][i].from \in Scenes
  BY UpTypes, UpKinds
<1>13. \A d \in Clients : \A i \in 1 .. Len(down[d]) : down[d][i].type = "ids" => down[d][i].scene \in Scenes
  BY DownTypes, DownKinds
<1>14. \A x \in Scenes : maker[x] \in Clients => x # s
  BY <1>1, NotAClient
<1>15. phase'[s] \in {"parent", "asked"}
  BY <1>1
<1>20. Structure'
  <2>1. NothingLeft'
    <3> SUFFICES ASSUME NEW d \in Clients, d \notin Connected'
                 PROVE  /\ down'[d] = <<>> /\ up'[d] = <<>> /\ waiting'[d] = <<>> /\ d \notin polling' /\ d \notin hidden'
                        /\ \A x \in Scenes : maker'[x] = d => phase'[x] = "gone"
      BY DEF NothingLeft
    <3>1. d # c /\ d \notin Connected
      BY <1>1 DEF Connected
    <3>2. down'[d] = down[d] /\ waiting'[d] = waiting[d] /\ up'[d] = up[d]
      BY <1>1, <3>1
    <3>3. \A x \in Scenes : maker'[x] = d => maker[x] = d /\ phase'[x] = phase[x]
      BY <1>1, <1>3, <3>1
    <3> QED BY <1>1, <3>1, <3>2, <3>3, CoreParts DEF NothingLeft
  <2> QED BY <1>3, <2>1 DEF Structure
<1>22. Waiting'
  <2>1. ParentWaits'
    <3> SUFFICES ASSUME NEW x \in Scenes, phase'[x] = "parent"
                 PROVE  /\ under'[x] \in Scenes /\ maker'[under'[x]] = maker'[x]
                        /\ \E i \in 1 .. Len(waiting'[maker'[x]]) :
                             waiting'[maker'[x]][i].scene = x /\ waiting'[maker'[x]][i].n = 0
      BY DEF ParentWaits
    <3>1. CASE x = s
      BY <1>0, <1>3, <1>9, <3>1
    <3>2. CASE x # s
      <4>1. phase[x] = "parent" /\ maker'[x] = maker[x] /\ under'[x] = under[x] /\ under[x] # s
        BY <1>1, <1>3, <1>5, <3>2
      <4>2. maker[x] \in Clients
        BY <4>1, CoreParts DEF Tree, TypesOK
      <4>3. under[x] \in Scenes /\ maker'[under[x]] = maker[x]
        BY <1>3, <4>1, CoreParts DEF ParentWaits
      <4>4. PICK i \in 1 .. Len(waiting[maker[x]]) : waiting[maker[x]][i].scene = x /\ waiting[maker[x]][i].n = 0
        BY <4>1, CoreParts DEF ParentWaits
      <4>5. i \in 1 .. Len(waiting'[maker[x]]) /\ waiting'[maker[x]][i] = waiting[maker[x]][i]
        BY <1>8, <4>2
      <4> QED BY <4>1, <4>3, <4>4, <4>5
    <3> QED BY <3>1, <3>2
  <2>2. WaitersRight'
    <3> SUFFICES ASSUME NEW d \in Clients, NEW i \in 1 .. Len(waiting'[d]), NEW v, v = waiting'[d][i]
                 PROVE  /\ maker'[v.scene] = d /\ v.n <= made[v.scene]
                        /\ v.n = 0 => under'[v.scene] \in Scenes /\ maker'[under'[v.scene]] = d /\ phase'[v.scene] \in {"parent", "gone"}
                        /\ v.n # 0 => phase'[v.scene] \in {"asked", "named", "gone"}
      BY <1>1 DEF WaitersRight, Waits
    <3>1. CASE i \in 1 .. Len(waiting[d]) /\ v = waiting[d][i]
      <4>1. Waits(d, v) /\ v.scene \in Scenes \ {s} /\ v.n \in Nat
        BY <1>5, <1>11, <3>1, CoreParts DEF WaitersRight
      <4>2. maker'[v.scene] = maker[v.scene] /\ under'[v.scene] = under[v.scene] /\ phase'[v.scene] = phase[v.scene]
            /\ under[v.scene] # s
        BY <1>1, <1>3, <1>5, <4>1
      <4> QED BY <1>3, <4>1, <4>2 DEF Waits
    <3>2. CASE d = c /\ v = w /\ phase'[s] = "parent"
      <4>1. made[s] \in Nat
        BY DEF TypesOK
      <4> QED BY <1>0, <1>3, <1>9, <3>2, <4>1
    <3> QED BY <1>8, <3>1, <3>2
  <2>3. WaitersDiffer'
    <3> SUFFICES ASSUME NEW d \in Clients, NEW i \in 1 .. Len(waiting'[d]), NEW j \in 1 .. Len(waiting'[d]), i # j
                 PROVE  waiting'[d][i] # waiting'[d][j]
      BY DEF WaitersDiffer
    <3>1. CASE i \in 1 .. Len(waiting[d]) /\ waiting'[d][i] = waiting[d][i] /\ j \in 1 .. Len(waiting[d]) /\ waiting'[d][j] = waiting[d][j]
      BY <3>1, CoreParts DEF WaitersDiffer
    <3>2. CASE waiting'[d][i] = w /\ j \in 1 .. Len(waiting[d]) /\ waiting'[d][j] = waiting[d][j]
      BY <1>0, <1>5, <3>2
    <3>3. CASE waiting'[d][j] = w /\ i \in 1 .. Len(waiting[d]) /\ waiting'[d][i] = waiting[d][i]
      BY <1>0, <1>5, <3>3
    <3> QED BY <1>8, <3>1, <3>2, <3>3
  <2> QED BY <2>1, <2>2, <2>3 DEF Waiting
<1>23. Asking'
  <2>1. ASSUME NEW d \in Clients, NEW t, t \in 1 .. Len(tokens[d])
        PROVE  t \in 1 .. Len(tokens'[d]) /\ tokens'[d][t] = tokens[d][t]
    BY <1>10, <2>1
  <2>2. RequestsRight'
    <3> SUFFICES ASSUME NEW d \in Clients, NEW i \in 1 .. Len(up'[d]), up'[d][i].type = "request", NEW v, v = up'[d][i]
                 PROVE  /\ v.token \in 1 .. Len(tokens'[d]) /\ tokens'[d][v.token] = v.scene /\ maker'[v.scene] = d
                        /\ v.scene \notin nodes \cup unanswered /\ phase'[v.scene] \in {"asked", "gone"}
      BY <1>1 DEF RequestsRight, Token
    <3>1. CASE i \in 1 .. Len(up[d]) /\ v = up[d][i]
      <4>1. Token(d, v) /\ v.scene \notin nodes \cup unanswered /\ phase[v.scene] \in {"asked", "gone"}
        BY <3>1, CoreParts DEF RequestsRight
      <4>2. v.scene \in Scenes \ {s}
        BY <1>1, <1>12, <3>1, <4>1
      <4> QED BY <1>1, <1>3, <2>1, <4>1, <4>2 DEF Token
    <3>2. CASE d = c /\ v = m /\ phase'[s] = "asked"
               /\ Len(tokens[c]) + 1 \in 1 .. Len(tokens'[c]) /\ tokens'[c][Len(tokens[c]) + 1] = s
      BY <1>0, <1>3, <1>5, <3>2
    <3> QED BY <1>6, <3>1, <3>2
  <2>3. OneRequest'
    <3> SUFFICES ASSUME NEW d \in Clients, NEW i \in 1 .. Len(up'[d]), NEW j \in 1 .. Len(up'[d]), i # j,
                        up'[d][i].type = "request"
                 PROVE  ~ Req(up'[d][j], up'[d][i].scene)
      BY DEF OneRequest, Req
    <3>1. CASE i \in 1 .. Len(up[d]) /\ up'[d][i] = up[d][i] /\ j \in 1 .. Len(up[d]) /\ up'[d][j] = up[d][j]
      BY <3>1, CoreParts DEF OneRequest
    <3>2. CASE up'[d][i] = m /\ j \in 1 .. Len(up[d]) /\ up'[d][j] = up[d][j]
      BY <1>0, <1>5, <3>2
    <3>3. CASE up'[d][j] = m /\ i \in 1 .. Len(up[d]) /\ up'[d][i] = up[d][i]
      BY <1>0, <1>5, <3>3 DEF Req
    <3> QED BY <1>6, <3>1, <3>2, <3>3
  <2>4. RequestOrCall'
    <3> SUFFICES ASSUME NEW d \in Clients, NEW i \in 1 .. Len(up'[d]), NEW j \in 1 .. Len(up'[d]),
                        up'[d][i].type = "request", up'[d][j].type = "call"
                 PROVE  up'[d][j].from # up'[d][i].scene
      BY DEF RequestOrCall
    <3>1. j \in 1 .. Len(up[d]) /\ up'[d][j] = up[d][j]
      BY <1>0, <1>6
    <3>2. CASE up'[d][i] = m
      BY <1>0, <1>5, <3>1, <3>2
    <3>3. CASE i \in 1 .. Len(up[d]) /\ up'[d][i] = up[d][i]
      BY <3>1, <3>3, CoreParts DEF RequestOrCall
    <3> QED BY <1>6, <3>2, <3>3
  <2>5. RequestOrIds'
    <3> SUFFICES ASSUME NEW d \in Clients, NEW i \in 1 .. Len(up'[d]), NEW j \in 1 .. Len(down[d]), up'[d][i].type = "request"
                 PROVE  ~ Ids(down[d][j], up'[d][i].scene)
      BY <1>1 DEF RequestOrIds, Ids
    <3>1. CASE up'[d][i] = m
      BY <1>0, <1>5, <3>1
    <3>2. CASE i \in 1 .. Len(up[d]) /\ up'[d][i] = up[d][i]
      BY <3>2, CoreParts DEF RequestOrIds
    <3> QED BY <1>6, <3>1, <3>2
  <2>6. IdsRight'
    <3> SUFFICES ASSUME NEW d \in Clients, NEW i \in 1 .. Len(down[d]), NEW v, v = down[d][i], v.type = "ids"
                 PROVE  /\ v.token \in 1 .. Len(tokens'[d]) /\ tokens'[d][v.token] = v.scene /\ maker'[v.scene] = d
                        /\ v.scene \notin unanswered /\ phase'[v.scene] \in {"asked", "gone"}
      BY <1>1 DEF IdsRight, Token
    <3>1. Token(d, v) /\ v.scene \notin unanswered /\ phase[v.scene] \in {"asked", "gone"} /\ v.scene \in Scenes \ {s}
      BY <1>1, <1>13, CoreParts DEF IdsRight
    <3> QED BY <1>1, <1>3, <2>1, <3>1 DEF Token
  <2>7. OneAnswer'
    BY <1>1, CoreParts DEF OneAnswer, Ids
  <2>8. UnansweredAsked'
    <3>1. unanswered \subseteq Scenes
      BY DEF TypesOK
    <3> QED BY <1>1, <1>5, <3>1, CoreParts DEF UnansweredAsked
  <2> QED BY <2>2, <2>3, <2>4, <2>5, <2>6, <2>7, <2>8 DEF Asking
<1>24. Calling'
  <2>1. \A d \in Clients : \A i \in 1 .. Len(up'[d]) : up'[d][i].type = "call" =>
          i \in 1 .. Len(up[d]) /\ up'[d][i] = up[d][i] /\ up[d][i].from \in Scenes \ {s}
    BY <1>0, <1>5, <1>6, <1>12
  <2>2. CallsRight'
    <3> SUFFICES ASSUME NEW d \in Clients, NEW i \in 1 .. Len(up'[d]), up'[d][i].type = "call", NEW v, v = up'[d][i]
                 PROVE  /\ maker'[v.from] = d /\ v.scene = v.from /\ phase'[v.from] \in {"named", "gone"}
                        /\ v.n # 0 /\ v.n <= made[v.from]
      BY <1>1 DEF CallsRight, SentCall
    <3>1. SentCall(d, v) /\ v.from \in Scenes \ {s}
      BY <2>1, CoreParts DEF CallsRight
    <3> QED BY <1>1, <1>3, <3>1 DEF SentCall
  <2>3. CallsDiffer'
    <3> SUFFICES ASSUME NEW d \in Clients, NEW i \in 1 .. Len(up'[d]), NEW j \in 1 .. Len(up'[d]), i # j,
                        up'[d][i].type = "call", up'[d][j].type = "call"
                 PROVE  ~ IsCall(up'[d][j], up'[d][i].from, up'[d][i].n)
      BY DEF CallsDiffer, IsCall
    <3> QED BY <2>1, CoreParts DEF CallsDiffer
  <2>4. SentOrWaits'
    <3> SUFFICES ASSUME NEW d \in Clients, NEW i \in 1 .. Len(up'[d]), NEW j \in 1 .. Len(waiting'[d]), up'[d][i].type = "call"
                 PROVE  waiting'[d][j].scene # up'[d][i].from \/ waiting'[d][j].n # up'[d][i].n
      BY DEF SentOrWaits
    <3>1. i \in 1 .. Len(up[d]) /\ up'[d][i] = up[d][i] /\ up[d][i].from \in Scenes \ {s}
      BY <2>1
    <3>2. CASE j \in 1 .. Len(waiting[d]) /\ waiting'[d][j] = waiting[d][j]
      BY <3>1, <3>2, CoreParts DEF SentOrWaits
    <3>3. CASE waiting'[d][j] = w
      BY <1>0, <3>1, <3>3
    <3> QED BY <1>8, <3>2, <3>3
  <2> QED BY <2>2, <2>3, <2>4 DEF Calling
<1>25. Naming'
  <2>1. NamedRight'
    BY <1>1, <1>15, CoreParts DEF NamedRight
  <2>2. ASSUME NEW x \in Scenes, maker[x] \in Clients
        PROVE  (Knows(x)' <=> Knows(x)) /\ (Leaving(x) => Leaving(x)')
    <3>1. x \in Scenes \ {s} /\ maker'[x] = maker[x] /\ phase'[x] = phase[x] /\ down' = down
      BY <1>1, <1>3, <1>14, <2>2
    <3>2. Knows(x)' <=> Knows(x)
      BY <3>1 DEF Knows, HasIds
    <3>3. Up(x)' = Up(x)
      BY <1>4, <3>1 DEF Places
    <3> QED BY <3>1, <3>2, <3>3 DEF Leaving
  <2>3. \A x \in Scenes : x = s \/ maker[x] \in Clients \/ phase[x] = "new"
    BY CoreParts DEF Tree, TypesOK
  <2>4. NodesKnown'
    <3> SUFFICES ASSUME NEW x \in nodes PROVE phase'[x] = "gone" \/ Knows(x)'
      BY <1>1 DEF NodesKnown
    <3>1. x \in Scenes \ {s} /\ maker[x] \in Clients
      BY <1>5, CoreParts DEF TypesOK, Tree
    <3> QED BY <1>1, <2>2, <3>1, CoreParts DEF NodesKnown
  <2>5. KnownStay'
    <3> SUFFICES ASSUME NEW x \in Scenes, Knows(x)' PROVE x \in nodes \/ Leaving(x)'
      BY <1>1 DEF KnownStay
    <3>1. CASE x = s
      <4>1. PICK i \in 1 .. Len(down[c]) : Ids(down[c][i], s)
        BY <1>1, <1>3, <1>15, <3>1 DEF Knows, HasIds, Ids
      <4> QED BY <1>5, <4>1
    <3>2. CASE x # s
      <4>1. phase[x] # "new"
        BY <1>1, <3>2 DEF Knows
      <4> QED BY <2>2, <2>3, <3>2, <4>1, CoreParts DEF KnownStay
    <3> QED BY <3>1, <3>2
  <2> QED BY <2>1, <2>4, <2>5 DEF Naming
<1>26. AskedFor'
  <2> SUFFICES ASSUME NEW x \in Scenes, phase'[x] = "asked"
               PROVE  \/ x \in unanswered
                      \/ \E i \in 1 .. Len(up'[maker'[x]]) : Req(up'[maker'[x]][i], x)
                      \/ HasIds(maker[x], Len(down[maker[x]]), x)'
    BY <1>1 DEF AskedFor, HasIds
  <2>1. CASE x = s
    BY <1>0, <1>3, <1>7, <2>1 DEF Req
  <2>2. CASE x # s
    <3>1. phase[x] = "asked" /\ maker'[x] = maker[x] /\ down' = down
      BY <1>1, <1>3, <2>2
    <3>2. maker[x] \in Clients
      BY <3>1, CoreParts DEF Tree, TypesOK
    <3>3. \/ x \in unanswered
          \/ \E i \in 1 .. Len(up[maker[x]]) : Req(up[maker[x]][i], x)
          \/ HasIds(maker[x], Len(down[maker[x]]), x)
      BY <3>1, CoreParts DEF AskedFor
    <3> QED BY <1>6, <3>1, <3>2, <3>3 DEF HasIds
  <2> QED BY <2>1, <2>2
<1>27. StillWait'
  <2> SUFFICES ASSUME NEW d \in Clients \ polling, NEW i \in 1 .. Len(waiting'[d]), NEW v, v = waiting'[d][i],
                      (IF v.n > 0 THEN phase'[v.scene] # "asked" ELSE phase'[under'[v.scene]] # "asked")
               PROVE  phase'[v.scene] = "gone"
    BY <1>1 DEF StillWait, Resumes
  <2>1. CASE i \in 1 .. Len(waiting[d]) /\ v = waiting[d][i]
    <3>1. v.scene \in Scenes \ {s} /\ v.n \in Nat /\ Waits(d, v)
      BY <1>5, <1>11, <2>1, CoreParts DEF WaitersRight
    <3>2. phase'[v.scene] = phase[v.scene] /\ under'[v.scene] = under[v.scene] /\ under[v.scene] # s
      BY <1>1, <1>3, <1>5, <3>1
    <3>3. ~ v.n > 0 => phase'[under[v.scene]] = phase[under[v.scene]]
      BY <1>1, <3>1, <3>2 DEF Waits
    <3>4. Resumes(v)
      BY <3>2, <3>3 DEF Resumes
    <3> QED BY <2>1, <3>2, <3>4, CoreParts DEF StillWait
  <2>2. CASE v = w /\ phase'[s] = "parent" /\ p \in Scenes /\ p # s /\ phase[p] = "asked"
    BY <1>0, <1>1, <1>3, <2>2
  <2> QED BY <1>8, <2>1, <2>2
<1>28. NoneYet'
  BY <1>1, CoreParts DEF NoneYet
<1> QED BY <1>4, <1>20, <1>22, <1>23, <1>24, <1>25, <1>26, <1>27, <1>28 DEF Core

LEMMA StutterKeeps ==
  ASSUME TypesOK, Core, UNCHANGED vars
  PROVE  Core'
<1>1. /\ UNCHANGED <<status, hidden, nodes, unanswered, maker, under, phase, ident, tokens, waiting, polling, place, copies>>
      /\ UNCHANGED <<up, down, made, heard>>
  BY DEF vars, server, client
<1>2. Structure'
  <2>1. Tree' /\ NothingLeft'
    BY <1>1, CoreParts DEF Tree, NothingLeft, Connected
  <2> QED BY <1>1, <2>1, CoreParts, SameTree DEF Structure
<1>3. View'
  <2>1. OwnHasParent'
    BY <1>1, CoreParts DEF OwnHasParent, Live
  <2> QED BY <1>1, <2>1, ViewFrame DEF View
<1>4. Waiting' /\ Calling'
  BY <1>1, CoreParts DEF Waiting, ParentWaits, WaitersRight, WaitersDiffer, Waits,
                         Calling, CallsRight, CallsDiffer, SentOrWaits, SentCall, IsCall
<1>5. Asking'
  <2>1. RequestsRight' /\ OneRequest' /\ RequestOrCall'
    BY <1>1, CoreParts DEF RequestsRight, OneRequest, RequestOrCall, Token, Req
  <2>2. RequestOrIds' /\ OneAnswer'
    BY <1>1, CoreParts DEF RequestOrIds, OneAnswer, Ids
  <2>3. IdsRight' /\ UnansweredAsked'
    BY <1>1, CoreParts DEF IdsRight, UnansweredAsked, Token
  <2> QED BY <2>1, <2>2, <2>3 DEF Asking
<1>6. Naming'
  <2>1. NamedRight' /\ NodesKnown'
    BY <1>1, CoreParts DEF NamedRight, NodesKnown, Knows, HasIds
  <2>2. \A x \in Scenes : (Knows(x)' <=> Knows(x)) /\ (Leaving(x) => Leaving(x)')
    BY <1>1, UpSame DEF Leaving, Knows, HasIds
  <2>3. KnownStay'
    BY <1>1, <2>2, CoreParts DEF KnownStay
  <2> QED BY <2>1, <2>3 DEF Naming
<1>7. AskedFor' /\ StillWait' /\ NoneYet'
  BY <1>1, CoreParts DEF AskedFor, StillWait, NoneYet, Resumes, HasIds, Req
<1> QED BY <1>2, <1>3, <1>4, <1>5, <1>6, <1>7 DEF Core

LEMMA InitCore == Init => Core
<1> SUFFICES ASSUME Init PROVE Core
  OBVIOUS
<1>1. /\ status \in [Clients -> {"out", "in"}] /\ hidden = {} /\ nodes = {} /\ unanswered = {}
      /\ \A s \in Scenes : /\ maker[s] = None /\ under[s] = None /\ phase[s] = "new"
                           /\ made[s] = 0 /\ heard[s] = <<>>
      /\ \A c \in Clients : /\ waiting[c] = <<>> /\ copies[c] = {} /\ up[c] = <<>> /\ down[c] = <<>>
                            /\ Len(waiting[c]) = 0 /\ Len(up[c]) = 0 /\ Len(down[c]) = 0
      /\ polling = {} /\ place = Connected
  <2>1. Len(<<>>) = 0
    OBVIOUS
  <2> QED BY <2>1 DEF Init
<1>2. Structure
  BY <1>1, NotAClient DEF Structure, Tree, OwnAtTheEnd, NothingLeft
<1>3. View
  <2>1. ViewRight
    <3> SUFFICES ASSUME NEW c \in Clients, NEW x \in Places PROVE Has(c, x) <=> x \in Sees(c)
      BY <1>1, AtNone DEF ViewRight
    <3> QED BY <1>1, NotAScene DEF Has, Sees, Others, Places
  <2>2. ParentsFirst /\ CopiesOfOthers
    BY <1>1 DEF ParentsFirst, CopiesOfOthers
  <2>3. OwnHasParent
    BY <1>1 DEF OwnHasParent, Live
  <2> QED BY <2>1, <2>2, <2>3 DEF View
<1>4. Waiting
  BY <1>1 DEF Waiting, ParentWaits, WaitersRight, WaitersDiffer
<1>5. Asking
  BY <1>1 DEF Asking, RequestsRight, OneRequest, RequestOrCall, RequestOrIds, IdsRight, OneAnswer, UnansweredAsked
<1>6. Calling
  BY <1>1 DEF Calling, CallsRight, CallsDiffer, SentOrWaits
<1>7. Naming
  BY <1>1 DEF Naming, NamedRight, NodesKnown, KnownStay, Knows
<1>8. AskedFor /\ StillWait /\ NoneYet
  BY <1>1 DEF AskedFor, StillWait, NoneYet
<1> QED BY <1>2, <1>3, <1>4, <1>5, <1>6, <1>7, <1>8 DEF Core

LEMMA NextCore ==
  ASSUME TypesOK, TypesOK', Core, [SentNext]_vars
  PROVE  Core'
<1>1. ASSUME NEW c \in Clients, NEW s \in Scenes, NEW p \in Scenes \cup {Place}, SentRequest(c, s, p) PROVE Core'
  BY <1>1, RequestKeeps
<1>2. ASSUME NEW c \in Clients, NEW s \in Scenes, Call(c, s) \/ FreeOwn(c, s) PROVE Core'
  BY <1>2, CallKeeps, FreeOwnKeeps
<1>3. ASSUME NEW c \in Clients, HearAdd(c) \/ HearRemove(c) \/ HearIds(c) \/ HearCall(c) PROVE Core'
  BY <1>3, HearAddHeard, HearRemoveHeard, HearIdsHeard, HearCallHeard, HeardKeeps
<1>4. ASSUME NEW c \in Clients, SentResume(c) PROVE Core'
  BY <1>4, ResumeKeeps
<1>5. ASSUME NEW c \in Clients, Accept(c) \/ Ignore(c) \/ Run(c) PROVE Core'
  BY <1>5, AcceptKeeps, IgnoreKeeps, RunKeeps
<1>6. ASSUME NEW c \in Clients, Hide(c) \/ Show(c) \/ Connect(c) \/ Disconnect(c) PROVE Core'
  BY <1>6, HideKeeps, ShowKeeps, ConnectKeeps, DisconnectKeeps
<1>7. ASSUME NEW s \in Scenes, CallAll(s) \/ Free(s) PROVE Core'
  BY <1>7, CallAllKeeps, FreeKeeps
<1>8. CASE UNCHANGED vars
  BY <1>8, StutterKeeps
<1> QED BY <1>1, <1>2, <1>3, <1>4, <1>5, <1>6, <1>7, <1>8 DEF SentNext

--------------------------------------------------------------------------------
(* Clients that may not ask: their nodes wait, and nothing is sent.              *)
Empty(m) == (m.type = "add" /\ m.scenes = {}) \/ (m.type = "remove" /\ m.scene = Place)
WaitsFor(ph, w) ==
  \/ ph[w.scene] = "gone"
  \/ w.n > 0 /\ ph[w.scene] = "asked"
  \/ w.n = 0 /\ ph[w.scene] = "parent"

Idle ==
  /\ nodes = {}
  /\ \A c \in Clients : up[c] = <<>> /\ copies[c] = {}
  /\ \A c \in Clients : \A i \in 1 .. Len(down[c]) : Empty(down[c][i])
  /\ \A s \in Scenes : /\ heard[s] = <<>> /\ phase[s] # "named"
                       /\ phase[s] = "asked" => s \in unanswered
  /\ \A s \in Scenes : phase[s] = "parent" =>
       under[s] \in Scenes /\ maker[under[s]] = maker[s] /\ phase[under[s]] = "asked"
  /\ \A c \in Clients : \A i \in 1 .. Len(waiting[c]) : WaitsFor(phase, waiting[c][i])

LEMMA IdleInit == Init => Idle
<1> SUFFICES ASSUME Init PROVE Idle
  OBVIOUS
<1>1. \A c \in Clients : Len(down[c]) = 0 /\ Len(waiting[c]) = 0
  <2>1. Len(<<>>) = 0
    OBVIOUS
  <2> QED BY <2>1 DEF Init
<1> QED BY <1>1 DEF Init, Idle

\* What frees nodes, or only sends the Place, keeps it.
LEMMA IdleKept ==
  ASSUME TypesOK, TypesOK', Idle, UNCHANGED <<nodes, unanswered, maker, under, heard>>,
         \A c \in Clients : up'[c] = <<>> /\ copies'[c] = {},
         \A c \in Clients : \A i \in 1 .. Len(down'[c]) : Empty(down'[c][i]),
         \A s \in Scenes : phase'[s] \in {phase[s], "gone"},
         \A s \in Scenes : phase'[s] = "parent" => phase'[under[s]] = phase[under[s]],
         \A c \in Clients : \A i \in 1 .. Len(waiting'[c]) : WaitsFor(phase, waiting'[c][i])
  PROVE  Idle'
<1>1. ASSUME NEW c \in Clients, NEW i \in 1 .. Len(waiting'[c]) PROVE WaitsFor(phase', waiting'[c][i])
  <2>1. waiting'[c] \in Seq(Coroutine)
    BY DEF TypesOK
  <2>2. waiting'[c][i] \in Coroutine
    BY <2>1
  <2>3. waiting'[c][i].scene \in Scenes
    BY <2>2 DEF Coroutine
  <2>4. WaitsFor(phase, waiting'[c][i])
    OBVIOUS
  <2> QED BY <2>3, <2>4 DEF WaitsFor
<1>2. ASSUME NEW s \in Scenes
      PROVE  /\ heard'[s] = <<>> /\ phase'[s] # "named"
             /\ phase'[s] = "asked" => s \in unanswered'
             /\ phase'[s] = "parent" =>
                  under'[s] \in Scenes /\ maker'[under'[s]] = maker'[s] /\ phase'[under'[s]] = "asked"
  BY DEF Idle
<1>3. nodes' = {}
  BY DEF Idle
<1>4. \A c \in Clients : \A i \in 1 .. Len(down'[c]) : Empty(down'[c][i])
  OBVIOUS
<1> QED BY <1>1, <1>2, <1>3, <1>4 DEF Idle

LEMMA IdleRequest ==
  ASSUME TypesOK, Idle, ~ mayAsk, NEW c \in Clients, NEW s \in Scenes, NEW p \in Scenes \cup {Place}, Request(c, s, p)
  PROVE  TypesOK' /\ Idle'
<1>1. /\ c \in Connected \ polling /\ phase[s] = "new"
      /\ maker' = [maker EXCEPT ![s] = c] /\ under' = [under EXCEPT ![s] = p]
      /\ UNCHANGED <<status, hidden, nodes, ident, polling, place, copies, down, made, heard, up>>
  <2>1. up' = up
    BY DEF Request, Ask
  <2> QED BY <2>1 DEF Request
<1>2. s \in Scenes /\ \A x \in Scenes : phase[x] = "parent" => under[x] # s /\ x # s
  BY <1>1 DEF Idle
<1>3. CASE p # Place /\ maker[p] = c /\ phase[p] = "asked"
  <2> DEFINE w == [scene |-> s, n |-> 0]
  <2>1. /\ phase' = [phase EXCEPT ![s] = "parent"]
        /\ waiting' = [waiting EXCEPT ![c] = Append(waiting[c], w)]
        /\ UNCHANGED <<tokens, unanswered>>
    BY <1>3 DEF Request
  <2>2. w \in Coroutine /\ w.scene = s /\ w.n = 0
    BY DEF Coroutine
  <2> HIDE DEF w
  <2>3. waiting[c] \in Seq(Coroutine)
    BY DEF TypesOK
  <2>4. /\ Append(waiting[c], w) \in Seq(Coroutine)
        /\ \A i \in 1 .. Len(Append(waiting[c], w)) :
             Append(waiting[c], w)[i] = w \/ (i \in 1 .. Len(waiting[c]) /\ Append(waiting[c], w)[i] = waiting[c][i])
    BY <2>2, <2>3
  <2>5. waiting' \in [Clients -> Seq(Coroutine)] /\ waiting'[c] = Append(waiting[c], w)
        /\ \A d \in Clients \ {c} : waiting'[d] = waiting[d]
    BY <2>1, <2>4 DEF TypesOK
  <2>6. TypesOK'
    <3>1. /\ maker' \in [Scenes -> Clients \cup {None}] /\ under' \in [Scenes -> Scenes \cup {Place, None}]
          /\ phase' \in [Scenes -> {"new", "parent", "asked", "named", "gone"}]
      BY <1>1, <2>1 DEF TypesOK
    <3> QED BY <1>1, <2>1, <2>5, <3>1 DEF TypesOK
  <2>7. ASSUME NEW d \in Clients, NEW i \in 1 .. Len(waiting'[d]) PROVE WaitsFor(phase', waiting'[d][i])
    <3>1. CASE waiting'[d][i] = w
      BY <2>1, <2>2, <3>1 DEF WaitsFor, TypesOK
    <3>2. CASE i \in 1 .. Len(waiting[d]) /\ waiting'[d][i] = waiting[d][i]
      <4>1. WaitsFor(phase, waiting[d][i]) /\ waiting[d][i].scene \in Scenes
        BY <3>2, WaitTypes DEF Idle
      <4>2. waiting[d][i].scene # s
        BY <1>1, <4>1 DEF WaitsFor
      <4> QED BY <2>1, <3>2, <4>1, <4>2 DEF WaitsFor, TypesOK
    <3> QED BY <2>4, <2>5, <3>1, <3>2
  <2>8. p \in Scenes /\ p # s
    BY <1>1, <1>3
  <2>9. ASSUME NEW x \in Scenes
        PROVE  /\ heard'[x] = <<>> /\ phase'[x] # "named"
               /\ phase'[x] = "asked" => x \in unanswered'
               /\ phase'[x] = "parent" =>
                    under'[x] \in Scenes /\ maker'[under'[x]] = maker'[x] /\ phase'[under'[x]] = "asked"
    <3>1. CASE x = s
      BY <1>1, <1>3, <2>1, <2>8, <3>1 DEF Idle, TypesOK
    <3>2. CASE x # s
      BY <1>1, <1>2, <2>1, <3>2 DEF Idle, TypesOK
    <3> QED BY <3>1, <3>2
  <2> QED BY <1>1, <2>6, <2>7, <2>9 DEF Idle, Empty
<1>4. CASE ~ (p # Place /\ maker[p] = c /\ phase[p] = "asked")
  <2>1. /\ phase' = [phase EXCEPT ![s] = "asked"]
        /\ tokens' = [tokens EXCEPT ![c] = Append(tokens[c], s)]
        /\ unanswered' = unanswered \cup {s} /\ waiting' = waiting
    BY <1>4 DEF Request, Ask
  <2>2. Append(tokens[c], s) \in Seq(Scenes)
    BY DEF TypesOK
  <2>3. tokens' \in [Clients -> Seq(Scenes)]
    BY <2>1, <2>2 DEF TypesOK
  <2>4. TypesOK'
    <3>1. /\ maker' \in [Scenes -> Clients \cup {None}] /\ under' \in [Scenes -> Scenes \cup {Place, None}]
          /\ phase' \in [Scenes -> {"new", "parent", "asked", "named", "gone"}]
      BY <1>1, <2>1 DEF TypesOK
    <3> QED BY <1>1, <2>1, <2>3, <3>1 DEF TypesOK
  <2>5. ASSUME NEW d \in Clients, NEW i \in 1 .. Len(waiting'[d]) PROVE WaitsFor(phase', waiting'[d][i])
    <3>1. WaitsFor(phase, waiting[d][i]) /\ waiting[d][i].scene \in Scenes
      BY <2>1, WaitTypes DEF Idle
    <3>2. waiting[d][i].scene # s
      BY <1>1, <3>1 DEF WaitsFor
    <3> QED BY <2>1, <3>1, <3>2 DEF WaitsFor, TypesOK
  <2>6. ASSUME NEW x \in Scenes
        PROVE  /\ heard'[x] = <<>> /\ phase'[x] # "named"
               /\ phase'[x] = "asked" => x \in unanswered'
               /\ phase'[x] = "parent" =>
                    under'[x] \in Scenes /\ maker'[under'[x]] = maker'[x] /\ phase'[under'[x]] = "asked"
    <3>1. CASE x = s
      BY <1>1, <2>1, <3>1 DEF Idle, TypesOK
    <3>2. CASE x # s
      BY <1>1, <1>2, <2>1, <3>2 DEF Idle, TypesOK
    <3> QED BY <3>1, <3>2
  <2> QED BY <1>1, <2>4, <2>5, <2>6 DEF Idle, Empty
<1> QED BY <1>3, <1>4

\* No coroutine goes on.
LEMMA IdleResume ==
  ASSUME TypesOK, Idle, NEW c \in Clients, Resume(c)
  PROVE  TypesOK' /\ Idle'
<1>1. waiting[c] \in Seq(Coroutine) /\ DOMAIN waiting[c] = 1 .. Len(waiting[c])
  BY DEF TypesOK
<1>2. GoOn(c) = {}
  <2> SUFFICES ASSUME NEW i \in 1 .. Len(waiting[c]), Resumes(waiting[c][i])
               PROVE  phase[waiting[c][i].scene] \notin {"named", "parent"}
    BY <1>1 DEF GoOn, Ready
  <2>1. WaitsFor(phase, waiting[c][i]) /\ waiting[c][i].scene \in Scenes /\ waiting[c][i].n \in Nat
    BY WaitTypes DEF Idle
  <2> QED BY <2>1 DEF WaitsFor, Resumes, Idle
<1>3. /\ Sent(c) = Those(waiting[c], {}) /\ Those(waiting[c], {i \in GoOn(c) : waiting[c][i].n = 0}) = Those(waiting[c], {})
      /\ Those(waiting[c], GoOn(c)) = Those(waiting[c], {})
  <2>1. /\ {i \in GoOn(c) : mayAsk \/ waiting[c][i].n > 0} = {}
        /\ {i \in GoOn(c) : waiting[c][i].n = 0} = {}
    BY <1>2
  <2> QED BY <1>2, <2>1 DEF Sent
<1>4. Those(waiting[c], {}) = <<>> /\ Range(<<>>) = {}
  <2>1. Those(waiting[c], {}) \in Seq(Coroutine) /\ \E e : Kept(Those(waiting[c], {}), e, waiting[c], {}, Len(waiting[c]))
    BY <1>1, ThoseKept
  <2>2. Len(Those(waiting[c], {})) = 0
    BY <2>1 DEF Kept
  <2>3. Range(<<>>) = {}
    BY DEF Range
  <2> QED BY <2>1, <2>2, <2>3
<1>5. /\ UNCHANGED <<nodes, maker, under, copies, down, heard, unanswered>> /\ \A s \in Scenes : phase'[s] = phase[s]
  <2>1. /\ UNCHANGED <<nodes, maker, under, copies, down, heard>>
        /\ unanswered' = IF mayAsk THEN unanswered ELSE unanswered \cup {w.scene : w \in Range(<<>>)}
        /\ phase' = [s \in Scenes |-> IF [scene |-> s, n |-> 0] \in Range(<<>>) THEN "asked" ELSE phase[s]]
    BY <1>3, <1>4, Zenon DEF Resume
  <2> QED BY <1>4, <2>1
<1>6. SentResume(c)
  <2>1. Sent(c) = Those(waiting[c], GoOn(c))
    BY <1>3
  <2>2. UNCHANGED <<server, maker, under, ident, place, copies, down, made, heard>>
    BY <1>5 DEF Resume, server
  <2> QED BY <2>1, <2>2, ResumeSent
<1>7. TypesOK'
  BY <1>6, ResumeTypes
<1>8. PICK n, e, l, k : Resumed(c, n, e, l, k)
  BY <1>6, ResumeDoes
<1>9. ASSUME NEW d \in Clients PROVE up'[d] = <<>>
  <2>1. CASE d = c
    <3>1. n = 0
      <4>1. e \in [1 .. n -> {}] /\ n \in Nat
        BY <1>2, <1>8 DEF Resumed
      <4>2. n # 0 => 1 \in 1 .. n
        BY <4>1
      <4> QED BY <4>1, <4>2
    <3>2. Len(up[c]) = 0
      <4>1. Len(<<>>) = 0
        OBVIOUS
      <4> QED BY <4>1 DEF Idle
    <3>3. Len(up'[c]) = 0 /\ up'[c] \in Seq(UpMsg)
      BY <1>7, <1>8, <3>1, <3>2 DEF Resumed, TypesOK
    <3> QED BY <2>1, <3>3
  <2>2. CASE d # c
    BY <1>6, <2>2, ResumeDoes DEF Idle
  <2> QED BY <2>1, <2>2
<1>10. ASSUME NEW d \in Clients, NEW i \in 1 .. Len(waiting'[d]) PROVE WaitsFor(phase, waiting'[d][i])
  <2>1. CASE d = c
    <3>1. i \in 1 .. l /\ k[i] \in 1 .. Len(waiting[c]) /\ waiting'[c][i] = waiting[c][k[i]]
      BY <1>1, <1>8, <2>1 DEF Resumed
    <3> QED BY <2>1, <3>1 DEF Idle
  <2>2. CASE d # c
    BY <1>6, <2>2, ResumeDoes DEF Idle
  <2> QED BY <2>1, <2>2
<1>11. \A d \in Clients : copies'[d] = {} /\ \A i \in 1 .. Len(down'[d]) : Empty(down'[d][i])
  BY <1>5 DEF Idle
<1>12. \A s \in Scenes : phase[s] = "parent" => under[s] \in Scenes
  BY DEF Idle
<1>13. Idle'
  BY <1>5, <1>7, <1>9, <1>10, <1>11, <1>12, IdleKept
<1> QED BY <1>7, <1>13

\* Frees of nodes that a client made.
LEMMA IdleFreed ==
  ASSUME TypesOK, TypesOK', Idle, NEW c \in Clients, NEW S, Without(c, S),
         \A s \in Scenes : under[s] \in S => s \in S,
         UNCHANGED <<nodes, unanswered, maker, under, heard>>,
         \A d \in Clients : up'[d] = <<>>,
         \A d \in Clients : \A i \in 1 .. Len(down'[d]) : Empty(down'[d][i]),
         \A d \in Clients : waiting'[d] \in {waiting[d], <<>>}
  PROVE  Idle'
<1>1. \A s \in Scenes : phase'[s] = IF s \in S /\ maker[s] = c THEN "gone" ELSE phase[s]
  BY DEF Without
<1>2. \A s \in Scenes : phase'[s] = "parent" => phase'[under[s]] = phase[under[s]]
  BY <1>1 DEF Idle
<1>3. \A d \in Clients : copies'[d] = {}
  BY DEF Without, Idle, TypesOK
<1>4. ASSUME NEW d \in Clients, NEW i \in 1 .. Len(waiting'[d]) PROVE WaitsFor(phase, waiting'[d][i])
  <2>1. Len(<<>>) = 0
    OBVIOUS
  <2>2. waiting'[d] = waiting[d]
    BY <1>4, <2>1
  <2> QED BY <2>2 DEF Idle
<1> QED BY <1>1, <1>2, <1>3, <1>4, IdleKept

LEMMA IdleHears ==
  ASSUME TypesOK, TypesOK', Idle, NEW c \in Clients, HearAdd(c) \/ HearRemove(c) \/ HearIds(c) \/ HearCall(c)
  PROVE  Idle'
<1>1. Hears(c)
  BY DEF HearAdd, HearRemove, HearIds, HearCall
<1>2. /\ UNCHANGED <<nodes, unanswered, maker, under, heard, waiting, up>>
      /\ Drops(down'[c], down[c]) /\ Head(down[c]) = down[c][1] /\ Len(down[c]) \in Nat \ {0}
      /\ \A d \in Clients \ {c} : down'[d] = down[d]
  BY <1>1, HearsDoes DEF server
<1>3. ASSUME NEW d \in Clients, NEW i \in 1 .. Len(down'[d]) PROVE Empty(down'[d][i])
  <2>1. CASE d = c
    <3>1. i + 1 \in 1 .. Len(down[c]) /\ down'[c][i] = down[c][i + 1]
      <4>1. Len(down'[c]) \in Nat
        BY LenNat DEF TypesOK
      <4> QED BY <1>2, <2>1, <4>1 DEF Drops
    <3> QED BY <2>1, <3>1 DEF Idle
  <2>2. CASE d # c
    BY <1>2, <2>2 DEF Idle
  <2> QED BY <2>1, <2>2
<1>4. Empty(Head(down[c]))
  BY <1>2 DEF Idle
<1>5. CASE HearAdd(c)
  <2>1. /\ UNCHANGED phase
        /\ copies' = [copies EXCEPT ![c] = copies[c] \cup
             {s \in Head(down[c]).scenes :
                IF under[s] = Place THEN Head(down[c]).place \/ c \in place ELSE under[s] \in copies[c] \cup Head(down[c]).scenes}]
    BY <1>5 DEF HearAdd
  <2>2. Head(down[c]).scenes = {}
    BY <1>4, <1>5 DEF Empty, HearAdd
  <2>3. \A d \in Clients : copies'[d] = {}
    BY <2>1, <2>2 DEF Idle, TypesOK
  <2>4. \A d \in Clients : up'[d] = <<>> /\ \A i \in 1 .. Len(waiting'[d]) : WaitsFor(phase, waiting'[d][i])
    BY <1>2 DEF Idle
  <2> QED BY <1>2, <1>3, <2>1, <2>3, <2>4, IdleKept
<1>6. CASE HearRemove(c)
  <2>1. Head(down[c]).scene = Place /\ Without(c, Scenes)
    BY <1>4, <1>6 DEF Empty, HearRemove
  <2>2. \A d \in Clients : up'[d] = <<>>
    BY <1>2 DEF Idle
  <2> QED BY <1>2, <1>3, <2>1, <2>2, IdleFreed
<1>7. CASE HearIds(c) \/ HearCall(c)
  BY <1>4, <1>7 DEF HearIds, HearCall, Empty
<1> QED BY <1>5, <1>6, <1>7

LEMMA IdleServer ==
  ASSUME TypesOK, TypesOK', Idle, NEW c \in Clients, Hide(c) \/ Show(c) \/ Connect(c)
  PROVE  Idle'
<1>1. Others(c, nodes) = {}
  BY DEF Others, Idle
<1> DEFINE add == Shown(TRUE, {})
           remove == Removed(Place)
<1>2. Empty(add) /\ Empty(remove)
  BY DEF Empty, Shown, Removed
<1>3. add \in DownMsg /\ remove \in DownMsg
  BY MadeMessages
<1> HIDE DEF add, remove
<1>4. PICK m \in {add, remove} :
        \/ down' = [down EXCEPT ![c] = Append(down[c], m)]
        \/ down' = [down EXCEPT ![c] = <<m>>]
  BY <1>1 DEF Hide, Show, Connect, add, remove
<1>5. down[c] \in Seq(DownMsg) /\ m \in DownMsg /\ Empty(m)
  BY <1>2, <1>3 DEF TypesOK
<1>6. /\ \A i \in 1 .. Len(Append(down[c], m)) :
           Append(down[c], m)[i] = m \/ (i \in 1 .. Len(down[c]) /\ Append(down[c], m)[i] = down[c][i])
      /\ \A i \in 1 .. Len(<<m>>) : <<m>>[i] = m
  BY <1>5
<1>7. /\ down'[c] = Append(down[c], m) \/ down'[c] = <<m>>
      /\ \A d \in Clients \ {c} : down'[d] = down[d]
  BY <1>4 DEF TypesOK
<1>8. ASSUME NEW d \in Clients, NEW i \in 1 .. Len(down'[d]) PROVE Empty(down'[d][i])
  <2>1. CASE d = c
    <3>1. down'[d][i] = m \/ (i \in 1 .. Len(down[c]) /\ down'[d][i] = down[c][i])
      BY <1>6, <1>7, <2>1
    <3> QED BY <1>5, <3>1 DEF Idle
  <2>2. CASE d # c
    BY <1>7, <2>2 DEF Idle
  <2> QED BY <2>1, <2>2
<1>9. UNCHANGED <<nodes, unanswered, maker, under, heard, up, copies, phase, waiting>>
  BY DEF Hide, Show, Connect, client
<1>10. \A d \in Clients : /\ up'[d] = <<>> /\ copies'[d] = {}
                          /\ \A i \in 1 .. Len(waiting'[d]) : WaitsFor(phase, waiting'[d][i])
  BY <1>9 DEF Idle
<1> QED BY <1>8, <1>9, <1>10, IdleKept

LEMMA IdleClient ==
  ASSUME TypesOK, TypesOK', Idle, NEW c \in Clients, NEW s \in Scenes, Call(c, s) \/ FreeOwn(c, s)
  PROVE  Idle'
<1>1. CASE Call(c, s)
  <2> DEFINE w == [scene |-> s, n |-> made[s] + 1]
  <2>1. phase[s] = "asked"
    BY <1>1 DEF Call, Idle
  <2>2. /\ UNCHANGED <<nodes, unanswered, maker, under, heard, up, copies, phase, down>>
        /\ waiting' = [waiting EXCEPT ![c] = Append(waiting[c], w)]
    BY <1>1, <2>1 DEF Call, server
  <2>3. made[s] + 1 \in Nat /\ made[s] + 1 > 0
    BY DEF TypesOK
  <2>4. w \in Coroutine /\ WaitsFor(phase, w)
    BY <2>1, <2>3 DEF Coroutine, WaitsFor
  <2> HIDE DEF w
  <2>5. waiting[c] \in Seq(Coroutine)
    BY DEF TypesOK
  <2>6. \A i \in 1 .. Len(Append(waiting[c], w)) :
          Append(waiting[c], w)[i] = w \/ (i \in 1 .. Len(waiting[c]) /\ Append(waiting[c], w)[i] = waiting[c][i])
    BY <2>4, <2>5
  <2>7. waiting'[c] = Append(waiting[c], w) /\ \A d \in Clients \ {c} : waiting'[d] = waiting[d]
    BY <2>2 DEF TypesOK
  <2>8. ASSUME NEW d \in Clients, NEW i \in 1 .. Len(waiting'[d]) PROVE WaitsFor(phase, waiting'[d][i])
    <3>1. CASE d = c
      <4>1. waiting'[d][i] = w \/ (i \in 1 .. Len(waiting[c]) /\ waiting'[d][i] = waiting[c][i])
        BY <2>6, <2>7, <3>1
      <4> QED BY <2>4, <4>1 DEF Idle
    <3>2. CASE d # c
      BY <2>7, <3>2 DEF Idle
    <3> QED BY <3>1, <3>2
  <2>9. \A d \in Clients : /\ up'[d] = <<>> /\ copies'[d] = {}
                           /\ \A i \in 1 .. Len(down'[d]) : Empty(down'[d][i])
    BY <2>2 DEF Idle
  <2> QED BY <2>2, <2>8, <2>9, IdleKept
<1>2. CASE FreeOwn(c, s)
  <2>1. Without(c, Below(s)) /\ UNCHANGED <<nodes, unanswered, maker, under, heard, up, down, waiting>>
    BY <1>2 DEF FreeOwn, server
  <2>2. ASSUME NEW x \in Scenes, under[x] \in Below(s) PROVE x \in Below(s)
    <3>1. under[x] \in Scenes /\ s \in Path(under[x])
      BY <2>2 DEF Below
    <3>2. s \in Path(x)
      BY <3>1, PathUnder
    <3> QED BY <3>2 DEF Below
  <2>3. \A d \in Clients : up'[d] = <<>> /\ \A i \in 1 .. Len(down'[d]) : Empty(down'[d][i])
    BY <2>1 DEF Idle
  <2> QED BY <2>1, <2>2, <2>3, IdleFreed
<1> QED BY <1>1, <1>2

LEMMA IdleLeaves ==
  ASSUME TypesOK, TypesOK', Idle, NEW c \in Clients, Disconnect(c)
  PROVE  Idle'
<1>1. /\ UNCHANGED <<nodes, unanswered, maker, under, heard>> /\ Without(c, Scenes)
      /\ up' = [up EXCEPT ![c] = <<>>] /\ down' = [down EXCEPT ![c] = <<>>] /\ waiting' = [waiting EXCEPT ![c] = <<>>]
  BY DEF Disconnect
<1>2. \A d \in Clients : up'[d] = <<>> /\ waiting'[d] \in {waiting[d], <<>>} /\ down'[d] \in {down[d], <<>>}
  BY <1>1 DEF Idle, TypesOK
<1>3. ASSUME NEW d \in Clients, NEW i \in 1 .. Len(down'[d]) PROVE Empty(down'[d][i])
  <2>1. Len(<<>>) = 0
    OBVIOUS
  <2>2. down'[d] = down[d]
    BY <1>2, <1>3, <2>1
  <2> QED BY <2>2 DEF Idle
<1> QED BY <1>1, <1>2, <1>3, IdleFreed

LEMMA IdleNext == TypesOK /\ Idle /\ ~ mayAsk /\ [Next]_vars => TypesOK' /\ Idle' /\ ~ mayAsk'
<1> SUFFICES ASSUME TypesOK, Idle, ~ mayAsk, [Next]_vars PROVE TypesOK' /\ Idle' /\ ~ mayAsk'
  OBVIOUS
<1>1. ~ mayAsk'
  BY DEF Next, vars
<1>2. ASSUME NEW c \in Clients, NEW s \in Scenes, NEW p \in Scenes \cup {Place}, Request(c, s, p) PROVE TypesOK' /\ Idle'
  BY <1>2, IdleRequest
<1>3. ASSUME NEW c \in Clients, NEW s \in Scenes, Call(c, s) \/ FreeOwn(c, s) PROVE TypesOK' /\ Idle'
  BY <1>3, CallTypes, FreeOwnTypes, IdleClient
<1>4. ASSUME NEW c \in Clients, HearAdd(c) \/ HearRemove(c) \/ HearIds(c) \/ HearCall(c) PROVE TypesOK' /\ Idle'
  BY <1>4, HearAddTypes, HearRemoveTypes, HearIdsTypes, HearCallTypes, IdleHears
<1>5. ASSUME NEW c \in Clients, Resume(c) PROVE TypesOK' /\ Idle'
  BY <1>5, IdleResume
<1>6. ASSUME NEW c \in Clients, Accept(c) \/ Ignore(c) \/ Run(c) PROVE FALSE
  BY <1>6 DEF Accept, Ignore, Run, Handles, Idle
<1>7. ASSUME NEW c \in Clients, Hide(c) \/ Show(c) \/ Connect(c) PROVE TypesOK' /\ Idle'
  BY <1>7, HideTypes, ShowTypes, ConnectTypes, IdleServer
<1>8. ASSUME NEW c \in Clients, Disconnect(c) PROVE TypesOK' /\ Idle'
  BY <1>8, DisconnectTypes, IdleLeaves
<1>9. ASSUME NEW s \in Scenes, CallAll(s) \/ Free(s) PROVE FALSE
  BY <1>9 DEF CallAll, Free, Idle
<1>10. CASE UNCHANGED vars
  <2>1. UNCHANGED <<status, hidden, nodes, unanswered, maker, under, phase, ident, tokens, waiting, polling,
                    place, copies, up, down, made, heard>>
    BY <1>10 DEF vars, server, client
  <2>2. TypesOK'
    BY <2>1 DEF TypesOK
  <2>3. Idle'
    BY <2>1 DEF Idle, Empty, WaitsFor
  <2>4. mayAsk' = mayAsk
    BY DEF Next, vars
  <2> QED BY <2>2, <2>3, <2>4
<1> QED BY <1>1, <1>2, <1>3, <1>4, <1>5, <1>6, <1>7, <1>8, <1>9, <1>10 DEF Next, Step

\* The inductive invariant of the whole: what is on its way to a client adds up to
\* what it is to have, and each scene has one request, or one answer, or its calls;
\* where clients may not ask, all their nodes wait (outbound_rpc,
\* _request_replication, _accept_replication, await_for_id).
THEOREM CoreInvariant == Spec => [](TypesOK /\ IF mayAsk THEN Core ELSE Idle)
<1>1. Init => TypesOK /\ IF mayAsk THEN Core ELSE Idle
  BY TypesInit, InitCore, IdleInit
<1>2. (TypesOK /\ IF mayAsk THEN Core ELSE Idle) /\ [Next]_vars => (TypesOK /\ IF mayAsk THEN Core ELSE Idle)'
  BY WhenSent, TypesNext, NextCore, IdleNext
<1> QED BY <1>1, <1>2, PTL DEF Spec

\* Once a client has heard all, it has the copies that it is to have
\* (_accept_replication, get_observing_peers, _receive_client_replication_ids).
THEOREM AlwaysAgree == Spec => []ScenesAgree
<1>1. ASSUME TypesOK, Core PROVE ScenesAgree
  <2> SUFFICES ASSUME NEW c \in Connected, down[c] = <<>>, NEW s \in Scenes
               PROVE  IF maker[s] = c
                        THEN /\ s \notin copies[c]
                             /\ phase[s] = "named" => s \in nodes /\ ident[s] = s
                             /\ s \in nodes => phase[s] \in {"named", "gone"}
                        ELSE s \in copies[c] <=> s \in VisibleTo(c, nodes)
    BY DEF ScenesAgree
  <2>1. c \in Clients /\ Len(down[c]) = 0
    <3>1. Len(<<>>) = 0
      OBVIOUS
    <3> QED BY <3>1 DEF Connected
  <2>2. CASE maker[s] = c
    <3>1. s \notin copies[c]
      BY <1>1, <2>1, <2>2, PathHas, CoreParts DEF CopiesOfOthers, NotOwn
    <3>2. ~ HasIds(c, Len(down[c]), s) /\ ~ Leaving(s)
      BY <2>1, <2>2 DEF HasIds, Leaving
    <3>3. phase[s] = "named" => s \in nodes /\ ident[s] = s
      BY <1>1, <3>2, CoreParts DEF KnownStay, Knows, NamedRight
    <3>4. s \in nodes => phase[s] \in {"named", "gone"}
      BY <1>1, <2>2, <3>2, CoreParts DEF NodesKnown, Knows
    <3> QED BY <2>2, <3>1, <3>3, <3>4
  <2>3. s \in copies[c] <=> s \in VisibleTo(c, nodes)
    <3>1. s \in Places /\ s # Place
      BY NotAScene DEF Places
    <3>2. s \in copies[c] <=> s \in Sees(c)
      BY <1>1, <2>1, <3>1, AtNone, CoreParts DEF ViewRight, Has
    <3> QED BY <3>1, <3>2 DEF Sees, VisibleTo
  <2> QED BY <2>2, <2>3
<1>2. ASSUME Idle PROVE ScenesAgree
  BY <1>2 DEF Idle, ScenesAgree, VisibleTo, Others, Connected
<1>3. (TypesOK /\ IF mayAsk THEN Core ELSE Idle) => ScenesAgree
  BY <1>1, <1>2
<1> QED BY <1>3, CoreInvariant, PTL

\* Nothing waits for an answer that does not come, unless a request was refused at
\* the client, dropped or not accepted (outbound_rpc, _request_replication,
\* await_for_id).
THEOREM AlwaysAnswered == Spec => []AnswersCome
<1>1. ASSUME TypesOK, Core PROVE AnswersCome
  <2>1. ASSUME NEW c \in Connected \ polling, up[c] = <<>>, down[c] = <<>>,
               NEW s \in Scenes, maker[s] = c, phase[s] = "asked"
        PROVE  s \in unanswered
    <3>1. Len(up[c]) = 0 /\ Len(down[c]) = 0
      <4>1. Len(<<>>) = 0
        OBVIOUS
      <4> QED BY <2>1, <4>1
    <3>2. \/ s \in unanswered
          \/ \E i \in 1 .. Len(up[c]) : Req(up[c][i], s)
          \/ HasIds(c, Len(down[c]), s)
      BY <1>1, <2>1, CoreParts DEF AskedFor
    <3> QED BY <3>1, <3>2 DEF HasIds
  <2>2. ASSUME NEW c \in Connected \ polling, up[c] = <<>>, down[c] = <<>>,
               NEW s \in Scenes, under[s] \in Scenes, maker[under[s]] = c, phase[under[s]] = "asked"
        PROVE  Path(s) \cap unanswered # {}
    <3>1. under[s] \in unanswered
      BY <2>1, <2>2
    <3>2. under[s] \in Path(s)
      BY <2>2, PathUnder, PathHas
    <3> QED BY <3>1, <3>2
  <2>3. ASSUME NEW c \in Connected \ polling, up[c] = <<>>, down[c] = <<>>, NEW i \in 1 .. Len(waiting[c])
        PROVE  LET w == waiting[c][i] IN
               phase[w.scene] = "gone" \/ Path(w.scene) \cap unanswered # {}
    <3> DEFINE w == waiting[c][i]
    <3>1. c \in Clients
      BY DEF Connected
    <3>2. w.scene \in Scenes /\ w.n \in Nat /\ Waits(c, w)
      BY <1>1, <3>1, WaitTypes, CoreParts DEF WaitersRight
    <3>3. phase[w.scene] = "gone" \/ ~ Resumes(w)
      BY <1>1, <3>1, CoreParts DEF StillWait
    <3>4. CASE w.n > 0 /\ phase[w.scene] = "asked"
      <4>1. w.scene \in unanswered
        BY <2>1, <2>3, <3>2, <3>4 DEF Waits
      <4> QED BY <3>2, <4>1, PathHas
    <3>5. CASE ~ w.n > 0 /\ phase[under[w.scene]] = "asked"
      BY <2>2, <2>3, <3>2, <3>5 DEF Waits
    <3> QED BY <3>3, <3>4, <3>5 DEF Resumes
  <2>4. ASSUME NEW c \in Connected \ polling, up[c] = <<>>, down[c] = <<>>,
               NEW s \in Scenes, maker[s] = c, phase[s] = "parent"
        PROVE  Path(s) \cap unanswered # {}
    <3>1. PICK i \in 1 .. Len(waiting[c]) : waiting[c][i].scene = s /\ waiting[c][i].n = 0
      BY <1>1, <2>4, CoreParts DEF ParentWaits
    <3> QED BY <2>3, <2>4, <3>1
  <2>5. ASSUME NEW c \in Connected PROVE DOMAIN waiting[c] = 1 .. Len(waiting[c])
    <3>1. waiting[c] \in Seq(Coroutine)
      BY <1>1 DEF TypesOK, Connected
    <3> QED BY <3>1
  <2>6. ASSUME NEW c \in Connected \ polling, up[c] = <<>>, down[c] = <<>>,
               NEW s \in Scenes, maker[s] = c, phase[s] \in {"parent", "asked"}
        PROVE  Path(s) \cap unanswered # {}
    BY <2>1, <2>4, <2>6, PathHas
  <2> QED BY <2>3, <2>5, <2>6 DEF AnswersCome
<1>2. ASSUME TypesOK, Idle PROVE AnswersCome
  <2>1. ASSUME NEW s \in Scenes, phase[s] \in {"parent", "asked"} PROVE Path(s) \cap unanswered # {}
    <3>1. CASE phase[s] = "asked"
      BY <1>2, <3>1, PathHas DEF Idle
    <3>2. CASE phase[s] = "parent"
      <4>1. under[s] \in Scenes /\ under[s] \in unanswered
        BY <1>2, <3>2 DEF Idle
      <4>2. under[s] \in Path(s)
        BY <4>1, PathUnder, PathHas
      <4> QED BY <4>1, <4>2
    <3> QED BY <2>1, <3>1, <3>2
  <2>2. ASSUME NEW c \in Connected, NEW i \in DOMAIN waiting[c]
        PROVE  phase[waiting[c][i].scene] = "gone" \/ Path(waiting[c][i].scene) \cap unanswered # {}
    <3>1. c \in Clients
      BY DEF Connected
    <3>2. i \in 1 .. Len(waiting[c])
      BY <1>2, <2>2, <3>1 DEF TypesOK
    <3>3. waiting[c][i].scene \in Scenes /\ WaitsFor(phase, waiting[c][i])
      BY <1>2, <3>1, <3>2, WaitTypes DEF Idle
    <3> QED BY <2>1, <3>3 DEF WaitsFor
  <2> QED BY <2>1, <2>2 DEF AnswersCome
<1>3. (TypesOK /\ IF mayAsk THEN Core ELSE Idle) => AnswersCome
  BY <1>1, <1>2
<1> QED BY <1>3, CoreInvariant, PTL

--------------------------------------------------------------------------------
(* The calls of the server. *)
FindsAt(d) == \A i \in 1 .. Len(down[d]) : Finds(d, down[d][i], i - 1)

LEMMA AtMade ==
  ASSUME TypesOK, Core, NEW d \in Clients, NEW x \in Scenes, NEW k \in 0 .. Len(down[d]), At(d, k, x)
  PROVE  maker[x] # None
<1> SUFFICES ASSUME maker[x] = None PROVE FALSE
  OBVIOUS
<1>1. x \notin copies[d] /\ x # Place /\ \A i \in 1 .. Len(down[d]) : ~ Shows(down[d][i], x)
  BY NotMade, NotAScene
<1>2. \A i \in 0 .. k : i # 0 => i \in 1 .. Len(down[d])
  BY LenNat
<1> QED BY <1>1, <1>2 DEF At, Held, Has

\* A node of its own that finds its calls goes on to do so.
OwnKept(d) ==
  \A x \in Scenes : maker[x] = d =>
    /\ phase[x] \in {"named", "gone"} => phase'[x] \in {"named", "gone"}
    /\ phase[x] = "asked" => phase'[x] \in {"asked", "named", "gone"}
TreeKept == \A x \in Scenes : maker[x] # None => Up(x)' = Up(x) /\ maker'[x] = maker[x]

LEMMA FindsGrow ==
  ASSUME TypesOK, TypesOK', Core, NEW d \in Clients, FindsAt(d), Quiet(d) \/ \E m \in DownMsg : Told(d, m),
         TreeKept, OwnKept(d)
  PROVE  Extends(down'[d], down[d]) /\ \A i \in 1 .. Len(down[d]) : \A m : m = down[d][i] => Finds(d, m, i - 1)'
<1>1. Extends(down'[d], down[d])
  BY ToldDoes DEF Quiet, Told
<1> SUFFICES ASSUME NEW i \in 1 .. Len(down[d]), NEW m, m = down[d][i], m.type = "call"
             PROVE  Finds(d, m, i - 1)'
  BY <1>1 DEF Finds
<1>2. PICK k \in Nat : k = i - 1 /\ k <= Len(down[d]) /\ k \in 0 .. Len(down[d])
  BY LenNat
<1>3. m.scene \in Scenes /\ Finds(d, m, k)
  BY <1>2, DownTypes, DownKinds DEF FindsAt
<1> DEFINE x == m.scene
<1>4. At(d, k, x) => At(d, k, x)'
  <2> SUFFICES ASSUME At(d, k, x) PROVE At(d, k, x)'
    OBVIOUS
  <2>1. Up(x)' = Up(x) /\ x \in Places
    BY <1>2, <1>3, AtMade DEF TreeKept, Places
  <2> HIDE DEF x
  <2> QED BY <1>2, <2>1, AtQuiet, AtTold
<1>5. maker[x] = d => maker'[x] = d
  BY <1>3, NotAClient DEF TreeKept
<1>6. HasIds(d, k, x) => HasIds(d, k, x)'
  <2>1. \A j \in 1 .. k : down'[d][j] = down[d][j]
    BY <1>1, <1>2, LenNat DEF Extends
  <2> QED BY <2>1 DEF HasIds, Ids
<1>7. Finds(d, m, k)'
  BY <1>3, <1>4, <1>5, <1>6 DEF Finds, OwnKept
<1> QED BY <1>2, <1>7

LEMMA FindsSame ==
  ASSUME TypesOK, TypesOK', Core, NEW d \in Clients, FindsAt(d), Quiet(d) \/ \E m \in DownMsg : Told(d, m),
         TreeKept, OwnKept(d),
         \A i \in Len(down[d]) + 1 .. Len(down'[d]) : Finds(d, down[d][i], i - 1)'
  PROVE  FindsAt(d)'
<1>1. /\ Extends(down'[d], down[d])
      /\ \A i \in 1 .. Len(down[d]) : \A m : m = down[d][i] => Finds(d, m, i - 1)'
  BY FindsGrow
<1>2. Len(down[d]) \in Nat /\ Len(down'[d]) \in Nat
  BY DEF TypesOK
<1> SUFFICES ASSUME NEW i \in 1 .. Len(down'[d]) PROVE Finds(d, down[d][i], i - 1)'
  BY DEF FindsAt
<1>3. CASE i \in 1 .. Len(down[d])
  <2>1. PICK m : m = down[d][i] /\ m = down'[d][i]
    BY <1>1, <1>3 DEF Extends
  <2>2. Finds(d, m, i - 1)'
    BY <1>1, <1>3, <2>1
  <2> QED BY <2>1, <2>2 DEF Finds
<1>4. CASE i \notin 1 .. Len(down[d])
  <2>1. i \in Len(down[d]) + 1 .. Len(down'[d])
    BY <1>2, <1>4
  <2> QED BY <2>1
<1> QED BY <1>3, <1>4

LEMMA FindsStill ==
  ASSUME TypesOK, TypesOK', Core, NEW d \in Clients, FindsAt(d), Still(d), TreeKept, OwnKept(d)
  PROVE  FindsAt(d)'
<1>1. Quiet(d) /\ Len(down[d]) \in Nat /\ Len(down'[d]) = Len(down[d])
  BY StillQuiet, LenNat DEF Still
<1>2. \A i \in Len(down[d]) + 1 .. Len(down'[d]) : FALSE
  BY <1>1
<1> QED BY <1>1, <1>2, FindsSame

\* What is told is no call.
LEMMA FindsTold ==
  ASSUME TypesOK, TypesOK', Core, NEW d \in Clients, FindsAt(d), NEW m \in DownMsg, Told(d, m), m.type # "call",
         TreeKept, OwnKept(d)
  PROVE  FindsAt(d)'
<1>1. PICK n \in Nat : n = Len(down[d]) /\ Len(down'[d]) = n + 1 /\ down'[d][n + 1] = m
  BY ToldDoes DEF Told
<1>2. \A i \in n + 1 .. n + 1 : down'[d][i].type # "call"
  BY <1>1
<1>3. \A i \in Len(down[d]) + 1 .. Len(down'[d]) : Finds(d, down[d][i], i - 1)'
  BY <1>1, <1>2 DEF Finds
<1> QED BY <1>3, FindsSame

LEMMA FindsHeard ==
  ASSUME TypesOK, TypesOK', Core, NEW c \in Clients, Heard(c), NEW d \in Clients, FindsAt(d)
  PROVE  FindsAt(d)'
<1>0. UNCHANGED <<maker, under>>
  BY DEF Heard
<1>1. TreeKept
  BY <1>0, UpSame DEF TreeKept
<1>2. CASE d # c
  <2>1. Still(d)
    BY <1>2 DEF Heard
  <2>2. OwnKept(d)
    BY <1>2, HeardPhases DEF OwnKept
  <2> QED BY <1>1, <2>1, <2>2, FindsStill
<1>3. CASE d = c
  <2> SUFFICES ASSUME NEW i \in 1 .. Len(down'[c]), NEW m, m = down'[c][i], m.type = "call" PROVE Finds(c, m, i - 1)'
    BY <1>3 DEF FindsAt, Finds, HasIds
  <2>1. /\ Len(down'[c]) \in Nat /\ i + 1 \in 1 .. Len(down[c]) /\ m = down[c][i + 1]
        /\ \A j \in 1 .. Len(down[c]) : j = 1 \/ (j - 1 \in 1 .. Len(down'[c]) /\ down'[c][j - 1] = down[c][j])
    BY HeardDown
  <2>2. PICK k \in Nat : k = i - 1 /\ k \in 0 .. Len(down'[c]) /\ k + 1 = i
    BY <2>1
  <2>3. m.scene \in Scenes /\ Finds(c, m, k + 1)
    <3>1. Finds(c, m, (i + 1) - 1) /\ (i + 1) - 1 = k + 1
      BY <1>3, <2>1, <2>2 DEF FindsAt
    <3> QED BY <2>1, <3>1, DownTypes, DownKinds
  <2> DEFINE x == m.scene
  <2>4. At(c, k, x)' <=> At(c, k + 1, x)
    <3>1. x \in Places /\ Up(x)' = Up(x) /\ HeardBy(c)
      BY <1>0, <2>3, UpSame DEF Places, Heard
    <3> HIDE DEF x
    <3> QED BY <2>2, <3>1, AtHeard
  <2>5. phase[x] = "asked" /\ HasIds(c, k + 1, x) => phase'[x] \in {"named", "gone"} \/ (phase'[x] = "asked" /\ HasIds(c, k, x)')
    <3> SUFFICES ASSUME phase[x] = "asked", HasIds(c, k + 1, x), phase'[x] \notin {"named", "gone"}
                 PROVE  phase'[x] = "asked" /\ HasIds(c, k, x)'
      OBVIOUS
    <3>1. PICK j \in 1 .. k + 1 : Ids(down[c][j], x)
      BY DEF HasIds
    <3>2. phase'[x] = "asked" /\ ~ Ids(down[c][1], x)
      <4> HIDE DEF x
      <4>1. x \in Scenes
        BY <2>3 DEF x
      <4> QED BY <4>1, HeardPhases
    <3>3. j # 1 /\ j \in 1 .. Len(down[c]) /\ j - 1 \in 1 .. k
      BY <2>1, <2>2, <3>1, <3>2
    <3>4. down'[c][j - 1] = down[c][j]
      BY <2>1, <3>3
    <3> QED BY <3>1, <3>2, <3>3, <3>4 DEF HasIds, Ids
  <2>6. phase[x] \in {"named", "gone"} => phase'[x] \in {"named", "gone"}
    <3>1. x \in Scenes
      BY <2>3
    <3> HIDE DEF x
    <3> QED BY <3>1, HeardPhases
  <2>7. Finds(c, m, k)'
    BY <1>0, <2>3, <2>4, <2>5, <2>6 DEF Finds
  <2> QED BY <2>2, <2>7
<1> QED BY <1>2, <1>3

LEMMA TreeSame ==
  ASSUME UNCHANGED <<maker, under>>
  PROVE  TreeKept
BY UpSame DEF TreeKept

LEMMA OwnSame ==
  ASSUME UNCHANGED phase
  PROVE  \A d : OwnKept(d)
BY DEF OwnKept

\* Steps that send nothing.
LEMMA QuietFinds ==
  ASSUME TypesOK, TypesOK', Core, CallsFind, \A d \in Clients : Still(d), TreeKept, \A d \in Clients : OwnKept(d)
  PROVE  CallsFind'
<1>1. ASSUME NEW d \in Clients PROVE FindsAt(d)'
  <2>1. FindsAt(d)
    BY DEF CallsFind, FindsAt
  <2> QED BY <2>1, FindsStill
<1> QED BY <1>1 DEF CallsFind, FindsAt

\* Steps that send no call.
LEMMA TellingFinds ==
  ASSUME TypesOK, TypesOK', Core, CallsFind, NEW m \in DownMsg, m.type # "call", NEW D,
         \A d \in Clients : IF d \in D THEN Told(d, m) ELSE Still(d), UNCHANGED <<maker, under, phase>>
  PROVE  CallsFind'
<1>1. ASSUME NEW d \in Clients PROVE FindsAt(d)'
  <2>1. FindsAt(d) /\ TreeKept /\ OwnKept(d)
    BY TreeSame, OwnSame DEF CallsFind, FindsAt
  <2>2. CASE d \in D
    BY <2>1, <2>2, FindsTold
  <2>3. CASE d \notin D
    BY <2>1, <2>3, FindsStill
  <2> QED BY <2>2, <2>3
<1> QED BY <1>1 DEF CallsFind, FindsAt

LEMMA ServerFinds ==
  ASSUME TypesOK, TypesOK', Core, CallsFind, NEW c \in Clients, Hide(c) \/ Show(c) \/ Connect(c)
  PROVE  CallsFind'
<1>1. CASE Hide(c)
  <2>1. Removed(Place) \in DownMsg /\ Tells(Removed(Place), {c}) /\ UNCHANGED <<maker, under, phase, place, copies>>
    BY <1>1, HideDoes DEF client
  <2>2. Removed(Place).type # "call"
    BY DEF Removed
  <2> QED BY <2>1, <2>2, TellsTold, TellingFinds
<1>2. CASE Show(c)
  <2>1. /\ Shown(TRUE, Others(c, nodes)) \in DownMsg /\ Tells(Shown(TRUE, Others(c, nodes)), {c})
        /\ UNCHANGED <<maker, under, phase, place, copies>>
    BY <1>2, ShowDoes DEF client
  <2>2. Shown(TRUE, Others(c, nodes)).type # "call"
    BY DEF Shown
  <2> QED BY <2>1, <2>2, TellsTold, TellingFinds
<1>3. CASE Connect(c)
  <2> DEFINE m == Shown(TRUE, Others(c, nodes))
  <2>1. /\ c \notin Connected /\ UNCHANGED <<maker, under, phase, place, copies>>
        /\ down' = [down EXCEPT ![c] = <<m>>]
    BY <1>3 DEF Connect, Connected, client
  <2>2. m \in DownMsg /\ m.type # "call"
    <3>1. TRUE \in BOOLEAN /\ Others(c, nodes) \in SUBSET Scenes
      BY OthersScenes DEF TypesOK
    <3> QED BY <3>1, MadeMessages DEF Shown
  <2> HIDE DEF m
  <2>3. down[c] = <<>> /\ down'[c] = <<m>> /\ \A d \in Clients \ {c} : down'[d] = down[d]
    BY <2>1, CoreParts DEF NothingLeft, TypesOK
  <2>4. <<m>> = Append(<<>>, m)
    OBVIOUS
  <2>5. \A d \in Clients : IF d \in {c} THEN Told(d, m) ELSE Still(d)
    BY <2>1, <2>3, <2>4, HasKept DEF Told, Still
  <2> QED BY <2>1, <2>2, <2>5, TellingFinds
<1> QED BY <1>1, <1>2, <1>3

LEMMA FreeFinds ==
  ASSUME TypesOK, TypesOK', Core, CallsFind, NEW s \in Scenes, Free(s)
  PROVE  CallsFind'
<1>1. Removed(s) \in DownMsg /\ Tells(Removed(s), Observing(s)) /\ UNCHANGED <<maker, under, phase, place, copies>>
  BY FreeDoes DEF client
<1>2. Removed(s).type # "call"
  BY DEF Removed
<1> QED BY <1>1, <1>2, TellsTold, TellingFinds

LEMMA CallAllFinds ==
  ASSUME TypesOK, TypesOK', Core, CallsFind, NEW s \in Scenes, CallAll(s)
  PROVE  CallsFind'
<1> DEFINE m == FromServer(s)
           D == Observing(s)
<1>1. /\ m \in DownMsg /\ m.type = "call" /\ m.scene = s /\ s \in nodes
      /\ UNCHANGED <<maker, under, phase>> /\ \A d \in Clients : IF d \in D THEN Told(d, m) ELSE Still(d)
  <2>1. m \in DownMsg /\ Tells(m, D) /\ UNCHANGED <<maker, under, phase, place, copies>>
    BY CallAllDoes DEF client
  <2>2. s \in nodes
    BY DEF CallAll
  <2> QED BY <2>1, <2>2, TellsTold DEF FromServer, Calls
<1>2. ASSUME NEW d \in D
      PROVE  At(d, Len(down[d]), s) \/ (maker[s] = d /\ (phase[s] = "gone" \/ Knows(s)))
  <2>1. CASE s \in VisibleTo(d, nodes)
    <3>1. s \in Sees(d) /\ s \in Places /\ d \in Clients
      BY <2>1 DEF VisibleTo, Sees, Places, Connected
    <3> QED BY <3>1, CoreParts DEF ViewRight
  <2>2. CASE maker[s] = d
    BY <1>1, <2>2, CoreParts DEF NodesKnown
  <2> QED BY <2>1, <2>2 DEF Observing
<1>3. \A d : d \in Observing(s) <=> d \in D
  OBVIOUS
<1> HIDE DEF m, D
<1>4. ASSUME NEW d \in Clients PROVE FindsAt(d)'
  <2>1. FindsAt(d) /\ TreeKept /\ OwnKept(d)
    BY <1>1, TreeSame, OwnSame DEF CallsFind, FindsAt
  <2>2. CASE d \in D
    <3>0. Told(d, m)
      BY <1>1, <2>2
    <3>1. PICK n \in Nat : n = Len(down[d]) /\ Len(down'[d]) = n + 1 /\ down'[d][n + 1] = m
                           /\ \A i \in 1 .. n : down'[d][i] = down[d][i]
      BY <1>1, <3>0, ToldDoes DEF Told
    <3>2. At(d, n, s) => At(d, n, s)'
      <4>1. s \in Places /\ Up(s)' = Up(s)
        BY <1>1, UpSame DEF Places
      <4> QED BY <1>1, <3>0, <3>1, <4>1, AtTold
    <3>3. maker[s] = d /\ Knows(s) => phase[s] = "named" \/ (phase[s] = "asked" /\ HasIds(d, n, s)')
      BY <3>1 DEF Knows, HasIds, Ids
    <3>4. Finds(d, m, n)'
      BY <1>1, <1>2, <2>2, <3>1, <3>2, <3>3 DEF Finds
    <3>5. \A i \in n + 1 .. n + 1 : i = n + 1 /\ i - 1 = n
      OBVIOUS
    <3>6. \A i \in Len(down[d]) + 1 .. Len(down'[d]) : Finds(d, down[d][i], i - 1)'
      <4> SUFFICES ASSUME NEW i \in n + 1 .. n + 1 PROVE Finds(d, down[d][i], i - 1)'
        BY <3>1
      <4>1. i = n + 1 /\ i - 1 = n /\ down'[d][i] = m
        BY <3>1, <3>5
      <4> QED BY <3>4, <4>1 DEF Finds
    <3> QED BY <1>1, <2>1, <3>0, <3>6, FindsSame
  <2>3. CASE d \notin D
    BY <1>1, <2>1, <2>3, FindsStill
  <2> QED BY <2>2, <2>3
<1> QED BY <1>4 DEF CallsFind, FindsAt

LEMMA AcceptFinds ==
  ASSUME TypesOK, TypesOK', Core, CallsFind, ~ InReady, NEW c \in Clients, Accept(c)
  PROVE  CallsFind'
<1> DEFINE s == up[c][1].scene
           z == Named(up[c][1].token, s)
           m == Shown(FALSE, {s})
<1>1. /\ Quiet(c)
      /\ \A d \in Clients \ {c} : Told(d, m) \/ Still(d)
      /\ down'[c][Len(down'[c])] = z
      /\ \A i \in Len(down[c]) + 1 .. Len(down'[c]) : i # Len(down'[c]) => FALSE
  BY AcceptTells
<1>2. UNCHANGED <<maker, under, phase>> /\ s \in Scenes
  BY AcceptDoes, HandlesDoes DEF client
<1>3. m \in DownMsg /\ m.type # "call" /\ z.type # "call"
  <2>1. FALSE \in BOOLEAN /\ {s} \in SUBSET Scenes
    BY <1>2
  <2> QED BY <2>1, MadeMessages DEF Shown, Named
<1> HIDE DEF s, z, m
<1>4. ASSUME NEW d \in Clients PROVE FindsAt(d)'
  <2>1. FindsAt(d) /\ TreeKept /\ OwnKept(d)
    BY <1>2, TreeSame, OwnSame DEF CallsFind, FindsAt
  <2>2. CASE d = c
    <3>1. \A i \in Len(down[d]) + 1 .. Len(down'[d]) : Finds(d, down[d][i], i - 1)'
      BY <1>1, <1>3, <2>2 DEF Finds
    <3> QED BY <1>1, <2>1, <2>2, <3>1, FindsSame
  <2>3. CASE d # c
    BY <1>1, <1>3, <2>1, <2>3, FindsTold, FindsStill
  <2> QED BY <2>2, <2>3
<1> QED BY <1>4 DEF CallsFind, FindsAt

LEMMA RequestFinds ==
  ASSUME TypesOK, TypesOK', Core, CallsFind, NEW c \in Clients, NEW s \in Scenes, NEW p \in Scenes \cup {Place}, SentRequest(c, s, p)
  PROVE  CallsFind'
<1> DEFINE w == [scene |-> s, n |-> 0]
           m == Asks(Len(tokens[c]) + 1, s)
<1>0. /\ c \in Connected /\ c \notin polling /\ phase[s] = "new" /\ maker[s] = None /\ under[s] = None
      /\ p = Place => c \in place
      /\ p # Place => p \in Scenes /\ p # s /\ HasNode(c, p) /\ maker[p] # None
      /\ maker' = [maker EXCEPT ![s] = c] /\ under' = [under EXCEPT ![s] = p]
      /\ UNCHANGED <<status, hidden, nodes, unanswered, ident, polling, place, copies, down, made, heard>>
      /\ \A d \in Clients \ {c} : up'[d] = up[d] /\ waiting'[d] = waiting[d] /\ tokens'[d] = tokens[d]
      /\ \A x \in Scenes \ {s} : phase'[x] = phase[x]
      /\ \/ /\ p \in Scenes /\ maker[p] = c /\ phase[p] = "asked" /\ phase'[s] = "parent"
            /\ up'[c] = up[c] /\ tokens'[c] = tokens[c] /\ Grows1(waiting'[c], waiting[c], w)
         \/ /\ phase'[s] = "asked" /\ ~ (p # Place /\ maker[p] = c /\ phase[p] = "asked")
            /\ waiting'[c] = waiting[c] /\ Grows1(up'[c], up[c], m) /\ Grows1(tokens'[c], tokens[c], s)
  BY RequestDoes
<1> HIDE DEF w, m
<1>1. Makes(c, s, p)
  BY <1>0 DEF Makes
<1>2. TreeKept
  <2>1. /\ \A x \in Places \ {s} : Up(x)' = Up(x)
        /\ \A x \in Scenes \ {s} : maker'[x] = maker[x]
    BY <1>1, MakesView, MakesTree
  <2> QED BY <1>0, <2>1 DEF TreeKept, Places
<1>3. \A d \in Clients : OwnKept(d)
  BY <1>0 DEF OwnKept
<1>4. \A d \in Clients : Still(d)
  BY <1>0, HasKept DEF Still
<1> QED BY <1>2, <1>3, <1>4, QuietFinds

LEMMA ClientFinds ==
  ASSUME TypesOK, TypesOK', Core, CallsFind, NEW c \in Clients, NEW s \in Scenes, Call(c, s) \/ FreeOwn(c, s)
  PROVE  CallsFind'
<1>1. CASE Call(c, s)
  <2>1. UNCHANGED <<maker, under, phase, down, place, copies>>
    BY <1>1 DEF Call
  <2>2. \A d \in Clients : Still(d)
    BY <2>1, HasKept DEF Still
  <2> QED BY <2>1, <2>2, TreeSame, OwnSame, QuietFinds
<1>2. CASE FreeOwn(c, s)
  <2>1. UNCHANGED <<maker, under>> /\ \A x \in Scenes : phase'[x] = phase[x] \/ phase'[x] = "gone"
    BY <1>2 DEF FreeOwn, Without
  <2>2. \A d \in Clients : Still(d) /\ OwnKept(d)
    BY <1>2, <2>1, FreeOwnStill, CoreParts DEF OwnKept
  <2> QED BY <2>1, <2>2, TreeSame, QuietFinds
<1> QED BY <1>1, <1>2

LEMMA FrameFinds ==
  ASSUME TypesOK, TypesOK', Core, CallsFind, NEW c \in Clients, SentResume(c) \/ Ignore(c) \/ Run(c)
  PROVE  CallsFind'
<1>1. CASE Ignore(c) \/ Run(c)
  <2>1. UNCHANGED <<maker, under, phase, down, place, copies>>
    BY <1>1, HandlesDoes DEF Ignore, Run, client
  <2>2. \A d \in Clients : Still(d)
    BY <2>1, HasKept DEF Still
  <2> QED BY <2>1, <2>2, TreeSame, OwnSame, QuietFinds
<1>2. CASE SentResume(c)
  <2>1. /\ UNCHANGED <<maker, under, down, place, copies>>
        /\ \A x \in Scenes : phase'[x] = phase[x] \/ phase[x] = "parent"
    BY <1>2, ResumeHas DEF ResumeFacts
  <2>2. \A d \in Clients : Still(d) /\ OwnKept(d)
    BY <2>1, HasKept DEF Still, OwnKept
  <2> QED BY <2>1, <2>2, TreeSame, QuietFinds
<1> QED BY <1>1, <1>2

LEMMA DisconnectFinds ==
  ASSUME TypesOK, TypesOK', Core, CallsFind, NEW c \in Clients, Disconnect(c)
  PROVE  CallsFind'
<1>1. /\ UNCHANGED <<maker, under>> /\ Len(down'[c]) = 0
      /\ \A x \in Scenes : phase'[x] = IF maker[x] = c THEN "gone" ELSE phase[x]
      /\ \A d \in Clients \ {c} : /\ down'[d] = down[d] /\ copies'[d] = copies[d]
                                  /\ d \in place' <=> d \in place
  BY DisconnectDoes
<1>2. ASSUME NEW d \in Clients \ {c} PROVE FindsAt(d)'
  <2>1. FindsAt(d) /\ TreeKept /\ OwnKept(d)
    BY <1>1, TreeSame DEF CallsFind, FindsAt, OwnKept
  <2>2. Still(d)
    BY <1>1 DEF Still, HasSame, Has
  <2> QED BY <2>1, <2>2, FindsStill
<1>3. FindsAt(c)'
  BY <1>1 DEF FindsAt
<1> QED BY <1>2, <1>3 DEF CallsFind, FindsAt

LEMMA NextFinds ==
  ASSUME TypesOK, TypesOK', Core, ~ InReady, CallsFind, [SentNext]_vars
  PROVE  CallsFind'
<1>1. ASSUME NEW c \in Clients, NEW s \in Scenes, NEW p \in Scenes \cup {Place}, SentRequest(c, s, p) PROVE CallsFind'
  BY <1>1, RequestFinds
<1>2. ASSUME NEW c \in Clients, NEW s \in Scenes, Call(c, s) \/ FreeOwn(c, s) PROVE CallsFind'
  BY <1>2, ClientFinds
<1>3. ASSUME NEW c \in Clients, HearAdd(c) \/ HearRemove(c) \/ HearIds(c) \/ HearCall(c) PROVE CallsFind'
  <2>1. Heard(c)
    BY <1>3, HearAddHeard, HearRemoveHeard, HearIdsHeard, HearCallHeard
  <2>2. ASSUME NEW d \in Clients PROVE FindsAt(d)'
    <3>1. FindsAt(d)
      BY DEF CallsFind, FindsAt
    <3> QED BY <2>1, <3>1, FindsHeard
  <2> QED BY <2>2 DEF CallsFind, FindsAt
<1>4. ASSUME NEW c \in Clients, SentResume(c) \/ Ignore(c) \/ Run(c) PROVE CallsFind'
  BY <1>4, FrameFinds
<1>5. ASSUME NEW c \in Clients, Accept(c) PROVE CallsFind'
  BY <1>5, AcceptFinds
<1>6. ASSUME NEW c \in Clients, Disconnect(c) PROVE CallsFind'
  BY <1>6, DisconnectFinds
<1>7. ASSUME NEW s \in Scenes, CallAll(s) PROVE CallsFind'
  BY <1>7, CallAllFinds
<1>8. ASSUME NEW c \in Clients, Hide(c) \/ Show(c) \/ Connect(c) PROVE CallsFind'
  BY <1>8, ServerFinds
<1>9. ASSUME NEW s \in Scenes, Free(s) PROVE CallsFind'
  BY <1>9, FreeFinds
<1>10. CASE UNCHANGED vars
  <2>1. UNCHANGED <<maker, under, phase, down, place, copies>>
    BY <1>10 DEF vars, client
  <2>2. \A d \in Clients : Still(d)
    BY <2>1, HasKept DEF Still
  <2> QED BY <2>1, <2>2, TreeSame, OwnSame, QuietFinds
<1> QED BY <1>1, <1>2, <1>3, <1>4, <1>5, <1>6, <1>7, <1>8, <1>9, <1>10 DEF SentNext

LEMMA InitFinds == Init => CallsFind
<1> SUFFICES ASSUME Init PROVE CallsFind
  OBVIOUS
<1>1. \A c \in Clients : down[c] = <<>>
  BY DEF Init
<1>2. Len(<<>>) = 0
  OBVIOUS
<1> QED BY <1>1, <1>2 DEF CallsFind

\* When the server's nodes make no calls in _ready, a call of the server finds its
\* node (rpc, _accept_replication, get_observing_peers).
THEOREM AlwaysFound == ~ InReady => (Spec => []CallsFindTheirNode)
<1> SUFFICES ASSUME ~ InReady PROVE Spec => []CallsFindTheirNode
  OBVIOUS
<1>1. Init => (mayAsk => TypesOK /\ Core /\ CallsFind)
  BY TypesInit, InitCore, InitFinds
<1>2. (mayAsk => TypesOK /\ Core /\ CallsFind) /\ [Next]_vars => (mayAsk => TypesOK /\ Core /\ CallsFind)'
  <2> SUFFICES ASSUME mayAsk => TypesOK /\ Core /\ CallsFind, [Next]_vars, mayAsk'
               PROVE  TypesOK' /\ Core' /\ CallsFind'
    OBVIOUS
  <2>1. mayAsk
    BY DEF Next, vars
  <2> QED BY <2>1, WhenSent, TypesNext, NextCore, NextFinds
<1>3. ASSUME TypesOK, CallsFind PROVE CallsFindTheirNode
  <2> SUFFICES ASSUME NEW c \in Connected, down[c] # <<>>, Head(down[c]).type = "call"
               PROVE  LET s == Head(down[c]).scene
                      IN s \in copies[c] \/ (maker[s] = c /\ phase[s] \in {"named", "gone"})
    BY DEF CallsFindTheirNode
  <2>1. c \in Clients
    BY DEF Connected
  <2>2. down[c] \in Seq(DownMsg)
    BY <1>3, <2>1 DEF TypesOK
  <2>3. Head(down[c]) = down[c][1] /\ 1 \in 1 .. Len(down[c]) /\ 1 - 1 = 0
    BY <2>2
  <2>4. Finds(c, down[c][1], 0) /\ down[c][1] \in DownMsg
    BY <1>3, <2>1, <2>3, DownTypes DEF CallsFind
  <2>5. ~ HasIds(c, 0, down[c][1].scene)
    BY DEF HasIds
  <2>6. down[c][1].scene # Place
    BY <2>3, <2>4, DownKinds, NotAScene
  <2> QED BY <2>3, <2>4, <2>5, <2>6, AtNone DEF Finds, Has
<1>4. ASSUME TypesOK, Idle PROVE CallsFindTheirNode
  <2> SUFFICES ASSUME NEW c \in Connected, down[c] # <<>> PROVE Head(down[c]).type # "call"
    BY DEF CallsFindTheirNode
  <2>1. c \in Clients /\ down[c] \in Seq(DownMsg)
    BY <1>4 DEF Connected, TypesOK
  <2>2. Head(down[c]) = down[c][1] /\ 1 \in 1 .. Len(down[c])
    BY <2>1
  <2> QED BY <1>4, <2>1, <2>2 DEF Idle, Empty
<1>5. (TypesOK /\ IF mayAsk THEN Core ELSE Idle) /\ (mayAsk => TypesOK /\ Core /\ CallsFind) => CallsFindTheirNode
  BY <1>3, <1>4
<1> QED BY <1>1, <1>2, <1>5, CoreInvariant, PTL DEF Spec

(* The order of the calls on a node: u are the messages of its maker, v the       *)
(* coroutines that wait there, h calls were heard and l were made.                *)
WaitsAs(w, s, n) == w.scene = s /\ w.n = n
OnItsWay(u, s, n) == \E j \in 1 .. Len(u) : IsCall(u[j], s, n)

CallsUp(u, s, h) ==
  \A i \in 1 .. Len(u) : \A n \in Nat : IsCall(u[i], s, n) =>
    n > h /\ (n > h + 1 => \E j \in 1 .. i - 1 : IsCall(u[j], s, n - 1))
CallsWait(u, v, s, h) ==
  \A i \in 1 .. Len(v) : \A n \in Nat : n # 0 /\ WaitsAs(v[i], s, n) =>
    n > h /\ (n > h + 1 => OnItsWay(u, s, n - 1) \/ \E j \in 1 .. i - 1 : WaitsAs(v[j], s, n - 1))
NoneIsLost(u, v, s, h, l) ==
  \A n \in h + 1 .. l : OnItsWay(u, s, n) \/ \E j \in 1 .. Len(v) : WaitsAs(v[j], s, n)

Counts(s) == s \in nodes \/ phase[s] = "asked"
Active(s) == Counts(s) /\ phase[s] \in {"asked", "named"}
Ordered(s) ==
  /\ Len(heard[s]) <= made[s]
  /\ \A i \in 1 .. Len(heard[s]) : heard[s][i] = [from |-> s, n |-> i]
  /\ Counts(s) => CallsUp(up[maker[s]], s, Len(heard[s]))
  /\ Active(s) => /\ CallsWait(up[maker[s]], waiting[maker[s]], s, Len(heard[s]))
                  /\ NoneIsLost(up[maker[s]], waiting[maker[s]], s, Len(heard[s]), made[s])

LEMMA CountsMade ==
  ASSUME TypesOK, Core, NEW s \in Scenes, Counts(s)
  PROVE  maker[s] \in Clients
<1>1. maker[s] # None
  BY CoreParts DEF Counts, Tree
<1> QED BY <1>1 DEF TypesOK

\* Messages that are sent after the others.
LEMMA UpMore ==
  ASSUME NEW u, NEW q, NEW s, NEW h \in Nat, Len(u) \in Nat, Len(q) \in Nat,
         \A i \in 1 .. Len(u) : i \in 1 .. Len(q) /\ q[i] = u[i], CallsUp(u, s, h),
         \A i \in 1 .. Len(q) : i \in 1 .. Len(u) \/
           \A n \in Nat : IsCall(q[i], s, n) => n > h /\ (n > h + 1 => OnItsWay(u, s, n - 1) \/ \E j \in 1 .. i - 1 : IsCall(q[j], s, n - 1))
  PROVE  CallsUp(q, s, h) /\ \A n : OnItsWay(u, s, n) => OnItsWay(q, s, n)
<1>1. \A n : OnItsWay(u, s, n) => OnItsWay(q, s, n)
  BY DEF OnItsWay
<1>2. ASSUME NEW i \in 1 .. Len(q), NEW n \in Nat, IsCall(q[i], s, n)
      PROVE  n > h /\ (n > h + 1 => \E j \in 1 .. i - 1 : IsCall(q[j], s, n - 1))
  <2>1. CASE i \in 1 .. Len(u)
    <3>1. n > h /\ (n > h + 1 => \E j \in 1 .. i - 1 : IsCall(u[j], s, n - 1))
      BY <1>2, <2>1 DEF CallsUp
    <3>2. \A j \in 1 .. i - 1 : q[j] = u[j]
      BY <2>1
    <3> QED BY <3>1, <3>2
  <2>2. CASE i \notin 1 .. Len(u)
    <3>1. n > h /\ (n > h + 1 => OnItsWay(u, s, n - 1) \/ \E j \in 1 .. i - 1 : IsCall(q[j], s, n - 1))
      BY <1>2, <2>2
    <3>2. \A j \in 1 .. Len(u) : j \in 1 .. i - 1 /\ q[j] = u[j]
      BY <2>2
    <3> QED BY <3>1, <3>2 DEF OnItsWay
  <2> QED BY <2>1, <2>2
<1> QED BY <1>1, <1>2 DEF CallsUp

\* Coroutines that wait after the others.
LEMMA WaitMore ==
  ASSUME NEW u, NEW q, NEW v, NEW r, NEW s, NEW h \in Nat, Len(v) \in Nat, Len(r) \in Nat,
         \A i \in 1 .. Len(v) : i \in 1 .. Len(r) /\ r[i] = v[i], CallsWait(u, v, s, h),
         \A n : OnItsWay(u, s, n) => OnItsWay(q, s, n),
         \A i \in 1 .. Len(r) : i \in 1 .. Len(v) \/
           \A n \in Nat : n # 0 /\ WaitsAs(r[i], s, n) =>
             n > h /\ (n > h + 1 => OnItsWay(u, s, n - 1) \/ \E j \in 1 .. Len(v) : WaitsAs(v[j], s, n - 1))
  PROVE  CallsWait(q, r, s, h)
<1> SUFFICES ASSUME NEW i \in 1 .. Len(r), NEW n \in Nat, n # 0, WaitsAs(r[i], s, n)
             PROVE  n > h /\ (n > h + 1 => OnItsWay(q, s, n - 1) \/ \E j \in 1 .. i - 1 : WaitsAs(r[j], s, n - 1))
  BY DEF CallsWait
<1>1. CASE i \in 1 .. Len(v)
  <2>1. n > h /\ (n > h + 1 => OnItsWay(u, s, n - 1) \/ \E j \in 1 .. i - 1 : WaitsAs(v[j], s, n - 1))
    BY <1>1 DEF CallsWait
  <2>2. \A j \in 1 .. i - 1 : r[j] = v[j]
    BY <1>1
  <2> QED BY <2>1, <2>2
<1>2. CASE i \notin 1 .. Len(v)
  <2>1. n > h /\ (n > h + 1 => OnItsWay(u, s, n - 1) \/ \E j \in 1 .. Len(v) : WaitsAs(v[j], s, n - 1))
    BY <1>2
  <2>2. \A j \in 1 .. Len(v) : j \in 1 .. i - 1 /\ r[j] = v[j]
    BY <1>2
  <2> QED BY <2>1, <2>2
<1> QED BY <1>1, <1>2

LEMMA LostMore ==
  ASSUME NEW u, NEW q, NEW v, NEW r, NEW s, NEW h, NEW l,
         \A i \in 1 .. Len(v) : i \in 1 .. Len(r) /\ r[i] = v[i], NoneIsLost(u, v, s, h, l),
         \A n : OnItsWay(u, s, n) => OnItsWay(q, s, n)
  PROVE  NoneIsLost(q, r, s, h, l)
BY DEF NoneIsLost

\* One message is handled. It is no call on s that is heard.
LEMMA UpLess ==
  ASSUME NEW u, NEW q, NEW v, NEW s, NEW h \in Nat, NEW l, Drops(q, u), Len(q) \in Nat, CallsUp(u, s, h), \A n : ~ IsCall(u[1], s, n)
  PROVE  /\ CallsUp(q, s, h)
         /\ CallsWait(u, v, s, h) => CallsWait(q, v, s, h)
         /\ NoneIsLost(u, v, s, h, l) => NoneIsLost(q, v, s, h, l)
<1>1. \A n : OnItsWay(u, s, n) => OnItsWay(q, s, n)
  <2> SUFFICES ASSUME NEW n, NEW j \in 1 .. Len(u), IsCall(u[j], s, n)
               PROVE  OnItsWay(q, s, n)
    BY DEF OnItsWay
  <2>1. j # 1
    OBVIOUS
  <2>2. j - 1 \in 1 .. Len(q) /\ q[j - 1] = u[j]
    BY <2>1 DEF Drops
  <2> QED BY <2>2 DEF OnItsWay
<1>2. CallsUp(q, s, h)
  <2> SUFFICES ASSUME NEW i \in 1 .. Len(q), NEW n \in Nat, IsCall(q[i], s, n)
               PROVE  n > h /\ (n > h + 1 => \E j \in 1 .. i - 1 : IsCall(q[j], s, n - 1))
    BY DEF CallsUp
  <2>1. i + 1 \in 1 .. Len(u) /\ q[i] = u[i + 1]
    BY DEF Drops
  <2>2. n > h /\ (n > h + 1 => \E j \in 1 .. (i + 1) - 1 : IsCall(u[j], s, n - 1))
    BY <2>1 DEF CallsUp
  <2>3. ASSUME NEW j \in 1 .. (i + 1) - 1, IsCall(u[j], s, n - 1)
        PROVE  j - 1 \in 1 .. i - 1 /\ q[j - 1] = u[j]
    <3>1. j # 1
      BY <2>3
    <3> QED BY <3>1, <2>3 DEF Drops
  <2> QED BY <2>2, <2>3
<1>3. CallsWait(u, v, s, h) => CallsWait(q, v, s, h)
  BY <1>1 DEF CallsWait
<1>4. NoneIsLost(u, v, s, h, l) => NoneIsLost(q, v, s, h, l)
  BY <1>1 DEF NoneIsLost
<1> QED BY <1>2, <1>3, <1>4

\* It is the call that comes next.
LEMMA UpHeard ==
  ASSUME NEW u, NEW q, NEW v, NEW s, NEW h \in Nat, NEW l \in Nat, Drops(q, u), Len(q) \in Nat, CallsUp(u, s, h), IsCall(u[1], s, h + 1),
         \A i \in 1 .. Len(u) : i # 1 => ~ IsCall(u[i], s, h + 1),
         \A i \in 1 .. Len(v) : ~ WaitsAs(v[i], s, h + 1)
  PROVE  /\ CallsUp(q, s, h + 1)
         /\ CallsWait(u, v, s, h) => CallsWait(q, v, s, h + 1)
         /\ NoneIsLost(u, v, s, h, l) => NoneIsLost(q, v, s, h + 1, l)
<1>1. \A n : OnItsWay(u, s, n) /\ n # h + 1 => OnItsWay(q, s, n)
  <2> SUFFICES ASSUME NEW n, NEW j \in 1 .. Len(u), IsCall(u[j], s, n), n # h + 1
               PROVE  OnItsWay(q, s, n)
    BY DEF OnItsWay
  <2>1. j # 1
    BY DEF IsCall
  <2>2. j - 1 \in 1 .. Len(q) /\ q[j - 1] = u[j]
    BY <2>1 DEF Drops
  <2> QED BY <2>2 DEF OnItsWay
<1>2. CallsUp(q, s, h + 1)
  <2> SUFFICES ASSUME NEW i \in 1 .. Len(q), NEW n \in Nat, IsCall(q[i], s, n)
               PROVE  n > h + 1 /\ (n > (h + 1) + 1 => \E j \in 1 .. i - 1 : IsCall(q[j], s, n - 1))
    BY DEF CallsUp
  <2>1. i + 1 \in 1 .. Len(u) /\ q[i] = u[i + 1]
    BY DEF Drops
  <2>2. n > h /\ (n > h + 1 => \E j \in 1 .. (i + 1) - 1 : IsCall(u[j], s, n - 1))
    BY <2>1 DEF CallsUp
  <2>3. n # h + 1
    BY <2>1
  <2>4. ASSUME NEW j \in 1 .. (i + 1) - 1, IsCall(u[j], s, n - 1), n > (h + 1) + 1
        PROVE  j - 1 \in 1 .. i - 1 /\ q[j - 1] = u[j]
    <3>1. j # 1
      BY <2>4 DEF IsCall
    <3>2. j - 1 \in 1 .. i - 1 /\ j - 1 \in 1 .. Len(q) /\ (j - 1) + 1 = j
      BY <3>1, <2>4
    <3> QED BY <3>2 DEF Drops
  <2> QED BY <2>2, <2>3, <2>4
<1>3. CallsWait(u, v, s, h) => CallsWait(q, v, s, h + 1)
  <2> SUFFICES ASSUME CallsWait(u, v, s, h), NEW i \in 1 .. Len(v), NEW n \in Nat, n # 0, WaitsAs(v[i], s, n)
               PROVE  n > h + 1 /\ (n > (h + 1) + 1 => OnItsWay(q, s, n - 1) \/ \E j \in 1 .. i - 1 : WaitsAs(v[j], s, n - 1))
    BY DEF CallsWait
  <2>1. n > h /\ (n > h + 1 => OnItsWay(u, s, n - 1) \/ \E j \in 1 .. i - 1 : WaitsAs(v[j], s, n - 1))
    BY DEF CallsWait
  <2>2. n # h + 1
    OBVIOUS
  <2>3. n > (h + 1) + 1 /\ OnItsWay(u, s, n - 1) => OnItsWay(q, s, n - 1)
    BY <1>1
  <2> QED BY <2>1, <2>2, <2>3
<1>4. NoneIsLost(u, v, s, h, l) => NoneIsLost(q, v, s, h + 1, l)
  BY <1>1 DEF NoneIsLost
<1> QED BY <1>2, <1>3, <1>4

\* Nothing changes for s, or it stops to count.
LEMMA OrderSame ==
  ASSUME TypesOK, Core, NEW s \in Scenes, Ordered(s), UNCHANGED <<maker, made, heard>>,
         nodes' \subseteq nodes, phase'[s] \in {phase[s], "gone"} \/ (phase[s] = "asked" /\ phase'[s] = "named"),
         \A c \in Clients : (up'[c] = up[c] /\ waiting'[c] = waiting[c])
                              \/ (Len(up'[c]) = 0 /\ (maker[s] = c => phase'[s] = "gone"))
  PROVE  Ordered(s)'
<1> DEFINE c == maker[s]
           h == Len(heard[s])
<1>1. /\ h <= made[s] /\ \A i \in 1 .. h : heard[s][i] = [from |-> s, n |-> i]
      /\ Counts(s) => CallsUp(up[c], s, h)
      /\ Active(s) => CallsWait(up[c], waiting[c], s, h) /\ NoneIsLost(up[c], waiting[c], s, h, made[s])
  BY DEF Ordered
<1>2. (Counts(s)' => Counts(s)) /\ (Active(s)' => Active(s))
  BY DEF Counts, Active
<1>3. Counts(s)' => CallsUp(up'[c], s, h)
  <2> SUFFICES ASSUME Counts(s)' PROVE CallsUp(up'[c], s, h)
    OBVIOUS
  <2>1. c \in Clients
    BY <1>2, CountsMade
  <2>2. CASE up'[c] = up[c]
    BY <1>1, <1>2, <2>2
  <2>3. CASE Len(up'[c]) = 0
    BY <2>3 DEF CallsUp
  <2> QED BY <2>1, <2>2, <2>3
<1>4. Active(s)' => CallsWait(up'[c], waiting'[c], s, h) /\ NoneIsLost(up'[c], waiting'[c], s, h, made[s])
  <2> SUFFICES ASSUME Active(s)' PROVE CallsWait(up'[c], waiting'[c], s, h) /\ NoneIsLost(up'[c], waiting'[c], s, h, made[s])
    OBVIOUS
  <2>1. c \in Clients /\ Active(s)
    BY <1>2, CountsMade DEF Active
  <2>2. phase'[s] # "gone"
    BY DEF Active
  <2>3. up'[c] = up[c] /\ waiting'[c] = waiting[c]
    BY <2>1, <2>2
  <2> QED BY <1>1, <2>1, <2>3
<1> QED BY <1>1, <1>3, <1>4 DEF Ordered

\* It begins to count.
LEMMA OrderNew ==
  ASSUME TypesOK, TypesOK', NEW s \in Scenes, made'[s] = 0, heard'[s] = <<>>,
         \A i \in 1 .. Len(up'[maker'[s]]) : \A n : ~ IsCall(up'[maker'[s]][i], s, n),
         \A i \in 1 .. Len(waiting'[maker'[s]]) : \A n : n # 0 => ~ WaitsAs(waiting'[maker'[s]][i], s, n)
  PROVE  Ordered(s)'
<1>1. Len(heard'[s]) = 0
  OBVIOUS
<1>2. CallsUp(up'[maker'[s]], s, 0) /\ CallsWait(up'[maker'[s]], waiting'[maker'[s]], s, 0)
  BY DEF CallsUp, CallsWait
<1>3. NoneIsLost(up'[maker'[s]], waiting'[maker'[s]], s, 0, 0)
  BY DEF NoneIsLost
<1> QED BY <1>1, <1>2, <1>3 DEF Ordered

\* The maker sends or starts something else.
LEMMA OrderOther ==
  ASSUME TypesOK, TypesOK', Core, NEW c \in Clients, NEW s \in Scenes, Ordered(s), maker'[s] = maker[s], made'[s] = made[s], heard'[s] = heard[s],
         nodes' = nodes, phase'[s] = phase[s],
         \A d \in Clients \ {c} : up'[d] = up[d] /\ waiting'[d] = waiting[d],
         \A i \in 1 .. Len(up[c]) : i \in 1 .. Len(up'[c]) /\ up'[c][i] = up[c][i],
         \A i \in 1 .. Len(waiting[c]) : i \in 1 .. Len(waiting'[c]) /\ waiting'[c][i] = waiting[c][i],
         \A i \in 1 .. Len(up'[c]) : i \in 1 .. Len(up[c]) \/ \A n : ~ IsCall(up'[c][i], s, n),
         \A i \in 1 .. Len(waiting'[c]) : i \in 1 .. Len(waiting[c]) \/ \A n : n # 0 => ~ WaitsAs(waiting'[c][i], s, n)
  PROVE  Ordered(s)'
<1> DEFINE h == Len(heard[s])
<1>1. /\ h <= made[s] /\ \A i \in 1 .. h : heard[s][i] = [from |-> s, n |-> i]
      /\ Counts(s) => CallsUp(up[maker[s]], s, h)
      /\ Active(s) => CallsWait(up[maker[s]], waiting[maker[s]], s, h) /\ NoneIsLost(up[maker[s]], waiting[maker[s]], s, h, made[s])
      /\ h \in Nat
  <2>1. h \in Nat
    <3>1. heard[s] \in Seq([from : Scenes \cup {None}, n : Nat])
      BY DEF TypesOK
    <3> QED BY ONLY <3>1
  <2> QED BY ONLY Ordered(s), <2>1 DEF Ordered
<1>2. (Counts(s)' => Counts(s)) /\ (Active(s)' => Active(s))
  BY DEF Counts, Active
<1> HIDE DEF h
<1>3. CASE maker[s] = c
  <2>1. /\ Len(up[c]) \in Nat /\ Len(waiting[c]) \in Nat
        /\ Len(up'[c]) \in Nat /\ Len(waiting'[c]) \in Nat
    BY DEF TypesOK
  <2>2. CallsUp(up[c], s, h) => CallsUp(up'[c], s, h)
    BY <1>1, <2>1, UpMore
  <2>3. \A n : OnItsWay(up[c], s, n) => OnItsWay(up'[c], s, n)
    BY DEF OnItsWay
  <2>4. CallsWait(up[c], waiting[c], s, h) => CallsWait(up'[c], waiting'[c], s, h)
    BY <1>1, <2>1, <2>3, WaitMore
  <2>5. NoneIsLost(up[c], waiting[c], s, h, made[s]) => NoneIsLost(up'[c], waiting'[c], s, h, made[s])
    BY <2>3, LostMore
  <2> QED BY <1>1, <1>2, <1>3, <2>2, <2>4, <2>5 DEF Ordered, h
<1>4. CASE maker[s] # c
  <2>1. Counts(s) => maker[s] \in Clients \ {c}
    BY <1>4, CountsMade
  <2> QED BY <1>1, <1>2, <2>1 DEF Ordered, h, Active
<1> QED BY <1>3, <1>4

LEMMA OrderRequest ==
  ASSUME TypesOK, TypesOK', Core, NEW c \in Clients, NEW s \in Scenes, NEW p \in Scenes \cup {Place}, SentRequest(c, s, p),
         NEW x \in Scenes, Ordered(x)
  PROVE  Ordered(x)'
<1> DEFINE w == [scene |-> s, n |-> 0]
           m == Asks(Len(tokens[c]) + 1, s)
<1>1. /\ c \in Connected /\ c \notin polling /\ phase[s] = "new" /\ maker[s] = None /\ under[s] = None
      /\ p = Place => c \in place
      /\ p # Place => p \in Scenes /\ p # s /\ HasNode(c, p) /\ maker[p] # None
      /\ maker' = [maker EXCEPT ![s] = c] /\ under' = [under EXCEPT ![s] = p]
      /\ UNCHANGED <<status, hidden, nodes, unanswered, ident, polling, place, copies, down, made, heard>>
      /\ \A d \in Clients \ {c} : up'[d] = up[d] /\ waiting'[d] = waiting[d] /\ tokens'[d] = tokens[d]
      /\ \A y \in Scenes \ {s} : phase'[y] = phase[y]
      /\ \/ /\ p \in Scenes /\ maker[p] = c /\ phase[p] = "asked" /\ phase'[s] = "parent"
            /\ up'[c] = up[c] /\ tokens'[c] = tokens[c] /\ Grows1(waiting'[c], waiting[c], w)
         \/ /\ phase'[s] = "asked" /\ ~ (p # Place /\ maker[p] = c /\ phase[p] = "asked")
            /\ waiting'[c] = waiting[c] /\ Grows1(up'[c], up[c], m) /\ Grows1(tokens'[c], tokens[c], s)
  BY RequestDoes
<1>0. w.n = 0 /\ m.type = "request"
  BY DEF Asks
<1> HIDE DEF w, m
<1>2. /\ \A i \in 1 .. Len(up[c]) : i \in 1 .. Len(up'[c]) /\ up'[c][i] = up[c][i]
      /\ \A i \in 1 .. Len(up'[c]) : i \in 1 .. Len(up[c]) \/ up'[c][i] = m
      /\ \A i \in 1 .. Len(waiting[c]) : i \in 1 .. Len(waiting'[c]) /\ waiting'[c][i] = waiting[c][i]
      /\ \A i \in 1 .. Len(waiting'[c]) : i \in 1 .. Len(waiting[c]) \/ waiting'[c][i] = w
  BY <1>1, GrownBy, LenNat
<1>3. /\ \A i \in 1 .. Len(up'[c]) : i \in 1 .. Len(up[c]) \/ \A y, n : ~ IsCall(up'[c][i], y, n)
      /\ \A i \in 1 .. Len(waiting'[c]) : i \in 1 .. Len(waiting[c]) \/ \A y, n : n # 0 => ~ WaitsAs(waiting'[c][i], y, n)
  BY <1>0, <1>2 DEF IsCall, WaitsAs
<1>4. CASE x = s
  <2>1. maker'[s] = c /\ made'[s] = 0 /\ heard'[s] = <<>>
    BY <1>1, CoreParts DEF TypesOK, NoneYet
  <2>2. /\ \A d \in Clients : \A i \in 1 .. Len(up[d]) :
             ~ Req(up[d][i], s) /\ (up[d][i].type = "call" => up[d][i].from # s)
        /\ \A d \in Clients : \A i \in 1 .. Len(waiting[d]) : waiting[d][i].scene # s
    BY <1>1, NotMade
  <2>3. /\ \A i \in 1 .. Len(up'[c]) : \A n : ~ IsCall(up'[c][i], s, n)
        /\ \A i \in 1 .. Len(waiting'[c]) : \A n : n # 0 => ~ WaitsAs(waiting'[c][i], s, n)
    <3>1. ASSUME NEW i \in 1 .. Len(up'[c]), NEW n PROVE ~ IsCall(up'[c][i], s, n)
      <4>1. CASE i \in 1 .. Len(up[c])
        BY <1>2, <2>2, <4>1 DEF IsCall
      <4> QED BY <1>3, <4>1
    <3>2. ASSUME NEW i \in 1 .. Len(waiting'[c]), NEW n, n # 0 PROVE ~ WaitsAs(waiting'[c][i], s, n)
      <4>1. CASE i \in 1 .. Len(waiting[c])
        BY <1>2, <2>2, <4>1 DEF WaitsAs
      <4> QED BY <1>3, <3>2, <4>1
    <3> QED BY <3>1, <3>2
  <2> QED BY <1>4, <2>1, <2>3, OrderNew
<1>5. CASE x # s
  <2>1. maker'[x] = maker[x] /\ phase'[x] = phase[x]
    BY <1>1, <1>5 DEF TypesOK
  <2> QED BY <1>1, <1>2, <1>3, <2>1, OrderOther
<1> QED BY <1>4, <1>5

\* The calls of a frame in which messages are handled are the only ones that can
\* come before those that wait.
LEMMA OrderCall ==
  ASSUME TypesOK, TypesOK', Core, ~ Handlers, NEW c \in Clients, NEW s \in Scenes, Call(c, s), NEW x \in Scenes, Ordered(x)
  PROVE  Ordered(x)'
<1> DEFINE w == [scene |-> s, n |-> made[s] + 1]
           m == Calls(s, s, made[s] + 1)
<1>1. /\ c \in Connected /\ maker[s] = c /\ made' = [made EXCEPT ![s] = @ + 1]
      /\ UNCHANGED <<server, maker, under, phase, ident, tokens, polling, place, copies, down, heard>>
      /\ \A d \in Clients \ {c} : up'[d] = up[d] /\ waiting'[d] = waiting[d]
      /\ \/ phase[s] = "asked" /\ up'[c] = up[c] /\ Grows1(waiting'[c], waiting[c], w)
         \/ phase[s] = "named" /\ waiting'[c] = waiting[c] /\ Grows1(up'[c], up[c], m)
  BY CallDoes
<1>0. w.scene = s /\ w.n = made[s] + 1 /\ m.type = "call" /\ m.scene = s /\ m.from = s /\ m.n = made[s] + 1
  BY DEF Calls
<1>2. nodes' = nodes /\ c \notin polling
  BY <1>1 DEF server, Call
<1> HIDE DEF w, m
<1>3. /\ \A i \in 1 .. Len(up[c]) : i \in 1 .. Len(up'[c]) /\ up'[c][i] = up[c][i]
      /\ \A i \in 1 .. Len(up'[c]) : i \in 1 .. Len(up[c]) \/ (up'[c][i] = m /\ phase[s] = "named")
      /\ \A i \in 1 .. Len(waiting[c]) : i \in 1 .. Len(waiting'[c]) /\ waiting'[c][i] = waiting[c][i]
      /\ \A i \in 1 .. Len(waiting'[c]) : i \in 1 .. Len(waiting[c]) \/ (waiting'[c][i] = w /\ phase[s] = "asked")
  BY <1>1, GrownBy, LenNat
<1>4. CASE x # s
  <2>1. /\ \A i \in 1 .. Len(up'[c]) : i \in 1 .. Len(up[c]) \/ \A n : ~ IsCall(up'[c][i], x, n)
        /\ \A i \in 1 .. Len(waiting'[c]) : i \in 1 .. Len(waiting[c]) \/ \A n : n # 0 => ~ WaitsAs(waiting'[c][i], x, n)
    BY <1>0, <1>3, <1>4 DEF IsCall, WaitsAs
  <2>2. made'[x] = made[x] /\ maker'[x] = maker[x] /\ heard'[x] = heard[x] /\ phase'[x] = phase[x]
    BY <1>1, <1>4 DEF TypesOK
  <2> QED BY <1>1, <1>2, <1>3, <2>1, <2>2, OrderOther
<1>5. CASE x = s
  <2> DEFINE h == Len(heard[s])
             l == made[s]
             u == up[c]
             v == waiting[c]
  <2>1. /\ h <= l /\ \A i \in 1 .. h : heard[s][i] = [from |-> s, n |-> i]
        /\ Counts(s) => CallsUp(u, s, h)
        /\ Active(s) => CallsWait(u, v, s, h) /\ NoneIsLost(u, v, s, h, l)
        /\ h \in Nat /\ l \in Nat /\ made'[s] = l + 1
    BY <1>1, <1>5 DEF Ordered, TypesOK
  <2>2. /\ Len(u) \in Nat /\ Len(v) \in Nat
        /\ Len(up'[c]) \in Nat /\ Len(waiting'[c]) \in Nat
    <3>1. Len(u) \in Nat /\ Len(v) \in Nat
      BY LenNat
    <3>2. up'[c] \in Seq(UpMsg) /\ waiting'[c] \in Seq(Coroutine)
      BY DEF TypesOK
    <3> QED BY <3>1, <3>2
  <2>3. (Counts(s)' <=> Counts(s)) /\ (Active(s)' <=> Active(s)) /\ (Active(s) <=> Counts(s))
    BY <1>1, <1>2 DEF Counts, Active
  <2>4. maker'[s] = c /\ heard'[s] = heard[s]
    BY <1>1
  <2> HIDE DEF h, l, u, v
  <2>5. ASSUME Active(s)
        PROVE  /\ CallsUp(up'[c], s, h) /\ CallsWait(up'[c], waiting'[c], s, h)
               /\ NoneIsLost(up'[c], waiting'[c], s, h, l + 1)
    <3>1. /\ CallsUp(u, s, h) /\ CallsWait(u, v, s, h) /\ NoneIsLost(u, v, s, h, l)
          /\ l + 1 > h
          /\ l + 1 > h + 1 => OnItsWay(u, s, l) \/ \E j \in 1 .. Len(v) : WaitsAs(v[j], s, l)
      <4>1. CallsUp(u, s, h) /\ CallsWait(u, v, s, h) /\ NoneIsLost(u, v, s, h, l)
        BY <2>1, <2>3, <2>5
      <4>2. l + 1 > h + 1 => l \in h + 1 .. l
        BY <2>1
      <4> QED BY <2>1, <4>1, <4>2 DEF NoneIsLost
    <3>2. CASE phase[s] = "asked"
      <4>1. up'[c] = u
        BY <1>1, <3>2 DEF u
      <4>2. \A i \in 1 .. Len(waiting'[c]) : i \in 1 .. Len(v) \/
              \A n \in Nat : n # 0 /\ WaitsAs(waiting'[c][i], s, n) =>
                n > h /\ (n > h + 1 => OnItsWay(u, s, n - 1) \/ \E j \in 1 .. Len(v) : WaitsAs(v[j], s, n - 1))
        <5> SUFFICES ASSUME NEW i \in 1 .. Len(waiting'[c]), i \notin 1 .. Len(v), NEW n \in Nat, n # 0, WaitsAs(waiting'[c][i], s, n)
                     PROVE  n > h /\ (n > h + 1 => OnItsWay(u, s, n - 1) \/ \E j \in 1 .. Len(v) : WaitsAs(v[j], s, n - 1))
          OBVIOUS
        <5>1. n = l + 1
          BY <1>0, <1>3 DEF WaitsAs, v, l
        <5>2. n - 1 = l
          BY <2>1, <5>1
        <5> QED BY <3>1, <5>1, <5>2
      <4>3. \A i \in 1 .. Len(v) : i \in 1 .. Len(waiting'[c]) /\ waiting'[c][i] = v[i]
        BY <1>3 DEF v
      <4>4. CallsWait(u, waiting'[c], s, h)
        BY <2>1, <2>2, <3>1, <4>2, <4>3, WaitMore
      <4>5. NoneIsLost(u, waiting'[c], s, h, l)
        BY <3>1, <4>3, LostMore
      <4>6. Len(v) + 1 \in 1 .. Len(waiting'[c]) /\ WaitsAs(waiting'[c][Len(v) + 1], s, l + 1)
        BY <1>0, <1>1, <2>2, <3>2 DEF Grows1, WaitsAs, v, l
      <4>7. \A n \in h + 1 .. l + 1 : n \in h + 1 .. l \/ n = l + 1
        BY <2>1
      <4>8. NoneIsLost(u, waiting'[c], s, h, l + 1)
        BY <4>5, <4>6, <4>7 DEF NoneIsLost
      <4> QED BY <3>1, <4>1, <4>4, <4>8
    <3>3. CASE phase[s] = "named"
      <4>1. waiting'[c] = v
        BY <1>1, <3>3 DEF v
      <4>2. ASSUME l + 1 > h + 1 PROVE OnItsWay(u, s, l)
        <5> SUFFICES ASSUME NEW j \in 1 .. Len(v), WaitsAs(v[j], s, l) PROVE FALSE
          BY <3>1, <4>2
        <5>1. v[j].scene = s /\ v[j].n = l /\ l > 0
          BY <2>1, <4>2 DEF WaitsAs
        <5>2. Resumes(v[j])
          BY <3>3, <5>1 DEF Resumes
        <5>3. phase[s] = "gone"
          BY <1>2, <5>1, <5>2, CoreParts DEF StillWait, v
        <5> QED BY <3>3, <5>3
      <4>3. \A i \in 1 .. Len(up'[c]) : i \in 1 .. Len(u) \/
              \A n \in Nat : IsCall(up'[c][i], s, n) =>
                n > h /\ (n > h + 1 => OnItsWay(u, s, n - 1) \/ \E j \in 1 .. i - 1 : IsCall(up'[c][j], s, n - 1))
        <5> SUFFICES ASSUME NEW i \in 1 .. Len(up'[c]), i \notin 1 .. Len(u), NEW n \in Nat, IsCall(up'[c][i], s, n)
                     PROVE  n > h /\ (n > h + 1 => OnItsWay(u, s, n - 1))
          OBVIOUS
        <5>1. n = l + 1
          BY <1>0, <1>3 DEF IsCall, u, l
        <5>2. n - 1 = l
          BY <2>1, <5>1
        <5> QED BY <3>1, <4>2, <5>1, <5>2
      <4>4. \A i \in 1 .. Len(u) : i \in 1 .. Len(up'[c]) /\ up'[c][i] = u[i]
        BY <1>3 DEF u
      <4>5. CallsUp(up'[c], s, h) /\ \A n : OnItsWay(u, s, n) => OnItsWay(up'[c], s, n)
        BY <2>1, <2>2, <3>1, <4>3, <4>4, UpMore
      <4>6. CallsWait(up'[c], v, s, h) /\ NoneIsLost(up'[c], v, s, h, l)
        BY <3>1, <4>5 DEF CallsWait, NoneIsLost
      <4>7. OnItsWay(up'[c], s, l + 1)
        <5>1. Len(u) + 1 \in 1 .. Len(up'[c]) /\ IsCall(up'[c][Len(u) + 1], s, l + 1)
          BY <1>0, <1>1, <2>2, <3>3 DEF Grows1, IsCall, u, l
        <5> QED BY <5>1 DEF OnItsWay
      <4>8. \A n \in h + 1 .. l + 1 : n \in h + 1 .. l \/ n = l + 1
        BY <2>1
      <4>9. NoneIsLost(up'[c], v, s, h, l + 1)
        BY <4>6, <4>7, <4>8 DEF NoneIsLost
      <4> QED BY <4>1, <4>5, <4>6, <4>9
    <3> QED BY <2>5, <3>2, <3>3 DEF Active
  <2>6. h <= l + 1
    BY <2>1
  <2> QED BY <1>5, <2>1, <2>3, <2>4, <2>5, <2>6 DEF Ordered, h
<1> QED BY <1>4, <1>5

\* A message of the maker, no call on s, is handled.
LEMMA OrderHandles ==
  ASSUME TypesOK, TypesOK', Core, NEW c \in Clients, Handles(c), NEW s \in Scenes, Ordered(s), heard'[s] = heard[s],
         Counts(s)' => Counts(s), \A n : ~ IsCall(up[c][1], s, n)
  PROVE  Ordered(s)'
<1> DEFINE h == Len(heard[s])
<1>1. /\ h <= made[s] /\ \A i \in 1 .. h : heard[s][i] = [from |-> s, n |-> i]
      /\ Counts(s) => CallsUp(up[maker[s]], s, h)
      /\ Active(s) => CallsWait(up[maker[s]], waiting[maker[s]], s, h) /\ NoneIsLost(up[maker[s]], waiting[maker[s]], s, h, made[s])
  BY DEF Ordered
<1>2. /\ UNCHANGED <<maker, made, phase, waiting>> /\ Drops(up'[c], up[c]) /\ \A d \in Clients \ {c} : up'[d] = up[d]
  BY HandlesDoes, HandlesUp
<1>6. h \in Nat /\ Len(up'[c]) \in Nat
  BY DEF TypesOK
<1>3. Active(s)' => Active(s) /\ Counts(s)
  BY <1>2 DEF Active
<1> HIDE DEF h
<1>4. CASE maker[s] = c
  <2>1. CallsUp(up[c], s, h) =>
          /\ CallsUp(up'[c], s, h)
          /\ CallsWait(up[c], waiting[c], s, h) => CallsWait(up'[c], waiting[c], s, h)
          /\ NoneIsLost(up[c], waiting[c], s, h, made[s]) => NoneIsLost(up'[c], waiting[c], s, h, made[s])
    BY <1>1, <1>2, <1>6, UpLess
  <2> QED BY <1>1, <1>2, <1>3, <1>4, <2>1 DEF Ordered, h
<1>5. CASE maker[s] # c
  <2>1. Counts(s) => maker[s] \in Clients \ {c}
    BY <1>5, CountsMade
  <2> QED BY <1>1, <1>2, <1>3, <2>1 DEF Ordered, h
<1> QED BY <1>4, <1>5

LEMMA OrderAccept ==
  ASSUME TypesOK, TypesOK', Core, NEW c \in Clients, Accept(c) \/ Ignore(c), NEW x \in Scenes, Ordered(x)
  PROVE  Ordered(x)'
<1> DEFINE s == up[c][1].scene
<1>1. /\ Handles(c) /\ up[c][1].type = "request" /\ heard' = heard
      /\ nodes' = nodes \/ nodes' = nodes \cup {s}
  <2>1. CASE Accept(c)
    BY <2>1, AcceptDoes
  <2>2. CASE Ignore(c)
    <3>1. Handles(c) /\ Head(up[c]).type = "request" /\ UNCHANGED <<nodes, heard>>
      BY <2>2 DEF Ignore
    <3> QED BY <3>1, HandlesDoes
  <2> QED BY <2>1, <2>2
<1>2. \A n : ~ IsCall(up[c][1], x, n)
  BY <1>1 DEF IsCall
<1>3. 1 \in 1 .. Len(up[c]) /\ UNCHANGED <<maker, made, phase, waiting>>
  BY <1>1, HandlesUp
<1>4. maker[s] = c /\ phase[s] \in {"asked", "gone"} /\ \A j \in 1 .. Len(up[c]) : up[c][j].type = "call" => up[c][j].from # s
  BY <1>1, <1>3, CoreParts DEF RequestsRight, Token, RequestOrCall
<1>5. CASE Counts(x)' => Counts(x)
  BY <1>1, <1>2, <1>5, OrderHandles
\* The node of one that its maker has freed: it has no calls.
<1>6. CASE Counts(x)' /\ ~ Counts(x)
  <2>1. x = s /\ phase[s] = "gone"
    BY <1>1, <1>3, <1>4, <1>6 DEF Counts
  <2>2. \A i \in 1 .. Len(up'[c]) : \A n : ~ IsCall(up'[c][i], x, n)
    <3>1. \A i \in 1 .. Len(up'[c]) : \E k \in 1 .. Len(up[c]) : up'[c][i] = up[c][k]
      BY <1>1, HandlesUp
    <3> QED BY <1>4, <2>1, <3>1 DEF IsCall
  <2>3. CallsUp(up'[c], x, Len(heard[x]))
    BY <2>2 DEF CallsUp
  <2>4. ~ Active(x)'
    BY <1>3, <2>1 DEF Active
  <2>5. maker'[x] = c
    BY <1>3, <1>4, <2>1
  <2> QED BY <1>1, <1>3, <2>3, <2>4, <2>5 DEF Ordered
<1> QED BY <1>5, <1>6

\* The call that a server runs is the next.
LEMMA OrderRun ==
  ASSUME TypesOK, TypesOK', Core, NEW c \in Clients, Run(c), NEW x \in Scenes, Ordered(x)
  PROVE  Ordered(x)'
<1> DEFINE m == up[c][1]
<1>1. /\ Handles(c) /\ m.type = "call" /\ nodes' = nodes
      /\ heard' = IF m.scene \in nodes THEN [heard EXCEPT ![m.scene] = Append(@, [from |-> m.from, n |-> m.n])] ELSE heard
  <2>1. Handles(c)
    BY DEF Run
  <2>2. Head(up[c]) = m
    BY <2>1, HandlesDoes
  <2> QED BY <2>1, <2>2 DEF Run
<1>2. /\ 1 \in 1 .. Len(up[c]) /\ UNCHANGED <<maker, made, phase, waiting>> /\ Drops(up'[c], up[c])
      /\ \A d \in Clients \ {c} : up'[d] = up[d]
  BY <1>1, HandlesDoes, HandlesUp
<1>8. Len(up'[c]) \in Nat
  BY DEF TypesOK
<1>3. /\ m.from \in Scenes /\ m.n \in Nat /\ m.scene = m.from /\ maker[m.from] = c /\ m.n # 0 /\ m.n <= made[m.from]
      /\ phase[m.from] \in {"named", "gone"}
  BY <1>1, <1>2, UpTypes, UpKinds, CoreParts DEF CallsRight, SentCall
<1>4. Counts(x)' <=> Counts(x)
  BY <1>1, <1>2 DEF Counts
<1>5. CASE x # m.from
  <2>1. \A n : ~ IsCall(m, x, n)
    BY <1>5 DEF IsCall
  <2>2. heard'[x] = heard[x]
    BY <1>1, <1>3, <1>5 DEF TypesOK
  <2> HIDE DEF m
  <2> QED BY <1>1, <1>4, <2>1, <2>2, OrderHandles DEF m
<1>6. CASE x = m.from /\ x \notin nodes
  <2>1. ~ Counts(x)' /\ ~ Active(x)' /\ heard' = heard
    BY <1>1, <1>3, <1>4, <1>6 DEF Counts, Active
  <2> QED BY <1>2, <2>1 DEF Ordered
<1>7. CASE x = m.from /\ x \in nodes
  <2> DEFINE h == Len(heard[x])
  <2>1. /\ h <= made[x] /\ \A i \in 1 .. h : heard[x][i] = [from |-> x, n |-> i]
        /\ CallsUp(up[c], x, h)
        /\ Active(x) => CallsWait(up[c], waiting[c], x, h) /\ NoneIsLost(up[c], waiting[c], x, h, made[x])
        /\ h \in Nat /\ made[x] \in Nat
    <3>1. h \in Nat /\ made[x] \in Nat
      BY DEF TypesOK
    <3>2. Counts(x) /\ maker[x] = c
      BY <1>3, <1>7 DEF Counts
    <3> QED BY <3>1, <3>2 DEF Ordered
  <2>2. m.n = h + 1
    <3>1. IsCall(up[c][1], x, m.n)
      BY <1>1, <1>7 DEF IsCall
    <3>2. m.n > h /\ (m.n > h + 1 => \E j \in 1 .. 1 - 1 : IsCall(up[c][j], x, m.n - 1))
      BY <1>2, <1>3, <2>1, <3>1 DEF CallsUp
    <3>3. 1 .. 1 - 1 = {}
      OBVIOUS
    <3> QED BY <1>3, <2>1, <3>2, <3>3
  <2>3. heard'[x] = Append(heard[x], [from |-> x, n |-> h + 1])
    BY <1>1, <1>3, <1>7, <2>2 DEF TypesOK
  <2>4. Len(heard'[x]) = h + 1 /\ \A i \in 1 .. h + 1 : heard'[x][i] = [from |-> x, n |-> i]
    <3>1. heard[x] \in Seq([from : Scenes \cup {None}, n : Nat])
      BY DEF TypesOK
    <3>2. Len(heard'[x]) = h + 1 /\ heard'[x][h + 1] = [from |-> x, n |-> h + 1] /\ \A i \in 1 .. h : heard'[x][i] = heard[x][i]
      BY <2>3, <3>1
    <3>3. \A i \in 1 .. h + 1 : i \in 1 .. h \/ i = h + 1
      BY <2>1
    <3> QED BY <2>1, <3>2, <3>3
  <2>5. /\ IsCall(up[c][1], x, h + 1)
        /\ \A i \in 1 .. Len(up[c]) : i # 1 => ~ IsCall(up[c][i], x, h + 1)
    <3>1. IsCall(up[c][1], x, h + 1)
      BY <1>1, <1>7, <2>2 DEF IsCall
    <3> QED BY <1>1, <1>2, <3>1, CoreParts DEF CallsDiffer, IsCall
  <2>6. \A i \in 1 .. Len(waiting[c]) : ~ WaitsAs(waiting[c][i], x, h + 1)
    BY <1>1, <1>2, <1>7, <2>2, CoreParts DEF SentOrWaits, WaitsAs
  <2>7. h + 1 <= made[x]
    BY <1>3, <1>7, <2>2
  <2> HIDE DEF h, m
  <2>8. /\ CallsUp(up'[c], x, h + 1)
        /\ CallsWait(up[c], waiting[c], x, h) => CallsWait(up'[c], waiting[c], x, h + 1)
        /\ NoneIsLost(up[c], waiting[c], x, h, made[x]) => NoneIsLost(up'[c], waiting[c], x, h + 1, made[x])
    BY <1>2, <1>8, <2>1, <2>5, <2>6, UpHeard
  <2>9. Active(x)' => Active(x)
    BY <1>2, <1>4 DEF Active
  <2>10. maker'[x] = c
    BY <1>2, <1>3, <1>7
  <2> QED BY <1>2, <2>1, <2>4, <2>7, <2>8, <2>9, <2>10 DEF Ordered
<1> QED BY <1>5, <1>6, <1>7

\* v[e[1]], v[e[2]] ... are the coroutines that go on, and what they send makes u q.
SentAll(e, n, u, q, v, s) ==
  /\ n \in Nat /\ e \in [1 .. n -> Nat] /\ \A i, j \in 1 .. n : i < j => e[i] < e[j]
  /\ \A i \in 1 .. n : e[i] \in 1 .. Len(v)
  /\ \A i \in 1 .. Len(u) : i \in 1 .. Len(q) /\ q[i] = u[i]
  /\ \A i \in 1 .. n : /\ Len(u) + i \in 1 .. Len(q)
                       /\ \A k \in Nat : k # 0 => (WaitsAs(v[e[i]], s, k) <=> IsCall(q[Len(u) + i], s, k))
                       /\ \A k : IsCall(q[Len(u) + i], s, k) => k # 0
  /\ \A i \in 1 .. Len(q) : i \in 1 .. Len(u) \/ (i - Len(u) \in 1 .. n /\ Len(u) + (i - Len(u)) = i)
  /\ \A p \in 1 .. Len(v) : \A k \in Nat : k # 0 /\ WaitsAs(v[p], s, k) => \E i \in 1 .. n : e[i] = p
NoneWaits(r, s) == \A i \in 1 .. Len(r) : \A k \in Nat : k # 0 => ~ WaitsAs(r[i], s, k)

\* What waited is sent in its order, after what was sent.
LEMMA OrderSent ==
  ASSUME NEW u, NEW q, NEW v, NEW r, NEW s, NEW h \in Nat, NEW l \in Nat, NEW n, NEW e,
         Len(u) \in Nat, Len(q) \in Nat, Len(v) \in Nat, SentAll(e, n, u, q, v, s), NoneWaits(r, s),
         CallsUp(u, s, h), CallsWait(u, v, s, h), NoneIsLost(u, v, s, h, l)
  PROVE  CallsUp(q, s, h) /\ CallsWait(q, r, s, h) /\ NoneIsLost(q, r, s, h, l)
<1>0. /\ n \in Nat /\ e \in [1 .. n -> Nat] /\ \A i, j \in 1 .. n : i < j => e[i] < e[j]
      /\ \A i \in 1 .. n : e[i] \in 1 .. Len(v)
      /\ \A i \in 1 .. Len(u) : i \in 1 .. Len(q) /\ q[i] = u[i]
      /\ \A i \in 1 .. n : /\ Len(u) + i \in 1 .. Len(q)
                           /\ \A k \in Nat : k # 0 => (WaitsAs(v[e[i]], s, k) <=> IsCall(q[Len(u) + i], s, k))
                           /\ \A k : IsCall(q[Len(u) + i], s, k) => k # 0
      /\ \A i \in 1 .. Len(q) : i \in 1 .. Len(u) \/ (i - Len(u) \in 1 .. n /\ Len(u) + (i - Len(u)) = i)
      /\ \A p \in 1 .. Len(v) : \A k \in Nat : k # 0 /\ WaitsAs(v[p], s, k) => \E i \in 1 .. n : e[i] = p
      /\ Len(u) \in Nat /\ Len(q) \in Nat /\ Len(v) \in Nat
  BY DEF SentAll
<1>2. \A i \in 1 .. Len(q) : i \in 1 .. Len(u) \/
        \A k \in Nat : IsCall(q[i], s, k) =>
          k > h /\ (k > h + 1 => OnItsWay(u, s, k - 1) \/ \E j \in 1 .. i - 1 : IsCall(q[j], s, k - 1))
  <2> SUFFICES ASSUME NEW i \in 1 .. Len(q), i \notin 1 .. Len(u), NEW k \in Nat, IsCall(q[i], s, k)
               PROVE  k > h /\ (k > h + 1 => OnItsWay(u, s, k - 1) \/ \E j \in 1 .. i - 1 : IsCall(q[j], s, k - 1))
    OBVIOUS
  <2>1. PICK a \in 1 .. n : i = Len(u) + a
    BY <1>0
  <2>2. k # 0 /\ WaitsAs(v[e[a]], s, k) /\ e[a] \in 1 .. Len(v)
    BY <1>0, <2>1
  <2>3. k > h /\ (k > h + 1 => OnItsWay(u, s, k - 1) \/ \E j \in 1 .. e[a] - 1 : WaitsAs(v[j], s, k - 1))
    BY <2>2 DEF CallsWait
  <2>4. ASSUME k > h + 1, NEW j \in 1 .. e[a] - 1, WaitsAs(v[j], s, k - 1)
        PROVE  \E b \in 1 .. i - 1 : IsCall(q[b], s, k - 1)
    <3>1. j \in 1 .. Len(v) /\ j < e[a] /\ k - 1 \in Nat /\ k - 1 # 0
      <4>1. PICK x \in 1 .. Len(v) : x = e[a]
        BY <1>0, <2>2
      <4>2. j \in 1 .. x - 1 /\ k > h + 1
        BY <2>4, <4>1
      <4>3. j \in 1 .. Len(v) /\ j < x /\ k - 1 \in Nat /\ k - 1 # 0
        <5>1. Len(v) \in Nat
          BY <1>0
        <5>2. j \in 1 .. Len(v) /\ j < x
          BY ONLY <4>2, <5>1, x \in 1 .. Len(v)
        <5>3. k - 1 \in Nat /\ k - 1 # 0
          BY ONLY <4>2, k \in Nat, h \in Nat
        <5> QED BY <5>2, <5>3
      <4> QED BY <4>1, <4>3
    <3>2. PICK b \in 1 .. n : e[b] = j
      BY <1>0, <2>4, <3>1
    <3>3. b < a
      <4>1. e[a] \in Nat /\ e[b] \in Nat /\ e[b] < e[a]
        BY <1>0, <3>1, <3>2
      <4>2. a < b => e[a] < e[b]
        BY <1>0
      <4>3. a # b /\ ~ (a < b)
        BY <4>1, <4>2
      <4> QED BY <1>0, <4>3
    <3>4. Len(u) + b \in 1 .. i - 1 /\ IsCall(q[Len(u) + b], s, k - 1)
      <4>1. Len(u) + b \in 1 .. i - 1
        <5>1. PICK y \in Nat : y = Len(u)
          BY <1>0
        <5>2. i = y + a /\ a \in Nat /\ b \in Nat /\ b < a /\ 1 <= b
          BY <2>1, <3>3, <5>1
        <5> QED BY <5>1, <5>2
      <4>2. WaitsAs(v[e[b]], s, k - 1)
        BY <2>4, <3>2
      <4> QED BY <1>0, <3>1, <4>1, <4>2
    <3> QED BY <3>4
  <2> QED BY <2>3, <2>4
<1>3. CallsUp(q, s, h) /\ \A k : OnItsWay(u, s, k) => OnItsWay(q, s, k)
  BY <1>0, <1>2, UpMore
<1>4. CallsWait(q, r, s, h)
  BY DEF CallsWait, NoneWaits
<1>5. NoneIsLost(q, r, s, h, l)
  <2> SUFFICES ASSUME NEW k \in h + 1 .. l PROVE OnItsWay(q, s, k)
    BY DEF NoneIsLost
  <2>1. k \in Nat /\ k # 0
    OBVIOUS
  <2>2. OnItsWay(u, s, k) \/ \E j \in 1 .. Len(v) : WaitsAs(v[j], s, k)
    BY DEF NoneIsLost
  <2>3. ASSUME NEW j \in 1 .. Len(v), WaitsAs(v[j], s, k) PROVE OnItsWay(q, s, k)
    <3>1. PICK b \in 1 .. n : e[b] = j
      BY <1>0, <2>1, <2>3
    <3> QED BY <1>0, <2>1, <2>3, <3>1 DEF OnItsWay
  <2> QED BY <1>3, <2>2, <2>3
<1> QED BY <1>3, <1>4, <1>5

\* The calls on s that wait in v wait on in r.
WaitOn(k, v, r, s) ==
  /\ k \in [1 .. Len(r) -> 1 .. Len(v)] /\ Len(v) \in Nat /\ Len(r) \in Nat
  /\ \A i \in 1 .. Len(r) : r[i] = v[k[i]]
  /\ \A i, j \in 1 .. Len(r) : i < j => k[i] < k[j]
  /\ \A p \in 1 .. Len(v) : \A n : n # 0 /\ WaitsAs(v[p], s, n) => \E i \in 1 .. Len(r) : k[i] = p

\* In their order.
LEMMA OrderKept ==
  ASSUME NEW u, NEW q, NEW v, NEW r, NEW s, NEW h \in Nat, NEW l, NEW k, WaitOn(k, v, r, s),
         \A n : OnItsWay(u, s, n) => OnItsWay(q, s, n),
         CallsWait(u, v, s, h), NoneIsLost(u, v, s, h, l)
  PROVE  CallsWait(q, r, s, h) /\ NoneIsLost(q, r, s, h, l)
<1>0. /\ k \in [1 .. Len(r) -> 1 .. Len(v)] /\ Len(v) \in Nat /\ Len(r) \in Nat
      /\ \A i \in 1 .. Len(r) : r[i] = v[k[i]]
      /\ \A i, j \in 1 .. Len(r) : i < j => k[i] < k[j]
      /\ \A p \in 1 .. Len(v) : \A n : n # 0 /\ WaitsAs(v[p], s, n) => \E i \in 1 .. Len(r) : k[i] = p
  BY DEF WaitOn
<1>1. CallsWait(q, r, s, h)
  <2> SUFFICES ASSUME NEW i \in 1 .. Len(r), NEW n \in Nat, n # 0, WaitsAs(r[i], s, n)
               PROVE  n > h /\ (n > h + 1 => OnItsWay(q, s, n - 1) \/ \E j \in 1 .. i - 1 : WaitsAs(r[j], s, n - 1))
    BY DEF CallsWait
  <2>1. n > h /\ (n > h + 1 => OnItsWay(u, s, n - 1) \/ \E j \in 1 .. k[i] - 1 : WaitsAs(v[j], s, n - 1))
    BY <1>0 DEF CallsWait
  <2>2. ASSUME n > h + 1, NEW p \in 1 .. k[i] - 1, WaitsAs(v[p], s, n - 1)
        PROVE  \E j \in 1 .. i - 1 : WaitsAs(r[j], s, n - 1)
    <3>1. p \in 1 .. Len(v) /\ p < k[i] /\ n - 1 # 0
      BY <1>0, <2>2
    <3>2. PICK j \in 1 .. Len(r) : k[j] = p
      BY <1>0, <2>2, <3>1
    <3>3. j < i
      <4>1. p # k[i] /\ ~ (k[i] < p)
        <5>1. k[i] \in Nat /\ p \in Nat
          BY <1>0, <3>1
        <5> QED BY <3>1, <5>1
      <4>2. j # i /\ ~ (i < j)
        <5>1. i < j => k[i] < k[j]
          BY <1>0
        <5> QED BY <3>2, <4>1, <5>1
      <4> QED BY <4>2
    <3>4. r[j] = v[p] /\ j \in 1 .. i - 1
      BY <1>0, <3>2, <3>3
    <3> QED BY <2>2, <3>4
  <2> QED BY <2>1, <2>2
<1>2. NoneIsLost(q, r, s, h, l)
  <2> SUFFICES ASSUME NEW n \in h + 1 .. l PROVE OnItsWay(q, s, n) \/ \E j \in 1 .. Len(r) : WaitsAs(r[j], s, n)
    BY DEF NoneIsLost
  <2>1. n # 0
    OBVIOUS
  <2>2. OnItsWay(u, s, n) \/ \E j \in 1 .. Len(v) : WaitsAs(v[j], s, n)
    BY DEF NoneIsLost
  <2>3. ASSUME NEW p \in 1 .. Len(v), WaitsAs(v[p], s, n) PROVE \E j \in 1 .. Len(r) : WaitsAs(r[j], s, n)
    <3>1. PICK j \in 1 .. Len(r) : k[j] = p
      BY <1>0, <2>1, <2>3
    <3>2. r[j] = v[p]
      BY <1>0, <3>1
    <3> QED BY <2>3, <3>2
  <2> QED BY <2>2, <2>3
<1> QED BY <1>1, <1>2

LEMMA OrderResume ==
  ASSUME TypesOK, TypesOK', Core, NEW c \in Clients, SentResume(c), NEW x \in Scenes, Ordered(x)
  PROVE  Ordered(x)'
<1>1. PICK n, e, l, k : Resumed(c, n, e, l, k) /\ ResumeFacts(c, n, e, l, k)
  BY ResumeHas
<1>2. /\ UNCHANGED <<nodes, maker, made, heard>>
      /\ \A d \in Clients \ {c} : waiting'[d] = waiting[d] /\ up'[d] = up[d]
      /\ \A y \in Scenes : \/ phase'[y] = phase[y]
                           \/ phase[y] = "parent" /\ phase'[y] = "asked" /\ maker[y] = c /\ y \notin nodes \cup unanswered
  BY <1>1 DEF ResumeFacts
<1>3. /\ n \in Nat /\ e \in [1 .. n -> GoOn(c)] /\ GoOn(c) \subseteq Ready(c) /\ Ready(c) \subseteq 1 .. Len(waiting[c])
      /\ \A p \in GoOn(c) : \E i \in 1 .. n : e[i] = p
      /\ \A i \in 1 .. Len(up[c]) : i \in 1 .. Len(up'[c]) /\ up'[c][i] = up[c][i]
      /\ \A i \in 1 .. n : Len(up[c]) + i \in 1 .. Len(up'[c]) /\ SentFor(c, waiting[c][e[i]], up'[c][Len(up[c]) + i], phase', tokens'[c])
      /\ \A i \in 1 .. Len(up'[c]) :
           (i \in 1 .. Len(up[c]) /\ up'[c][i] = up[c][i]) \/ (i - Len(up[c]) \in 1 .. n /\ Len(up[c]) + (i - Len(up[c])) = i)
  BY <1>1 DEF ResumeFacts
<1>4. /\ l \in Nat /\ Len(waiting'[c]) = l /\ k \in [1 .. l -> (1 .. Len(waiting[c])) \ Ready(c)]
      /\ \A i \in 1 .. l : waiting'[c][i] = waiting[c][k[i]]
      /\ \A p \in (1 .. Len(waiting[c])) \ Ready(c) : \E i \in 1 .. l : k[i] = p
  BY <1>1 DEF ResumeFacts
<1>5. (\A i, j \in 1 .. n : i < j => e[i] < e[j]) /\ (\A i, j \in 1 .. l : i < j => k[i] < k[j])
  BY <1>1 DEF Resumed
<1>6. DOMAIN waiting[c] = 1 .. Len(waiting[c]) /\ Len(waiting[c]) \in Nat /\ Len(up[c]) \in Nat /\ Len(up'[c]) \in Nat
  <2>1. waiting[c] \in Seq(Coroutine) /\ up[c] \in Seq(UpMsg) /\ up'[c] \in Seq(UpMsg)
    BY DEF TypesOK
  <2> QED BY <2>1
<1>7. \A i \in 1 .. Len(waiting[c]) : i \in Ready(c) <=> Resumes(waiting[c][i])
  BY <1>6 DEF Ready
<1>8. \A i \in Ready(c) : i \in GoOn(c) <=> phase[waiting[c][i].scene] \in {"named", "parent"}
  BY DEF GoOn
\* A call on x is sent for a coroutine of x.
<1>9. ASSUME NEW i \in 1 .. n
      PROVE  /\ \A a : a # 0 => (WaitsAs(waiting[c][e[i]], x, a) <=> IsCall(up'[c][Len(up[c]) + i], x, a))
             /\ \A a : IsCall(up'[c][Len(up[c]) + i], x, a) => a # 0 /\ phase[x] = "named"
  <2>1. PICK w, m : w = waiting[c][e[i]] /\ m = up'[c][Len(up[c]) + i]
    OBVIOUS
  <2>2. SentFor(c, w, m, phase', tokens'[c])
    BY <1>3, <2>1
  <2>3. CASE w.n = 0 /\ Req(m, w.scene)
    BY <2>1, <2>3 DEF WaitsAs, IsCall, Req
  <2>4. CASE w.n # 0 /\ m = Calls(w.scene, w.scene, w.n) /\ phase[w.scene] = "named"
    <3>1. m.type = "call" /\ m.from = w.scene /\ m.n = w.n
      BY <2>4 DEF Calls
    <3> QED BY <2>1, <2>4, <3>1 DEF WaitsAs, IsCall
  <2> QED BY <2>2, <2>3, <2>4 DEF SentFor
<1> DEFINE h == Len(heard[x])
<1>10. /\ h <= made[x] /\ \A i \in 1 .. h : heard[x][i] = [from |-> x, n |-> i]
       /\ Counts(x) => CallsUp(up[maker[x]], x, h)
       /\ Active(x) => CallsWait(up[maker[x]], waiting[maker[x]], x, h) /\ NoneIsLost(up[maker[x]], waiting[maker[x]], x, h, made[x])
  BY DEF Ordered
<1>11. h \in Nat /\ made[x] \in Nat
  BY DEF TypesOK
<1> HIDE DEF h
<1>12. CASE maker[x] # c
  <2>1. phase'[x] = phase[x] /\ (Counts(x) => maker[x] \in Clients \ {c})
    BY <1>2, <1>12, CountsMade
  <2>2. (Counts(x)' <=> Counts(x)) /\ (Active(x)' <=> Active(x))
    BY <1>2, <2>1 DEF Counts, Active
  <2> QED BY <1>2, <1>10, <2>1, <2>2 DEF Ordered, Active, h
<1>13. CASE maker[x] = c /\ phase'[x] # phase[x]
  <2>1. phase[x] = "parent"
    BY <1>2, <1>13
  <2>2. made'[x] = 0 /\ heard'[x] = <<>> /\ maker'[x] = c /\ made[x] = 0
    BY <1>2, <1>13, <2>1, CoreParts DEF NoneYet
  <2>3. \A i \in 1 .. Len(up'[c]) : \A a : ~ IsCall(up'[c][i], x, a)
    <3>1. \A i \in 1 .. Len(up[c]) : \A a : ~ IsCall(up[c][i], x, a)
      BY <2>1, CoreParts DEF CallsRight, SentCall, IsCall
    <3>2. \A i \in 1 .. n : \A a : ~ IsCall(up'[c][Len(up[c]) + i], x, a)
      BY <1>9, <2>1
    <3> QED BY <1>3, <3>1, <3>2
  <2>4. \A i \in 1 .. Len(waiting'[c]) : \A a : a # 0 => ~ WaitsAs(waiting'[c][i], x, a)
    <3> SUFFICES ASSUME NEW i \in 1 .. Len(waiting'[c]), NEW a, a # 0, WaitsAs(waiting'[c][i], x, a) PROVE FALSE
      OBVIOUS
    <3>1. k[i] \in 1 .. Len(waiting[c]) /\ waiting'[c][i] = waiting[c][k[i]]
      BY <1>4
    <3>2. Waits(c, waiting[c][k[i]])
      BY <3>1, CoreParts DEF WaitersRight
    <3> QED BY <2>1, <3>1, <3>2 DEF Waits, WaitsAs
  <2> QED BY <2>2, <2>3, <2>4, OrderNew
<1>14. CASE maker[x] = c /\ phase'[x] = phase[x]
  <2>1. (Counts(x)' <=> Counts(x)) /\ (Active(x)' <=> Active(x)) /\ (Active(x) => Counts(x))
    BY <1>2, <1>14 DEF Counts, Active
  <2>2. CASE phase[x] = "named" /\ Active(x)
    <3>1. \A p \in 1 .. Len(waiting[c]) : \A a \in Nat : a # 0 /\ WaitsAs(waiting[c][p], x, a) => p \in GoOn(c)
      <4> SUFFICES ASSUME NEW p \in 1 .. Len(waiting[c]), NEW a \in Nat, a # 0, WaitsAs(waiting[c][p], x, a) PROVE p \in GoOn(c)
        OBVIOUS
      <4>1. waiting[c][p].scene = x /\ waiting[c][p].n > 0
        BY DEF WaitsAs
      <4>2. p \in Ready(c)
        BY <1>7, <2>2, <4>1 DEF Resumes
      <4> QED BY <1>8, <2>2, <4>1, <4>2
    <3>2. \A i \in 1 .. Len(waiting'[c]) : \A a \in Nat : a # 0 => ~ WaitsAs(waiting'[c][i], x, a)
      BY <1>3, <1>4, <3>1
    <3>3. e \in [1 .. n -> Nat] /\ \A i \in 1 .. n : e[i] \in 1 .. Len(waiting[c])
      <4>1. e \in [1 .. n -> GoOn(c)] /\ GoOn(c) \subseteq 1 .. Len(waiting[c])
        BY <1>3
      <4>2. \A i \in 1 .. n : e[i] \in 1 .. Len(waiting[c])
        BY ONLY <4>1
      <4>3. \A i \in 1 .. n : e[i] \in Nat
        BY ONLY <4>2
      <4> QED BY ONLY <4>1, <4>2, <4>3
    <3>4. \A p \in 1 .. Len(waiting[c]) : \A a \in Nat : a # 0 /\ WaitsAs(waiting[c][p], x, a) => \E i \in 1 .. n : e[i] = p
      BY <1>3, <3>1
    <3>5. CallsUp(up[c], x, h) /\ CallsWait(up[c], waiting[c], x, h) /\ NoneIsLost(up[c], waiting[c], x, h, made[x])
      BY <1>10, <1>14, <2>1, <2>2
    <3>6. \A i \in 1 .. n : /\ Len(up[c]) + i \in 1 .. Len(up'[c])
                            /\ \A a \in Nat : a # 0 => (WaitsAs(waiting[c][e[i]], x, a) <=> IsCall(up'[c][Len(up[c]) + i], x, a))
                            /\ \A a : IsCall(up'[c][Len(up[c]) + i], x, a) => a # 0
      BY <1>3, <1>9
    <3>8. \A i \in 1 .. Len(up'[c]) : i \in 1 .. Len(up[c]) \/ (i - Len(up[c]) \in 1 .. n /\ Len(up[c]) + (i - Len(up[c])) = i)
      BY <1>3
    <3>9. \A i \in 1 .. Len(up[c]) : i \in 1 .. Len(up'[c]) /\ up'[c][i] = up[c][i]
      BY <1>3
    <3>10. SentAll(e, n, up[c], up'[c], waiting[c], x) /\ NoneWaits(waiting'[c], x)
      BY <1>3, <1>5, <3>2, <3>3, <3>4, <3>6, <3>8, <3>9 DEF SentAll, NoneWaits
    <3>7. CallsUp(up'[c], x, h) /\ CallsWait(up'[c], waiting'[c], x, h) /\ NoneIsLost(up'[c], waiting'[c], x, h, made[x])
      BY <1>6, <1>11, <3>5, <3>10, OrderSent
    <3> QED BY <1>2, <1>10, <1>14, <3>7 DEF Ordered, h
  <2>3. CASE phase[x] # "named" \/ ~ Active(x)
    <3>1. Counts(x) => \A i \in 1 .. Len(up'[c]) : i \in 1 .. Len(up[c]) \/ \A a \in Nat : IsCall(up'[c][i], x, a) =>
            a > h /\ (a > h + 1 => OnItsWay(up[c], x, a - 1) \/ \E j \in 1 .. i - 1 : IsCall(up'[c][j], x, a - 1))
      <4> SUFFICES ASSUME NEW i \in 1 .. Len(up'[c]), i \notin 1 .. Len(up[c]), NEW a \in Nat, IsCall(up'[c][i], x, a) PROVE ~ Counts(x)
        OBVIOUS
      <4>1. phase[x] = "named"
        BY <1>3, <1>9
      <4> QED BY <2>3, <4>1 DEF Active
    <3>2. Counts(x) => CallsUp(up'[c], x, h)
      BY <1>3, <1>6, <1>10, <1>11, <1>14, <3>1, UpMore
    <3>3. CASE ~ Active(x)
      BY <1>2, <1>10, <1>14, <2>1, <3>2, <3>3 DEF Ordered, h
    <3>4. CASE Active(x)
      <4>1. phase[x] = "asked"
        BY <2>3, <3>4 DEF Active
      <4>2. \A p \in 1 .. Len(waiting[c]) : \A a : a # 0 /\ WaitsAs(waiting[c][p], x, a) => \E i \in 1 .. Len(waiting'[c]) : k[i] = p
        <5> SUFFICES ASSUME NEW p \in 1 .. Len(waiting[c]), NEW a, a # 0, WaitsAs(waiting[c][p], x, a) PROVE p \notin Ready(c)
          BY <1>4
        <5>1. waiting[c][p].scene = x /\ waiting[c][p].n \in Nat /\ waiting[c][p].n # 0
          BY WaitTypes DEF WaitsAs
        <5> QED BY <1>7, <4>1, <5>1 DEF Resumes
      <4>3. k \in [1 .. Len(waiting'[c]) -> 1 .. Len(waiting[c])] /\ Len(waiting'[c]) \in Nat
        BY <1>4
      <4>4. \A a : OnItsWay(up[c], x, a) => OnItsWay(up'[c], x, a)
        BY <1>3 DEF OnItsWay
      <4>5. CallsWait(up[c], waiting[c], x, h) /\ NoneIsLost(up[c], waiting[c], x, h, made[x])
        BY <1>10, <1>14, <3>4
      <4>7. /\ \A i \in 1 .. Len(waiting'[c]) : waiting'[c][i] = waiting[c][k[i]]
            /\ \A i, j \in 1 .. Len(waiting'[c]) : i < j => k[i] < k[j]
        BY <1>4, <1>5
      <4>8. WaitOn(k, waiting[c], waiting'[c], x)
        BY <1>6, <4>2, <4>3, <4>7 DEF WaitOn
      <4>6. CallsWait(up'[c], waiting'[c], x, h) /\ NoneIsLost(up'[c], waiting'[c], x, h, made[x])
        BY <1>11, <4>4, <4>5, <4>8, OrderKept
      <4> QED BY <1>2, <1>10, <1>14, <2>1, <3>2, <3>4, <4>6 DEF Ordered, h
    <3> QED BY <3>3, <3>4
  <2> QED BY <2>2, <2>3
<1> QED BY <1>12, <1>13, <1>14

\* The steps that send and run no call of a maker.
LEMMA OrderQuiet ==
  ASSUME TypesOK, TypesOK', Core, NEW x \in Scenes, Ordered(x),
         \/ \E c \in Clients : Heard(c) \/ Disconnect(c) \/ Hide(c) \/ Show(c) \/ Connect(c)
         \/ \E c \in Clients, s \in Scenes : FreeOwn(c, s)
         \/ \E s \in Scenes : CallAll(s) \/ Free(s)
         \/ UNCHANGED vars
  PROVE  Ordered(x)'
<1>1. ASSUME NEW c \in Clients, Heard(c) PROVE Ordered(x)'
  <2>1. UNCHANGED <<maker, made, heard, nodes, up, waiting>>
    BY <1>1 DEF Heard, server
  <2>2. phase'[x] \in {phase[x], "gone"} \/ (phase[x] = "asked" /\ phase'[x] = "named")
    BY <1>1 DEF Heard, HeardPhase
  <2> QED BY <2>1, <2>2, OrderSame
<1>2. ASSUME NEW c \in Clients, Disconnect(c) PROVE Ordered(x)'
  <2>1. /\ UNCHANGED <<nodes, maker, made, heard>> /\ Len(up'[c]) = 0
        /\ phase'[x] = IF maker[x] = c THEN "gone" ELSE phase[x]
        /\ \A d \in Clients \ {c} : up'[d] = up[d] /\ waiting'[d] = waiting[d]
    BY <1>2, DisconnectDoes
  <2> QED BY <2>1, OrderSame
<1>3. ASSUME NEW c \in Clients, Hide(c) \/ Show(c) \/ Connect(c) PROVE Ordered(x)'
  <2>1. UNCHANGED <<maker, made, heard, nodes, up, waiting, phase>>
    BY <1>3 DEF Hide, Show, Connect, client
  <2> QED BY <2>1, OrderSame
<1>4. ASSUME NEW c \in Clients, NEW s \in Scenes, FreeOwn(c, s) PROVE Ordered(x)'
  <2>1. UNCHANGED <<maker, made, heard, nodes, up, waiting>> /\ phase'[x] \in {phase[x], "gone"}
    BY <1>4 DEF FreeOwn, Without, server
  <2> QED BY <2>1, OrderSame
<1>5. ASSUME NEW s \in Scenes, CallAll(s) \/ Free(s) PROVE Ordered(x)'
  <2>1. UNCHANGED <<maker, made, heard, up, waiting, phase>> /\ nodes' \subseteq nodes
    BY <1>5 DEF CallAll, Free, client, server
  <2> QED BY <2>1, OrderSame
<1>6. CASE UNCHANGED vars
  <2>1. UNCHANGED <<maker, made, heard, nodes, up, waiting, phase>>
    BY <1>6 DEF vars, client, server
  <2> QED BY <2>1, OrderSame
<1> QED BY <1>1, <1>2, <1>3, <1>4, <1>5, <1>6

LEMMA NextOrder ==
  ASSUME TypesOK, TypesOK', Core, ~ Handlers, [SentNext]_vars, NEW x \in Scenes, Ordered(x)
  PROVE  Ordered(x)'
<1>1. ASSUME NEW c \in Clients, NEW s \in Scenes, NEW p \in Scenes \cup {Place}, SentRequest(c, s, p) PROVE Ordered(x)'
  BY <1>1, OrderRequest
<1>2. ASSUME NEW c \in Clients, NEW s \in Scenes, Call(c, s) PROVE Ordered(x)'
  BY <1>2, OrderCall
<1>3. ASSUME NEW c \in Clients, HearAdd(c) \/ HearRemove(c) \/ HearIds(c) \/ HearCall(c) PROVE Ordered(x)'
  <2>1. Heard(c)
    BY <1>3, HearAddHeard, HearRemoveHeard, HearIdsHeard, HearCallHeard
  <2> QED BY <2>1, OrderQuiet
<1>4. ASSUME NEW c \in Clients, SentResume(c) PROVE Ordered(x)'
  BY <1>4, OrderResume
<1>5. ASSUME NEW c \in Clients, Accept(c) \/ Ignore(c) PROVE Ordered(x)'
  BY <1>5, OrderAccept
<1>6. ASSUME NEW c \in Clients, Run(c) PROVE Ordered(x)'
  BY <1>6, OrderRun
<1>7. ASSUME NEW c \in Clients, Hide(c) \/ Show(c) \/ Connect(c) \/ Disconnect(c) PROVE Ordered(x)'
  BY <1>7, OrderQuiet
<1>8. ASSUME NEW s \in Scenes, CallAll(s) \/ Free(s) PROVE Ordered(x)'
  BY <1>8, OrderQuiet
<1>9. ASSUME NEW c \in Clients, NEW s \in Scenes, FreeOwn(c, s) PROVE Ordered(x)'
  BY <1>9, OrderQuiet
<1>10. CASE UNCHANGED vars
  BY <1>10, OrderQuiet
<1> QED BY <1>1, <1>2, <1>3, <1>4, <1>5, <1>6, <1>7, <1>8, <1>9, <1>10 DEF SentNext

\* The calls of a maker run in their order, unless it makes some while it handles
\* messages: those overtake the ones that wait (await_for_id, outbound_rpc).
THEOREM AlwaysInOrder == ~ Handlers => (Spec => []CallsKeepOrder)
<1> SUFFICES ASSUME ~ Handlers PROVE Spec => []CallsKeepOrder
  OBVIOUS
<1> DEFINE InOrder == \A s \in Scenes : Ordered(s)
<1>1. Init => InOrder
  <2> SUFFICES ASSUME Init, NEW s \in Scenes PROVE Ordered(s)
    OBVIOUS
  <2>1. made[s] = 0 /\ heard[s] = <<>> /\ Len(heard[s]) = 0 /\ ~ Counts(s)
    <3>1. Len(<<>>) = 0
      OBVIOUS
    <3> QED BY <3>1 DEF Init, Counts
  <2> QED BY <2>1 DEF Ordered, Active
<1>2. TypesOK /\ TypesOK' /\ Core /\ InOrder /\ [SentNext]_vars => InOrder'
  BY NextOrder
<1>4. TypesOK /\ Idle => CallsKeepOrder
  BY DEF Idle, CallsKeepOrder
<1>3. TypesOK /\ InOrder => CallsKeepOrder
  <2> SUFFICES ASSUME TypesOK, InOrder, NEW s \in Scenes
               PROVE  heard[s] = [i \in DOMAIN heard[s] |-> [from |-> s, n |-> i]]
    BY DEF CallsKeepOrder
  <2>1. heard[s] \in Seq([from : Scenes \cup {None}, n : Nat])
    BY DEF TypesOK
  <2>2. DOMAIN heard[s] = 1 .. Len(heard[s]) /\ heard[s] = [i \in DOMAIN heard[s] |-> heard[s][i]]
    BY <2>1
  <2> QED BY <2>2 DEF Ordered
<1> HIDE DEF InOrder
<1> DEFINE IInv == TypesOK /\ IF mayAsk THEN Core ELSE Idle
<1>5. IInv /\ IInv' /\ (mayAsk => InOrder) /\ [Next]_vars => (mayAsk => InOrder)'
  <2>1. [Next]_vars /\ mayAsk' => mayAsk
    BY DEF Next, vars
  <2> QED BY <1>2, <2>1, WhenSent
<1>6. IInv /\ (mayAsk => InOrder) => CallsKeepOrder
  BY <1>3, <1>4
<1>7. Init => (mayAsk => InOrder)
  BY <1>1
<1>8. Spec => []IInv
  BY CoreInvariant
<1> HIDE DEF IInv
<1> QED BY <1>5, <1>6, <1>7, <1>8, PTL DEF Spec
================================================================================
