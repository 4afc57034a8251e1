------------------------------ MODULE ZoneProofs ------------------------------
(* What Zone promises for every number of peers and zones.                     *)
EXTENDS Zone, FiniteSetTheorems, TLAPS

(* What is on its way to a client, w, as it concerns which zones the client    *)
(* has: it has those of C before it hears w and those of S after it.           *)

Quiet(w, i, j, z) == \A k \in DOMAIN w : i < k /\ k < j => w[k].zone # z

\* A zone is added after it was removed, and only then.
Alternates(w) ==
  \A i, j \in DOMAIN w :
    i < j /\ w[i].zone = w[j].zone /\ Quiet(w, i, j, w[j].zone) => (w[j].type = "add" <=> w[i].type = "remove")

\* The first message about a zone adds it where the client has not got it.
StartsFrom(w, C) ==
  \A i \in DOMAIN w : Quiet(w, 0, i, w[i].zone) => (w[i].type = "add" <=> w[i].zone \notin C)

\* The last message about a zone removes it where the client shall not have it.
EndsIn(w, S) ==
  \A i \in DOMAIN w : Quiet(w, i, Len(w) + 1, w[i].zone) => (w[i].type = "remove" <=> w[i].zone \notin S)

\* Of a zone that nothing is said about nothing changes.
Leaves(w, C, S) == \A z \in Zones : Quiet(w, 0, Len(w) + 1, z) => (z \in C <=> z \in S)

View(w, C, S) == Alternates(w) /\ StartsFrom(w, C) /\ EndsIn(w, S) /\ Leaves(w, C, S)

\* What the last message about z says, if it says who is in it, is v.
Says(w, z, v) ==
  \A i \in DOMAIN w : w[i].zone = z /\ Quiet(w, i, Len(w) + 1, z) /\ w[i].type # "remove" => w[i].interest = v

------------------------------------------------------------------------------
\* One after the other, two parts of what is on its way make one.
LEMMA ViewsJoin ==
  ASSUME NEW M, NEW w \in Seq(M), NEW v \in Seq(M), \A x \in M : x.zone \in Zones,
         NEW C, NEW T, NEW S, View(w, C, T), View(v, T, S)
  PROVE  View(w \o v, C, S)
<1>. DEFINE u == w \o v
            m == Len(w)
            n == Len(v)
<1>1. m \in Nat /\ n \in Nat /\ DOMAIN w = 1 .. m /\ DOMAIN v = 1 .. n /\ DOMAIN u = 1 .. m + n /\ Len(u) = m + n
  OBVIOUS
<1>2. /\ \A i \in 1 .. m : u[i] = w[i] /\ i \in 1 .. m + n
      /\ \A i \in 1 .. n : u[m + i] = v[i] /\ m + i \in 1 .. m + n
      /\ \A i \in m + 1 .. m + n : u[i] = v[i - m] /\ i - m \in 1 .. n /\ m + (i - m) = i
  BY <1>1
<1>3. \A i \in 1 .. m + n : u[i].zone \in Zones
  <2>1. \A i \in 1 .. m + n : i \in 1 .. m \/ i \in m + 1 .. m + n
    BY <1>1
  <2>2. (\A i \in 1 .. m : w[i] \in M) /\ (\A i \in 1 .. n : v[i] \in M)
    OBVIOUS
  <2>. HIDE DEF u, m, n
  <2>. QED BY <1>2, <2>1, <2>2
<1>. HIDE DEF u, m, n
<1>v. /\ Alternates(w) /\ StartsFrom(w, C) /\ EndsIn(w, T) /\ Leaves(w, C, T)
      /\ Alternates(v) /\ StartsFrom(v, T) /\ EndsIn(v, S) /\ Leaves(v, T, S)
  BY DEF View
<1>w. \A i \in 1 .. m : u[i] = w[i] /\ i \in DOMAIN w
  BY <1>1, <1>2
<1>x. \A i \in m + 1 .. m + n : u[i] = v[i - m] /\ i - m \in DOMAIN v
  BY <1>1, <1>2
\* What is quiet in the whole is quiet in its parts, and the other way round.
<1>4. ASSUME NEW i \in 0 .. m, NEW j \in 1 .. m + 1, NEW z, Quiet(u, i, j, z) PROVE Quiet(w, i, j, z)
  BY <1>1, <1>2, <1>4 DEF Quiet
<1>5. ASSUME NEW i \in 0 .. n, NEW j \in 1 .. n + 1, NEW z, Quiet(u, m + i, m + j, z) PROVE Quiet(v, i, j, z)
  <2>. SUFFICES ASSUME NEW k \in 1 .. n, i < k, k < j PROVE v[k].zone # z
    BY <1>1 DEF Quiet
  <2>1. m + i < m + k /\ m + k < m + j /\ m + k \in 1 .. m + n
    BY <1>1
  <2>. QED BY <1>1, <1>2, <1>5, <2>1 DEF Quiet
<1>6. ASSUME NEW i \in Int, NEW j \in Int, NEW i1 \in Int, NEW j1 \in Int, NEW z,
             Quiet(u, i, j, z), i <= i1, j1 <= j
      PROVE  Quiet(u, i1, j1, z)
  BY <1>1, <1>6 DEF Quiet
<1>7. Alternates(u)
  <2>. SUFFICES ASSUME NEW i \in 1 .. m + n, NEW j \in 1 .. m + n, i < j,
                       u[i].zone = u[j].zone, Quiet(u, i, j, u[j].zone)
                PROVE  u[j].type = "add" <=> u[i].type = "remove"
    BY <1>1 DEF Alternates
  <2>1. CASE j <= m
    <3>1. i \in 1 .. m /\ j \in 1 .. m /\ i \in 0 .. m /\ j \in 1 .. m + 1
      BY <1>1, <2>1
    <3>2. u[i] = w[i] /\ u[j] = w[j] /\ i \in DOMAIN w /\ j \in DOMAIN w
      BY <1>1, <1>2, <3>1
    <3>3. Quiet(w, i, j, w[j].zone)
      BY <1>4, <3>1, <3>2
    <3>5. w[j].type = "add" <=> w[i].type = "remove"
      BY <1>v, <3>2, <3>3 DEF Alternates
    <3>. QED BY <3>2, <3>5
  <2>2. CASE i > m
    <3>1. i - m \in 1 .. n /\ j - m \in 1 .. n /\ i - m < j - m /\ i - m \in 0 .. n /\ j - m \in 1 .. n + 1
          /\ m + (i - m) = i /\ m + (j - m) = j /\ i \in m + 1 .. m + n /\ j \in m + 1 .. m + n
      BY <1>1, <2>2
    <3>2. Quiet(v, i - m, j - m, u[j].zone)
      BY <1>5, <3>1
    <3>3. u[i] = v[i - m] /\ u[j] = v[j - m] /\ i - m \in DOMAIN v /\ j - m \in DOMAIN v
      BY <1>1, <1>2, <3>1
    <3>5. v[j - m].type = "add" <=> v[i - m].type = "remove"
      BY <1>v, <3>1, <3>2, <3>3 DEF Alternates
    <3>. QED BY <3>3, <3>5
  <2>3. CASE i <= m /\ j > m
    <3>1. i \in 1 .. m /\ i \in 0 .. m /\ j \in m + 1 .. m + n /\ j - m \in 1 .. n /\ m + (j - m) = j
          /\ i <= m /\ m + 1 <= j /\ m + 0 = m /\ 0 \in 0 .. n /\ j - m \in 1 .. n + 1 /\ m + 1 \in 1 .. m + 1
          /\ m + 1 \in Int /\ m \in Int /\ i \in Int /\ j \in Int /\ i <= i /\ j <= j
      BY <1>1, <2>3
    <3>2. Quiet(w, i, m + 1, u[j].zone)
      <4>1. Quiet(u, i, m + 1, u[j].zone)
        BY <1>6, <3>1
      <4>. QED BY <1>4, <3>1, <4>1
    <3>3. Quiet(v, 0, j - m, u[j].zone)
      <4>1. Quiet(u, m, j, u[j].zone)
        BY <1>6, <3>1
      <4>2. Quiet(u, m + 0, m + (j - m), u[j].zone)
        BY <3>1, <4>1
      <4>. QED BY <1>5, <3>1, <4>2
    <3>4. u[i].type = "remove" <=> u[i].zone \notin T
      BY <1>v, <1>w, <3>1, <3>2 DEF EndsIn, m
    <3>5. u[j].type = "add" <=> u[j].zone \notin T
      BY <1>v, <1>x, <3>1, <3>3 DEF StartsFrom
    <3>. QED BY <3>4, <3>5
  <2>. QED BY <1>1, <2>1, <2>2, <2>3
<1>8. StartsFrom(u, C)
  <2>. SUFFICES ASSUME NEW i \in 1 .. m + n, Quiet(u, 0, i, u[i].zone)
                PROVE  u[i].type = "add" <=> u[i].zone \notin C
    BY <1>1 DEF StartsFrom
  <2>1. CASE i <= m
    <3>1. i \in 1 .. m /\ 0 \in 0 .. m /\ i \in 1 .. m + 1
      BY <1>1, <2>1
    <3>2. Quiet(w, 0, i, u[i].zone)
      BY <1>4, <3>1
    <3>. QED BY <1>v, <1>w, <3>1, <3>2 DEF StartsFrom
  <2>2. CASE i > m
    <3>1. i \in m + 1 .. m + n /\ i - m \in 1 .. n /\ m + (i - m) = i /\ m + 0 = m /\ 0 \in 0 .. n /\ 0 \in 0 .. m
          /\ i - m \in 1 .. n + 1 /\ m + 1 \in 1 .. m + 1 /\ 0 \in Int /\ m \in Int /\ m + 1 \in Int /\ i \in Int
          /\ 0 <= m /\ m + 1 <= i /\ 0 <= 0 /\ i <= i
      BY <1>1, <2>2
    <3>2. Quiet(w, 0, m + 1, u[i].zone)
      <4>1. Quiet(u, 0, m + 1, u[i].zone)
        BY <1>6, <3>1
      <4>. QED BY <1>4, <3>1, <4>1
    <3>3. Quiet(v, 0, i - m, u[i].zone)
      <4>1. Quiet(u, m, i, u[i].zone)
        BY <1>6, <3>1
      <4>2. Quiet(u, m + 0, m + (i - m), u[i].zone)
        BY <3>1, <4>1
      <4>. QED BY <1>5, <3>1, <4>2
    <3>4. u[i].zone \in C <=> u[i].zone \in T
      BY <1>3, <1>v, <3>2 DEF Leaves, m
    <3>5. u[i].type = "add" <=> u[i].zone \notin T
      BY <1>v, <1>x, <3>1, <3>3 DEF StartsFrom
    <3>. QED BY <3>4, <3>5
  <2>. QED BY <1>1, <2>1, <2>2
<1>9. EndsIn(u, S)
  <2>. SUFFICES ASSUME NEW i \in 1 .. m + n, Quiet(u, i, m + n + 1, u[i].zone)
                PROVE  u[i].type = "remove" <=> u[i].zone \notin S
    BY <1>1 DEF EndsIn
  <2>1. CASE i > m
    <3>1. i \in m + 1 .. m + n /\ i - m \in 1 .. n /\ i - m \in 0 .. n /\ m + (i - m) = i
          /\ n + 1 \in 1 .. n + 1 /\ m + (n + 1) = m + n + 1
      BY <1>1, <2>1
    <3>2. Quiet(v, i - m, n + 1, u[i].zone)
      <4>1. Quiet(u, m + (i - m), m + (n + 1), u[i].zone)
        BY <3>1
      <4>. QED BY <1>5, <3>1, <4>1
    <3>. QED BY <1>v, <1>x, <3>1, <3>2 DEF EndsIn, n
  <2>2. CASE i <= m
    <3>1. i \in 1 .. m /\ i \in 0 .. m /\ m + 1 \in 1 .. m + 1 /\ 0 \in 0 .. n /\ n + 1 \in 1 .. n + 1
          /\ m + 0 = m /\ m + (n + 1) = m + n + 1 /\ i <= m /\ m + 1 <= m + n + 1 /\ i <= i
          /\ m + n + 1 <= m + n + 1
          /\ i \in Int /\ m \in Int /\ m + 1 \in Int /\ m + n + 1 \in Int
      BY <1>1, <2>2
    <3>2. Quiet(w, i, m + 1, u[i].zone)
      <4>1. Quiet(u, i, m + 1, u[i].zone)
        BY <1>6, <3>1
      <4>. QED BY <1>4, <3>1, <4>1
    <3>3. Quiet(v, 0, n + 1, u[i].zone)
      <4>1. Quiet(u, m, m + n + 1, u[i].zone)
        BY <1>6, <3>1
      <4>2. Quiet(u, m + 0, m + (n + 1), u[i].zone)
        BY <3>1, <4>1
      <4>. QED BY <1>5, <3>1, <4>2
    <3>4. u[i].zone \in T <=> u[i].zone \in S
      BY <1>3, <1>v, <3>3 DEF Leaves, n
    <3>5. u[i].type = "remove" <=> u[i].zone \notin T
      BY <1>v, <1>w, <3>1, <3>2 DEF EndsIn, m
    <3>. QED BY <3>4, <3>5
  <2>. QED BY <1>1, <2>1, <2>2
<1>10. Leaves(u, C, S)
  <2>. SUFFICES ASSUME NEW z \in Zones, Quiet(u, 0, m + n + 1, z)
                PROVE  z \in C <=> z \in S
    BY <1>1 DEF Leaves
  <2>1. /\ 0 \in 0 .. m /\ m + 1 \in 1 .. m + 1 /\ 0 \in 0 .. n /\ n + 1 \in 1 .. n + 1
        /\ m + 0 = m /\ m + (n + 1) = m + n + 1 /\ 0 <= m /\ m + 1 <= m + n + 1 /\ 0 <= 0
        /\ m + n + 1 <= m + n + 1 /\ 0 \in Int /\ m \in Int /\ m + 1 \in Int /\ m + n + 1 \in Int
    BY <1>1
  <2>2. Quiet(w, 0, m + 1, z)
    <3>1. Quiet(u, 0, m + 1, z)
      BY <1>6, <2>1
    <3>. QED BY <1>4, <2>1, <3>1
  <2>3. Quiet(v, 0, n + 1, z)
    <3>1. Quiet(u, m, m + n + 1, z)
      BY <1>6, <2>1
    <3>2. Quiet(u, m + 0, m + (n + 1), z)
      BY <2>1, <3>1
    <3>. QED BY <1>5, <2>1, <3>2
  <2>. QED BY <1>v, <2>2, <2>3 DEF Leaves, m, n
<1>. QED BY <1>7, <1>8, <1>9, <1>10 DEF View, u

\* Nothing is heard of nothing.
LEMMA EmptyView ==
  ASSUME NEW C
  PROVE  View(<<>>, C, C)
BY DEF View, Alternates, StartsFrom, EndsIn, Leaves, Quiet

\* Syncs of zones that the client has change nothing.
LEMMA SyncsView ==
  ASSUME NEW M, NEW v \in Seq(M), NEW C,
         \A i \in DOMAIN v : v[i].type = "sync" /\ v[i].zone \in C
  PROVE  View(v, C, C)
BY DEF View, Alternates, StartsFrom, EndsIn, Leaves

\* Removals of different zones that the client has take just these away.
LEMMA RemovalsView ==
  ASSUME NEW M, NEW v \in Seq(M), NEW C, NEW D,
         \A i \in DOMAIN v : v[i].type = "remove" /\ v[i].zone \in C \cap D,
         \A i, j \in DOMAIN v : v[i].zone = v[j].zone => i = j,
         \A z \in C \cap D : \E i \in DOMAIN v : v[i].zone = z
  PROVE  View(v, C, C \ D)
<1>. DEFINE n == Len(v)
<1>1. n \in Nat /\ DOMAIN v = 1 .. n
  OBVIOUS
<1>. HIDE DEF n
<1>2. Alternates(v)
  BY <1>1 DEF Alternates
<1>3. StartsFrom(v, C) /\ EndsIn(v, C \ D)
  BY DEF StartsFrom, EndsIn
<1>4. Leaves(v, C, C \ D)
  <2>. SUFFICES ASSUME NEW z \in Zones, Quiet(v, 0, n + 1, z) PROVE z \notin C \cap D
    BY DEF Leaves, n
  <2>1. \A i \in 1 .. n : v[i].zone # z
    BY <1>1 DEF Quiet
  <2>. QED BY <1>1, <2>1
<1>. QED BY <1>2, <1>3, <1>4 DEF View

\* A zone is added where the client has not got it.
LEMMA AddView ==
  ASSUME NEW x, x.type = "add", NEW C, x.zone \notin C
  PROVE  View(<<x>>, C, C \cup {x.zone})
<1>1. DOMAIN <<x>> = {1} /\ <<x>>[1] = x /\ Len(<<x>>) = 1
  OBVIOUS
<1>2. Alternates(<<x>>) /\ StartsFrom(<<x>>, C) /\ EndsIn(<<x>>, C \cup {x.zone})
  BY <1>1 DEF Alternates, StartsFrom, EndsIn
<1>3. Leaves(<<x>>, C, C \cup {x.zone})
  BY <1>1 DEF Leaves, Quiet
<1>. QED BY <1>2, <1>3 DEF View

------------------------------------------------------------------------------
\* What a client has once it has heard x.
After(x, C) == IF x.type = "add" THEN C \cup {x.zone} ELSE IF x.type = "remove" THEN C \ {x.zone} ELSE C

\* The first message fits, and the rest fits to what the client has then.
LEMMA HearView ==
  ASSUME NEW M, NEW w \in Seq(M), w # <<>>, NEW C, NEW S, View(w, C, S)
  PROVE  /\ Head(w).type = "add" <=> Head(w).zone \notin C
         /\ View(Tail(w), After(Head(w), C), S)
<1>. DEFINE x == Head(w)
            t == Tail(w)
            n == Len(t)
            D == After(x, C)
<1>1. n \in Nat /\ Len(w) = n + 1 /\ DOMAIN w = 1 .. n + 1 /\ DOMAIN t = 1 .. n /\ w[1] = x
  OBVIOUS
<1>2. \A i \in 1 .. n : t[i] = w[i + 1] /\ i + 1 \in 1 .. n + 1
  OBVIOUS
<1>. HIDE DEF x, t, n
<1>3. Alternates(w) /\ StartsFrom(w, C) /\ EndsIn(w, S) /\ Leaves(w, C, S)
  BY DEF View
<1>4. x.type = "add" <=> x.zone \notin C
  <2>1. 1 \in DOMAIN w /\ Quiet(w, 0, 1, w[1].zone)
    BY <1>1 DEF Quiet
  <2>. QED BY <1>1, <1>3, <2>1 DEF StartsFrom
<1>5. x.zone \in D <=> x.type # "remove"
  BY <1>4 DEF After
<1>6. \A z : z # x.zone => (z \in D <=> z \in C)
  BY DEF After
<1>7. ASSUME NEW i \in 0 .. n, NEW j \in 1 .. n + 1, NEW z, Quiet(t, i, j, z) PROVE Quiet(w, i + 1, j + 1, z)
  <2>. SUFFICES ASSUME NEW k \in 1 .. n + 1, i + 1 < k, k < j + 1 PROVE w[k].zone # z
    BY <1>1 DEF Quiet
  <2>1. k - 1 \in 1 .. n /\ (k - 1) + 1 = k /\ i < k - 1 /\ k - 1 < j
    BY <1>1
  <2>2. t[k - 1].zone # z
    BY <1>1, <1>7, <2>1 DEF Quiet
  <2>. QED BY <1>2, <2>1, <2>2
<1>8. Alternates(t)
  <2>. SUFFICES ASSUME NEW i \in 1 .. n, NEW j \in 1 .. n, i < j, t[i].zone = t[j].zone, Quiet(t, i, j, t[j].zone)
                PROVE  t[j].type = "add" <=> t[i].type = "remove"
    BY <1>1 DEF Alternates
  <2>1. i \in 0 .. n /\ j \in 1 .. n + 1 /\ i + 1 < j + 1 /\ i + 1 \in DOMAIN w /\ j + 1 \in DOMAIN w
    BY <1>1
  <2>2. t[i] = w[i + 1] /\ t[j] = w[j + 1]
    BY <1>2
  <2>3. Quiet(w, i + 1, j + 1, w[j + 1].zone)
    BY <1>7, <2>1, <2>2
  <2>4. w[j + 1].type = "add" <=> w[i + 1].type = "remove"
    BY <1>3, <2>1, <2>2, <2>3 DEF Alternates
  <2>. QED BY <2>2, <2>4
<1>9. StartsFrom(t, D)
  <2>. SUFFICES ASSUME NEW i \in 1 .. n, Quiet(t, 0, i, t[i].zone)
                PROVE  t[i].type = "add" <=> t[i].zone \notin D
    BY <1>1 DEF StartsFrom
  <2>1. t[i] = w[i + 1] /\ i + 1 \in DOMAIN w /\ 1 \in DOMAIN w /\ 1 < i + 1 /\ 0 \in 0 .. n /\ i \in 1 .. n + 1
        /\ 0 + 1 = 1
    BY <1>1, <1>2
  <2>2. Quiet(w, 1, i + 1, w[i + 1].zone)
    <3>1. Quiet(w, 0 + 1, i + 1, t[i].zone)
      BY <1>7, <2>1
    <3>. QED BY <2>1, <3>1
  <2>3. CASE w[i + 1].zone = x.zone
    <3>1. w[i + 1].type = "add" <=> x.type = "remove"
      BY <1>1, <1>3, <2>1, <2>2, <2>3 DEF Alternates
    <3>. QED BY <1>5, <2>1, <2>3, <3>1
  <2>4. CASE w[i + 1].zone # x.zone
    <3>1. Quiet(w, 0, i + 1, w[i + 1].zone)
      BY <1>1, <2>2, <2>4 DEF Quiet
    <3>2. w[i + 1].type = "add" <=> w[i + 1].zone \notin C
      BY <1>3, <2>1, <3>1 DEF StartsFrom
    <3>. QED BY <1>6, <2>1, <2>4, <3>2
  <2>. QED BY <2>3, <2>4
<1>10. EndsIn(t, S)
  <2>. SUFFICES ASSUME NEW i \in 1 .. n, Quiet(t, i, n + 1, t[i].zone)
                PROVE  t[i].type = "remove" <=> t[i].zone \notin S
    BY <1>1 DEF EndsIn, n
  <2>1. t[i] = w[i + 1] /\ i + 1 \in DOMAIN w /\ i \in 0 .. n /\ n + 1 \in 1 .. n + 1 /\ Len(w) + 1 = (n + 1) + 1
    BY <1>1, <1>2
  <2>2. Quiet(w, i + 1, Len(w) + 1, w[i + 1].zone)
    BY <1>7, <2>1
  <2>. QED BY <1>3, <2>1, <2>2 DEF EndsIn
<1>11. Leaves(t, D, S)
  <2>. SUFFICES ASSUME NEW z \in Zones, Quiet(t, 0, n + 1, z) PROVE z \in D <=> z \in S
    BY DEF Leaves, n
  <2>1. 0 \in 0 .. n /\ n + 1 \in 1 .. n + 1 /\ Len(w) + 1 = (n + 1) + 1 /\ 0 + 1 = 1 /\ 1 \in DOMAIN w
    BY <1>1
  <2>2. Quiet(w, 1, Len(w) + 1, z)
    <3>1. Quiet(w, 0 + 1, (n + 1) + 1, z)
      BY <1>7, <2>1
    <3>. QED BY <2>1, <3>1
  <2>3. CASE z = x.zone
    <3>1. x.type = "remove" <=> x.zone \notin S
      BY <1>1, <1>3, <2>1, <2>2, <2>3 DEF EndsIn
    <3>. QED BY <1>5, <2>3, <3>1
  <2>4. CASE z # x.zone
    <3>1. Quiet(w, 0, Len(w) + 1, z)
      BY <1>1, <2>2, <2>4 DEF Quiet
    <3>. QED BY <1>3, <1>6, <2>4, <3>1 DEF Leaves
  <2>. QED BY <2>3, <2>4
<1>. QED BY <1>4, <1>8, <1>9, <1>10, <1>11 DEF View, x, t

\* The last word on z in w followed by v.
LEMMA SaysJoin ==
  ASSUME NEW M, NEW w \in Seq(M), NEW v \in Seq(M), NEW z, NEW a,
         Says(v, z, a), Quiet(v, 0, Len(v) + 1, z) => Says(w, z, a)
  PROVE  Says(w \o v, z, a)
<1>. DEFINE u == w \o v
            m == Len(w)
            n == Len(v)
<1>1. m \in Nat /\ n \in Nat /\ DOMAIN w = 1 .. m /\ DOMAIN v = 1 .. n /\ DOMAIN u = 1 .. m + n /\ Len(u) = m + n
  OBVIOUS
<1>2. /\ \A i \in 1 .. m : u[i] = w[i] /\ i \in 1 .. m + n
      /\ \A i \in 1 .. n : u[m + i] = v[i] /\ m + i \in 1 .. m + n
      /\ \A i \in m + 1 .. m + n : u[i] = v[i - m] /\ i - m \in 1 .. n /\ m + (i - m) = i
  BY <1>1
<1>. HIDE DEF u, m, n
<1>. SUFFICES ASSUME NEW i \in 1 .. m + n, u[i].zone = z, Quiet(u, i, m + n + 1, z), u[i].type # "remove"
              PROVE  u[i].interest = a
  BY <1>1 DEF Says, u
<1>3. CASE i > m
  <2>1. i \in m + 1 .. m + n /\ i - m \in DOMAIN v
    BY <1>1, <1>3
  <2>2. Quiet(v, i - m, n + 1, z)
    <3>. SUFFICES ASSUME NEW k \in 1 .. n, i - m < k, k < n + 1 PROVE v[k].zone # z
      BY <1>1 DEF Quiet
    <3>1. i < m + k /\ m + k < m + n + 1 /\ m + k \in 1 .. m + n
      BY <1>1, <1>3
    <3>. QED BY <1>1, <1>2, <3>1 DEF Quiet
  <2>. QED BY <1>2, <2>1, <2>2 DEF Says, n
<1>4. CASE i <= m
  <2>1. i \in 1 .. m
    BY <1>1, <1>4
  <2>2. Quiet(v, 0, n + 1, z)
    <3>. SUFFICES ASSUME NEW k \in 1 .. n PROVE v[k].zone # z
      BY <1>1 DEF Quiet
    <3>1. i < m + k /\ m + k < m + n + 1 /\ m + k \in 1 .. m + n
      BY <1>1, <1>4
    <3>. QED BY <1>1, <1>2, <3>1, SMTT(30) DEF Quiet
  <2>3. Quiet(w, i, m + 1, z)
    BY <1>1, <1>2, <2>1 DEF Quiet
  <2>. QED BY <1>1, <1>2, <2>1, <2>2, <2>3 DEF Says, m, n
<1>. QED BY <1>1, <1>3, <1>4

\* Where nothing is said of z in w followed by v, nothing is in either.
LEMMA QuietParts ==
  ASSUME NEW M, NEW w \in Seq(M), NEW v \in Seq(M), NEW z, Quiet(w \o v, 0, Len(w \o v) + 1, z)
  PROVE  Quiet(w, 0, Len(w) + 1, z) /\ Quiet(v, 0, Len(v) + 1, z)
<1>1. \A i \in DOMAIN w : (w \o v)[i] = w[i] /\ i \in DOMAIN (w \o v) /\ 0 < i /\ i < Len(w \o v) + 1
  OBVIOUS
<1>2. \A i \in DOMAIN v : /\ (w \o v)[Len(w) + i] = v[i] /\ Len(w) + i \in DOMAIN (w \o v)
                          /\ 0 < Len(w) + i /\ Len(w) + i < Len(w \o v) + 1
  OBVIOUS
<1>. QED BY <1>1, <1>2 DEF Quiet

\* Hearing the first message leaves the last word, or says it.
LEMMA SaysRest ==
  ASSUME NEW M, NEW w \in Seq(M), w # <<>>, NEW z, NEW a, Says(w, z, a)
  PROVE  /\ Says(Tail(w), z, a)
         /\ Quiet(Tail(w), 0, Len(Tail(w)) + 1, z) =>
              IF Head(w).zone = z THEN Head(w).type # "remove" => Head(w).interest = a
              ELSE Quiet(w, 0, Len(w) + 1, z)
<1>. DEFINE t == Tail(w)
            n == Len(t)
<1>1. n \in Nat /\ Len(w) = n + 1 /\ DOMAIN w = 1 .. n + 1 /\ DOMAIN t = 1 .. n /\ w[1] = Head(w)
  OBVIOUS
<1>2. \A i \in 1 .. n : t[i] = w[i + 1] /\ i + 1 \in 1 .. n + 1
  OBVIOUS
<1>. HIDE DEF t, n
<1>3. ASSUME NEW i \in 0 .. n, Quiet(t, i, n + 1, z) PROVE Quiet(w, i + 1, Len(w) + 1, z)
  <2>. SUFFICES ASSUME NEW k \in 1 .. n + 1, i + 1 < k PROVE w[k].zone # z
    BY <1>1 DEF Quiet
  <2>1. k - 1 \in 1 .. n /\ (k - 1) + 1 = k /\ i < k - 1 /\ k - 1 < n + 1
    BY <1>1
  <2>2. t[k - 1].zone # z
    BY <1>1, <1>3, <2>1 DEF Quiet
  <2>. QED BY <1>2, <2>1, <2>2
<1>4. Says(t, z, a)
  <2>. SUFFICES ASSUME NEW i \in 1 .. n, t[i].zone = z, Quiet(t, i, n + 1, z), t[i].type # "remove"
                PROVE  t[i].interest = a
    BY <1>1 DEF Says, n
  <2>1. t[i] = w[i + 1] /\ i + 1 \in DOMAIN w /\ i \in 0 .. n
    BY <1>1, <1>2
  <2>2. Quiet(w, i + 1, Len(w) + 1, z)
    BY <1>3, <2>1
  <2>. QED BY <2>1, <2>2 DEF Says
<1>5. ASSUME Quiet(t, 0, n + 1, z)
      PROVE  IF Head(w).zone = z THEN Head(w).type # "remove" => Head(w).interest = a
             ELSE Quiet(w, 0, Len(w) + 1, z)
  <2>1. Quiet(w, 1, Len(w) + 1, z)
    <3>1. 0 \in 0 .. n /\ 0 + 1 = 1
      BY <1>1
    <3>2. Quiet(w, 0 + 1, Len(w) + 1, z)
      BY <1>3, <1>5, <3>1
    <3>. QED BY <3>1, <3>2
  <2>2. 1 \in DOMAIN w
    BY <1>1
  <2>. QED BY <1>1, <2>1, <2>2 DEF Says, Quiet
<1>. QED BY <1>4, <1>5 DEF t, n

\* SetToSeq: every member once, and nothing else.
LEMMA SeqOfSet ==
  ASSUME NEW A, IsFiniteSet(A)
  PROVE  /\ SetToSeq(A) \in Seq(A)
         /\ \A i, j \in DOMAIN SetToSeq(A) : SetToSeq(A)[i] = SetToSeq(A)[j] => i = j
         /\ \A x \in A : \E i \in DOMAIN SetToSeq(A) : SetToSeq(A)[i] = x
<1>. DEFINE c == Cardinality(A)
            s == SetToSeq(A)
<1>1. c \in Nat
  BY FS_CardinalityType
<1>2. ExistsBijection(1 .. c, A)
  BY FS_NatBijection, FS_CountingElements, FS_CardinalityType
<1>3. \E f \in [1 .. c -> A] : IsInjective(f)
  BY <1>2 DEF ExistsBijection, Bijection, Injection, IsInjective
<1>4. s \in [1 .. c -> A] /\ IsInjective(s)
  BY <1>3 DEF SetToSeq
<1>5. s \in Injection(1 .. c, A)
  BY <1>4 DEF Injection, IsInjective
<1>6. Cardinality(1 .. c) = c
  BY <1>1, FS_Interval
<1>7. s \in Surjection(1 .. c, A)
  BY <1>5, <1>6, FS_Injection
<1>. HIDE DEF s, c
<1>. QED BY <1>1, <1>4, <1>7 DEF Surjection, IsInjective, s

------------------------------------------------------------------------------
Held(p) == {z \in Zones : copy[p][z] # None}
Seen(p) == {z \in Zones : p \in shown[z]}

\* A zone is in one part of its life; before it is added nobody is in it.
Life ==
  /\ zones \cap leaving = {} /\ zones \cap freed = {}
  /\ \A z \in Zones \ (zones \cup leaving \cup freed) : interest[z] = {} /\ shown[z] = {}

\* The setter at the server has told of everybody.
Known == \A z \in Zones : old_interest[z] = interest[z] /\ present[Server][z] = interest[z]

\* Whom the signals at a client have told of, those read before among them.
Informed ==
  \A p \in Peers, z \in Zones : copy[p][z] # None =>
    copy[p][z].interest \subseteq present[p][z] /\ copy[p][z].old_interest \subseteq present[p][z]

\* What is on its way brings every client to the zones that it is shown ...
Views == \A p \in peers : View(wire[p], Held(p), Seen(p))

\* ... and to who is in them.
Values ==
  \A p \in peers, z \in zones : p \in shown[z] =>
    /\ Says(wire[p], z, interest[z])
    /\ Quiet(wire[p], 0, Len(wire[p]) + 1, z) => copy[p][z].interest = interest[z]

IInv == TypeOK /\ Life /\ InterestIsSight /\ Known /\ Informed /\ Views /\ Values

\* Messages are of one zone, and of the three kinds.
LEMMA MessageShapes ==
  /\ \A x \in Messages : x.zone \in Zones
  /\ \A z \in Zones, ps \in SUBSET Peers :
       /\ Added(z, ps) \in Messages /\ Synced(z, ps) \in Messages /\ Removed(z) \in Messages
       /\ Added(z, ps).type = "add" /\ Added(z, ps).zone = z /\ Added(z, ps).interest = ps
       /\ Synced(z, ps).type = "sync" /\ Synced(z, ps).zone = z /\ Synced(z, ps).interest = ps
       /\ Removed(z).type = "remove" /\ Removed(z).zone = z
BY DEF Messages, Added, Synced, Removed

\* The views of messages join.
LEMMA Join ==
  ASSUME NEW w \in Seq(Messages), NEW v \in Seq(Messages), NEW C, NEW T, NEW S, View(w, C, T), View(v, T, S)
  PROVE  View(w \o v, C, S)
BY ViewsJoin, MessageShapes

\* What does not touch who is connected, the zones and what the clients have.
LEMMA SameSights ==
  ASSUME Views, UNCHANGED <<peers, shown, wire, copy>>
  PROVE  Views'
BY DEF Views, Held, Seen

\* Messages that bring a client from the zones it was shown to those it is shown
\* now may be added to what is on its way.
LEMMA ViewsGrow ==
  ASSUME TypeOK, Views, peers' \subseteq peers, NEW v \in [peers' -> Seq(Messages)],
         \A q \in peers' : /\ wire'[q] = wire[q] \o v[q] /\ copy'[q] = copy[q]
                           /\ View(v[q], Seen(q), Seen(q)')
  PROVE  Views'
<1>. SUFFICES ASSUME NEW q \in peers' PROVE View(wire[q] \o v[q], Held(q), Seen(q)')
  BY DEF Views, Held
<1>1. wire[q] \in Seq(Messages) /\ v[q] \in Seq(Messages) /\ View(wire[q], Held(q), Seen(q))
  BY DEF TypeOK, Views
<1>. QED BY <1>1, Join

\* Messages that say nothing of a zone leave what is said of it; the last of
\* those that do says who is in it now.
LEMMA ValuesGrow ==
  ASSUME TypeOK, Values, peers' \subseteq peers, zones' \subseteq zones, NEW v \in [peers' -> Seq(Messages)],
         \A q \in peers' : wire'[q] = wire[q] \o v[q] /\ copy'[q] = copy[q],
         \A q \in peers', y \in zones' : q \in shown'[y] =>
           /\ q \in shown[y]
           /\ \/ interest'[y] = interest[y] /\ \A i \in DOMAIN v[q] : v[q][i].zone # y
              \/ Says(v[q], y, interest'[y]) /\ ~Quiet(v[q], 0, Len(v[q]) + 1, y)
  PROVE  Values'
<1>. SUFFICES ASSUME NEW q \in peers', NEW y \in zones', q \in shown'[y]
              PROVE  /\ Says(wire[q] \o v[q], y, interest'[y])
                     /\ Quiet(wire[q] \o v[q], 0, Len(wire[q] \o v[q]) + 1, y)
                          => copy[q][y].interest = interest'[y]
  BY ZenonT(30) DEF Values
<1>1. /\ wire[q] \in Seq(Messages) /\ v[q] \in Seq(Messages)
      /\ Says(wire[q], y, interest[y])
      /\ Quiet(wire[q], 0, Len(wire[q]) + 1, y) => copy[q][y].interest = interest[y]
  BY DEF TypeOK, Values
<1>2. CASE interest'[y] = interest[y] /\ \A i \in DOMAIN v[q] : v[q][i].zone # y
  <2>1. Says(v[q], y, interest[y])
    BY <1>2 DEF Says
  <2>. QED BY <1>1, <1>2, <2>1, SaysJoin, QuietParts
<1>3. CASE Says(v[q], y, interest'[y]) /\ ~Quiet(v[q], 0, Len(v[q]) + 1, y)
  BY <1>1, <1>3, SaysJoin, QuietParts
<1>. QED BY <1>2, <1>3

------------------------------------------------------------------------------
LEMMA InitHolds == Init => IInv
<1>. SUFFICES ASSUME Init PROVE IInv
  OBVIOUS
<1>1. TypeOK /\ Life /\ InterestIsSight /\ Known /\ Informed
  BY NotPeers DEF Init, TypeOK, Life, InterestIsSight, Known, Informed, Copies
<1>2. Views
  <2>1. \A p \in Peers : wire[p] = <<>> /\ Held(p) = {} /\ Seen(p) = {}
    BY DEF Init, Held, Seen
  <2>. QED BY <2>1, EmptyView DEF Views, Init
<1>3. Values
  BY DEF Init, Values
<1>. QED BY <1>1, <1>2, <1>3 DEF IInv

\* add_zone: the zone is nobody's yet.
LEMMA AddZoneKeeps ==
  ASSUME IInv, NEW z \in Zones, add_zone(z)
  PROVE  IInv'
<1>1. TypeOK' /\ Life' /\ Known' /\ Informed'
  BY DEF IInv, add_zone, TypeOK, Life, Known, Informed
<1>2. interest[z] = {} /\ shown[z] = {}
  BY DEF IInv, Life, add_zone
<1>3. InterestIsSight'
  BY <1>2 DEF IInv, InterestIsSight, add_zone
<1>4. Views'
  BY SameSights DEF IInv, add_zone
<1>5. Values'
  BY <1>2 DEF IInv, Values, add_zone
<1>. QED BY <1>1, <1>3, <1>4, <1>5 DEF IInv

\* add_interest: one message to each who observes, and one to who is added.
LEMMA AddInterestKeeps ==
  ASSUME IInv, NEW p \in Peers, NEW z \in Zones, add_interest(p, z)
  PROVE  IInv'
<1>. DEFINE new == interest[z] \cup {p}
            v(q) == IF q \in Observing(z) THEN <<Synced(z, new)>>
                    ELSE IF q = p THEN <<Added(z, new)>> ELSE <<>>
<1>0. /\ TypeOK /\ Life /\ InterestIsSight /\ Known /\ Informed /\ Views /\ Values
      /\ p \in peers /\ z \in zones /\ p \notin interest[z]
      /\ new \in SUBSET Peers
  BY DEF IInv, add_interest, TypeOK
<1>1. /\ interest' = [interest EXCEPT ![z] = new] /\ old_interest' = [old_interest EXCEPT ![z] = new]
      /\ present' = [present EXCEPT ![Server][z] = Told(@, old_interest[z], new)]
      /\ shown' = [shown EXCEPT ![z] = @ \cup {p}]
      /\ UNCHANGED <<peers, zones, leaving, freed, copy>>
  BY DEF add_interest
<1>2. \A q \in Peers : wire[q] \in Seq(Messages)
  BY <1>0 DEF TypeOK
<1>3. wire' = [q \in Peers |-> wire[q] \o v(q)]
  <2>1. wire' = [q \in Peers |-> IF q \in Observing(z) THEN Append(wire[q], Synced(z, new))
                                  ELSE IF q = p THEN Append(wire[q], Added(z, new)) ELSE wire[q]]
    BY DEF add_interest
  <2>2. ASSUME NEW q \in Peers, NEW x \in Messages
        PROVE  Append(wire[q], x) = wire[q] \o <<x>> /\ wire[q] \o <<>> = wire[q]
    BY <1>2
  <2>3. Synced(z, new) \in Messages /\ Added(z, new) \in Messages
    BY <1>0, MessageShapes
  <2>. HIDE DEF new
  <2>4. ASSUME NEW q \in Peers
        PROVE  wire[q] \o v(q) = IF q \in Observing(z) THEN Append(wire[q], Synced(z, new))
                                  ELSE IF q = p THEN Append(wire[q], Added(z, new)) ELSE wire[q]
    BY <2>2, <2>3
  <2>. QED BY <2>1, <2>4
<1>4. \A q \in Peers : v(q) \in Seq(Messages)
  BY <1>0, MessageShapes
<1>5. TypeOK'
  <2>1. Told(present[Server][z], old_interest[z], new) \in SUBSET Peers
    BY <1>0 DEF Told, TypeOK
  <2>2. wire' \in [Peers -> Seq(Messages)]
    <3>. HIDE DEF v, new
    <3>1. \A q \in Peers : wire[q] \o v(q) \in Seq(Messages)
      BY <1>2, <1>4
    <3>. QED BY <1>3, <3>1
  <2>. HIDE DEF new
  <2>. QED BY <1>0, <1>1, <2>1, <2>2 DEF TypeOK
<1>6. Life'
  BY <1>0, <1>1 DEF Life, TypeOK
<1>7. InterestIsSight'
  BY <1>0, <1>1 DEF InterestIsSight, TypeOK
<1>8. Known'
  <2>1. Told(present[Server][z], old_interest[z], new) = new
    BY <1>0 DEF Told, Known
  <2>2. present'[Server][z] = new /\ \A y \in Zones : y # z => present'[Server][y] = present[Server][y]
    BY <1>0, <1>1, <2>1 DEF TypeOK
  <2>. HIDE DEF new
  <2>. QED BY <1>0, <1>1, <2>2 DEF Known, TypeOK
<1>9. Informed'
  <2>1. \A q \in Peers : present'[q] = present[q]
    BY <1>0, <1>1, NotPeers DEF TypeOK, Server
  <2>. QED BY <1>0, <1>1, <2>1 DEF Informed
<1>10. Views'
  <2>. SUFFICES ASSUME NEW q \in peers PROVE View(wire[q] \o v(q), Held(q), Seen(q)')
    BY <1>0, <1>1, <1>3 DEF Views, Held, TypeOK
  <2>1. q \in Peers /\ View(wire[q], Held(q), Seen(q)) /\ wire[q] \in Seq(Messages) /\ v(q) \in Seq(Messages)
    BY <1>0, <1>2, <1>4 DEF Views, TypeOK
  <2>2. \A y \in Zones : shown'[y] = IF y = z THEN shown[z] \cup {p} ELSE shown[y]
    BY <1>0, <1>1 DEF TypeOK
  <2>3. View(v(q), Seen(q), Seen(q)')
    <3>1. CASE q \in Observing(z)
      <4>1. Seen(q)' = Seen(q) /\ z \in Seen(q)
        BY <2>2, <3>1 DEF Seen, Observing
      <4>2. v(q) = <<Synced(z, new)>>
        BY <3>1
      <4>3. View(<<Synced(z, new)>>, Seen(q), Seen(q))
        <5>. DEFINE x == Synced(z, new)
        <5>1. x \in Messages /\ x.type = "sync" /\ x.zone = z
          BY <1>0, MessageShapes
        <5>. HIDE DEF x
        <5>2. <<x>> \in Seq(Messages) /\ \A i \in DOMAIN <<x>> : <<x>>[i].type = "sync" /\ <<x>>[i].zone \in Seen(q)
          BY <4>1, <5>1
        <5>. QED BY <5>2, SyncsView DEF x
      <4>. QED BY <4>1, <4>2, <4>3
    <3>2. CASE q \notin Observing(z) /\ q = p
      <4>1. z \notin Seen(q) /\ Seen(q)' = Seen(q) \cup {z}
        BY <2>2, <3>2 DEF Seen, Observing
      <4>2. View(<<Added(z, new)>>, Seen(q), Seen(q) \cup {z})
        <5>. DEFINE x == Added(z, new)
        <5>1. x.type = "add" /\ x.zone = z
          BY <1>0, MessageShapes
        <5>. HIDE DEF x
        <5>2. View(<<x>>, Seen(q), Seen(q) \cup {x.zone})
          BY <4>1, <5>1, AddView
        <5>. QED BY <5>1, <5>2 DEF x
      <4>. QED BY <3>2, <4>1, <4>2
    <3>3. CASE q \notin Observing(z) /\ q # p
      <4>1. Seen(q)' = Seen(q)
        BY <2>2, <3>3 DEF Seen
      <4>. QED BY <3>3, <4>1, EmptyView
    <3>. QED BY <3>1, <3>2, <3>3
  <2>. HIDE DEF v
  <2>. QED BY <2>1, <2>3, Join
<1>11. Values'
  <2>. SUFFICES ASSUME NEW q \in peers, NEW y \in zones, q \in shown'[y]
                PROVE  /\ Says(wire[q] \o v(q), y, interest'[y])
                       /\ Quiet(wire[q] \o v(q), 0, Len(wire[q] \o v(q)) + 1, y)
                            => copy[q][y].interest = interest'[y]
    BY <1>0, <1>1, <1>3 DEF Values, TypeOK
  <2>1. q \in Peers /\ y \in Zones /\ wire[q] \in Seq(Messages) /\ v(q) \in Seq(Messages)
    BY <1>0, <1>2, <1>4 DEF TypeOK
  <2>2. CASE y = z
    <3>1. interest'[y] = new /\ (q \in Observing(z) \/ q = p)
      BY <1>0, <1>1, <2>2 DEF TypeOK, Observing
    <3>2. \E x : v(q) = <<x>> /\ x.zone = y /\ x.interest = new
      BY <1>0, <2>2, <3>1, MessageShapes
    <3>. HIDE DEF v, new
    <3>3. PICK x : v(q) = <<x>> /\ x.zone = y /\ x.interest = new
      BY <3>2
    <3>4. Says(v(q), y, new) /\ ~Quiet(v(q), 0, Len(v(q)) + 1, y)
      BY <3>3 DEF Says, Quiet
    <3>. QED BY <2>1, <3>1, <3>4, SaysJoin, QuietParts
  <2>3. CASE y # z
    <3>1. interest'[y] = interest[y] /\ q \in shown[y]
      BY <1>0, <1>1, <2>1, <2>3 DEF TypeOK
    <3>2. \A i \in DOMAIN v(q) : v(q)[i].zone # y
      BY <1>0, <2>3, MessageShapes
    <3>. HIDE DEF v, new
    <3>3. Says(v(q), y, interest[y])
      BY <3>2 DEF Says
    <3>4. /\ Says(wire[q], y, interest[y])
          /\ Quiet(wire[q], 0, Len(wire[q]) + 1, y) => copy[q][y].interest = interest[y]
      BY <1>0, <3>1 DEF Values
    <3>. QED BY <2>1, <3>1, <3>3, <3>4, SaysJoin, QuietParts
  <2>. QED BY <2>2, <2>3
<1>. QED BY <1>1, <1>5, <1>6, <1>7, <1>8, <1>9, <1>10, <1>11 DEF IInv

\* What Leave changes at the server, and what it sends.
LeftAs(z, R) ==
  /\ interest' = [interest EXCEPT ![z] = interest[z] \ R]
  /\ shown' = [shown EXCEPT ![z] = shown[z] \ R]
  /\ old_interest' \in [Zones -> SUBSET Peers]
  /\ present' \in [Peers \cup {Server} -> [Zones -> SUBSET Peers]]
  /\ wire' \in [Peers -> Seq(Messages)]

LeftMessages(z, R, order) ==
  \E v \in [Peers -> Seq(Messages)] : \A q \in Peers :
    /\ wire'[q] = wire[q] \o v[q]
    /\ \A i \in DOMAIN v[q] : v[q][i].zone = z
    /\ q \in Observing(z) \ R =>
         v[q] = [i \in DOMAIN order |-> Synced(z, interest[z] \ {order[j] : j \in 1 .. i})]

\* Leave: who still observes hears of each that leaves, and who leaves of those
\* before it, before the zone is taken from it.
LEMMA LeaveKeeps ==
  ASSUME IInv, NEW z \in zones, NEW R \in SUBSET interest[z], NEW order \in Seq(R), Range(order) = R,
         Leave(z, order), peers' = peers, copy' = copy
  PROVE  LeftAs(z, R) /\ LeftMessages(z, R, order) /\ Known' /\ Informed' /\ Views'
<1>. DEFINE left == interest[z] \ R
            syncs == [i \in DOMAIN order |-> Synced(z, interest[z] \ {order[j] : j \in 1 .. i})]
            place(q) == CHOOSE i \in DOMAIN order : order[i] = q
            before(q) == SubSeq(syncs, 1, place(q))
            v == [q \in Peers |-> IF q \notin Observing(z) THEN <<>>
                                   ELSE IF q \in R THEN before(q) \o <<Removed(z)>> ELSE syncs]
<1>0. /\ TypeOK /\ Known /\ Informed /\ Views
      /\ z \in Zones /\ interest[z] \in SUBSET Peers /\ left \in SUBSET Peers
  BY DEF IInv, TypeOK
<1>1. /\ interest' = [interest EXCEPT ![z] = left] /\ old_interest' = [old_interest EXCEPT ![z] = left]
      /\ present' = [present EXCEPT ![Server][z] = Told(@, old_interest[z], left)]
      /\ shown' = [shown EXCEPT ![z] = @ \ R]
  BY DEF Leave
<1>2. /\ syncs \in Seq(Messages) /\ DOMAIN syncs = DOMAIN order /\ Len(syncs) = Len(order)
      /\ \A i \in DOMAIN syncs : syncs[i].type = "sync" /\ syncs[i].zone = z
  <2>1. \A i \in DOMAIN order : interest[z] \ {order[j] : j \in 1 .. i} \in SUBSET Peers
    BY <1>0
  <2>2. \A i \in DOMAIN order : syncs[i] \in Messages /\ syncs[i].type = "sync" /\ syncs[i].zone = z
    BY <1>0, <2>1, MessageShapes
  <2>3. DOMAIN order = 1 .. Len(order) /\ Len(order) \in Nat
    OBVIOUS
  <2>4. DOMAIN syncs = DOMAIN order
    OBVIOUS
  <2>. HIDE DEF syncs
  <2>5. syncs \in [1 .. Len(order) -> Messages]
    BY <2>2, <2>3, <2>4 DEF syncs
  <2>. QED BY <2>2, <2>3, <2>4, <2>5
<1>3. \A q \in R : place(q) \in DOMAIN order
  BY DEF Range
<1>. HIDE DEF syncs, place
<1>4. \A q \in R : /\ before(q) \in Seq(Messages)
                   /\ \A i \in DOMAIN before(q) : before(q)[i].type = "sync" /\ before(q)[i].zone = z
  <2>. SUFFICES ASSUME NEW q \in R
                PROVE  /\ before(q) \in Seq(Messages)
                       /\ \A i \in DOMAIN before(q) : before(q)[i].type = "sync" /\ before(q)[i].zone = z
    OBVIOUS
  <2>1. place(q) \in 1 .. Len(syncs)
    BY <1>2, <1>3
  <2>2. before(q) \in Seq(Messages) /\ Len(before(q)) = place(q) /\ \A i \in 1 .. place(q) : before(q)[i] = syncs[i]
    BY <1>2, <2>1
  <2>. QED BY <1>2, <2>1, <2>2
<1>. HIDE DEF before, left
<1>5. Removed(z) \in Messages /\ <<Removed(z)>> \in Seq(Messages) /\ Removed(z).type = "remove" /\ Removed(z).zone = z
  BY <1>0, MessageShapes
<1>6. v \in [Peers -> Seq(Messages)]
  <2>1. ASSUME NEW q \in Peers PROVE v[q] \in Seq(Messages)
    BY <1>2, <1>4, <1>5
  <2>. QED BY <2>1
<1>7. \A q \in Peers : wire[q] \in Seq(Messages)
  BY <1>0 DEF TypeOK
<1>8. \A q \in Peers : wire'[q] = wire[q] \o v[q]
  <2>1. wire' = [q \in Peers |->
                   IF q \notin Observing(z) THEN wire[q]
                   ELSE IF q \in R THEN wire[q] \o (before(q) \o <<Removed(z)>>)
                   ELSE wire[q] \o syncs]
    BY DEF Leave, before, place, syncs
  <2>2. ASSUME NEW q \in Peers PROVE wire[q] \o <<>> = wire[q]
    BY <1>7
  <2>. QED BY <2>1, <2>2
<1>9. /\ old_interest' \in [Zones -> SUBSET Peers]
      /\ present' \in [Peers \cup {Server} -> [Zones -> SUBSET Peers]]
      /\ wire' \in [Peers -> Seq(Messages)]
  <2>1. Told(present[Server][z], old_interest[z], left) \in SUBSET Peers
    BY <1>0 DEF Told, TypeOK
  <2>2. \A q \in Peers : wire[q] \o v[q] \in Seq(Messages)
    BY <1>6, <1>7
  <2>3. wire' = [q \in Peers |-> wire'[q]]
    BY DEF Leave
  <2>. HIDE DEF v
  <2>4. wire' \in [Peers -> Seq(Messages)]
    BY <1>8, <2>2, <2>3
  <2>5. old_interest' \in [Zones -> SUBSET Peers]
    BY <1>0, <1>1 DEF TypeOK
  <2>6. present' \in [Peers \cup {Server} -> [Zones -> SUBSET Peers]]
    BY <1>0, <1>1, <2>1 DEF TypeOK
  <2>. QED BY <2>4, <2>5, <2>6
<1>10. Known'
  <2>1. Told(present[Server][z], old_interest[z], left) = left
    BY <1>0 DEF Told, Known, left
  <2>2. present'[Server][z] = left /\ \A y \in Zones : y # z => present'[Server][y] = present[Server][y]
    BY <1>0, <1>1, <2>1 DEF TypeOK
  <2>. QED BY <1>0, <1>1, <2>2 DEF Known, TypeOK
<1>11. Informed'
  <2>1. \A q \in Peers : present'[q] = present[q]
    BY <1>0, <1>1, NotPeers DEF TypeOK, Server
  <2>. QED BY <1>0, <1>1, <2>1 DEF Informed
<1>12. \A q \in peers : View(v[q], Seen(q), Seen(q)')
  <2>. SUFFICES ASSUME NEW q \in peers PROVE View(v[q], Seen(q), Seen(q)')
    OBVIOUS
  <2>0. q \in Peers /\ \A y \in Zones : shown'[y] = IF y = z THEN shown[z] \ R ELSE shown[y]
    BY <1>0, <1>1 DEF TypeOK
  <2>1. CASE q \notin Observing(z)
    <3>1. Seen(q)' = Seen(q) /\ v[q] = <<>>
      BY <2>0, <2>1 DEF Seen, Observing
    <3>. QED BY <3>1, EmptyView
  <2>2. CASE q \in Observing(z) /\ q \in R
    <3>1. z \in Seen(q) /\ Seen(q)' = Seen(q) \ {z}
      BY <1>0, <2>0, <2>2 DEF Seen, Observing
    <3>2. View(before(q), Seen(q), Seen(q))
      BY <1>4, <2>2, <3>1, SyncsView
    <3>3. View(<<Removed(z)>>, Seen(q), Seen(q) \ {z})
      <4>. DEFINE x == <<Removed(z)>>
      <4>1. x \in Seq(Messages) /\ DOMAIN x = {1} /\ x[1].type = "remove" /\ x[1].zone = z
        BY <1>5
      <4>. HIDE DEF x
      <4>2. View(x, Seen(q), Seen(q) \ {z})
        BY <3>1, <4>1, RemovalsView
      <4>. QED BY <4>2 DEF x
    <3>4. View(before(q) \o <<Removed(z)>>, Seen(q), Seen(q) \ {z})
      BY <1>4, <1>5, <2>2, <3>2, <3>3, Join
    <3>5. v[q] = before(q) \o <<Removed(z)>>
      BY <2>0, <2>2
    <3>. QED BY <3>1, <3>4, <3>5
  <2>3. CASE q \in Observing(z) /\ q \notin R
    <3>1. z \in Seen(q) /\ Seen(q)' = Seen(q) /\ v[q] = syncs
      BY <1>0, <2>0, <2>3 DEF Seen, Observing
    <3>2. View(syncs, Seen(q), Seen(q))
      BY <1>2, <3>1, SyncsView
    <3>. QED BY <3>1, <3>2
  <2>. QED BY <2>1, <2>2, <2>3
<1>13. Views'
  <2>. DEFINE u == [q \in peers' |-> v[q]]
  <2>1. peers' = peers /\ peers \subseteq Peers /\ copy' = copy
    BY <1>0 DEF TypeOK
  <2>. HIDE DEF v
  <2>2. u \in [peers' -> Seq(Messages)] /\ \A q \in peers' : u[q] = v[q]
    BY <1>6, <2>1
  <2>. HIDE DEF u
  <2>3. \A q \in peers' : wire'[q] = wire[q] \o u[q] /\ copy'[q] = copy[q] /\ View(u[q], Seen(q), Seen(q)')
    BY <1>8, <1>12, <2>1, <2>2
  <2>. QED BY <1>0, <2>1, <2>2, <2>3, ViewsGrow
<1>14. \A q \in Peers : \A i \in DOMAIN v[q] : v[q][i].zone = z
  <2>. SUFFICES ASSUME NEW q \in Peers, NEW i \in DOMAIN v[q] PROVE v[q][i].zone = z
    OBVIOUS
  <2>1. CASE q \in Observing(z) /\ q \in R
    <3>1. v[q] = before(q) \o <<Removed(z)>> /\ before(q) \in Seq(Messages)
      BY <1>4, <2>1
    <3>2. i \in DOMAIN before(q) \/ i = Len(before(q)) + 1
      BY <1>5, <3>1
    <3>3. (i \in DOMAIN before(q) => v[q][i] = before(q)[i]) /\ (i = Len(before(q)) + 1 => v[q][i] = Removed(z))
      BY <1>5, <3>1
    <3>. QED BY <1>4, <1>5, <2>1, <3>2, <3>3
  <2>2. CASE q \in Observing(z) /\ q \notin R
    BY <1>2, <2>2
  <2>3. CASE q \notin Observing(z)
    BY <2>3
  <2>. QED BY <2>1, <2>2, <2>3
<1>15. \A q \in Observing(z) \ R : q \in Peers => v[q] = syncs
  OBVIOUS
<1>. HIDE DEF v
<1>16. LeftMessages(z, R, order)
  BY <1>6, <1>8, <1>14, <1>15 DEF LeftMessages, syncs
<1>. QED BY <1>1, <1>9, <1>10, <1>11, <1>13, <1>16 DEF LeftAs, left

\* remove_interest: the others hear who is left, the peer that the zone is gone.
LEMMA RemoveInterestKeeps ==
  ASSUME IInv, NEW p \in Peers, NEW z \in Zones, remove_interest(p, z)
  PROVE  IInv'
<1>. DEFINE R == {p}
<1>0. /\ TypeOK /\ Life /\ InterestIsSight /\ Values
      /\ z \in zones /\ R \in SUBSET interest[z] /\ <<p>> \in Seq(R) /\ Range(<<p>>) = R
      /\ Leave(z, <<p>>) /\ peers' = peers /\ copy' = copy /\ UNCHANGED <<zones, leaving, freed>>
  BY DEF IInv, remove_interest, Range
<1>. HIDE DEF R
<1>a. LeftAs(z, R) /\ LeftMessages(z, R, <<p>>) /\ Known' /\ Informed' /\ Views'
  BY <1>0, LeaveKeeps
<1>1. /\ interest' = [interest EXCEPT ![z] = interest[z] \ R]
      /\ shown' = [shown EXCEPT ![z] = shown[z] \ R]
      /\ old_interest' \in [Zones -> SUBSET Peers]
      /\ present' \in [Peers \cup {Server} -> [Zones -> SUBSET Peers]]
      /\ wire' \in [Peers -> Seq(Messages)]
      /\ Known' /\ Informed' /\ Views'
  BY <1>a DEF LeftAs
<1>2. PICK v \in [Peers -> Seq(Messages)] : \A q \in Peers :
        /\ wire'[q] = wire[q] \o v[q]
        /\ \A i \in DOMAIN v[q] : v[q][i].zone = z
        /\ q \in Observing(z) \ R =>
             v[q] = [i \in DOMAIN <<p>> |-> Synced(z, interest[z] \ {<<p>>[j] : j \in 1 .. i})]
  BY <1>a DEF LeftMessages
<1>3. TypeOK'
  BY <1>0, <1>1 DEF TypeOK
<1>4. Life' /\ InterestIsSight'
  BY <1>0, <1>1 DEF Life, InterestIsSight, TypeOK
<1>5. Values'
  <2>. DEFINE u == [q \in peers' |-> v[q]]
  <2>1. peers' = peers /\ peers \subseteq Peers /\ copy' = copy /\ zones' = zones
    BY <1>0 DEF TypeOK
  <2>2. u \in [peers' -> Seq(Messages)] /\ \A q \in peers' : u[q] = v[q]
    BY <2>1
  <2>. HIDE DEF u
  <2>3. \A q \in peers' : wire'[q] = wire[q] \o u[q] /\ copy'[q] = copy[q]
    BY <1>2, <2>1, <2>2
  <2>4. ASSUME NEW q \in peers, NEW y \in zones, q \in shown'[y]
        PROVE  /\ q \in shown[y]
               /\ \/ interest'[y] = interest[y] /\ \A i \in DOMAIN u[q] : u[q][i].zone # y
                  \/ Says(u[q], y, interest'[y]) /\ ~Quiet(u[q], 0, Len(u[q]) + 1, y)
    <3>0. q \in Peers /\ y \in Zones /\ u[q] = v[q]
      BY <1>0, <2>1, <2>2 DEF TypeOK
    <3>1. CASE y # z
      BY <1>0, <1>1, <1>2, <2>4, <3>0, <3>1 DEF TypeOK
    <3>2. CASE y = z
      <4>1. q \in shown[z] /\ q \notin R /\ interest'[z] = interest[z] \ R
        BY <1>0, <1>1, <2>4, <3>2 DEF TypeOK
      <4>2. q \in Observing(z) \ R
        BY <4>1 DEF Observing
      <4>3. u[q] = [i \in DOMAIN <<p>> |-> Synced(z, interest[z] \ {<<p>>[j] : j \in 1 .. i})]
        BY <1>2, <3>0, <4>2
      <4>4. {<<p>>[j] : j \in 1 .. 1} = R /\ 1 \in DOMAIN <<p>> /\ DOMAIN <<p>> = {1}
        BY DEF R
      <4>5. DOMAIN u[q] = {1} /\ u[q][1] = Synced(z, interest'[z]) /\ 1 < Len(u[q]) + 1
        <5>1. DOMAIN u[q] = {1} /\ u[q][1] = Synced(z, interest'[z])
          BY <4>1, <4>3, <4>4
        <5>2. u[q] \in Seq(Messages)
          BY <3>0
        <5>3. ASSUME NEW x \in Seq(Messages), 1 \in DOMAIN x PROVE 1 < Len(x) + 1
          BY <5>3
        <5>. QED BY <5>1, <5>2, <5>3
      <4>6. u[q][1].zone = z /\ u[q][1].interest = interest'[z]
        BY <4>5 DEF Synced
      <4>7. Says(u[q], z, interest'[z])
        BY <4>5, <4>6 DEF Says
      <4>8. ~Quiet(u[q], 0, Len(u[q]) + 1, z)
        BY <4>5, <4>6 DEF Quiet
      <4>. QED BY <3>2, <4>1, <4>7, <4>8
    <3>. QED BY <3>1, <3>2
  <2>. QED BY <1>0, <2>1, <2>2, <2>3, <2>4, ValuesGrow
<1>. QED BY <1>1, <1>3, <1>4, <1>5 DEF IInv

\* remove_zone: some of those in the zone leave, and the zone is on its way out.
LEMMA RemoveZoneKeeps ==
  ASSUME IInv, NEW z \in Zones, remove_zone(z)
  PROVE  IInv'
<1>0. /\ TypeOK /\ Life /\ InterestIsSight /\ Values
      /\ z \in zones /\ peers' = peers /\ copy' = copy /\ freed' = freed
      /\ zones' = zones \ {z} /\ leaving' = leaving \cup {z}
  BY DEF IInv, remove_zone
<1>1. PICK R \in SUBSET interest[z] : Leave(z, SetToSeq(R))
  BY DEF remove_zone
<1>2. SetToSeq(R) \in Seq(R) /\ Range(SetToSeq(R)) = R
  <2>1. IsFiniteSet(R)
    BY <1>0, Finite, FS_Subset DEF TypeOK
  <2>. QED BY <2>1, SeqOfSet DEF Range
<1>a. LeftAs(z, R) /\ LeftMessages(z, R, SetToSeq(R)) /\ Known' /\ Informed' /\ Views'
  BY <1>0, <1>1, <1>2, LeaveKeeps
<1>3. /\ interest' = [interest EXCEPT ![z] = interest[z] \ R]
      /\ shown' = [shown EXCEPT ![z] = shown[z] \ R]
      /\ old_interest' \in [Zones -> SUBSET Peers]
      /\ present' \in [Peers \cup {Server} -> [Zones -> SUBSET Peers]]
      /\ wire' \in [Peers -> Seq(Messages)]
      /\ Known' /\ Informed' /\ Views'
  BY <1>a DEF LeftAs
<1>4. PICK v \in [Peers -> Seq(Messages)] : \A q \in Peers :
        wire'[q] = wire[q] \o v[q] /\ \A i \in DOMAIN v[q] : v[q][i].zone = z
  BY <1>a DEF LeftMessages
<1>5. TypeOK'
  BY <1>0, <1>3 DEF TypeOK
<1>6. Life' /\ InterestIsSight'
  BY <1>0, <1>3 DEF Life, InterestIsSight, TypeOK
<1>7. Values'
  <2>. DEFINE u == [q \in peers' |-> v[q]]
  <2>1. peers' = peers /\ peers \subseteq Peers /\ copy' = copy /\ zones' \subseteq zones
    BY <1>0 DEF TypeOK
  <2>2. u \in [peers' -> Seq(Messages)] /\ \A q \in peers' : u[q] = v[q]
    BY <2>1
  <2>. HIDE DEF u
  <2>3. \A q \in peers' : wire'[q] = wire[q] \o u[q] /\ copy'[q] = copy[q]
    BY <1>4, <2>1, <2>2
  <2>4. \A q \in peers', y \in zones' : q \in shown'[y] =>
          /\ q \in shown[y]
          /\ \/ interest'[y] = interest[y] /\ \A i \in DOMAIN u[q] : u[q][i].zone # y
             \/ Says(u[q], y, interest'[y]) /\ ~Quiet(u[q], 0, Len(u[q]) + 1, y)
    BY <1>0, <1>3, <1>4, <2>1, <2>2 DEF TypeOK
  <2>. QED BY <1>0, <2>1, <2>2, <2>3, <2>4, ValuesGrow
<1>. QED BY <1>3, <1>5, <1>6, <1>7 DEF IInv

\* Disconnect: the others hear of each zone that they share with the peer.
LEMMA DisconnectKeeps ==
  ASSUME IInv, NEW p \in Peers, Disconnect(p)
  PROVE  IInv'
<1>. DEFINE Z == {z \in zones : p \in interest[z]}
            left(z) == interest[z] \ {p}
            order(q) == SetToSeq({z \in Z : q \in shown[z]})
            v(q) == [i \in DOMAIN order(q) |-> Synced(order(q)[i], left(order(q)[i]))]
<1>0. TypeOK /\ Life /\ InterestIsSight /\ Known /\ Informed /\ Views /\ Values /\ p \in peers /\ peers \subseteq Peers
      /\ Z \subseteq Zones /\ Z \subseteq zones
  BY DEF IInv, Disconnect, TypeOK
<1>1. /\ peers' = peers \ {p}
      /\ interest' = [z \in Zones |-> IF z \in Z THEN left(z) ELSE interest[z]]
      /\ old_interest' = [z \in Zones |-> IF z \in Z THEN left(z) ELSE old_interest[z]]
      /\ shown' = [z \in Zones |-> shown[z] \ {p}]
      /\ copy' = [copy EXCEPT ![p] = [z \in Zones |-> None]]
      /\ present' = [q \in Peers \cup {Server} |->
                      [z \in Zones |-> IF q = p THEN {}
                                       ELSE IF q = Server /\ z \in Z
                                         THEN Told(present[Server][z], old_interest[z], left(z))
                                       ELSE present[q][z]]]
      /\ UNCHANGED <<zones, leaving, freed>>
  BY DEF Disconnect
<1>2. wire' = [q \in Peers |-> IF q = p THEN <<>> ELSE IF q \in peers THEN wire[q] \o v(q) ELSE wire[q]]
  BY DEF Disconnect
<1>3. \A q \in Peers : /\ order(q) \in Seq(Z)
                       /\ \A i \in DOMAIN order(q) : order(q)[i] \in Z /\ q \in shown[order(q)[i]]
                       /\ \A z \in Z : q \in shown[z] => \E i \in DOMAIN order(q) : order(q)[i] = z
  <2>. SUFFICES ASSUME NEW q \in Peers
                PROVE  /\ order(q) \in Seq(Z)
                       /\ \A i \in DOMAIN order(q) : order(q)[i] \in Z /\ q \in shown[order(q)[i]]
                       /\ \A z \in Z : q \in shown[z] => \E i \in DOMAIN order(q) : order(q)[i] = z
    OBVIOUS
  <2>. DEFINE A == {z \in Z : q \in shown[z]}
  <2>1. IsFiniteSet(A)
    BY <1>0, Finite, FS_Subset
  <2>. HIDE DEF A
  <2>2. /\ SetToSeq(A) \in Seq(A)
        /\ \A x \in A : \E i \in DOMAIN SetToSeq(A) : SetToSeq(A)[i] = x
    BY <2>1, SeqOfSet
  <2>3. A \subseteq Z /\ \A z \in Z : z \in A <=> q \in shown[z]
    BY DEF A
  <2>4. SetToSeq(A) \in Seq(Z) /\ \A i \in DOMAIN SetToSeq(A) : SetToSeq(A)[i] \in A
    BY <2>2, <2>3
  <2>5. order(q) = SetToSeq(A)
    BY DEF A
  <2>. HIDE DEF order, Z
  <2>. QED BY <2>2, <2>3, <2>4, <2>5
<1>4. \A z \in Zones : left(z) \in SUBSET Peers
  BY <1>0 DEF TypeOK
<1>. HIDE DEF order
<1>5. \A q \in Peers :
        /\ v(q) \in Seq(Messages) /\ DOMAIN v(q) = DOMAIN order(q)
        /\ \A i \in DOMAIN v(q) : /\ v(q)[i].type = "sync" /\ v(q)[i].zone = order(q)[i]
                                 /\ v(q)[i].interest = left(order(q)[i])
  <2>. SUFFICES ASSUME NEW q \in Peers
                PROVE  /\ v(q) \in Seq(Messages) /\ DOMAIN v(q) = DOMAIN order(q)
                       /\ \A i \in DOMAIN v(q) : /\ v(q)[i].type = "sync" /\ v(q)[i].zone = order(q)[i]
                                                /\ v(q)[i].interest = left(order(q)[i])
    OBVIOUS
  <2>. HIDE DEF left, Z
  <2>1. \A i \in DOMAIN order(q) : order(q)[i] \in Zones
    BY <1>0, <1>3
  <2>2. \A z \in Zones : /\ Synced(z, left(z)) \in Messages /\ Synced(z, left(z)).type = "sync"
                         /\ Synced(z, left(z)).zone = z /\ Synced(z, left(z)).interest = left(z)
    BY <1>4, MessageShapes
  <2>3. DOMAIN order(q) = 1 .. Len(order(q)) /\ Len(order(q)) \in Nat
    BY <1>3
  <2>4. v(q) \in [1 .. Len(order(q)) -> Messages]
    BY <2>1, <2>2, <2>3
  <2>. QED BY <2>1, <2>2, <2>3, <2>4
<1>. HIDE DEF v
<1>6. TypeOK'
  <2>1. wire' \in [Peers -> Seq(Messages)]
    <3>1. \A q \in Peers : wire[q] \o v(q) \in Seq(Messages) /\ wire[q] \in Seq(Messages)
      BY <1>0, <1>5 DEF TypeOK
    <3>2. <<>> \in Seq(Messages)
      OBVIOUS
    <3>. QED BY <1>2, <3>1, <3>2
  <2>2. present' \in [Peers \cup {Server} -> [Zones -> SUBSET Peers]]
    <3>1. \A z \in Zones : Told(present[Server][z], old_interest[z], left(z)) \in SUBSET Peers
      BY <1>0 DEF TypeOK, Told
    <3>. HIDE DEF left, Z
    <3>. QED BY <1>0, <1>1, <3>1 DEF TypeOK
  <2>3. copy' \in [Peers -> [Zones -> Copies]]
    BY <1>0, <1>1 DEF TypeOK, Copies
  <2>4. interest' \in [Zones -> SUBSET Peers] /\ old_interest' \in [Zones -> SUBSET Peers]
        /\ shown' \in [Zones -> SUBSET Peers]
    BY <1>0, <1>1 DEF TypeOK
  <2>5. peers' \subseteq Peers /\ zones' \subseteq Zones /\ leaving' \subseteq Zones /\ freed' \subseteq Zones
    BY <1>0, <1>1 DEF TypeOK
  <2>. QED BY <2>1, <2>2, <2>3, <2>4, <2>5 DEF TypeOK
<1>7. Life' /\ InterestIsSight'
  BY <1>0, <1>1, ZenonT(30) DEF Life, InterestIsSight, TypeOK
<1>8. Known'
  <2>1. \A z \in Zones : Told(present[Server][z], old_interest[z], left(z)) = left(z)
    BY <1>0 DEF Told, Known
  <2>2. Server # p
    BY NotPeers DEF Server
  <2>3. \A z \in Zones : present'[Server][z] = IF z \in Z THEN left(z) ELSE present[Server][z]
    <3>. HIDE DEF left, Z
    <3>. QED BY <1>1, <2>1, <2>2
  <2>. QED BY <1>0, <1>1, <2>3 DEF Known
<1>9. Informed'
  <2>. SUFFICES ASSUME NEW q \in Peers, NEW z \in Zones, copy'[q][z] # None
                PROVE  /\ copy'[q][z].interest \subseteq present'[q][z]
                       /\ copy'[q][z].old_interest \subseteq present'[q][z]
    BY DEF Informed
  <2>1. q # p /\ q # Server
    BY <1>0, <1>1, NotPeers DEF Server, TypeOK
  <2>2. copy'[q] = copy[q] /\ present'[q][z] = present[q][z]
    BY <1>0, <1>1, <2>1 DEF TypeOK
  <2>. QED BY <1>0, <2>2 DEF Informed
<1>o. \A q \in Peers :
        /\ \A i \in DOMAIN v(q) : v(q)[i].zone \in Z /\ q \in shown[v(q)[i].zone]
        /\ \A z \in Z : q \in shown[z] => \E i \in DOMAIN v(q) : v(q)[i].zone = z
  <2>. HIDE DEF Z, left
  <2>. SUFFICES ASSUME NEW q \in Peers
                PROVE  /\ \A i \in DOMAIN v(q) : v(q)[i].zone \in Z /\ q \in shown[v(q)[i].zone]
                       /\ \A z \in Z : q \in shown[z] => \E i \in DOMAIN v(q) : v(q)[i].zone = z
    OBVIOUS
  <2>1. DOMAIN v(q) = DOMAIN order(q) /\ \A i \in DOMAIN v(q) : v(q)[i].zone = order(q)[i]
    BY <1>5
  <2>2. \A i \in DOMAIN v(q) : v(q)[i].zone \in Z /\ q \in shown[v(q)[i].zone]
    BY <1>3, <2>1
  <2>3. ASSUME NEW z \in Z, q \in shown[z] PROVE \E i \in DOMAIN v(q) : v(q)[i].zone = z
    BY <1>3, <2>1, <2>3
  <2>. QED BY <2>2, <2>3
<1>. DEFINE u == [q \in peers' |-> v(q)]
<1>10. /\ u \in [peers' -> Seq(Messages)] /\ peers' \subseteq peers /\ zones' \subseteq zones
       /\ \A q \in peers' : q \in Peers /\ q # p /\ u[q] = v(q)
  BY <1>0, <1>1, <1>5
<1>. HIDE DEF u
<1>11. \A q \in peers' : wire'[q] = wire[q] \o u[q] /\ copy'[q] = copy[q]
  BY <1>0, <1>1, <1>2, <1>10 DEF TypeOK
<1>12. Views'
  <2>1. ASSUME NEW q \in peers' PROVE View(u[q], Seen(q), Seen(q)')
    <3>1. Seen(q)' = Seen(q)
      BY <1>1, <1>10 DEF Seen
    <3>2. u[q] \in Seq(Messages) /\ \A i \in DOMAIN u[q] : u[q][i].type = "sync" /\ u[q][i].zone \in Seen(q)
      BY <1>0, <1>5, <1>10, <1>o DEF Seen
    <3>. QED BY <3>1, <3>2, SyncsView
  <2>. QED BY <1>0, <1>10, <1>11, <2>1, ViewsGrow
<1>13. Values'
  <2>1. ASSUME NEW q \in peers', NEW y \in zones', q \in shown'[y]
        PROVE  /\ q \in shown[y]
               /\ \/ interest'[y] = interest[y] /\ \A i \in DOMAIN u[q] : u[q][i].zone # y
                  \/ Says(u[q], y, interest'[y]) /\ ~Quiet(u[q], 0, Len(u[q]) + 1, y)
    <3>0. q \in Peers /\ u[q] = v(q) /\ y \in Zones /\ y \in zones
      BY <1>0, <1>1, <1>10 DEF TypeOK
    <3>1. q \in shown[y]
      BY <1>1, <2>1, <3>0
    <3>2. CASE y \notin Z
      <4>1. interest'[y] = interest[y]
        BY <1>1, <3>0, <3>2
      <4>2. \A i \in DOMAIN u[q] : u[q][i].zone \in Z
        BY <1>o, <3>0
      <4>. QED BY <3>1, <3>2, <4>1, <4>2
    <3>3. CASE y \in Z
      <4>1. interest'[y] = left(y)
        BY <1>1, <3>0, <3>3
      <4>2. Says(u[q], y, left(y))
        BY <1>5, <3>0 DEF Says
      <4>3. \E i \in DOMAIN u[q] : u[q][i].zone = y
        BY <1>o, <3>0, <3>1, <3>3
      <4>4. \A i \in DOMAIN u[q] : 0 < i /\ i < Len(u[q]) + 1
        <5>1. ASSUME NEW x \in Seq(Messages), NEW i \in DOMAIN x PROVE 0 < i /\ i < Len(x) + 1
          OBVIOUS
        <5>. QED BY <1>10, <5>1
      <4>. QED BY <3>1, <4>1, <4>2, <4>3, <4>4 DEF Quiet
    <3>. QED BY <3>2, <3>3
  <2>. QED BY <1>0, <1>10, <1>11, <2>1, ValuesGrow
<1>. QED BY <1>6, <1>7, <1>8, <1>9, <1>12, <1>13 DEF IInv

\* FrameEnds: who still sees a zone that is freed hears that it is gone.
LEMMA FrameEndsKeeps ==
  ASSUME IInv, FrameEnds
  PROVE  IInv'
<1>. DEFINE ends(q) == SetToSeq({z \in leaving : q \in Observing(z)})
            v(q) == [i \in DOMAIN ends(q) |-> Removed(ends(q)[i])]
<1>0. TypeOK /\ Life /\ InterestIsSight /\ Known /\ Informed /\ Views /\ Values /\ peers \subseteq Peers
      /\ leaving \subseteq Zones
  BY DEF IInv, TypeOK
<1>1. /\ leaving' = {} /\ freed' = freed \cup leaving
      /\ shown' = [z \in Zones |-> IF z \in leaving THEN {} ELSE shown[z]]
      /\ wire' = [q \in Peers |-> wire[q] \o v(q)]
      /\ UNCHANGED <<peers, zones, interest, old_interest, copy, present>>
  BY DEF FrameEnds
<1>2. \A q \in Peers : /\ ends(q) \in Seq(Zones)
                       /\ \A i \in DOMAIN ends(q) : ends(q)[i] \in leaving /\ q \in Observing(ends(q)[i])
                       /\ \A i, j \in DOMAIN ends(q) : ends(q)[i] = ends(q)[j] => i = j
                       /\ \A z \in leaving : q \in Observing(z) => \E i \in DOMAIN ends(q) : ends(q)[i] = z
  <2>. SUFFICES ASSUME NEW q \in Peers
                PROVE  /\ ends(q) \in Seq(Zones)
                       /\ \A i \in DOMAIN ends(q) : ends(q)[i] \in leaving /\ q \in Observing(ends(q)[i])
                       /\ \A i, j \in DOMAIN ends(q) : ends(q)[i] = ends(q)[j] => i = j
                       /\ \A z \in leaving : q \in Observing(z) => \E i \in DOMAIN ends(q) : ends(q)[i] = z
    OBVIOUS
  <2>. DEFINE A == {z \in leaving : q \in Observing(z)}
  <2>1. IsFiniteSet(A)
    BY <1>0, Finite, FS_Subset
  <2>2. A \subseteq Zones /\ \A z : z \in A <=> z \in leaving /\ q \in Observing(z)
    BY <1>0
  <2>3. ends(q) = SetToSeq(A)
    OBVIOUS
  <2>. HIDE DEF A, ends
  <2>4. /\ SetToSeq(A) \in Seq(A)
        /\ \A i, j \in DOMAIN SetToSeq(A) : SetToSeq(A)[i] = SetToSeq(A)[j] => i = j
        /\ \A x \in A : \E i \in DOMAIN SetToSeq(A) : SetToSeq(A)[i] = x
    BY <2>1, SeqOfSet
  <2>5. SetToSeq(A) \in Seq(Zones) /\ \A i \in DOMAIN SetToSeq(A) : SetToSeq(A)[i] \in A
    BY <2>2, <2>4
  <2>. QED BY <2>2, <2>3, <2>4, <2>5
<1>. HIDE DEF ends
<1>3. \A q \in Peers : /\ v(q) \in Seq(Messages) /\ DOMAIN v(q) = DOMAIN ends(q)
                       /\ \A i \in DOMAIN v(q) : v(q)[i].type = "remove" /\ v(q)[i].zone = ends(q)[i]
  <2>. SUFFICES ASSUME NEW q \in Peers
                PROVE  /\ v(q) \in Seq(Messages) /\ DOMAIN v(q) = DOMAIN ends(q)
                       /\ \A i \in DOMAIN v(q) : v(q)[i].type = "remove" /\ v(q)[i].zone = ends(q)[i]
    OBVIOUS
  <2>1. \A i \in DOMAIN ends(q) : ends(q)[i] \in Zones
    BY <1>2
  <2>2. \A z \in Zones : Removed(z) \in Messages /\ Removed(z).type = "remove" /\ Removed(z).zone = z
    BY MessageShapes
  <2>3. DOMAIN ends(q) = 1 .. Len(ends(q)) /\ Len(ends(q)) \in Nat
    BY <1>2
  <2>4. v(q) \in [1 .. Len(ends(q)) -> Messages]
    BY <2>1, <2>2, <2>3
  <2>. QED BY <2>1, <2>2, <2>3, <2>4
<1>. HIDE DEF v
<1>4. TypeOK'
  <2>1. \A q \in Peers : wire[q] \o v(q) \in Seq(Messages)
    BY <1>0, <1>3 DEF TypeOK
  <2>2. wire' \in [Peers -> Seq(Messages)]
    BY <1>1, <2>1
  <2>. QED BY <1>0, <1>1, <2>2 DEF TypeOK
<1>5. Life' /\ Known' /\ Informed'
  BY <1>0, <1>1 DEF Life, Known, Informed
<1>6. InterestIsSight'
  BY <1>0, <1>1 DEF InterestIsSight, Life, TypeOK
<1>. DEFINE u == [q \in peers' |-> v(q)]
<1>7. /\ u \in [peers' -> Seq(Messages)] /\ peers' \subseteq peers /\ zones' \subseteq zones
      /\ \A q \in peers' : q \in Peers /\ q \in peers /\ u[q] = v(q)
  BY <1>0, <1>1, <1>3
<1>. HIDE DEF u
<1>8. \A q \in peers' : wire'[q] = wire[q] \o u[q] /\ copy'[q] = copy[q]
  BY <1>1, <1>7
<1>9. Views'
  <2>1. ASSUME NEW q \in peers' PROVE View(u[q], Seen(q), Seen(q)')
    <3>0. q \in Peers /\ q \in peers /\ u[q] = v(q)
      BY <1>7
    <3>1. Seen(q)' = Seen(q) \ leaving
      BY <1>0, <1>1 DEF Seen
    <3>2. \A z \in Zones : q \in Observing(z) <=> z \in Seen(q)
      BY <3>0 DEF Observing, Seen
    <3>3. /\ v(q) \in Seq(Messages)
          /\ \A i \in DOMAIN v(q) : v(q)[i].type = "remove" /\ v(q)[i].zone \in Seen(q) \cap leaving
          /\ \A i, j \in DOMAIN v(q) : v(q)[i].zone = v(q)[j].zone => i = j
          /\ \A z \in Seen(q) \cap leaving : \E i \in DOMAIN v(q) : v(q)[i].zone = z
      BY <1>0, <1>2, <1>3, <3>0, <3>2
    <3>4. View(v(q), Seen(q), Seen(q) \ leaving)
      BY <3>3, RemovalsView
    <3>. QED BY <3>0, <3>1, <3>4
  <2>. QED BY <1>0, <1>7, <1>8, <2>1, ViewsGrow
<1>10. Values'
  <2>1. ASSUME NEW q \in peers', NEW y \in zones', q \in shown'[y]
        PROVE  /\ q \in shown[y]
               /\ \/ interest'[y] = interest[y] /\ \A i \in DOMAIN u[q] : u[q][i].zone # y
                  \/ Says(u[q], y, interest'[y]) /\ ~Quiet(u[q], 0, Len(u[q]) + 1, y)
    <3>1. y \in zones /\ y \in Zones /\ y \notin leaving /\ q \in Peers /\ u[q] = v(q)
      BY <1>0, <1>1, <1>7 DEF TypeOK, Life
    <3>2. \A i \in DOMAIN u[q] : u[q][i].zone \in leaving
      BY <1>2, <1>3, <3>1
    <3>. QED BY <1>1, <2>1, <3>1, <3>2
  <2>. QED BY <1>0, <1>7, <1>8, <2>1, ValuesGrow
<1>. QED BY <1>4, <1>5, <1>6, <1>9, <1>10 DEF IInv

\* Hear: what the first message does is what the rest of them counts on.
LEMMA HearKeeps ==
  ASSUME IInv, NEW p \in Peers, Hear(p)
  PROVE  IInv'
<1>. DEFINE x == Head(wire[p])
            z == x.zone
<1>0. /\ TypeOK /\ Life /\ InterestIsSight /\ Known /\ Informed /\ Views /\ Values
      /\ p \in peers /\ wire[p] # <<>> /\ wire[p] \in Seq(Messages)
      /\ wire' = [wire EXCEPT ![p] = Tail(@)]
      /\ UNCHANGED <<peers, zones, leaving, freed, interest, old_interest, shown>>
  BY DEF IInv, Hear, TypeOK
<1>1. x \in Messages /\ Tail(wire[p]) \in Seq(Messages) /\ z \in Zones
  <2>1. x \in Messages /\ Tail(wire[p]) \in Seq(Messages)
    BY <1>0
  <2>. QED BY <2>1, MessageShapes
<1>2. /\ x.type = "add" <=> z \notin Held(p)
      /\ View(Tail(wire[p]), After(x, Held(p)), Seen(p))
  BY <1>0, HearView DEF Views
<1>3. \/ x.type = "add" /\ HearAdded(p, z, x.interest)
      \/ x.type = "sync" /\ HearSynced(p, z, x.interest)
      \/ x.type = "remove" /\ HearRemoved(p, z)
  BY DEF Hear
<1>4. x.type # "remove" => x.interest \in SUBSET Peers
  BY <1>1 DEF Messages
<1>5. x.type = "sync" => copy[p][z] # None
  BY <1>1, <1>2 DEF Held
<1>. HIDE DEF x
<1>. DEFINE new == IF x.type = "remove" THEN None
                   ELSE [interest |-> x.interest, old_interest |-> IF x.type = "add" THEN {} ELSE x.interest]
            there == IF x.type = "remove" THEN {}
                     ELSE IF x.type = "add" THEN x.interest
                     ELSE Told(present[p][z], copy[p][z].old_interest, x.interest)
<1>6. /\ copy' = [copy EXCEPT ![p] = [copy[p] EXCEPT ![z] = new]]
      /\ present' = [present EXCEPT ![p] = [present[p] EXCEPT ![z] = there]]
  <2>1. CASE x.type = "add"
    BY <1>0, <1>1, <1>3, <2>1 DEF HearAdded, TypeOK
  <2>2. CASE x.type = "sync"
    BY <1>0, <1>1, <1>3, <1>5, <2>2 DEF HearSynced, TypeOK
  <2>3. CASE x.type = "remove"
    BY <1>0, <1>1, <1>3, <2>3 DEF HearRemoved, TypeOK
  <2>. QED BY <1>3, <2>1, <2>2, <2>3
<1>7. new \in Copies /\ (new # None <=> x.type # "remove")
  BY <1>4, NoneIsNoCopy DEF Copies
<1>8. x.type # "remove" => new.interest = x.interest /\ new.old_interest \subseteq x.interest
  OBVIOUS
<1>9. there \in SUBSET Peers /\ (x.type # "remove" => x.interest \subseteq there)
  <2>1. CASE x.type = "sync"
    <3>1. copy[p][z].old_interest \subseteq present[p][z] /\ present[p][z] \in SUBSET Peers
      BY <1>0, <1>1, <1>5, <2>1 DEF Informed, TypeOK
    <3>. QED BY <1>4, <2>1, <3>1 DEF Told
  <2>2. CASE x.type # "sync"
    BY <1>3, <1>4, <2>2
  <2>. QED BY <2>1, <2>2
<1>. HIDE DEF new, there, z
<1>10. /\ copy'[p][z] = new /\ present'[p][z] = there
       /\ \A y \in Zones : y # z => copy'[p][y] = copy[p][y] /\ present'[p][y] = present[p][y]
       /\ \A q \in Peers : q # p => copy'[q] = copy[q] /\ present'[q] = present[q] /\ wire'[q] = wire[q]
       /\ present'[Server] = present[Server] /\ wire'[p] = Tail(wire[p])
  <2>1. p # Server /\ Server \in Peers \cup {Server}
    BY NotPeers DEF Server
  <2>. QED BY <1>0, <1>1, <1>6, <2>1 DEF TypeOK
<1>11. TypeOK'
  <2>1. copy' \in [Peers -> [Zones -> Copies]]
    BY <1>0, <1>1, <1>6, <1>7 DEF TypeOK
  <2>2. present' \in [Peers \cup {Server} -> [Zones -> SUBSET Peers]]
    BY <1>0, <1>1, <1>6, <1>9 DEF TypeOK
  <2>3. wire' \in [Peers -> Seq(Messages)]
    BY <1>0, <1>1 DEF TypeOK
  <2>. QED BY <1>0, <2>1, <2>2, <2>3 DEF TypeOK
<1>12. Life' /\ InterestIsSight'
  BY <1>0 DEF Life, InterestIsSight
<1>13. Known'
  BY <1>0, <1>10 DEF Known
<1>14. Informed'
  <2>. SUFFICES ASSUME NEW q \in Peers, NEW y \in Zones, copy'[q][y] # None
                PROVE  /\ copy'[q][y].interest \subseteq present'[q][y]
                       /\ copy'[q][y].old_interest \subseteq present'[q][y]
    BY DEF Informed
  <2>1. CASE q = p /\ y = z
    BY <1>7, <1>8, <1>9, <1>10, <2>1
  <2>2. CASE ~(q = p /\ y = z)
    <3>1. copy'[q][y] = copy[q][y] /\ present'[q][y] = present[q][y]
      BY <1>10, <2>2
    <3>. QED BY <1>0, <3>1 DEF Informed
  <2>. QED BY <2>1, <2>2
<1>15. View(wire'[p], Held(p)', Seen(p)')
  <2>1. Held(p)' = After(x, Held(p))
    <3>1. \A y \in Zones : y \in Held(p)' <=> IF y = z THEN x.type # "remove" ELSE y \in Held(p)
      BY <1>1, <1>7, <1>10 DEF Held
    <3>2. \A y \in Zones : y \in After(x, Held(p)) <=> IF y = z THEN x.type # "remove" ELSE y \in Held(p)
      BY <1>2 DEF After, z
    <3>3. After(x, Held(p)) \subseteq Zones /\ Held(p)' \subseteq Zones
      BY <1>1 DEF After, Held, z
    <3>. QED BY <3>1, <3>2, <3>3
  <2>2. Seen(p)' = Seen(p)
    BY <1>0 DEF Seen
  <2>. QED BY <1>2, <1>10, <2>1, <2>2 DEF x
<1>16. Views'
  <2>. SUFFICES ASSUME NEW q \in peers, q # p PROVE View(wire'[q], Held(q)', Seen(q)')
    BY <1>0, <1>15 DEF Views
  <2>1. q \in Peers
    BY <1>0 DEF TypeOK
  <2>2. Held(q)' = Held(q) /\ Seen(q)' = Seen(q) /\ wire'[q] = wire[q]
    BY <1>0, <1>10, <2>1 DEF Held, Seen
  <2>. QED BY <1>0, <2>2 DEF Views
<1>17. Values'
  <2>. SUFFICES ASSUME NEW q \in peers, NEW y \in zones, q \in shown[y]
                PROVE  /\ Says(wire'[q], y, interest[y])
                       /\ Quiet(wire'[q], 0, Len(wire'[q]) + 1, y) => copy'[q][y].interest = interest[y]
    BY <1>0 DEF Values
  <2>0. /\ q \in Peers /\ y \in Zones /\ Says(wire[q], y, interest[y])
        /\ Quiet(wire[q], 0, Len(wire[q]) + 1, y) => copy[q][y].interest = interest[y]
    BY <1>0 DEF Values, TypeOK
  <2>1. CASE q # p
    BY <1>10, <2>0, <2>1
  <2>2. CASE q = p
    <3>1. /\ Says(Tail(wire[p]), y, interest[y])
          /\ Quiet(Tail(wire[p]), 0, Len(Tail(wire[p])) + 1, y) =>
               IF z = y THEN x.type # "remove" => x.interest = interest[y]
               ELSE Quiet(wire[p], 0, Len(wire[p]) + 1, y)
      BY <1>0, <2>0, <2>2, SaysRest DEF x, z
    <3>2. ASSUME Quiet(Tail(wire[p]), 0, Len(Tail(wire[p])) + 1, y)
          PROVE  copy'[p][y].interest = interest[y]
      <4>1. CASE z = y
        <5>1. y \in Held(p)'
          <6>1. y \in Seen(p)' /\ Leaves(wire'[p], Held(p)', Seen(p)')
            BY <1>0, <1>15, <2>0, <2>2 DEF Seen, View
          <6>. QED BY <1>10, <2>0, <3>2, <6>1 DEF Leaves
        <5>2. copy'[p][z] # None
          BY <4>1, <5>1 DEF Held
        <5>. QED BY <1>7, <1>8, <1>10, <3>1, <3>2, <4>1, <5>2
      <4>2. CASE z # y
        BY <1>10, <2>0, <2>2, <3>1, <3>2, <4>2
      <4>. QED BY <4>1, <4>2
    <3>. QED BY <1>10, <2>2, <3>1, <3>2
  <2>. QED BY <2>1, <2>2
<1>. QED BY <1>11, <1>12, <1>13, <1>14, <1>16, <1>17 DEF IInv

------------------------------------------------------------------------------
LEMMA NextKeepsIInv == IInv /\ [Next]_vars => IInv'
<1>. SUFFICES ASSUME IInv, [Next]_vars PROVE IInv'
  OBVIOUS
<1>1. ASSUME NEW p \in Peers, Disconnect(p) PROVE IInv'
  BY <1>1, DisconnectKeeps
<1>2. ASSUME NEW p \in Peers, Hear(p) PROVE IInv'
  BY <1>2, HearKeeps
<1>3. ASSUME NEW z \in Zones, add_zone(z) PROVE IInv'
  BY <1>3, AddZoneKeeps
<1>4. ASSUME NEW z \in Zones, remove_zone(z) PROVE IInv'
  BY <1>4, RemoveZoneKeeps
<1>5. ASSUME NEW p \in Peers, NEW z \in Zones, add_interest(p, z) PROVE IInv'
  BY <1>5, AddInterestKeeps
<1>6. ASSUME NEW p \in Peers, NEW z \in Zones, remove_interest(p, z) PROVE IInv'
  BY <1>6, RemoveInterestKeeps
<1>7. ASSUME FrameEnds PROVE IInv'
  BY <1>7, FrameEndsKeeps
<1>8. CASE UNCHANGED vars
  <2>1. Views'
    BY <1>8, SameSights DEF IInv, vars
  <2>2. TypeOK' /\ Life' /\ InterestIsSight' /\ Known' /\ Informed'
    BY <1>8 DEF IInv, vars, TypeOK, Life, InterestIsSight, Known, Informed
  <2>3. Values'
    BY <1>8 DEF IInv, vars, Values
  <2>. QED BY <2>1, <2>2, <2>3 DEF IInv
<1>. QED BY <1>1, <1>2, <1>3, <1>4, <1>5, <1>6, <1>7, <1>8 DEF Next

\* Whatever the peers and the zones do, what is on its way to each client brings
\* it to the zones that it is shown and to who is in them (ZoneService).
THEOREM Invariant == Spec => []IInv
<1>1. Init => IInv
  BY InitHolds
<1>2. IInv /\ [Next]_vars => IInv'
  BY NextKeepsIInv
<1>. QED BY <1>1, <1>2, PTL DEF Spec

\* For any number of peers and zones: a client that has heard everything has the
\* zones with interest in it, no others, and reads in each who is there.
THEOREM ClientsComeToAgree == Spec => []ViewsAgree
<1>1. IInv => ViewsAgree
  <2>. SUFFICES ASSUME IInv, NEW p \in peers, NEW z \in Zones, wire[p] = <<>>
                PROVE  IF p \in shown[z] THEN copy[p][z] # None /\ (z \in zones => copy[p][z].interest = interest[z])
                       ELSE copy[p][z] = None
    BY DEF ViewsAgree
  <2>1. Quiet(wire[p], 0, Len(wire[p]) + 1, z)
    BY DEF Quiet
  <2>2. z \in Held(p) <=> z \in Seen(p)
    BY <2>1 DEF IInv, Views, View, Leaves
  <2>3. copy[p][z] # None <=> p \in shown[z]
    BY <2>2 DEF Held, Seen
  <2>4. z \in zones /\ p \in shown[z] => copy[p][z].interest = interest[z]
    BY <2>1 DEF IInv, Values
  <2>. QED BY <2>3, <2>4
<1>. QED BY <1>1, Invariant, PTL

\* For any number of peers and zones: no message comes to a client in a state in
\* which it is dropped.
THEOREM NoMessageIsDropped == Spec => []NothingIsDropped
<1>1. IInv => NothingIsDropped
  <2>. SUFFICES ASSUME IInv, NEW p \in peers, wire[p] # <<>>
                PROVE  Head(wire[p]).type = "add" <=> copy[p][Head(wire[p]).zone] = None
    BY DEF NothingIsDropped
  <2>1. wire[p] \in Seq(Messages) /\ View(wire[p], Held(p), Seen(p))
    BY DEF IInv, TypeOK, Views
  <2>2. Head(wire[p]).type = "add" <=> Head(wire[p]).zone \notin Held(p)
    BY <2>1, HearView
  <2>3. Head(wire[p]).zone \in Zones
    <3>1. Head(wire[p]) \in Messages
      BY <2>1
    <3>. QED BY <3>1, MessageShapes
  <2>. QED BY <2>2, <2>3 DEF Held
<1>. QED BY <1>1, Invariant, PTL

\* For any number of peers and zones: who is gone is in no zone, and a zone is
\* shown to exactly those who are in it.
THEOREM ShownIsInterested == Spec => []InterestIsSight
<1>1. IInv => InterestIsSight
  BY DEF IInv
<1>. QED BY <1>1, Invariant, PTL

\* For any number of peers and zones: the signals at the server tell of every
\* change of interest.
THEOREM ServerSignals == Spec => []SignalsAreExact
<1>1. IInv => SignalsAreExact
  BY DEF IInv, SignalsAreExact, Known, TypeOK
<1>. QED BY <1>1, Invariant, PTL

\* For any number of peers and zones: a client is told of everybody who is in a
\* zone.
THEOREM ClientHearsOfJoins == Spec => []JoinsAreTold
<1>1. IInv => JoinsAreTold
  BY DEF IInv, JoinsAreTold, Informed
<1>. QED BY <1>1, Invariant, PTL
==============================================================================
