--------------------------- MODULE ConnectionProofs ---------------------------
(* What Connection keeps true for every set of versions, every number of        *)
(* attempts and every way of making peers, and what the List and the HashMap    *)
(* that a SteamMultiplayerPeer keeps its packets and connections in do, for any *)
(* elements, keys, hashes and capacities.                                       *)
EXTENDS Connection, Containers, FiniteSetTheorems, WellFoundedInduction, TLAPS

------------------------------------------------------------------------------
(* Connection. *)

\* The types the steps rely on.
Typed ==
  /\ connection_state \in Trying \cup {"DISCONNECTED", "TIMEOUT", "AUTH_TIMEOUT", "CONNECTED"}
  /\ awaiting \in BOOLEAN /\ timer \in BOOLEAN /\ session \in BOOLEAN
  /\ admitted \in BOOLEAN /\ completed \subseteq Side

LoopTyped == loop.at \in {"none", "await"}

\* Peers complete the authentication only when what they sent is equal, and
\* are let in only when both have.
Agreed ==
  /\ completed # {} \/ link = "up" \/ admitted => Sent("client") = Sent("server")
  /\ link = "up" => completed = Side

IInv == Typed /\ LoopTyped /\ StateIsConsistent /\ Agreed

\* Initially nothing is under way.
LEMMA InitInv == Init => IInv
<1> SUFFICES ASSUME Init PROVE IInv
  OBVIOUS
<1>1. Typed /\ LoopTyped
  <2>1. Typed
    BY DEF Init, Typed
  <2>2. LoopTyped
    BY DEF Init, LoopTyped, NoLoop
  <2> QED BY <2>1, <2>2
<1>2. StateIsConsistent
  BY DEF Init, StateIsConsistent, Trying, NoLoop
<1>3. Agreed
  BY DEF Init, Agreed
<1> QED BY <1>1, <1>2, <1>3 DEF IInv

\* The versions themselves never change.
LEMMA VersionsFixed == [Next]_vars => UNCHANGED versions
BY DEF Next, vars, client, StartConnection, StartMultiConnect, TryAgain, TryOnce, AttemptFailed, Succeeded,
       EndMultiConnect, Failed, ConnectionFailed, Timeout, Authenticating, AuthenticationFailed,
       ReceiveAuth, Connected, PeerConnected, Ended, EndConnection, ServerLost,
       PeerDisconnected, ServerStart, ServerEnd

\* An attempt that failed leaves nothing behind.
LEMMA FailedInv ==
  ASSUME IInv, NEW state \in {"DISCONNECTED", "TIMEOUT", "AUTH_TIMEOUT"}, Failed(state)
  PROVE  IInv'
<1>1. /\ versions' = versions /\ Sent("client")' = Sent("client") /\ Sent("server")' = Sent("server")
  BY DEF Failed, Sent
<1>2. Typed'
  BY DEF IInv, Typed, Failed, Side
<1>3. LoopTyped' /\ loop'.at = "none"
  BY DEF LoopTyped, Failed, Resumed, NoLoop
<1>4. StateIsConsistent'
  BY <1>3 DEF IInv, Typed, StateIsConsistent, Failed, Trying
<1>5. Agreed'
  BY <1>1 DEF IInv, Agreed, Failed, Side
<1> QED
  BY <1>2, <1>3, <1>4, <1>5 DEF IInv

\* The outcomes of start_connection, whoever calls it.
LEMMA BeginInv ==
  ASSUME IInv, Begin, LoopTyped',
         UNCHANGED <<session, admitted, versions>>
  PROVE  IInv'
<1>1. Sent("client")' = Sent("client") /\ Sent("server")' = Sent("server")
  BY DEF Sent
<1>2. Typed'
  BY DEF IInv, Typed, Begin, Side, Trying
<1>3. StateIsConsistent'
  BY DEF IInv, Typed, StateIsConsistent, Begin, Startable, Trying
<1>4. Agreed'
  BY <1>1 DEF IInv, Agreed, Begin
<1> QED
  BY <1>2, <1>3, <1>4 DEF IInv

LEMMA NotBegunInv ==
  ASSUME IInv, Refused \/ NotCreated, loop' = loop,
         UNCHANGED <<session, admitted, versions>>
  PROVE  IInv'
<1>1. Sent("client")' = Sent("client") /\ Sent("server")' = Sent("server")
  BY DEF Sent
<1>2. /\ UNCHANGED <<awaiting, timer, link, completed>>
      /\ \/ connection_state' = connection_state
         \/ connection_state' = "DISCONNECTED" /\ connection_state \notin Trying \cup {"CONNECTED"}
  BY DEF Refused, NotCreated, Startable
<1>3. Typed'
  BY <1>2 DEF IInv, Typed, Side, Trying
<1>4. LoopTyped'
  BY DEF IInv, LoopTyped
<1>5. StateIsConsistent'
  BY <1>2 DEF IInv, Typed, StateIsConsistent, Trying
<1>6. Agreed'
  BY <1>1, <1>2 DEF IInv, Agreed
<1> QED
  BY <1>3, <1>4, <1>5, <1>6 DEF IInv

\* Nothing that the invariant is about changes.
Rest == <<connection_state, awaiting, timer, loop, session, link, completed, admitted, versions>>

LEMMA SameInv ==
  ASSUME IInv, UNCHANGED Rest
  PROVE  IInv'
<1>1. UNCHANGED <<connection_state, awaiting, timer, loop, session, link, completed, admitted, versions>>
  BY DEF Rest
<1>2. Sent("client")' = Sent("client") /\ Sent("server")' = Sent("server")
  BY <1>1 DEF Sent
<1> QED BY <1>1, <1>2 DEF IInv, Typed, LoopTyped, StateIsConsistent, Agreed

\* Every step keeps the invariant.
LEMMA StepInv == IInv /\ [Next]_vars => IInv'
<1> SUFFICES ASSUME IInv, [Next]_vars PROVE IInv'
  OBVIOUS
<1>0. Sent("client")' = Sent("client") /\ Sent("server")' = Sent("server")
  BY VersionsFixed DEF Sent
<1>1. CASE StartConnection
  <2>1. LoopTyped'
    BY <1>1 DEF StartConnection, IInv, LoopTyped
  <2> QED
    BY <1>1, <2>1, BeginInv, NotBegunInv DEF StartConnection
<1>2. CASE TryAgain
  <2>1. CASE Head(loops).attempts = 0
    BY <1>2, <2>1, SameInv DEF TryAgain, Rest
  <2>2. CASE Head(loops).attempts # 0 /\ Begin
    <3>1. LoopTyped'
      BY <1>2, <2>2 DEF TryAgain, TryOnce, Begin, Refused, NotCreated, LoopTyped
    <3> QED BY <1>2, <2>2, <3>1, BeginInv DEF TryAgain
  <2>3. CASE Head(loops).attempts # 0 /\ (Refused \/ NotCreated)
    BY <1>2, <2>3, NotBegunInv DEF TryAgain, TryOnce, Begin, Refused, NotCreated
  <2> QED BY <1>2, <2>1, <2>2, <2>3 DEF TryAgain, TryOnce
<1>3. CASE ConnectionFailed
  BY <1>3, FailedInv DEF ConnectionFailed
<1>4. CASE AuthenticationFailed
  BY <1>4, FailedInv DEF AuthenticationFailed
<1>5. CASE Timeout /\ connection_state # "AUTHENTICATING"
  BY <1>5, FailedInv DEF Timeout
<1>6. ASSUME NEW n \in Attempts, StartMultiConnect(n) PROVE IInv'
  BY <1>6, SameInv DEF StartMultiConnect, Rest
<1>7. CASE AttemptFailed \/ Succeeded \/ EndMultiConnect
  BY <1>7, SameInv DEF AttemptFailed, Succeeded, EndMultiConnect, Rest
<1>8. CASE ServerStart
  BY <1>8, SameInv DEF ServerStart, client, Rest
<1>9. CASE UNCHANGED vars
  BY <1>9, SameInv DEF vars, client, Rest
<1> USE DEF IInv, Typed, LoopTyped, StateIsConsistent, Agreed, Trying, Side
<1>10. CASE Timeout /\ connection_state = "AUTHENTICATING"
  BY <1>0, <1>10 DEF Timeout
<1>11. CASE Authenticating
  BY <1>0, <1>11 DEF Authenticating
<1>12. ASSUME NEW side \in Side, ReceiveAuth(side) PROVE IInv'
  BY <1>0, <1>12 DEF ReceiveAuth, client
<1>13. CASE Connected
  <2>1. Typed'
    BY <1>0, <1>13 DEF Connected
  <2>2. LoopTyped' /\ loop'.at = "none"
    BY <1>13 DEF Connected, Resumed, NoLoop
  <2>3. StateIsConsistent'
    BY <1>0, <1>13, <2>2 DEF Connected
  <2>4. Agreed'
    BY <1>0, <1>13 DEF Connected
  <2> QED BY <2>1, <2>2, <2>3, <2>4
<1>14. CASE PeerConnected
  BY <1>0, <1>14 DEF PeerConnected, client
<1>15. CASE EndConnection \/ ServerLost
  <2>1. Typed'
    BY <1>0, <1>15 DEF EndConnection, ServerLost, Ended
  <2>2. LoopTyped'
    BY <1>0, <1>15 DEF EndConnection, ServerLost, Ended
  <2>3. StateIsConsistent'
    BY <1>0, <1>15 DEF EndConnection, ServerLost, Ended
  <2>4. Agreed'
    BY <1>0, <1>15 DEF EndConnection, ServerLost, Ended
  <2> QED BY <2>1, <2>2, <2>3, <2>4
<1>16. CASE PeerDisconnected
  BY <1>0, <1>16 DEF PeerDisconnected, client
<1>17. CASE ServerEnd
  BY <1>0, <1>17 DEF ServerEnd, client
<1> QED
  BY <1>1, <1>2, <1>3, <1>4, <1>5, <1>6, <1>7, <1>8, <1>9, <1>10, <1>11, <1>12, <1>13,
     <1>14, <1>15, <1>16, <1>17 DEF Next

\* The services exist exactly while connected, an attempt is awaited exactly
\* while it is under way, and no timer, peer or loop is left behind.
THEOREM StateConsistent == Spec => []StateIsConsistent
<1>1. IInv => StateIsConsistent
  BY DEF IInv
<1> QED
  BY <1>1, InitInv, StepInv, PTL DEF Spec

\* The shape of the versions stays what it is at first.
LEMMA VersionsTyped == Spec => [](versions \in [Side -> Version])
<1>1. Init => versions \in [Side -> Version]
  BY DEF Init
<1>2. versions \in [Side -> Version] /\ [Next]_vars => (versions \in [Side -> Version])'
  BY VersionsFixed
<1> QED
  BY <1>1, <1>2, PTL DEF Spec

\* As long as versions fit into the byte they are sent in, only peers of one
\* version connect, or are let in.
THEOREM OneByteVersionsAgree ==
  ASSUME Version \subseteq 0 .. 255
  PROVE  Spec => []VersionsAgree
<1>1. IInv /\ versions \in [Side -> Version] => VersionsAgree
  <2> SUFFICES ASSUME IInv, versions \in [Side -> Version],
                      connection_state = "CONNECTED" \/ admitted
               PROVE  versions["client"] = versions["server"]
    BY DEF VersionsAgree
  <2>1. versions["client"] \in 0 .. 255 /\ versions["server"] \in 0 .. 255
    BY DEF Side
  <2>2. Sent("client") = Sent("server")
    BY DEF IInv, StateIsConsistent, Agreed
  <2>3. \A n \in 0 .. 255 : n % 256 = n
    OBVIOUS
  <2> QED
    BY <2>1, <2>2, <2>3 DEF Sent
<1> QED
  BY <1>1, VersionsTyped, InitInv, StepInv, PTL DEF Spec

------------------------------------------------------------------------------
(* List, for any number of elements and values. In every reachable state there *)
(* is a sequence of all elements that the pointers lead through: IsList. That  *)
(* each operation keeps one, and which, is shown for the operation alone; the  *)
(* loops of clear, operator= and sort_custom_inplace go on from the element    *)
(* before (UpTo). What the properties say follows from IsList.                 *)

Null == LI!Null

Item == [next : Ids \cup {Null}, prev : Ids \cup {Null}, value : Values]
Lists == [data : BOOLEAN, first : Ids \cup {Null}, last : Ids \cup {Null}, size : Int,
          elem : UNION {[E -> Item] : E \in SUBSET Ids}]

\* The i-th element of s; there is none before the first and after the last.
At(s, i) == IF i \in 1 .. Len(s) THEN s[i] ELSE Null

\* The pointers of x lead through the elements s and no others.
Chain(x, s) ==
  /\ x \in Lists /\ s \in Seq(Ids)
  /\ \A i, j \in 1 .. Len(s) : s[i] = s[j] => i = j
  /\ x.first = At(s, 1) /\ x.last = At(s, Len(s))
  /\ \A i \in 1 .. Len(s) : /\ s[i] \in DOMAIN x.elem
                            /\ x.elem[s[i]].prev = At(s, i - 1)
                            /\ x.elem[s[i]].next = At(s, i + 1)

\* So y has the elements of x, with their values.
SameItems(y, x) ==
  /\ DOMAIN y.elem = DOMAIN x.elem /\ y.size = x.size /\ y.data = x.data
  /\ \A e \in DOMAIN x.elem : y.elem[e].value = x.elem[e].value

\* s without its k-th, and with e as its k-th.
Less(s, k) == [i \in 1 .. Len(s) - 1 |-> IF i < k THEN s[i] ELSE s[i + 1]]
More(s, k, e) == [i \in 1 .. Len(s) + 1 |-> IF i < k THEN s[i] ELSE IF i = k THEN e ELSE s[i - 1]]

\* Cardinality is the same by both names.
LEMMA CountsElements == \A S : LI!Cardinality(S) = Cardinality(S)
BY DEF LI!Cardinality, Cardinality

LEMMA IsSequence ==
  ASSUME NEW S, NEW n \in Nat, NEW f \in [1 .. n -> S]
  PROVE  f \in Seq(S) /\ Len(f) = n
OBVIOUS

LEMMA LessIs ==
  ASSUME NEW S, NEW s \in Seq(S), NEW k \in 1 .. Len(s)
  PROVE  /\ Less(s, k) \in Seq(S) /\ Len(Less(s, k)) = Len(s) - 1
         /\ \A i \in 1 .. Len(s) - 1 : Less(s, k)[i] = IF i < k THEN s[i] ELSE s[i + 1]
<1> DEFINE n == Len(s) - 1
           f == Less(s, k)
<1>1. n \in Nat /\ f \in [1 .. n -> S]
  BY DEF Less
<1>2. \A i \in 1 .. n : f[i] = IF i < k THEN s[i] ELSE s[i + 1]
  BY DEF Less
<1>3. f \in Seq(S) /\ Len(f) = n
  <2> HIDE DEF f, n
  <2> QED  BY <1>1, IsSequence
<1> QED  BY <1>2, <1>3

LEMMA MoreIs ==
  ASSUME NEW S, NEW s \in Seq(S), NEW k \in 1 .. Len(s) + 1, NEW e \in S
  PROVE  /\ More(s, k, e) \in Seq(S) /\ Len(More(s, k, e)) = Len(s) + 1
         /\ \A i \in 1 .. Len(s) + 1 :
              More(s, k, e)[i] = IF i < k THEN s[i] ELSE IF i = k THEN e ELSE s[i - 1]
<1> DEFINE n == Len(s) + 1
           f == More(s, k, e)
<1>1. n \in Nat /\ f \in [1 .. n -> S]
  BY DEF More
<1>2. \A i \in 1 .. n : f[i] = IF i < k THEN s[i] ELSE IF i = k THEN e ELSE s[i - 1]
  BY DEF More
<1>3. f \in Seq(S) /\ Len(f) = n
  <2> HIDE DEF f, n
  <2> QED  BY <1>1, IsSequence
<1> QED  BY <1>2, <1>3

\* The same in a word, for steps that need it of other names.
IsMore(u, S, s, k, e) ==
  /\ u \in Seq(S) /\ Len(u) = Len(s) + 1
  /\ \A i \in 1 .. Len(s) + 1 : u[i] = IF i < k THEN s[i] ELSE IF i = k THEN e ELSE s[i - 1]

LEMMA MoreInAWord ==
  ASSUME NEW S, NEW s \in Seq(S), NEW k \in 1 .. Len(s) + 1, NEW e \in S
  PROVE  IsMore(More(s, k, e), S, s, k, e)
<1>1. /\ More(s, k, e) \in Seq(S) /\ Len(More(s, k, e)) = Len(s) + 1
      /\ \A i \in 1 .. Len(s) + 1 :
           More(s, k, e)[i] = IF i < k THEN s[i] ELSE IF i = k THEN e ELSE s[i - 1]
  BY MoreIs, SMTT(30)
<1> QED  BY <1>1 DEF IsMore

\* A list in which the pointers next, prev, the ends and the size are given.
LEMMA ListIs ==
  ASSUME NEW x \in Lists
  PROVE  /\ x = [data |-> x.data, first |-> x.first, last |-> x.last, size |-> x.size, elem |-> x.elem]
         /\ DOMAIN x.elem \subseteq Ids /\ x.elem \in [DOMAIN x.elem -> Item]
         /\ x.data \in BOOLEAN /\ x.size \in Int /\ x.first \in Ids \cup {Null} /\ x.last \in Ids \cup {Null}
         /\ LI!Elements(x) = DOMAIN x.elem
BY DEF Lists, LI!Elements

\* A list with other ends and other elements.
Changed(y, x, a, b, g) ==
  /\ y \in Lists /\ y.first = a /\ y.last = b /\ y.elem = g
  /\ y.data = x.data /\ y.size = x.size

LEMMA ChangedIs ==
  ASSUME NEW x \in Lists, NEW a \in Ids \cup {Null}, NEW b \in Ids \cup {Null},
         NEW E, E \subseteq Ids, NEW g, g \in [E -> Item],
         NEW y, y = [x EXCEPT !.first = a, !.last = b, !.elem = g]
  PROVE  Changed(y, x, a, b, g)
BY DEF Lists, Changed

\* An element of a chain is taken out of it.
LEMMA DetachedIs ==
  ASSUME Null \notin Ids, NEW x, NEW s, Chain(x, s), NEW k \in 1 .. Len(s)
  PROVE  Chain(LI!Detached(x, s[k]), Less(s, k)) /\ SameItems(LI!Detached(x, s[k]), x)
<1> DEFINE e == s[k]
           p == x.elem[e].prev
           n == x.elem[e].next
           y == LI!Detached(x, e)
           E == DOMAIN x.elem
           t == Less(s, k)
           a == IF x.first = e THEN n ELSE x.first
           b == IF x.last = e THEN p ELSE x.last
           g == [j \in E |-> [next |-> IF j = p THEN n ELSE x.elem[j].next,
                              prev |-> IF j = n THEN p ELSE x.elem[j].prev,
                              value |-> x.elem[j].value]]
<1>1. /\ x \in Lists /\ s \in Seq(Ids) /\ Len(s) \in Nat
      /\ \A i, j \in 1 .. Len(s) : s[i] = s[j] => i = j
      /\ x.first = At(s, 1) /\ x.last = At(s, Len(s))
      /\ \A i \in 1 .. Len(s) : s[i] \in E /\ x.elem[s[i]].prev = At(s, i - 1) /\ x.elem[s[i]].next = At(s, i + 1)
  BY DEF Chain
<1>2. E \subseteq Ids /\ x.elem \in [E -> Item] /\ e \in E /\ p = At(s, k - 1) /\ n = At(s, k + 1)
  BY <1>1, ListIs
<1>3. y \in Lists /\ y.first = a /\ y.last = b /\ y.elem = g /\ y.data = x.data /\ y.size = x.size
  <2>1. y = [x EXCEPT !.first = a, !.last = b, !.elem = g]
    BY <1>1, ListIs DEF LI!Detached
  <2>2. g \in [E -> Item] /\ a \in Ids \cup {Null} /\ b \in Ids \cup {Null}
    BY <1>1, <1>2, ListIs DEF Item
  <2> HIDE DEF y, a, b, g, E
  <2>3. Changed(y, x, a, b, g)
    BY <2>1, <2>2, <1>1, <1>2, ChangedIs
  <2> QED  BY <2>3 DEF Changed
<1>4. DOMAIN y.elem = E
      /\ \A j \in E : /\ y.elem[j].next = IF j = p THEN n ELSE x.elem[j].next
                      /\ y.elem[j].prev = IF j = n THEN p ELSE x.elem[j].prev
                      /\ y.elem[j].value = x.elem[j].value
  <2> HIDE DEF y, p, n, E
  <2> QED  BY <1>3
<1>5. SameItems(y, x)
  <2> HIDE DEF y
  <2> QED  BY <1>3, <1>4 DEF SameItems
<1>6. /\ t \in Seq(Ids) /\ Len(t) = Len(s) - 1
      /\ \A i \in 1 .. Len(s) - 1 : t[i] = IF i < k THEN s[i] ELSE s[i + 1]
  BY <1>1, LessIs
<1>7. \A i \in 0 .. Len(s) : At(t, i) = IF i < k THEN At(s, i) ELSE At(s, i + 1)
  <2> HIDE DEF t
  <2> QED  BY <1>1, <1>6 DEF At
<1>8. \A i \in 0 .. Len(s) + 1 : \A j \in 1 .. Len(s) : At(s, i) = s[j] => i = j
  BY <1>1 DEF At
<1> HIDE DEF y, t
<1>9. \A i, j \in 1 .. Len(t) : t[i] = t[j] => i = j
  BY <1>1, <1>6, SMTT(30)
<1>10. y.first = At(t, 1) /\ y.last = At(t, Len(t))
  <2>1. y.first = At(t, 1)
    <3>1. x.first = e <=> k = 1
      BY <1>1 DEF At
    <3> QED  BY <3>1, <1>1, <1>2, <1>3, <1>7
  <2>2. y.last = At(t, Len(t))
    <3>1. x.last = e <=> k = Len(s)
      BY <1>1 DEF At
    <3> QED  BY <3>1, <1>1, <1>2, <1>3, <1>6, <1>7
  <2> QED  BY <2>1, <2>2
<1>11. ASSUME NEW i \in 1 .. Len(t)
       PROVE  t[i] \in E /\ y.elem[t[i]].prev = At(t, i - 1) /\ y.elem[t[i]].next = At(t, i + 1)
  <2> DEFINE j == IF i < k THEN i ELSE i + 1
  <2>1. j \in 1 .. Len(s) /\ t[i] = s[j] /\ j # k
    BY <1>1, <1>6
  <2>2. y.elem[s[j]].next = At(t, i + 1)
    <3>1. s[j] = p <=> j = k - 1
      BY <2>1, <1>1, <1>2, <1>8 DEF At
    <3>2. y.elem[s[j]].next = IF j = k - 1 THEN At(s, k + 1) ELSE At(s, j + 1)
      BY <3>1, <2>1, <1>1, <1>2, <1>4
    <3> QED  BY <3>2, <2>1, <1>1, <1>6, <1>7
  <2>3. y.elem[s[j]].prev = At(t, i - 1)
    <3>1. s[j] = n <=> j = k + 1
      BY <2>1, <1>1, <1>2, <1>8 DEF At
    <3>2. y.elem[s[j]].prev = IF j = k + 1 THEN At(s, k - 1) ELSE At(s, j - 1)
      BY <3>1, <2>1, <1>1, <1>2, <1>4
    <3> QED  BY <3>2, <2>1, <1>1, <1>6, <1>7
  <2> QED  BY <2>1, <2>2, <2>3, <1>1
<1>12. Chain(y, t)
  BY <1>3, <1>4, <1>6, <1>9, <1>10, <1>11 DEF Chain
<1> QED  BY <1>5, <1>12 DEF y, t

\* An element that is in no place yet is put into the k-th.
LEMMA BetweenIs ==
  ASSUME Null \notin Ids, NEW x, NEW s, Chain(x, s), NEW k \in 1 .. Len(s) + 1,
         NEW e \in DOMAIN x.elem, \A i \in 1 .. Len(s) : s[i] # e,
         NEW p, p = At(s, k - 1), NEW n, n = At(s, k)
  PROVE  Chain(LI!Between(x, p, e, n), More(s, k, e)) /\ SameItems(LI!Between(x, p, e, n), x)
<1> DEFINE y == LI!Between(x, p, e, n)
           E == DOMAIN x.elem
           t == More(s, k, e)
           a == IF p = Null THEN e ELSE x.first
           b == IF n = Null THEN e ELSE x.last
           g == [j \in E |->
                   [next |-> IF j = p THEN e ELSE IF j = e THEN n ELSE x.elem[j].next,
                    prev |-> IF j = n THEN e ELSE IF j = e THEN p ELSE x.elem[j].prev,
                    value |-> x.elem[j].value]]
<1>1. /\ x \in Lists /\ s \in Seq(Ids) /\ Len(s) \in Nat
      /\ \A i, j \in 1 .. Len(s) : s[i] = s[j] => i = j
      /\ x.first = At(s, 1) /\ x.last = At(s, Len(s))
      /\ \A i \in 1 .. Len(s) : s[i] \in E /\ x.elem[s[i]].prev = At(s, i - 1) /\ x.elem[s[i]].next = At(s, i + 1)
  BY DEF Chain
<1>2. E \subseteq Ids /\ x.elem \in [E -> Item] /\ e \in E /\ e \in Ids
  BY <1>1, ListIs
<1>a. p \in Ids \cup {Null} /\ n \in Ids \cup {Null} /\ p # e /\ n # e
  BY <1>1, <1>2 DEF At
<1>3. y \in Lists /\ y.first = a /\ y.last = b /\ y.elem = g /\ y.data = x.data /\ y.size = x.size
  <2>1. y = [x EXCEPT !.first = a, !.last = b, !.elem = g]
    BY <1>1, ListIs DEF LI!Between, Null
  <2>2. g \in [E -> Item] /\ a \in Ids \cup {Null} /\ b \in Ids \cup {Null}
    BY <1>1, <1>2, <1>a, ListIs DEF Item
  <2> HIDE DEF y, a, b, g, E
  <2>3. Changed(y, x, a, b, g)
    BY <2>1, <2>2, <1>1, <1>2, ChangedIs
  <2> QED  BY <2>3 DEF Changed
<1>4. DOMAIN y.elem = E
      /\ \A j \in E : /\ y.elem[j].next = IF j = p THEN e ELSE IF j = e THEN n ELSE x.elem[j].next
                      /\ y.elem[j].prev = IF j = n THEN e ELSE IF j = e THEN p ELSE x.elem[j].prev
                      /\ y.elem[j].value = x.elem[j].value
  <2> HIDE DEF y, E
  <2> QED  BY <1>3
<1>5. SameItems(y, x)
  <2> HIDE DEF y
  <2> QED  BY <1>3, <1>4 DEF SameItems
<1>6. /\ t \in Seq(Ids) /\ Len(t) = Len(s) + 1
      /\ \A i \in 1 .. Len(s) + 1 : t[i] = IF i < k THEN s[i] ELSE IF i = k THEN e ELSE s[i - 1]
  <2> HIDE DEF E
  <2>1. k \in 1 .. Len(s) + 1
    OBVIOUS
  <2>2. IsMore(t, Ids, s, k, e)
    BY <2>1, <1>1, <1>2, MoreInAWord
  <2> HIDE DEF t
  <2> QED  BY <2>2 DEF IsMore
<1>7. /\ \A i \in 0 .. k - 1 : At(t, i) = At(s, i)
      /\ At(t, k) = e
      /\ \A i \in k + 1 .. Len(s) + 2 : At(t, i) = At(s, i - 1)
  <2> HIDE DEF t
  <2> QED  BY <1>1, <1>6 DEF At
<1>8. \A i \in 0 .. Len(s) + 1 : \A j \in 1 .. Len(s) : At(s, i) = s[j] => i = j
  BY <1>1 DEF At
<1>b. ASSUME NEW m \in 1 .. Len(s)
      PROVE  (s[m] = p <=> m = k - 1) /\ (s[m] = n <=> m = k)
  <2> HIDE DEF E, y, t, a, b, g
  <2>1. k \in Int /\ m \in Int
    OBVIOUS
  <2>2. m = k - 1 => s[m] = p
    BY <2>1 DEF At
  <2>3. m = k => s[m] = n
    BY <2>1 DEF At
  <2>4. s[m] = p => m = k - 1
    BY <1>8, <1>1, <2>1
  <2>5. s[m] = n => m = k
    BY <1>8, <1>1, <2>1
  <2> QED  BY <2>2, <2>3, <2>4, <2>5
<1> HIDE DEF y, t
<1>9. ASSUME NEW i \in 1 .. Len(t), NEW j \in 1 .. Len(t), t[i] = t[j]
      PROVE  i = j
  <2> DEFINE from(m) == IF m < k THEN m ELSE m - 1
  <2>1. \A m \in 1 .. Len(t) : m # k => from(m) \in 1 .. Len(s) /\ t[m] = s[from(m)]
    BY <1>1, <1>6
  <2>2. t[k] = e
    BY <1>1, <1>6
  <2>3. (i = k) <=> (j = k)
    <3> HIDE DEF from
    <3> QED  BY <2>1, <2>2, <1>9
  <2>4. CASE i # k /\ j # k
    <3>1. from(i) = from(j)
      <4> HIDE DEF from
      <4> QED  BY <2>1, <2>4, <1>1, <1>9, ZenonT(30)
    <3> QED  BY <3>1, <2>4, <1>1, <1>6
  <2> QED  BY <2>3, <2>4
<1>10. y.first = At(t, 1) /\ y.last = At(t, Len(t))
  <2>1. y.first = At(t, 1)
    <3>1. p = Null <=> k = 1
      BY <1>1 DEF At
    <3> QED  BY <3>1, <1>1, <1>2, <1>3, <1>7
  <2>2. y.last = At(t, Len(t))
    <3>1. n = Null <=> k = Len(s) + 1
      BY <1>1 DEF At
    <3> QED  BY <3>1, <1>1, <1>2, <1>3, <1>6, <1>7
  <2> QED  BY <2>1, <2>2
<1>11. ASSUME NEW i \in 1 .. Len(t)
       PROVE  t[i] \in E /\ y.elem[t[i]].prev = At(t, i - 1) /\ y.elem[t[i]].next = At(t, i + 1)
  <2>1. CASE i = k
    <3>1. t[i] = e /\ y.elem[e].next = n /\ y.elem[e].prev = p
      BY <2>1, <1>1, <1>2, <1>a, <1>4, <1>6
    <3>2. At(t, i - 1) = p /\ At(t, i + 1) = n
      BY <2>1, <1>1, <1>7
    <3> QED  BY <3>1, <3>2, <1>2
  <2>2. CASE i # k
    <3> DEFINE j == IF i < k THEN i ELSE i - 1
    <3>1. j \in 1 .. Len(s) /\ t[i] = s[j] /\ s[j] # e
      BY <2>2, <1>1, <1>6
    <3>2. y.elem[s[j]].next = At(t, i + 1)
      <4>1. s[j] = p <=> j = k - 1
        BY <3>1, <1>b
      <4>2. y.elem[s[j]].next = IF j = k - 1 THEN e ELSE At(s, j + 1)
        BY <4>1, <3>1, <1>1, <1>2, <1>4
      <4>3. CASE i < k
        BY <4>2, <4>3, <3>1, <1>1, <1>6, <1>7
      <4>4. CASE i > k
        BY <4>2, <4>4, <3>1, <1>1, <1>6, <1>7
      <4> QED  BY <4>3, <4>4, <2>2, <1>1, <1>6
    <3>3. y.elem[s[j]].prev = At(t, i - 1)
      <4>1. s[j] = n <=> j = k
        BY <3>1, <1>b
      <4>2. y.elem[s[j]].prev = IF j = k THEN e ELSE At(s, j - 1)
        BY <4>1, <3>1, <1>1, <1>2, <1>4
      <4>3. CASE i < k
        BY <4>2, <4>3, <3>1, <1>1, <1>6, <1>7
      <4>4. CASE i > k
        <5>1. At(t, i - 1) = IF i - 1 = k THEN e ELSE At(s, i - 2)
          BY <4>4, <1>1, <1>6, <1>7, SMTT(30)
        <5>2. j = i - 1
          BY <4>4
        <5> QED  BY <5>1, <5>2, <4>2, <1>1
      <4> QED  BY <4>3, <4>4, <2>2, <1>1, <1>6
    <3> QED  BY <3>1, <3>2, <3>3, <1>1
  <2> QED  BY <2>1, <2>2
<1>12. Chain(y, t)
  BY <1>3, <1>4, <1>6, <1>9, <1>10, <1>11 DEF Chain
<1> QED  BY <1>5, <1>12 DEF y, t

\* A list whose elements are s: all of them, counted.
IsList(x, s) ==
  /\ Chain(x, s) /\ DOMAIN x.elem = {s[i] : i \in 1 .. Len(s)}
  /\ x.size = Len(s) /\ (x.data <=> Len(s) # 0)

\* A set of natural numbers has a least one.
LEMMA LeastIsThere ==
  ASSUME NEW S \in SUBSET Nat, S # {}
  PROVE  LI!Min(S) \in S /\ \A y \in S : LI!Min(S) <= y
<1>. DEFINE R == {ss \in Nat \X Nat : ss[1] < ss[2]}
<1>1. IsWellFoundedOn(R, Nat)
  BY NatLessThanWellFounded DEF OpToRel
<1>2. PICK x \in S : \A y \in S : <<y, x>> \notin R
  <2>. HIDE DEF R
  <2>. QED BY <1>1, WFMin
<1>3. ASSUME NEW y \in S PROVE x <= y
  <2>1. x \in Nat /\ y \in Nat /\ <<y, x>> \in Nat \X Nat /\ ~(y < x)
    BY <1>2
  <2>. QED BY <2>1
<1>. QED BY <1>3 DEF LI!Min

\* What is true at 0, and of each number after one of which it is, is true up to n.
LEMMA UpTo ==
  ASSUME NEW n \in Nat, NEW T, 0 \in T, \A i \in 1 .. n : i - 1 \in T => i \in T
  PROVE  \A i \in 0 .. n : i \in T
<1> DEFINE S == (0 .. n) \ T
<1>1. SUFFICES ASSUME S # {} PROVE FALSE
  OBVIOUS
<1>2. PICK k \in S : \A i \in S : k <= i
  <2>1. S \in SUBSET Nat
    OBVIOUS
  <2> HIDE DEF S
  <2> QED  BY <1>1, <2>1, LeastIsThere
<1>3. k \in 1 .. n /\ k - 1 \in 0 .. n
  BY <1>2
<1>4. k - 1 \in T
  BY <1>2, <1>3
<1> QED  BY <1>2, <1>3, <1>4

LEMMA WalkIs ==
  ASSUME NEW x, NEW s \in Seq(Ids), NEW d, IsFiniteSet(DOMAIN x.elem), Null \notin DOMAIN x.elem,
         Len(s) <= Cardinality(DOMAIN x.elem),
         \A i, j \in 1 .. Len(s) : s[i] = s[j] => i = j,
         \A i \in 1 .. Len(s) : s[i] \in DOMAIN x.elem /\ x.elem[s[i]][d] = At(s, i + 1)
  PROVE  LI!Walk(x, At(s, 1), d) = s
<1> DEFINE E == LI!Elements(x)
           N == LI!Cardinality(E)
           from == At(s, 1)
           to(u) == x.elem[LI!Last(u)][d]
           next(i, u) == IF i = 0 \/ from \notin E THEN <<>>
                         ELSE IF i = 1 THEN <<from>>
                         ELSE IF Len(u) = i - 1 /\ to(u) \in E THEN Append(u, to(u)) ELSE u
           w == CHOOSE w : w = [i \in 0 .. N |-> next(i, w[i - 1])]
           pre(i) == SubSeq(s, 1, IF i <= Len(s) THEN i ELSE Len(s))
<1>1. LI!Walk(x, from, d) = w[N]
  BY DEF LI!Walk
<1>2. N \in Nat /\ Len(s) <= N /\ Len(s) \in Nat /\ E = DOMAIN x.elem
  BY FS_CardinalityType, CountsElements DEF LI!Elements
<1>3. pre(0) = <<>> /\ pre(N) = s
      /\ \A i \in 0 .. N : pre(i) \in Seq(Ids) /\ Len(pre(i)) = IF i <= Len(s) THEN i ELSE Len(s)
  BY <1>2
<1>4. \A i \in 1 .. N : next(i, pre(i - 1)) = pre(i)
  <2> TAKE i \in 1 .. N
  <2>1. CASE s = <<>>
    <3>1. from \notin E
      BY <2>1, <1>2 DEF At
    <3> QED  BY <3>1, <2>1, <1>2
  <2>2. CASE s # <<>> /\ i = 1
    <3>1. from \in E /\ from = s[1] /\ 1 <= Len(s)
      BY <2>2, <1>2 DEF At
    <3>2. SubSeq(s, 1, 1) = <<s[1]>>
      <4>1. /\ SubSeq(s, 1, 1) \in Seq(Ids) /\ Len(SubSeq(s, 1, 1)) = 1
            /\ SubSeq(s, 1, 1)[1] = s[1]
        BY <3>1
      <4> DEFINE u == SubSeq(s, 1, 1)
      <4> HIDE DEF u
      <4>2. u \in Seq(Ids) /\ Len(u) = 1 /\ u[1] = s[1]
        BY <4>1 DEF u
      <4>3. u = <<u[1]>>
        BY ONLY <4>2
      <4> QED  BY <4>2, <4>3 DEF u
    <3> QED  BY <3>1, <3>2, <2>2
  <2>3. CASE s # <<>> /\ i # 1 /\ i <= Len(s)
    <3>1. from \in E
      BY <2>3, <1>2 DEF At
    <3>2. /\ i - 1 \in 1 .. Len(s) /\ Len(pre(i - 1)) = i - 1 /\ LI!Last(pre(i - 1)) = s[i - 1]
      BY <2>3, <1>2 DEF LI!Last
    <3>3. to(pre(i - 1)) = s[i] /\ s[i] \in E
      BY <3>2, <2>3, <1>2 DEF At
    <3>4. pre(i) = Append(pre(i - 1), s[i])
      BY <2>3, <1>2
    <3> HIDE DEF pre, to
    <3> QED  BY <3>1, <3>2, <3>3, <3>4, <2>3, <1>2
  <2>4. CASE s # <<>> /\ i > Len(s)
    <3>1. from \in E /\ i # 1 /\ pre(i) = s /\ pre(i - 1) = s
      BY <2>4, <1>2 DEF At
    <3>2. Len(s) = i - 1 => to(s) \notin E
      <4>1. LI!Last(s) = s[Len(s)] /\ Len(s) \in 1 .. Len(s)
        BY <2>4, <1>2 DEF LI!Last
      <4>2. to(s) = At(s, Len(s) + 1)
        BY <4>1
      <4> QED  BY <4>2, <1>2 DEF At
    <3> HIDE DEF pre, to
    <3> QED  BY <3>1, <3>2, <2>4, <1>2
  <2> QED  BY <2>1, <2>2, <2>3, <2>4, <1>2
<1> HIDE DEF pre
<1>5. w = [i \in 0 .. N |-> next(i, w[i - 1])]
  <2> DEFINE f == [i \in 0 .. N |-> pre(i)]
  <2>1. \A i \in 0 .. N : next(i, f[i - 1]) = pre(i)
    <3> TAKE i \in 0 .. N
    <3>1. CASE i = 0
      BY <3>1, <1>3
    <3>2. CASE i # 0
      <4>1. i \in 1 .. N /\ f[i - 1] = pre(i - 1)
        BY <3>2, <1>2
      <4> HIDE DEF f, next
      <4> QED  BY <4>1, <1>4
    <3> QED  BY <3>1, <3>2
  <2>2. f = [i \in 0 .. N |-> next(i, f[i - 1])]
    <3> HIDE DEF next
    <3> QED  BY <2>1
  <2> HIDE DEF next, f
  <2> QED  BY <2>2
<1> HIDE DEF w
<1>6. \A i \in 0 .. N : w[i] = pre(i)
  <2> DEFINE T == {i \in 0 .. N : w[i] = pre(i)}
  <2>1. 0 \in T
    <3>1. 0 \in 0 .. N /\ w[0] = next(0, w[0 - 1])
      BY <1>2, <1>5
    <3> QED  BY <3>1, <1>3
  <2>2. ASSUME NEW i \in 1 .. N, i - 1 \in T  PROVE i \in T
    <3>1. i \in 0 .. N /\ w[i - 1] = pre(i - 1)
      BY <1>2, <2>2
    <3> HIDE DEF next
    <3>2. w[i] = next(i, w[i - 1])
      BY <3>1, <1>5
    <3> QED  BY <3>1, <3>2, <1>4
  <2> HIDE DEF T
  <2>3. \A i \in 0 .. N : i \in T
    BY <2>1, <2>2, <1>2, UpTo
  <2> QED  BY <2>3 DEF T
<1>7. N \in 0 .. N
  BY <1>2
<1> QED  BY <1>1, <1>3, <1>6, <1>7

\* Both ways through a list, and what is counted.
LEMMA BothWays ==
  ASSUME Null \notin Ids, NEW x, NEW s, IsList(x, s)
  PROVE  /\ LI!Forward(x) = s /\ LI!Backward(x) = LI!Reverse(s)
         /\ IsFiniteSet(DOMAIN x.elem) /\ Cardinality(DOMAIN x.elem) = Len(s)
<1> DEFINE E == DOMAIN x.elem
           n == Len(s)
           r == [i \in 1 .. n |-> s[n + 1 - i]]
<1>1. /\ x \in Lists /\ s \in Seq(Ids) /\ n \in Nat
      /\ \A i, j \in 1 .. n : s[i] = s[j] => i = j
      /\ x.first = At(s, 1) /\ x.last = At(s, n)
      /\ \A i \in 1 .. n : s[i] \in E /\ x.elem[s[i]].prev = At(s, i - 1) /\ x.elem[s[i]].next = At(s, i + 1)
      /\ E = {s[i] : i \in 1 .. n}
  BY DEF IsList, Chain
<1>2. IsFiniteSet(E) /\ Cardinality(E) = n
  <2>1. IsFiniteSet(1 .. n) /\ Cardinality(1 .. n) = n
    BY <1>1, FS_Interval
  <2>a. s \in [1 .. n -> E]
    BY <1>1
  <2>2. s \in Bijection(1 .. n, E)
    BY <2>a, <1>1 DEF Bijection, Injection, Surjection, IsInjective
  <2>3. ExistsBijection(1 .. n, E)
    BY <2>2 DEF ExistsBijection
  <2> QED  BY <2>1, <2>3, FS_Bijection
<1>3. Null \notin E /\ s \in Seq(Ids)
  BY <1>1
<1>4. LI!Forward(x) = s
  <2>1. \A i \in 1 .. Len(s) : s[i] \in DOMAIN x.elem /\ x.elem[s[i]]["next"] = At(s, i + 1)
    BY <1>1
  <2>2. Len(s) <= Cardinality(DOMAIN x.elem)
    <3>1. n \in Nat /\ Cardinality(E) = n
      BY <1>1, <1>2
    <3> QED  BY ONLY <3>1
  <2>3. LI!Walk(x, At(s, 1), "next") = s
    BY <2>1, <2>2, <1>1, <1>2, <1>3, WalkIs
  <2> QED  BY <2>3, <1>1 DEF LI!Forward
<1>5. /\ r \in Seq(Ids) /\ Len(r) = n /\ \A i \in 1 .. n : r[i] = s[n + 1 - i]
      /\ r = LI!Reverse(s)
  <2>1. r \in [1 .. n -> Ids]
    BY <1>1
  <2>2. \A i \in 1 .. n : r[i] = s[n + 1 - i]
    OBVIOUS
  <2>3. r = LI!Reverse(s)
    BY <1>1 DEF LI!Reverse
  <2> HIDE DEF r, n
  <2> QED  BY <2>1, <2>2, <2>3, <1>1, IsSequence, SMTT(30)
<1> HIDE DEF r
<1>6. LI!Backward(x) = r
  <2>1. \A i \in 0 .. n + 1 : At(r, i) = At(s, n + 1 - i)
    BY <1>1, <1>5 DEF At
  <2>2. ASSUME NEW i \in 1 .. Len(r)
        PROVE  r[i] \in DOMAIN x.elem /\ x.elem[r[i]]["prev"] = At(r, i + 1)
    <3> DEFINE j == n + 1 - i
    <3>1. j \in 1 .. n /\ r[i] = s[j] /\ i + 1 \in 0 .. n + 1 /\ n + 1 - (i + 1) = j - 1
      BY <1>1, <1>5
    <3>2. At(r, i + 1) = At(s, j - 1)
      BY <3>1, <2>1
    <3> HIDE DEF j
    <3> QED  BY <3>1, <3>2, <1>1
  <2>3. ASSUME NEW i \in 1 .. Len(r), NEW j \in 1 .. Len(r), r[i] = r[j]
        PROVE  i = j
    <3>1. n + 1 - i \in 1 .. n /\ n + 1 - j \in 1 .. n
      BY <1>1, <1>5, SMTT(30)
    <3>2. n + 1 - i = n + 1 - j
      BY <3>1, <2>3, <1>1, <1>5
    <3>3. n \in Nat /\ i \in Int /\ j \in Int
      BY <1>1
    <3> QED  BY ONLY <3>2, <3>3
  <2>4. Len(r) <= Cardinality(DOMAIN x.elem)
    <3>1. n \in Nat /\ Cardinality(E) = n /\ Len(r) = n
      BY <1>1, <1>2, <1>5
    <3> QED  BY ONLY <3>1
  <2>5. LI!Walk(x, At(r, 1), "prev") = r
    <3>1. r \in Seq(Ids)
      BY <1>5
    <3> HIDE DEF n, E
    <3> QED  BY <3>1, <2>2, <2>3, <2>4, <1>2, <1>3, WalkIs DEF E
  <2>6. x.last = At(r, 1)
    BY <2>1, <1>1
  <2> QED  BY <2>5, <2>6 DEF LI!Backward
<1> QED  BY <1>2, <1>4, <1>5, <1>6

\* What every list with its elements in some order promises.
LEMMA ListIsGood ==
  ASSUME Null \notin Ids, NEW s, IsList(l, s)
  PROVE  LI!TypeOK /\ LI!BothWaysAlike /\ LI!DataWhileNeeded
<1>1. /\ l \in Lists /\ s \in Seq(Ids) /\ Len(s) \in Nat
      /\ l.first = At(s, 1) /\ l.last = At(s, Len(s))
      /\ \A i \in 1 .. Len(s) : /\ s[i] \in DOMAIN l.elem
                                /\ l.elem[s[i]].prev = At(s, i - 1) /\ l.elem[s[i]].next = At(s, i + 1)
      /\ DOMAIN l.elem = {s[i] : i \in 1 .. Len(s)} /\ l.size = Len(s) /\ (l.data <=> Len(s) # 0)
  BY DEF IsList, Chain
<1>2. /\ LI!Elements(l) = DOMAIN l.elem /\ DOMAIN l.elem \subseteq Ids
      /\ l.elem \in [DOMAIN l.elem -> Item] /\ l.data \in BOOLEAN
  BY <1>1, ListIs
<1>3. \A i \in Int : At(s, i) \in DOMAIN l.elem \cup {Null}
  BY <1>1 DEF At
<1>4. LI!TypeOK
  <2>1. \A e \in DOMAIN l.elem : l.elem[e].value \in Values
    BY <1>2 DEF Item
  <2>2. \A e \in DOMAIN l.elem : {l.elem[e].next, l.elem[e].prev} \subseteq DOMAIN l.elem \cup {Null}
    <3> TAKE e \in DOMAIN l.elem
    <3>1. PICK i \in 1 .. Len(s) : e = s[i]
      BY <1>1
    <3>2. i - 1 \in Int /\ i + 1 \in Int
      OBVIOUS
    <3>3. l.elem[e].prev = At(s, i - 1) /\ l.elem[e].next = At(s, i + 1)
      BY <1>1, <3>1
    <3> QED  BY <3>2, <3>3, <1>3
  <2>3. {l.first, l.last} \subseteq DOMAIN l.elem \cup {Null}
    BY <1>1, <1>3
  <2> QED  BY <2>1, <2>2, <2>3, <1>1, <1>2 DEF LI!TypeOK, Null
<1>5. LI!BothWaysAlike
  <2>1. /\ LI!Forward(l) = s /\ LI!Backward(l) = LI!Reverse(s)
        /\ Cardinality(DOMAIN l.elem) = Len(s)
    BY BothWays
  <2>2. LI!Reverse(LI!Reverse(s)) = s
    BY <1>1 DEF LI!Reverse
  <2>3. \A e \in {l.first} \ {Null} : l.elem[e].prev = Null
    BY <1>1 DEF At
  <2>4. \A e \in {l.last} \ {Null} : l.elem[e].next = Null
    BY <1>1 DEF At
  <2> QED  BY <2>1, <2>2, <2>3, <2>4, <1>1, <1>2, CountsElements DEF LI!BothWaysAlike, Null
<1>6. LI!DataWhileNeeded
  BY <1>1, <1>2 DEF LI!DataWhileNeeded
<1> QED  BY <1>4, <1>5, <1>6

\* y has the values of x, and v in the new element e; or those of x without e.
OneMore(y, x, e, v) == /\ \A j \in DOMAIN x.elem : y.elem[j].value = x.elem[j].value
                       /\ y.elem[e].value = v
OneLess(y, x, e) == \A j \in DOMAIN x.elem \ {e} : y.elem[j].value = x.elem[j].value

\* A new element is in no place.
LEMMA MadeIs ==
  ASSUME Null \notin Ids, NEW x, NEW s, IsList(x, s), NEW e \in Ids \ DOMAIN x.elem, NEW v \in Values
  PROVE  LET y == LI!Made(x, e, v)
         IN  /\ Chain(y, s) /\ DOMAIN y.elem = DOMAIN x.elem \cup {e}
             /\ y.size = x.size + 1 /\ y.data /\ OneMore(y, x, e, v)
<1> DEFINE E == DOMAIN x.elem
           g == [j \in E \cup {e} |-> IF j = e THEN [next |-> Null, prev |-> Null, value |-> v] ELSE x.elem[j]]
           y == LI!Made(x, e, v)
<1>1. x \in Lists /\ Chain(x, s)
  BY DEF IsList, Chain
<1>2. E \subseteq Ids /\ x.elem \in [E -> Item] /\ LI!Elements(x) = E /\ x.size \in Int
  BY <1>1, ListIs
<1>3. g \in [E \cup {e} -> Item] /\ \A j \in E : g[j] = x.elem[j]
  BY <1>2 DEF Item
<1>4. /\ y \in Lists /\ y.elem = g /\ y.first = x.first /\ y.last = x.last
      /\ y.size = x.size + 1 /\ y.data
  <2>1. y = [x EXCEPT !.data = TRUE, !.size = @ + 1, !.elem = g]
    BY <1>2 DEF LI!Made, Null
  <2> HIDE DEF y, g
  <2>2. /\ y.elem = g /\ y.first = x.first /\ y.last = x.last
        /\ y.size = x.size + 1 /\ y.data
    BY <2>1, <1>1 DEF Lists
  <2>3. E \cup {e} \in SUBSET Ids
    BY <1>2
  <2>4. g \in UNION {[F -> Item] : F \in SUBSET Ids}
    BY <2>3, <1>3
  <2>5. x.size + 1 \in Int
    BY <1>2
  <2>6. y \in Lists
    BY <2>1, <2>4, <2>5, <1>1 DEF Lists
  <2> QED  BY <2>2, <2>6
<1> HIDE DEF y, g
<1>5. DOMAIN y.elem = E \cup {e} /\ \A j \in E : y.elem[j] = x.elem[j]
  BY <1>3, <1>4
<1>6. Chain(y, s)
  BY <1>1, <1>4, <1>5 DEF Chain
<1>7. OneMore(y, x, e, v)
  <2>1. y.elem[e].value = v
    BY <1>4 DEF g
  <2> QED  BY <2>1, <1>5 DEF OneMore
<1> QED  BY <1>4, <1>5, <1>6, <1>7 DEF y

\* A new element is put into the k-th place.
LEMMA InsertedIs ==
  ASSUME Null \notin Ids, NEW x, NEW s, IsList(x, s), NEW e \in Ids \ DOMAIN x.elem, NEW v \in Values,
         NEW k \in 1 .. Len(s) + 1
  PROVE  /\ IsList(LI!Between(LI!Made(x, e, v), At(s, k - 1), e, At(s, k)), More(s, k, e))
         /\ OneMore(LI!Between(LI!Made(x, e, v), At(s, k - 1), e, At(s, k)), x, e, v)
<1> DEFINE y == LI!Made(x, e, v)
           z == LI!Between(y, At(s, k - 1), e, At(s, k))
           t == More(s, k, e)
<1>1. /\ Chain(y, s) /\ DOMAIN y.elem = DOMAIN x.elem \cup {e} /\ y.size = x.size + 1 /\ y.data
      /\ OneMore(y, x, e, v)
  BY MadeIs
<1>2. s \in Seq(Ids) /\ Len(s) \in Nat /\ x.size = Len(s) /\ DOMAIN x.elem = {s[i] : i \in 1 .. Len(s)}
  BY DEF IsList, Chain
<1> HIDE DEF y
<1>3. Chain(z, t) /\ SameItems(z, y)
  <2>1. e \in DOMAIN y.elem /\ \A i \in 1 .. Len(s) : s[i] # e
    BY <1>1, <1>2
  <2> QED  BY <2>1, <1>1, BetweenIs
<1>4. /\ t \in Seq(Ids) /\ Len(t) = Len(s) + 1
      /\ \A i \in 1 .. Len(s) + 1 : t[i] = IF i < k THEN s[i] ELSE IF i = k THEN e ELSE s[i - 1]
  BY <1>2, MoreIs
<1> HIDE DEF z, t
<1>5. DOMAIN z.elem = {t[i] : i \in 1 .. Len(t)}
  <2>1. DOMAIN z.elem = {s[i] : i \in 1 .. Len(s)} \cup {e}
    BY <1>1, <1>2, <1>3 DEF SameItems
  <2>2. \A i \in 1 .. Len(t) : t[i] \in {s[j] : j \in 1 .. Len(s)} \cup {e}
    <3> TAKE i \in 1 .. Len(t)
    <3>1. CASE i < k
      BY <3>1, <1>2, <1>4
    <3>2. CASE i = k
      BY <3>2, <1>2, <1>4
    <3>3. CASE i > k
      BY <3>3, <1>2, <1>4
    <3> QED  BY <3>1, <3>2, <3>3, <1>2, <1>4
  <2>3. t[k] = e
    BY <1>2, <1>4
  <2>4. ASSUME NEW j \in 1 .. Len(s) PROVE \E i \in 1 .. Len(t) : t[i] = s[j]
    <3>1. CASE j < k
      BY <3>1, <1>2, <1>4
    <3>2. CASE j >= k
      <4>1. j + 1 \in 1 .. Len(t) /\ t[j + 1] = s[j]
        BY <3>2, <1>2, <1>4
      <4> QED  BY <4>1
    <3> QED  BY <3>1, <3>2, <1>2
  <2>5. k \in 1 .. Len(t)
    BY <1>2, <1>4
  <2> QED  BY <2>1, <2>2, <2>3, <2>4, <2>5
<1>6. z.size = Len(t) /\ z.data /\ Len(t) # 0
  BY <1>1, <1>2, <1>3, <1>4 DEF SameItems
<1>7. IsList(z, t)
  BY <1>3, <1>5, <1>6 DEF IsList
<1>8. OneMore(z, x, e, v)
  BY <1>1, <1>3 DEF SameItems, OneMore
<1> QED  BY <1>7, <1>8 DEF y, z, t

\* An element is erased.
LEMMA ErasedIs ==
  ASSUME Null \notin Ids, NEW x, NEW s, IsList(x, s), NEW k \in 1 .. Len(s)
  PROVE  IsList(LI!Erased(x, s[k]), Less(s, k)) /\ OneLess(LI!Erased(x, s[k]), x, s[k])
<1> DEFINE e == s[k]
           y == LI!Detached(x, e)
           E == DOMAIN x.elem
           t == Less(s, k)
           g == [j \in E \ {e} |-> y.elem[j]]
           z == [y EXCEPT !.size = @ - 1, !.elem = g]
           w == LI!Erased(x, e)
<1>1. /\ Chain(x, s) /\ s \in Seq(Ids) /\ Len(s) \in Nat /\ x \in Lists
      /\ \A i, j \in 1 .. Len(s) : s[i] = s[j] => i = j
      /\ x.size = Len(s) /\ (x.data <=> Len(s) # 0) /\ E = {s[i] : i \in 1 .. Len(s)} /\ LI!Elements(x) = E
  BY ListIs DEF IsList, Chain
<1>2. Chain(y, t) /\ SameItems(y, x)
  BY <1>1, DetachedIs
<1>3. /\ t \in Seq(Ids) /\ Len(t) = Len(s) - 1
      /\ \A i \in 1 .. Len(s) - 1 : t[i] = IF i < k THEN s[i] ELSE s[i + 1]
  BY <1>1, LessIs
<1>4. w = IF z.size = 0 THEN [z EXCEPT !.data = FALSE, !.first = Null, !.last = Null] ELSE z
  BY <1>1 DEF LI!Erased, Null
<1> HIDE DEF y, t, w
<1>5. y \in Lists /\ y.elem \in [E -> Item] /\ E \subseteq Ids /\ y.size = Len(s) /\ y.data /\ y.size \in Int
  <2>1. y \in Lists /\ DOMAIN y.elem = E /\ y.size = x.size /\ y.data = x.data
    BY <1>2 DEF Chain, SameItems
  <2>2. y.elem \in [E -> Item] /\ E \subseteq Ids /\ y.size \in Int
    <3> HIDE DEF E
    <3> QED  BY <2>1, ListIs
  <2>3. Len(s) # 0
    BY <1>1
  <2> QED  BY <2>1, <2>2, <2>3, <1>1
<1>6. g \in [E \ {e} -> Item] /\ E \ {e} \in SUBSET Ids
  BY <1>5
<1>7. /\ z \in Lists /\ z.size = Len(t) /\ z.elem = g
      /\ z.first = y.first /\ z.last = y.last /\ z.data = y.data
  <2> HIDE DEF g, e, E
  <2>1. g \in UNION {[F -> Item] : F \in SUBSET Ids}
    BY <1>6
  <2>2. y.size - 1 \in Int /\ y.size - 1 = Len(t)
    BY <1>3, <1>5
  <2>3. z \in Lists
    BY <2>1, <2>2, <1>5 DEF Lists
  <2>4. z.size = y.size - 1 /\ z.elem = g /\ z.first = y.first /\ z.last = y.last /\ z.data = y.data
    BY <1>5 DEF Lists
  <2> QED  BY <2>2, <2>3, <2>4
<1>8. E \ {e} = {t[i] : i \in 1 .. Len(t)}
  <2>1. \A i \in 1 .. Len(t) : t[i] \in E \ {e}
    <3> TAKE i \in 1 .. Len(t)
    <3>1. CASE i < k
      BY <3>1, <1>1, <1>3
    <3>2. CASE i >= k
      BY <3>2, <1>1, <1>3
    <3> QED  BY <3>1, <3>2, <1>1, <1>3
  <2>2. ASSUME NEW j \in 1 .. Len(s), j # k  PROVE \E i \in 1 .. Len(t) : t[i] = s[j]
    <3>1. CASE j < k
      BY <3>1, <1>1, <1>3
    <3>2. CASE j > k
      <4>1. j - 1 \in 1 .. Len(t) /\ t[j - 1] = s[j]
        BY <3>2, <1>1, <1>3
      <4> QED  BY <4>1
    <3> QED  BY <3>1, <3>2, <2>2
  <2> QED  BY <2>1, <2>2, <1>1, SMTT(30)
<1> HIDE DEF z, g
<1>9. Chain(z, t) /\ DOMAIN z.elem = {t[i] : i \in 1 .. Len(t)}
  <2>1. DOMAIN z.elem = E \ {e} /\ \A j \in E \ {e} : z.elem[j] = y.elem[j]
    BY <1>7 DEF g
  <2> HIDE DEF e, E
  <2>2. \A i \in 1 .. Len(t) : t[i] \in E \ {e}
    BY <1>8
  <2> QED  BY <2>1, <2>2, <1>2, <1>7, <1>8 DEF Chain
<1>a. OneLess(z, x, e)
  <2> HIDE DEF e
  <2> QED  BY <1>2, <1>7 DEF OneLess, SameItems, g
<1>10. CASE Len(t) # 0
  <2>1. w = z
    BY <1>10, <1>4, <1>7
  <2>2. IsList(z, t)
    BY <1>5, <1>7, <1>9, <1>10 DEF IsList
  <2> QED  BY <2>1, <2>2, <1>a DEF w, t
<1>11. CASE Len(t) = 0
  <2>1. w = [z EXCEPT !.data = FALSE, !.first = Null, !.last = Null]
    BY <1>11, <1>4, <1>7
  <2>2. /\ w \in Lists /\ w.first = Null /\ w.last = Null /\ w.data = FALSE
        /\ w.size = z.size /\ w.elem = z.elem
    BY <2>1, <1>7 DEF Lists
  <2>3. Chain(w, t)
    <3>1. At(t, 1) = Null /\ At(t, Len(t)) = Null
      BY <1>11 DEF At
    <3>2. \A i \in 1 .. Len(t) : FALSE
      BY <1>11
    <3> QED  BY <2>2, <1>3, <3>1, <3>2 DEF Chain
  <2>4. IsList(w, t)
    BY <2>2, <2>3, <1>7, <1>9, <1>11 DEF IsList
  <2>5. OneLess(w, x, e)
    <3> HIDE DEF e
    <3> QED  BY <2>2, <1>a DEF OneLess
  <2> QED  BY <2>4, <2>5 DEF w, t
<1> QED  BY <1>3, <1>10, <1>11

\* An element that is elsewhere is put into the k-th place of the others.
LEMMA MovedIs ==
  ASSUME Null \notin Ids, NEW x, NEW s, IsList(x, s), NEW i \in 1 .. Len(s), NEW k \in 1 .. Len(s)
  PROVE  LET y == LI!Detached(x, s[i])
             t == Less(s, i)
         IN  /\ IsList(LI!Between(y, At(t, k - 1), s[i], At(t, k)), More(t, k, s[i]))
             /\ SameItems(LI!Between(y, At(t, k - 1), s[i], At(t, k)), x)
<1> DEFINE e == s[i]
           y == LI!Detached(x, e)
           t == Less(s, i)
           z == LI!Between(y, At(t, k - 1), e, At(t, k))
           u == More(t, k, e)
<1>1. /\ Chain(x, s) /\ s \in Seq(Ids) /\ Len(s) \in Nat
      /\ \A a, b \in 1 .. Len(s) : s[a] = s[b] => a = b
      /\ x.size = Len(s) /\ (x.data <=> Len(s) # 0) /\ DOMAIN x.elem = {s[a] : a \in 1 .. Len(s)}
  BY DEF IsList, Chain
<1>2. Chain(y, t) /\ SameItems(y, x)
  BY <1>1, DetachedIs
<1>3. /\ t \in Seq(Ids) /\ Len(t) = Len(s) - 1
      /\ \A a \in 1 .. Len(s) - 1 : t[a] = IF a < i THEN s[a] ELSE s[a + 1]
  BY <1>1, LessIs
<1>4. e \in DOMAIN y.elem /\ e \in Ids
  BY <1>1, <1>2 DEF SameItems
<1> HIDE DEF y, t
<1>5. \A a \in 1 .. Len(t) : t[a] # e
  <2> TAKE a \in 1 .. Len(t)
  <2>1. CASE a < i
    BY <2>1, <1>1, <1>3
  <2>2. CASE a >= i
    BY <2>2, <1>1, <1>3
  <2> QED  BY <2>1, <2>2, <1>1, <1>3
<1>6. k \in 1 .. Len(t) + 1
  BY <1>1, <1>3
<1>7. Chain(z, u) /\ SameItems(z, y)
  <2> HIDE DEF e
  <2> QED  BY <1>2, <1>4, <1>5, <1>6, BetweenIs
<1>8. /\ u \in Seq(Ids) /\ Len(u) = Len(t) + 1
      /\ \A a \in 1 .. Len(t) + 1 : u[a] = IF a < k THEN t[a] ELSE IF a = k THEN e ELSE t[a - 1]
  <2> HIDE DEF e
  <2> QED  BY <1>3, <1>4, <1>6, MoreIs
<1> HIDE DEF z, u
<1>9. {s[a] : a \in 1 .. Len(s)} = {u[a] : a \in 1 .. Len(u)}
  <2>1. ASSUME NEW a \in 1 .. Len(u) PROVE \E b \in 1 .. Len(s) : u[a] = s[b]
    <3>1. CASE a = k
      BY <3>1, <1>6, <1>8
    <3>2. CASE a # k
      <4> DEFINE c == IF a < k THEN a ELSE a - 1
      <4>1. c \in 1 .. Len(t) /\ u[a] = t[c]
        BY <3>2, <1>1, <1>3, <1>6, <1>8
      <4> HIDE DEF c
      <4>2. c \in 1 .. Len(s) /\ c + 1 \in 1 .. Len(s) /\ (t[c] = s[c] \/ t[c] = s[c + 1])
        BY <4>1, <1>1, <1>3
      <4> QED  BY <4>1, <4>2
    <3> QED  BY <3>1, <3>2
  <2>2. ASSUME NEW b \in 1 .. Len(s) PROVE \E a \in 1 .. Len(u) : u[a] = s[b]
    <3>1. CASE b = i
      BY <3>1, <1>6, <1>8
    <3>2. CASE b # i
      <4> DEFINE c == IF b < i THEN b ELSE b - 1
      <4>1. c \in 1 .. Len(t) /\ t[c] = s[b]
        BY <3>2, <1>1, <1>3
      <4> HIDE DEF c
      <4>2. c \in 1 .. Len(u) /\ c + 1 \in 1 .. Len(u) /\ (u[c] = t[c] \/ u[c + 1] = t[c])
        BY <4>1, <1>1, <1>3, <1>6, <1>8
      <4> QED  BY <4>1, <4>2
    <3> QED  BY <3>1, <3>2
  <2>3. {u[a] : a \in 1 .. Len(u)} \subseteq {s[a] : a \in 1 .. Len(s)}
    BY <2>1
  <2>4. {s[a] : a \in 1 .. Len(s)} \subseteq {u[a] : a \in 1 .. Len(u)}
    <3>1. ASSUME NEW c \in {s[a] : a \in 1 .. Len(s)}
          PROVE  c \in {u[a] : a \in 1 .. Len(u)}
      <4>1. PICK b \in 1 .. Len(s) : c = s[b]
        OBVIOUS
      <4>2. PICK a \in 1 .. Len(u) : u[a] = s[b]
        BY <2>2
      <4> QED  BY <4>1, <4>2
    <3> QED  BY <3>1
  <2> QED  BY <2>3, <2>4
<1>10. IsList(z, u)
  <2>1. z.size = x.size /\ z.data = x.data /\ DOMAIN z.elem = DOMAIN x.elem /\ Len(u) = Len(s)
    BY <1>1, <1>2, <1>3, <1>7, <1>8 DEF SameItems
  <2> QED  BY <2>1, <1>1, <1>7, <1>9 DEF IsList
<1>11. SameItems(z, x)
  BY <1>2, <1>7 DEF SameItems
<1> QED  BY <1>10, <1>11 DEF y, t, z, u

\* The pointers of y lead through t, and its elements are those of x, a list of as many.
LEMMA RelinkedIs ==
  ASSUME NEW x, NEW s, IsList(x, s), NEW y, NEW t, Chain(y, t), SameItems(y, x), Len(t) = Len(s),
         \A i \in 1 .. Len(s) : \E j \in 1 .. Len(t) : t[j] = s[i],
         \A i \in 1 .. Len(t) : \E j \in 1 .. Len(s) : t[i] = s[j]
  PROVE  IsList(y, t)
<1>1. {s[i] : i \in 1 .. Len(s)} = {t[i] : i \in 1 .. Len(t)}
  <2>1. ASSUME NEW c \in {s[i] : i \in 1 .. Len(s)} PROVE c \in {t[i] : i \in 1 .. Len(t)}
    <3>1. PICK i \in 1 .. Len(s) : c = s[i]
      OBVIOUS
    <3>2. PICK j \in 1 .. Len(t) : t[j] = s[i]
      OBVIOUS
    <3> QED  BY <3>1, <3>2
  <2>2. {t[i] : i \in 1 .. Len(t)} \subseteq {s[i] : i \in 1 .. Len(s)}
    OBVIOUS
  <2> QED  BY <2>1, <2>2
<1> QED  BY <1>1 DEF IsList, SameItems

\* s with its i-th and its j-th exchanged.
Exchanged(s, i, j) == [k \in 1 .. Len(s) |-> IF k = i THEN s[j] ELSE IF k = j THEN s[i] ELSE s[k]]

LEMMA ExchangedIs ==
  ASSUME NEW S, NEW s \in Seq(S), NEW i \in 1 .. Len(s), NEW j \in 1 .. Len(s)
  PROVE  /\ Exchanged(s, i, j) \in Seq(S) /\ Len(Exchanged(s, i, j)) = Len(s)
         /\ \A k \in 1 .. Len(s) :
              Exchanged(s, i, j)[k] = IF k = i THEN s[j] ELSE IF k = j THEN s[i] ELSE s[k]
<1> DEFINE n == Len(s)
           f == Exchanged(s, i, j)
<1>1. n \in Nat /\ f \in [1 .. n -> S]
  BY DEF Exchanged
<1>2. \A k \in 1 .. n : f[k] = IF k = i THEN s[j] ELSE IF k = j THEN s[i] ELSE s[k]
  BY DEF Exchanged
<1>3. f \in Seq(S) /\ Len(f) = n
  <2> HIDE DEF f, n
  <2> QED  BY <1>1, IsSequence
<1> QED  BY <1>2, <1>3

\* Two elements change places, also when they are neighbours.
LEMMA SwappedIs ==
  ASSUME Null \notin Ids, NEW x, NEW s, IsList(x, s), NEW i \in 1 .. Len(s), NEW j \in 1 .. Len(s), i # j
  PROVE  IsList(LI!Swapped(x, s[i], s[j]), Exchanged(s, i, j)) /\ SameItems(LI!Swapped(x, s[i], s[j]), x)
<1> DEFINE a == s[i]
           b == s[j]
           ea == x.elem[a]
           eb == x.elem[b]
           E == DOMAIN x.elem
           n == Len(s)
           y == LI!Swapped(x, a, b)
           t == Exchanged(s, i, j)
           next(c) == IF c = a THEN IF eb.next = a THEN b ELSE eb.next
                      ELSE IF c = b THEN IF ea.next = b THEN a ELSE ea.next
                      ELSE IF c = ea.prev THEN b ELSE IF c = eb.prev THEN a ELSE x.elem[c].next
           prev(c) == IF c = a THEN IF ea.next = b THEN b ELSE eb.prev
                      ELSE IF c = b THEN IF eb.next = a THEN a ELSE ea.prev
                      ELSE IF c = ea.next THEN b ELSE IF c = eb.next THEN a ELSE x.elem[c].prev
           first == IF ea.prev = Null THEN b ELSE IF eb.prev = Null THEN a ELSE x.first
           last == IF ea.next = Null THEN b ELSE IF eb.next = Null THEN a ELSE x.last
           g == [c \in E |-> [next |-> next(c), prev |-> prev(c), value |-> x.elem[c].value]]
<1>1. /\ x \in Lists /\ s \in Seq(Ids) /\ n \in Nat
      /\ \A k, m \in 1 .. n : s[k] = s[m] => k = m
      /\ x.first = At(s, 1) /\ x.last = At(s, n)
      /\ \A k \in 1 .. n : s[k] \in E /\ x.elem[s[k]].prev = At(s, k - 1) /\ x.elem[s[k]].next = At(s, k + 1)
  BY DEF IsList, Chain
<1>2. /\ E \subseteq Ids /\ x.elem \in [E -> Item] /\ a \in E /\ b \in E /\ a # b
      /\ ea.prev = At(s, i - 1) /\ ea.next = At(s, i + 1) /\ eb.prev = At(s, j - 1) /\ eb.next = At(s, j + 1)
  BY <1>1, ListIs
<1>3. y \in Lists /\ y.first = first /\ y.last = last /\ y.elem = g /\ y.data = x.data /\ y.size = x.size
  <2>1. y = [x EXCEPT !.first = first, !.last = last, !.elem = g]
    BY <1>1, <1>2, ListIs DEF LI!Swapped, Null
  <2>2. g \in [E -> Item] /\ first \in Ids \cup {Null} /\ last \in Ids \cup {Null}
    BY <1>1, <1>2, ListIs DEF Item
  <2> HIDE DEF y, first, last, g, E
  <2>3. Changed(y, x, first, last, g)
    BY <2>1, <2>2, <1>1, <1>2, ChangedIs
  <2> QED  BY <2>3 DEF Changed
<1>4. DOMAIN y.elem = E
      /\ \A c \in E : y.elem[c].next = next(c) /\ y.elem[c].prev = prev(c) /\ y.elem[c].value = x.elem[c].value
  <2> HIDE DEF y, next, prev, E
  <2> QED  BY <1>3
<1>5. SameItems(y, x)
  <2> HIDE DEF y
  <2> QED  BY <1>3, <1>4 DEF SameItems
<1>6. /\ t \in Seq(Ids) /\ Len(t) = n
      /\ \A k \in 1 .. n : t[k] = IF k = i THEN s[j] ELSE IF k = j THEN s[i] ELSE s[k]
  <2> HIDE DEF E, ea, eb
  <2>1. i \in 1 .. Len(s) /\ j \in 1 .. Len(s)
    OBVIOUS
  <2> QED  BY <2>1, <1>1, ExchangedIs
<1> HIDE DEF t, y
<1>7. \A k \in Int : At(t, k) = IF k = i THEN b ELSE IF k = j THEN a ELSE At(s, k)
  BY <1>1, <1>6 DEF At
<1>8. /\ \A k \in 0 .. n + 1 : \A m \in 1 .. n : At(s, k) = s[m] <=> k = m
      /\ \A k \in 0 .. n + 1 : At(s, k) = Null <=> k = 0 \/ k = n + 1
  BY <1>1, SMTT(30) DEF At
<1>9. /\ ea.prev = Null <=> i = 1
      /\ eb.prev = Null <=> j = 1
      /\ ea.next = Null <=> i = n
      /\ eb.next = Null <=> j = n
      /\ ea.next = b <=> i + 1 = j
      /\ eb.next = a <=> j + 1 = i
  <2>1. /\ i \in 1 .. n /\ j \in 1 .. n /\ n \in Nat
        /\ i - 1 \in 0 .. n + 1 /\ i + 1 \in 0 .. n + 1 /\ j - 1 \in 0 .. n + 1 /\ j + 1 \in 0 .. n + 1
    BY <1>1
  <2> HIDE DEF n, ea, eb, E
  <2>2. /\ ea.prev = Null <=> i - 1 = 0 \/ i - 1 = n + 1
        /\ eb.prev = Null <=> j - 1 = 0 \/ j - 1 = n + 1
        /\ ea.next = Null <=> i + 1 = 0 \/ i + 1 = n + 1
        /\ eb.next = Null <=> j + 1 = 0 \/ j + 1 = n + 1
        /\ ea.next = b <=> i + 1 = j
        /\ eb.next = a <=> j + 1 = i
    BY <2>1, <1>2, <1>8
  <2> QED  BY <2>1, <2>2
<1>10. y.first = At(t, 1) /\ y.last = At(t, n)
  <2>1. n \in Int /\ x.first = At(s, 1) /\ x.last = At(s, n) /\ y.first = first /\ y.last = last
    BY <1>1, <1>3, SMTT(30)
  <2> HIDE DEF n, ea, eb, E
  <2>2. y.first = IF i = 1 THEN b ELSE IF j = 1 THEN a ELSE At(s, 1)
    BY <2>1, <1>9
  <2>3. y.last = IF i = n THEN b ELSE IF j = n THEN a ELSE At(s, n)
    BY <2>1, <1>9
  <2> QED  BY <2>1, <2>2, <2>3, <1>7
<1>11. ASSUME NEW k \in 1 .. n, NEW m \in 1 .. n, t[k] = t[m]
       PROVE  k = m
  <2> DEFINE from(q) == IF q = i THEN j ELSE IF q = j THEN i ELSE q
  <2>1. from(k) \in 1 .. n /\ from(m) \in 1 .. n /\ t[k] = s[from(k)] /\ t[m] = s[from(m)]
    BY <1>6
  <2>2. from(k) = from(m)
    <3> HIDE DEF from
    <3> QED  BY <2>1, <1>1, <1>11
  <2> QED  BY <2>2
<1>12. ASSUME NEW k \in 1 .. n
       PROVE  t[k] \in E /\ y.elem[t[k]].prev = At(t, k - 1) /\ y.elem[t[k]].next = At(t, k + 1)
  <2> HIDE DEF ea, eb, E, n, first, last, g
  <2>1. CASE k = i
    <3>1. t[k] = b /\ y.elem[b].next = (IF i + 1 = j THEN a ELSE At(s, i + 1))
                   /\ y.elem[b].prev = (IF j + 1 = i THEN a ELSE At(s, i - 1))
      BY <2>1, <1>1, <1>2, <1>4, <1>6, <1>9
    <3>2. At(t, i + 1) = (IF i + 1 = j THEN a ELSE At(s, i + 1))
          /\ At(t, i - 1) = (IF j + 1 = i THEN a ELSE At(s, i - 1))
      <4>1. /\ i + 1 \in Int /\ i - 1 \in Int /\ i + 1 # i /\ i - 1 # i
            /\ (i - 1 = j <=> j + 1 = i)
        OBVIOUS
      <4> QED  BY <4>1, <1>7
    <3> QED  BY <2>1, <3>1, <3>2, <1>2
  <2>2. CASE k = j
    <3>1. t[k] = a /\ y.elem[a].next = (IF j + 1 = i THEN b ELSE At(s, j + 1))
                   /\ y.elem[a].prev = (IF i + 1 = j THEN b ELSE At(s, j - 1))
      BY <2>2, <1>1, <1>2, <1>4, <1>6, <1>9
    <3>2. At(t, j + 1) = (IF j + 1 = i THEN b ELSE At(s, j + 1))
          /\ At(t, j - 1) = (IF i + 1 = j THEN b ELSE At(s, j - 1))
      <4>1. /\ j + 1 \in Int /\ j - 1 \in Int /\ j + 1 # j /\ j - 1 # j
            /\ (j - 1 = i <=> i + 1 = j)
        OBVIOUS
      <4> QED  BY <4>1, <1>7
    <3> QED  BY <2>2, <3>1, <3>2, <1>2
  <2>3. CASE k # i /\ k # j
    <3> DEFINE c == s[k]
    <3>a. k \in 1 .. n /\ i \in 1 .. n /\ j \in 1 .. n /\ n \in Nat
      BY <1>1 DEF n
    <3>1. t[k] = c /\ c \in E /\ c # a /\ c # b
      BY <3>a, <2>3, <1>1, <1>6
    <3>2. /\ c = ea.prev <=> k = i - 1
          /\ c = eb.prev <=> k = j - 1
          /\ c = ea.next <=> k = i + 1
          /\ c = eb.next <=> k = j + 1
      <4>1. /\ i - 1 \in 0 .. n + 1 /\ i + 1 \in 0 .. n + 1 /\ j - 1 \in 0 .. n + 1 /\ j + 1 \in 0 .. n + 1
        BY <3>a
      <4> QED  BY <3>a, <4>1, <1>2, <1>8
    <3> HIDE DEF c
    <3>3. y.elem[c].next = (IF k = i - 1 THEN b ELSE IF k = j - 1 THEN a ELSE At(s, k + 1))
          /\ y.elem[c].prev = (IF k = i + 1 THEN b ELSE IF k = j + 1 THEN a ELSE At(s, k - 1))
      <4>1. x.elem[c].next = At(s, k + 1) /\ x.elem[c].prev = At(s, k - 1)
        BY <3>a, <1>1 DEF c
      <4> QED  BY <4>1, <3>1, <3>2, <1>4
    <3>4. At(t, k + 1) = (IF k = i - 1 THEN b ELSE IF k = j - 1 THEN a ELSE At(s, k + 1))
          /\ At(t, k - 1) = (IF k = i + 1 THEN b ELSE IF k = j + 1 THEN a ELSE At(s, k - 1))
      <4>1. k + 1 \in Int /\ k - 1 \in Int
            /\ (k + 1 = i <=> k = i - 1) /\ (k + 1 = j <=> k = j - 1)
            /\ (k - 1 = i <=> k = i + 1) /\ (k - 1 = j <=> k = j + 1)
        BY <3>a
      <4> QED  BY <4>1, <1>7
    <3> QED  BY <3>1, <3>3, <3>4
  <2> QED  BY <2>1, <2>2, <2>3
<1>13. Chain(y, t)
  BY <1>3, <1>4, <1>6, <1>10, <1>11, <1>12 DEF Chain
<1>14. /\ \A k \in 1 .. n : \E m \in 1 .. n : t[m] = s[k]
       /\ \A k \in 1 .. n : \E m \in 1 .. n : t[k] = s[m]
  <2>1. ASSUME NEW k \in 1 .. n PROVE \E m \in 1 .. n : t[m] = s[k]
    <3>1. t[IF k = i THEN j ELSE IF k = j THEN i ELSE k] = s[k]
      BY <1>1, <1>6
    <3> QED  BY <3>1
  <2>2. ASSUME NEW k \in 1 .. n PROVE \E m \in 1 .. n : t[k] = s[m]
    BY <1>6
  <2> QED  BY <2>1, <2>2
<1>15. IsList(y, t)
  BY <1>5, <1>6, <1>13, <1>14, RelinkedIs
<1> QED  BY <1>5, <1>15 DEF y, t

\* Values change places, whoever has them; the elements stay.
LEMMA ReversedIs ==
  ASSUME Null \notin Ids, NEW x, NEW s, IsList(x, s)
  PROVE  /\ IsList(LI!Reversed(x), s)
         /\ \A i \in 1 .. Len(s) : LI!Reversed(x).elem[s[i]].value = x.elem[s[(Len(s) - i) + 1]].value
<1> DEFINE E == DOMAIN x.elem
           n == Len(s)
           half == x.size \div 2
           f == LI!Forward(x)
           b == LI!Backward(x)
           other(e) == IF \E i \in 1 .. half : f[i] = e THEN b[CHOOSE i \in 1 .. half : f[i] = e]
                       ELSE IF \E i \in 1 .. half : b[i] = e THEN f[CHOOSE i \in 1 .. half : b[i] = e]
                       ELSE e
           g == [j \in E |-> [x.elem[j] EXCEPT !.value = x.elem[other(j)].value]]
           y == LI!Reversed(x)
<1>1. /\ x \in Lists /\ s \in Seq(Ids) /\ n \in Nat /\ x.size = n /\ E = {s[i] : i \in 1 .. n}
      /\ \A i, j \in 1 .. n : s[i] = s[j] => i = j
      /\ \A i \in 1 .. n : s[i] \in E /\ x.elem[s[i]].prev = At(s, i - 1) /\ x.elem[s[i]].next = At(s, i + 1)
  BY DEF IsList, Chain
<1>2. E \subseteq Ids /\ x.elem \in [E -> Item] /\ LI!Elements(x) = E
  BY <1>1, ListIs
<1>3. f = s /\ b = LI!Reverse(s)
  BY BothWays
<1>4. \A i \in 1 .. half : i \in 1 .. n /\ f[i] \in E /\ b[i] \in E
  <2>1. \A i \in 1 .. n : b[i] = s[(n - i) + 1]
    BY <1>3 DEF LI!Reverse
  <2>2. ASSUME NEW i \in 1 .. half PROVE i \in 1 .. n /\ (n - i) + 1 \in 1 .. n
    BY <1>1
  <2> QED  BY <2>1, <2>2, <1>1, <1>3
<1>5. \A e \in E : other(e) \in E
  <2> HIDE DEF f, b, half, E
  <2> TAKE e \in E
  <2>1. CASE \E i \in 1 .. half : f[i] = e
    BY <2>1, <1>4
  <2>2. CASE ~(\E i \in 1 .. half : f[i] = e) /\ \E i \in 1 .. half : b[i] = e
    BY <2>2, <1>4
  <2>3. CASE ~(\E i \in 1 .. half : f[i] = e) /\ ~(\E i \in 1 .. half : b[i] = e)
    BY <2>3
  <2> QED  BY <2>1, <2>2, <2>3
<1>a. \A i \in 1 .. n : other(s[i]) = s[(n - i) + 1]
  <2> TAKE i \in 1 .. n
  <2>1. n \in Nat /\ half \in Nat /\ half + half <= n /\ n <= half + half + 1 /\ i \in Int
    BY <1>1
  <2>2. \A k \in 1 .. half : f[k] = s[k] /\ b[k] = s[(n - k) + 1] /\ k \in 1 .. n /\ (n - k) + 1 \in 1 .. n
    <3> TAKE k \in 1 .. half
    <3>1. k \in 1 .. n /\ (n - k) + 1 \in 1 .. n
      BY <2>1
    <3> QED  BY <3>1, <1>3 DEF LI!Reverse
  <2> HIDE DEF f, b, half
  <2>3. \A k \in 1 .. half : (f[k] = s[i] <=> k = i) /\ (b[k] = s[i] <=> (n - k) + 1 = i)
    <3> TAKE k \in 1 .. half
    <3>1. s[k] = s[i] <=> k = i
      BY <2>2, <1>1
    <3>2. s[(n - k) + 1] = s[i] <=> (n - k) + 1 = i
      BY <2>2, <1>1
    <3> QED  BY <3>1, <3>2, <2>2
  <2>4. CASE i <= half
    <3>1. i \in 1 .. half /\ f[i] = s[i] /\ b[i] = s[(n - i) + 1]
      BY <2>1, <2>2, <2>4
    <3>2. (CHOOSE k \in 1 .. half : f[k] = s[i]) = i
      BY <3>1, <2>3
    <3> QED  BY <3>1, <3>2
  <2>5. CASE ~(i <= half) /\ (n - i) + 1 <= half
    <3> DEFINE m == (n - i) + 1
    <3>1. m \in 1 .. half /\ (n - m) + 1 = i
      BY <2>1, <2>5
    <3>2. ~(\E k \in 1 .. half : f[k] = s[i])
      BY <2>1, <2>3, <2>5
    <3>3. b[m] = s[i] /\ f[m] = s[m]
      BY <3>1, <2>2
    <3>4. \A k \in 1 .. half : b[k] = s[i] => k = m
      BY <2>1, <2>3
    <3> HIDE DEF m
    <3>5. (CHOOSE k \in 1 .. half : b[k] = s[i]) = m
      BY <3>1, <3>3, <3>4
    <3> QED  BY <3>1, <3>2, <3>3, <3>5 DEF m
  <2>6. CASE ~(i <= half) /\ ~((n - i) + 1 <= half)
    <3>1. (n - i) + 1 = i
      BY <2>1, <2>6
    <3>2. ~(\E k \in 1 .. half : f[k] = s[i]) /\ ~(\E k \in 1 .. half : b[k] = s[i])
      <4>1. \A k \in 1 .. half : k # i /\ (n - k) + 1 # i
        BY <2>1, <2>6, <3>1
      <4> QED  BY <4>1, <2>3
    <3> QED  BY <3>1, <3>2
  <2> QED  BY <2>4, <2>5, <2>6
<1>6. g \in [E -> Item] /\ \A j \in E : g[j].next = x.elem[j].next /\ g[j].prev = x.elem[j].prev
                                   /\ g[j].value = x.elem[other(j)].value
  <2> HIDE DEF other, E
  <2> QED  BY <1>2, <1>5 DEF Item
<1>7. y \in Lists /\ y.first = x.first /\ y.last = x.last /\ y.elem = g /\ y.data = x.data /\ y.size = x.size
  <2>1. y = [x EXCEPT !.elem = g]
    BY <1>2 DEF LI!Reversed
  <2> HIDE DEF y, g, E
  <2>2. g \in UNION {[F -> Item] : F \in SUBSET Ids}
    BY <1>2, <1>6
  <2> QED  BY <2>1, <2>2, <1>1 DEF Lists
<1> HIDE DEF y, g, other
<1>8. DOMAIN y.elem = E /\ \A j \in E : y.elem[j].next = x.elem[j].next /\ y.elem[j].prev = x.elem[j].prev
  BY <1>6, <1>7
<1>9. Chain(y, s)
  BY <1>1, <1>7, <1>8 DEF IsList, Chain
<1>10. IsList(y, s)
  BY <1>7, <1>8, <1>9 DEF IsList
<1>11. ASSUME NEW i \in 1 .. n PROVE y.elem[s[i]].value = x.elem[s[(n - i) + 1]].value
  <2>1. s[i] \in E /\ other(s[i]) = s[(n - i) + 1]
    BY <1>1, <1>a
  <2> HIDE DEF other, E
  <2> QED  BY <2>1, <1>6, <1>7
<1> QED  BY <1>10, <1>11 DEF y

\* All elements, in any order.
LEMMA OrderedIs ==
  ASSUME Null \notin Ids, NEW x, NEW s, IsList(x, s), Len(s) >= 2,
         NEW t \in [1 .. Len(s) -> DOMAIN x.elem],
         \A i, j \in 1 .. Len(s) : t[i] = t[j] => i = j
  PROVE  IsList(LI!Ordered(x, t), t)
<1> DEFINE E == DOMAIN x.elem
           n == Len(s)
           of(e) == CHOOSE j \in DOMAIN t : t[j] = e
           g == [e \in E |-> LET i == CHOOSE j \in DOMAIN t : t[j] = e
                             IN  [next |-> IF i = Len(t) THEN Null ELSE t[i + 1],
                                  prev |-> IF i = 1 THEN Null ELSE t[i - 1],
                                  value |-> x.elem[e].value]]
           y == LI!Ordered(x, t)
<1>1. /\ x \in Lists /\ s \in Seq(Ids) /\ n \in Nat /\ E = {s[i] : i \in 1 .. n}
  BY DEF IsList, Chain
<1>2. E \subseteq Ids /\ x.elem \in [E -> Item] /\ LI!Elements(x) = E
  BY <1>1, ListIs
<1>3. t \in Seq(Ids) /\ Len(t) = n /\ DOMAIN t = 1 .. n
  <2>1. t \in [1 .. n -> Ids]
    BY <1>2
  <2>2. n \in Nat
    BY <1>1
  <2> HIDE DEF n, E
  <2>3. t \in Seq(Ids) /\ Len(t) = n
    BY <2>1, <2>2, IsSequence
  <2> QED  BY <2>1, <2>3
<1>4. E = {t[i] : i \in 1 .. n}
  <2> DEFINE R == {t[i] : i \in 1 .. n}
  <2>1. IsFiniteSet(E) /\ Cardinality(E) = n
    BY BothWays
  <2>2. t \in Bijection(1 .. n, R)
    BY DEF Bijection, Injection, Surjection, IsInjective
  <2>3. IsFiniteSet(1 .. n) /\ Cardinality(1 .. n) = n
    BY <1>1, FS_Interval
  <2>4. Cardinality(R) = n
    BY <2>2, <2>3, FS_Bijection DEF ExistsBijection
  <2>5. R \in SUBSET E
    OBVIOUS
  <2> HIDE DEF R, E, n
  <2> QED  BY <2>1, <2>4, <2>5, FS_Subset DEF R
<1>5. \A e \in E : of(e) \in 1 .. n /\ t[of(e)] = e
  <2> HIDE DEF E, n
  <2> QED  BY <1>3, <1>4
<1>6. \A i \in 1 .. n : t[i] \in E /\ of(t[i]) = i
  <2> TAKE i \in 1 .. n
  <2>1. t[i] \in E
    OBVIOUS
  <2>2. of(t[i]) \in 1 .. n /\ t[of(t[i])] = t[i]
    BY <2>1, <1>5
  <2> HIDE DEF of, E
  <2> QED  BY <2>1, <2>2
<1>7. /\ DOMAIN g = E
      /\ \A e \in E : g[e] = [next |-> IF of(e) = n THEN Null ELSE t[of(e) + 1],
                              prev |-> IF of(e) = 1 THEN Null ELSE t[of(e) - 1],
                              value |-> x.elem[e].value]
  BY <1>3
<1> HIDE DEF of, E
<1>8. g \in [E -> Item]
  <2>1. ASSUME NEW e \in E PROVE g[e] \in Item
    <3>1. of(e) \in 1 .. n
      BY <1>5
    <3>2. of(e) # n => t[of(e) + 1] \in Ids
      BY <3>1, <1>1, <1>2
    <3>3. of(e) # 1 => t[of(e) - 1] \in Ids
      BY <3>1, <1>1, <1>2
    <3>4. x.elem[e].value \in Values
      BY <1>2 DEF Item
    <3> DEFINE a == IF of(e) = n THEN Null ELSE t[of(e) + 1]
               b == IF of(e) = 1 THEN Null ELSE t[of(e) - 1]
               c == x.elem[e].value
    <3>5. g[e] = [next |-> a, prev |-> b, value |-> c]
      BY <1>7
    <3>6. a \in Ids \cup {Null} /\ b \in Ids \cup {Null} /\ c \in Values
      BY <3>2, <3>3, <3>4
    <3> HIDE DEF a, b, c
    <3> QED  BY <3>5, <3>6 DEF Item
  <2> QED  BY <2>1
<1> HIDE DEF g
<1>9. y \in Lists /\ y.first = t[1] /\ y.last = t[n] /\ y.elem = g /\ y.data = x.data /\ y.size = x.size
  <2>1. y = [x EXCEPT !.first = t[1], !.last = t[n], !.elem = g]
    BY <1>2, <1>3 DEF LI!Ordered, Null, g
  <2>2. t[1] \in Ids \cup {Null} /\ t[n] \in Ids \cup {Null}
    BY <1>1, <1>2
  <2> HIDE DEF y, n
  <2>3. Changed(y, x, t[1], t[n], g)
    BY <2>1, <2>2, <1>1, <1>2, <1>8, ChangedIs
  <2> QED  BY <2>3 DEF Changed
<1> HIDE DEF y
<1>10. DOMAIN y.elem = E /\ \A i \in 1 .. n : /\ y.elem[t[i]].next = IF i = n THEN Null ELSE t[i + 1]
                                              /\ y.elem[t[i]].prev = IF i = 1 THEN Null ELSE t[i - 1]
  BY <1>6, <1>7, <1>9
<1>11. Chain(y, t)
  <2>1. y.first = At(t, 1) /\ y.last = At(t, n)
    BY <1>1, <1>3, <1>9 DEF At
  <2>2. ASSUME NEW i \in 1 .. n
        PROVE  t[i] \in DOMAIN y.elem /\ y.elem[t[i]].next = At(t, i + 1) /\ y.elem[t[i]].prev = At(t, i - 1)
    <3>1. At(t, i + 1) = IF i = n THEN Null ELSE t[i + 1]
      <4>1. i + 1 \in 1 .. n <=> i # n
        BY <1>1
      <4> QED  BY <4>1, <1>3 DEF At
    <3>2. At(t, i - 1) = IF i = 1 THEN Null ELSE t[i - 1]
      BY <1>1, <1>3 DEF At
    <3> QED  BY <3>1, <3>2, <1>6, <1>10
  <2> QED  BY <2>1, <2>2, <1>3, <1>9 DEF Chain
<1>12. IsList(y, t)
  BY <1>3, <1>4, <1>9, <1>10, <1>11 DEF IsList
<1> QED  BY <1>12 DEF y

LEMMA GreatestIs ==
  ASSUME NEW n \in Nat, NEW S \in SUBSET (0 .. n), S # {}
  PROVE  LI!Max(S) \in S /\ \A j \in S : LI!Max(S) >= j
<1> DEFINE R == {n - i : i \in S}
<1>1. R \in SUBSET Nat /\ R # {}
  <2>1. \A i \in S : i \in 0 .. n /\ n - i \in Nat
    OBVIOUS
  <2> QED  BY <2>1
<1>2. PICK m \in R : \A j \in R : m <= j
  <2> HIDE DEF R
  <2> QED  BY <1>1, LeastIsThere
<1>3. PICK k \in S : m = n - k
  OBVIOUS
<1>4. \A j \in S : k >= j
  <2> TAKE j \in S
  <2>1. n - k <= n - j /\ j \in Int /\ k \in Int
    <3>1. n - j \in R /\ j \in 0 .. n /\ k \in 0 .. n
      OBVIOUS
    <3> HIDE DEF R
    <3> QED  BY <3>1, <1>2, <1>3
  <2> QED  BY <2>1
<1> QED  BY <1>4 DEF LI!Max

\* The values do not go down along t.
Rising(y, t) == \A i, j \in 1 .. Len(t) : i < j => y.elem[t[i]].value <= y.elem[t[j]].value

\* One more element is put where it belongs among those that are in order.
LEMMA SortedIs ==
  ASSUME Null \notin Ids, NEW y, NEW t, Chain(y, t), IsFiniteSet(DOMAIN y.elem),
         Len(t) <= Cardinality(DOMAIN y.elem),
         NEW e \in DOMAIN y.elem, \A i \in 1 .. Len(t) : t[i] # e, Values \subseteq Int
  PROVE  \E k \in 1 .. Len(t) + 1 : /\ Chain(LI!Sorted(y, e), More(t, k, e))
                                    /\ SameItems(LI!Sorted(y, e), y)
                                    /\ Rising(y, t) => Rising(LI!Sorted(y, e), More(t, k, e))
<1> DEFINE s == LI!Forward(y)
           less(i) == \A j \in 1 .. i : y.elem[s[j]].value < y.elem[e].value
           S == {i \in 0 .. Len(s) : less(i)}
           k == LI!Max(S)
           p == IF k = 0 THEN Null ELSE s[k]
           n == IF k = Len(s) THEN Null ELSE s[k + 1]
<1>1. /\ y \in Lists /\ t \in Seq(Ids) /\ Len(t) \in Nat /\ y.first = At(t, 1)
      /\ \A i, j \in 1 .. Len(t) : t[i] = t[j] => i = j
      /\ \A i \in 1 .. Len(t) : t[i] \in DOMAIN y.elem /\ y.elem[t[i]].next = At(t, i + 1)
  BY DEF Chain
<1>2. s = t
  <2>1. Null \notin DOMAIN y.elem
    BY <1>1, ListIs
  <2>2. \A i \in 1 .. Len(t) : t[i] \in DOMAIN y.elem /\ y.elem[t[i]]["next"] = At(t, i + 1)
    BY <1>1
  <2>3. LI!Walk(y, At(t, 1), "next") = t
    BY <2>1, <2>2, <1>1, WalkIs
  <2> QED  BY <2>3, <1>1 DEF LI!Forward
<1>3. k \in 0 .. Len(t) /\ less(k) /\ (k < Len(t) => ~less(k + 1))
  <2>1. S \in SUBSET (0 .. Len(t)) /\ 0 \in S
    BY <1>1, <1>2
  <2>2. k \in S /\ \A j \in S : k >= j
    <3> HIDE DEF S
    <3> QED  BY <2>1, <1>1, GreatestIs
  <2> HIDE DEF k, less
  <2>3. k \in 0 .. Len(t) /\ less(k)
    BY <1>2, <2>2
  <2>4. ASSUME k < Len(t) PROVE ~less(k + 1)
    <3>1. k + 1 \in 0 .. Len(s) /\ ~(k >= k + 1)
      BY <2>3, <2>4, <1>1, <1>2
    <3>2. k + 1 \notin S
      BY <3>1, <2>2
    <3> QED  BY <3>1, <3>2
  <2> QED  BY <2>3, <2>4
<1>4. LI!Sorted(y, e) = LI!Between(y, p, e, n)
  BY DEF LI!Sorted, Null
<1> HIDE DEF k, s
<1>5. p = At(t, (k + 1) - 1) /\ n = At(t, k + 1) /\ k + 1 \in 1 .. Len(t) + 1
  BY <1>1, <1>2, <1>3 DEF At
<1>6. Chain(LI!Between(y, p, e, n), More(t, k + 1, e)) /\ SameItems(LI!Between(y, p, e, n), y)
  <2> HIDE DEF p, n
  <2> QED  BY <1>5, BetweenIs
<1>7. ASSUME Rising(y, t) PROVE Rising(LI!Sorted(y, e), More(t, k + 1, e))
  <2> DEFINE val(c) == y.elem[c].value
             u == More(t, k + 1, e)
             z == LI!Between(y, p, e, n)
  <2>1. \A c \in DOMAIN y.elem : val(c) \in Int
    <3>1. y.elem \in [DOMAIN y.elem -> Item]
      BY <1>1, ListIs
    <3> QED  BY <3>1 DEF Item
  <2>2. \A i \in 1 .. k : val(t[i]) < val(e)
    BY <1>2, <1>3
  <2>3. \A i \in 1 .. Len(t) : i > k => val(e) <= val(t[i])
    <3> TAKE i \in 1 .. Len(t)
    <3> HAVE i > k
    <3>1. k + 1 \in 1 .. Len(t) /\ k \in Int
      BY <1>1, <1>3
    <3>2. ~(val(t[k + 1]) < val(e))
      <4>1. PICK j \in 1 .. k + 1 : ~(val(t[j]) < val(e))
        BY <3>1, <1>2, <1>3
      <4>2. j = k + 1
        BY <4>1, <2>2, <1>3
      <4> QED  BY <4>1, <4>2
    <3>3. val(t[k + 1]) <= val(t[i])
      <4>1. val(t[i]) \in Int
        BY <2>1, <1>1
      <4>2. CASE i = k + 1
        BY <4>1, <4>2
      <4>3. CASE i # k + 1
        <5>1. k + 1 < i
          BY <4>3, <3>1
        <5> QED  BY <5>1, <3>1, <1>7 DEF Rising
      <4> QED  BY <4>2, <4>3
    <3>4. val(t[k + 1]) \in Int /\ val(t[i]) \in Int /\ val(e) \in Int
      BY <3>1, <2>1, <1>1
    <3> HIDE DEF val
    <3> QED  BY <3>2, <3>3, <3>4
  <2>4. /\ u \in Seq(Ids) /\ Len(u) = Len(t) + 1
        /\ \A i \in 1 .. Len(t) + 1 : u[i] = IF i < k + 1 THEN t[i] ELSE IF i = k + 1 THEN e ELSE t[i - 1]
    <3>1. e \in Ids
      BY <1>1, ListIs
    <3>2. k + 1 \in 1 .. Len(t) + 1
      BY <1>5
    <3>3. t \in Seq(Ids)
      BY <1>1
    <3> DEFINE m == k + 1
    <3> HIDE DEF m
    <3>4. /\ More(t, m, e) \in Seq(Ids) /\ Len(More(t, m, e)) = Len(t) + 1
          /\ \A i \in 1 .. Len(t) + 1 : More(t, m, e)[i] = IF i < m THEN t[i] ELSE IF i = m THEN e ELSE t[i - 1]
      <4>1. m \in 1 .. Len(t) + 1
        BY <3>2 DEF m
      <4>2. IsMore(More(t, m, e), Ids, t, m, e)
        BY <3>1, <3>3, <4>1, MoreInAWord
      <4> QED  BY <4>2 DEF IsMore
    <3> QED  BY <3>4 DEF m
  <2> HIDE DEF u
  <2>5. \A i \in 1 .. Len(u) : /\ i < k + 1 => i \in 1 .. k /\ i \in 1 .. Len(t) /\ u[i] = t[i]
                               /\ i = k + 1 => u[i] = e
                               /\ i > k + 1 => i - 1 \in 1 .. Len(t) /\ i - 1 > k /\ u[i] = t[i - 1]
    BY <2>4, <1>1, <1>3
  <2>6. \A i, j \in 1 .. Len(t) : i < j => val(t[i]) <= val(t[j])
    BY <1>7 DEF Rising
  <2>7. \A i \in 1 .. Len(t) : val(t[i]) \in Int /\ val(e) \in Int
    BY <2>1, <1>1
  <2> HIDE DEF val
  <2>8. ASSUME NEW i \in 1 .. Len(u), NEW j \in 1 .. Len(u), i < j
        PROVE  val(u[i]) <= val(u[j])
    <3>1. i \in Int /\ j \in Int /\ k \in Int
      BY <1>1, <1>3
    <3>2. CASE j < k + 1
      BY <3>1, <3>2, <2>5, <2>6, <2>8
    <3>3. CASE j = k + 1
      BY <3>1, <3>3, <2>2, <2>5, <2>7, <2>8
    <3>4. CASE j > k + 1 /\ i < k + 1
      <4>1. i < j - 1
        BY <3>1, <3>4
      <4> QED  BY <4>1, <3>1, <3>4, <2>5, <2>6
    <3>5. CASE j > k + 1 /\ i = k + 1
      BY <3>1, <3>5, <2>3, <2>5
    <3>6. CASE j > k + 1 /\ i > k + 1
      <4>1. i - 1 < j - 1
        BY <3>1, <2>8
      <4> QED  BY <4>1, <3>1, <3>6, <2>5, <2>6
    <3> QED  BY <3>1, <3>2, <3>3, <3>4, <3>5, <3>6
  <2>9. \A c \in DOMAIN y.elem : z.elem[c].value = val(c)
    BY <1>6 DEF SameItems, val
  <2>10. \A i \in 1 .. Len(u) : u[i] \in DOMAIN y.elem
    <3>1. DOMAIN z.elem = DOMAIN y.elem
      BY <1>6 DEF SameItems
    <3>2. Chain(z, u)
      BY <1>6 DEF u
    <3> QED  BY <3>1, <3>2 DEF Chain
  <2> HIDE DEF z
  <2>11. Rising(z, u)
    BY <2>8, <2>9, <2>10 DEF Rising
  <2> QED  BY <2>11, <1>4 DEF z, u
<1> QED  BY <1>4, <1>5, <1>6, <1>7

\* The elements of a sequence.
InAll(s) == {s[i] : i \in 1 .. Len(s)}

\* What is in More is what was there, and e.
LEMMA MoreHas ==
  ASSUME NEW S, NEW t \in Seq(S), NEW k \in 1 .. Len(t) + 1, NEW e \in S
  PROVE  InAll(More(t, k, e)) = InAll(t) \cup {e}
<1> DEFINE u == More(t, k, e)
<1>1. /\ u \in Seq(S) /\ Len(u) = Len(t) + 1 /\ Len(t) \in Nat
      /\ \A i \in 1 .. Len(t) + 1 : u[i] = IF i < k THEN t[i] ELSE IF i = k THEN e ELSE t[i - 1]
  <2>1. t \in Seq(S) /\ k \in 1 .. Len(t) + 1 /\ e \in S /\ Len(t) \in Nat
    OBVIOUS
  <2> QED  BY <2>1, MoreIs
<1> HIDE DEF u
<1>2. \A i \in 1 .. Len(u) : u[i] \in {t[j] : j \in 1 .. Len(t)} \cup {e}
  <2> TAKE i \in 1 .. Len(u)
  <2>1. CASE i < k
    BY <2>1, <1>1, SMTT(30)
  <2>2. CASE i = k
    BY <2>2, <1>1
  <2>3. CASE i > k
    BY <2>3, <1>1
  <2> QED  BY <2>1, <2>2, <2>3, <1>1
<1>3. k \in 1 .. Len(u) /\ u[k] = e
  BY <1>1
<1>4. ASSUME NEW j \in 1 .. Len(t) PROVE \E i \in 1 .. Len(u) : u[i] = t[j]
  <2>1. CASE j < k
    BY <2>1, <1>1, SMTT(30)
  <2>2. CASE j >= k
    <3>1. j + 1 \in 1 .. Len(u) /\ u[j + 1] = t[j]
      BY <2>2, <1>1
    <3> QED  BY <3>1
  <2>3. j \in Int /\ k \in Int
    BY <1>1
  <2> QED  BY <2>1, <2>2, <2>3
<1>5. ASSUME NEW c \in {t[j] : j \in 1 .. Len(t)} \cup {e} PROVE c \in {u[i] : i \in 1 .. Len(u)}
  <2>1. CASE c = e
    BY <2>1, <1>3
  <2>2. CASE c # e
    <3>1. PICK j \in 1 .. Len(t) : c = t[j]
      BY <2>2
    <3> QED  BY <3>1, <1>4
  <2> QED  BY <2>1, <2>2
<1>6. {u[i] : i \in 1 .. Len(u)} = {t[i] : i \in 1 .. Len(t)} \cup {e}
  BY <1>2, <1>5
<1> QED  BY <1>6 DEF u, InAll

\* Up to the i-th of s, those have been put in order.
SomeOf(y, x, s, i) ==
  /\ SameItems(y, x)
  /\ \E t : Chain(y, t) /\ Len(t) = i /\ {t[k] : k \in 1 .. i} = {s[k] : k \in 1 .. i} /\ Rising(y, t)

LEMMA SortedInPlaceIs ==
  ASSUME Null \notin Ids, Values \subseteq Int, NEW x, NEW s, IsList(x, s)
  PROVE  \E t : /\ IsList(LI!SortedInPlace(x), t) /\ SameItems(LI!SortedInPlace(x), x)
                /\ Rising(LI!SortedInPlace(x), t)
<1> DEFINE E == DOMAIN x.elem
           n == Len(s)
           o == [x EXCEPT !.first = Null, !.last = Null]
           c == CHOOSE c : c = [i \in 0 .. n |-> IF i = 0 THEN o ELSE LI!Sorted(c[i - 1], s[i])]
<1>1. /\ x \in Lists /\ s \in Seq(Ids) /\ n \in Nat /\ x.size = n /\ E = {s[i] : i \in 1 .. n}
      /\ \A i, j \in 1 .. n : s[i] = s[j] => i = j
      /\ \A i \in 1 .. n : s[i] \in E
  BY DEF IsList, Chain
<1>2. LI!SortedInPlace(x) = IF x.size < 2 THEN x ELSE c[n]
  <2>1. LI!Forward(x) = s
    BY BothWays
  <2> QED  BY <2>1 DEF LI!SortedInPlace, Null
<1>3. c = [i \in 0 .. n |-> IF i = 0 THEN o ELSE LI!Sorted(c[i - 1], s[i])]
  <2> DEFINE T == {k \in 0 .. n : \E f : f = [i \in 0 .. k |-> IF i = 0 THEN o ELSE LI!Sorted(f[i - 1], s[i])]}
  <2> HIDE DEF o
  <2>1. 0 \in T
    <3> DEFINE f == [i \in 0 .. 0 |-> o]
    <3>1. f = [i \in 0 .. 0 |-> IF i = 0 THEN o ELSE LI!Sorted(f[i - 1], s[i])]
      OBVIOUS
    <3> HIDE DEF f
    <3> QED  BY <3>1, <1>1
  <2>2. ASSUME NEW k \in 1 .. n, k - 1 \in T PROVE k \in T
    <3>1. PICK f : f = [i \in 0 .. k - 1 |-> IF i = 0 THEN o ELSE LI!Sorted(f[i - 1], s[i])]
      BY <2>2
    <3> DEFINE h == [i \in 0 .. k |-> IF i = k THEN LI!Sorted(f[k - 1], s[k]) ELSE f[i]]
    <3>2. \A i \in 0 .. k : h[i] = IF i = 0 THEN o ELSE LI!Sorted(h[i - 1], s[i])
      <4> TAKE i \in 0 .. k
      <4>1. CASE i = k
        <5>1. i # 0 /\ k - 1 \in 0 .. k /\ k - 1 # k /\ h[k - 1] = f[k - 1] /\ h[i] = LI!Sorted(f[k - 1], s[k])
          BY <4>1
        <5> HIDE DEF h
        <5> QED  BY <5>1, <4>1
      <4>2. CASE i # k
        <5>1. i \in 0 .. k - 1 /\ h[i] = f[i] /\ (i # 0 => i - 1 \in 0 .. k /\ i - 1 # k /\ h[i - 1] = f[i - 1])
          BY <4>2
        <5> HIDE DEF h
        <5> QED  BY <5>1, <3>1
      <4> QED  BY <4>1, <4>2
    <3>3. h = [i \in 0 .. k |-> IF i = 0 THEN o ELSE LI!Sorted(h[i - 1], s[i])]
      <4>1. h = [i \in 0 .. k |-> h[i]]
        OBVIOUS
      <4> HIDE DEF h
      <4> QED  BY <3>2, <4>1
    <3> HIDE DEF h
    <3>4. k \in 0 .. n
      BY <1>1
    <3> QED  BY <3>3, <3>4
  <2> HIDE DEF T
  <2>3. \A i \in 0 .. n : i \in T
    BY <2>1, <2>2, <1>1, UpTo
  <2>4. n \in 0 .. n
    BY <1>1
  <2> QED  BY <2>3, <2>4 DEF T
<1> HIDE DEF c
<1>4. c[0] = o /\ \A i \in 1 .. n : c[i] = LI!Sorted(c[i - 1], s[i])
  <2> HIDE DEF o
  <2>1. 0 \in 0 .. n
    BY <1>1
  <2>2. \A i \in 1 .. n : i \in 0 .. n /\ i # 0
    BY <1>1
  <2> QED  BY <2>1, <2>2, <1>3
<1>5. SomeOf(c[0], x, s, 0)
  <2>1. o \in Lists /\ o.first = Null /\ o.last = Null /\ SameItems(o, x)
    BY <1>1 DEF Lists, SameItems
  <2>2. Chain(o, <<>>)
    BY <2>1 DEF Chain, At
  <2> HIDE DEF o
  <2>3. Len(<<>>) = 0 /\ {<<>>[k] : k \in 1 .. 0} = {} /\ {s[k] : k \in 1 .. 0} = {}
    OBVIOUS
  <2>4. Rising(o, <<>>)
    BY <2>3 DEF Rising
  <2> QED  BY <2>1, <2>2, <2>3, <2>4, <1>4 DEF SomeOf
<1> HIDE DEF o
<1>6. ASSUME NEW i \in 1 .. n, SomeOf(c[i - 1], x, s, i - 1)
      PROVE  SomeOf(c[i], x, s, i)
  <2> DEFINE y == c[i - 1]
             z == c[i]
  <2>1. PICK t : Chain(y, t) /\ Len(t) = i - 1 /\ {t[k] : k \in 1 .. i - 1} = {s[k] : k \in 1 .. i - 1} /\ Rising(y, t)
    BY <1>6 DEF SomeOf
  <2>2. SameItems(y, x) /\ z = LI!Sorted(y, s[i]) /\ DOMAIN y.elem = E
    BY <1>4, <1>6 DEF SomeOf, SameItems
  <2>3. s[i] \in E /\ s[i] \in Ids
    BY <1>1
  <2>4. \A k \in 1 .. Len(t) : t[k] # s[i]
    <3> TAKE k \in 1 .. Len(t)
    <3>1. PICK m \in 1 .. i - 1 : t[k] = s[m]
      BY <2>1
    <3>2. m \in 1 .. n /\ m # i
      BY <3>1, <1>1
    <3> QED  BY <3>1, <3>2, <1>1
  <2>5. IsFiniteSet(E) /\ Cardinality(E) = n /\ Len(t) <= n
    <3>1. IsFiniteSet(E) /\ Cardinality(E) = n
      BY BothWays
    <3>2. Len(t) = i - 1 /\ i \in 1 .. n /\ n \in Nat
      BY <2>1, <1>1
    <3> HIDE DEF n, E
    <3> QED  BY <3>1, <3>2
  <2> HIDE DEF y, z, E, n
  <2>6. PICK k \in 1 .. Len(t) + 1 : Chain(z, More(t, k, s[i])) /\ SameItems(z, y) /\ Rising(z, More(t, k, s[i]))
    BY <2>1, <2>2, <2>3, <2>4, <2>5, SortedIs
  <2> DEFINE u == More(t, k, s[i])
  <2>7. t \in Seq(Ids)
    BY <2>1 DEF Chain
  <2>8. Len(u) = i
    <3>1. Len(u) = Len(t) + 1
      <4>1. k \in 1 .. Len(t) + 1
        BY <2>6
      <4> QED  BY <4>1, <2>3, <2>7, MoreIs
    <3>2. Len(t) = i - 1 /\ i \in Int
      BY <2>1 DEF n
    <3> HIDE DEF u
    <3> QED  BY <3>1, <3>2
  <2>9. {u[m] : m \in 1 .. Len(u)} = {t[m] : m \in 1 .. Len(t)} \cup {s[i]}
    <3>1. k \in 1 .. Len(t) + 1
      BY <2>6
    <3>2. InAll(u) = InAll(t) \cup {s[i]}
      BY <3>1, <2>3, <2>7, MoreHas
    <3> QED  BY <3>2 DEF InAll
  <2>10. {s[m] : m \in 1 .. i} = {s[m] : m \in 1 .. i - 1} \cup {s[i]}
    <3>1. 1 .. i = (1 .. i - 1) \cup {i}
      BY DEF n
    <3> QED  BY <3>1
  <2>11. SameItems(z, x)
    BY <2>2, <2>6 DEF SameItems
  <2> HIDE DEF u
  <2>12. Chain(z, u) /\ {u[m] : m \in 1 .. i} = {s[m] : m \in 1 .. i}
    BY <2>1, <2>6, <2>8, <2>9, <2>10 DEF u
  <2>13. Rising(z, u)
    BY <2>6 DEF u
  <2> QED  BY <2>8, <2>11, <2>12, <2>13 DEF SomeOf, z
<1>7. SomeOf(c[n], x, s, n)
  <2> DEFINE T == {i \in 0 .. n : SomeOf(c[i], x, s, i)}
  <2>1. 0 \in T
    BY <1>1, <1>5
  <2>2. ASSUME NEW i \in 1 .. n, i - 1 \in T PROVE i \in T
    BY <2>2, <1>1, <1>6
  <2> HIDE DEF T
  <2>3. \A i \in 0 .. n : i \in T
    BY <2>1, <2>2, <1>1, UpTo
  <2>4. n \in 0 .. n
    BY <1>1
  <2> QED  BY <2>3, <2>4 DEF T
<1>8. PICK t : Chain(c[n], t) /\ Len(t) = n /\ {t[k] : k \in 1 .. n} = {s[k] : k \in 1 .. n}
                 /\ Rising(c[n], t)
  BY <1>7 DEF SomeOf
<1>9. IsList(c[n], t) /\ SameItems(c[n], x)
  BY <1>7, <1>8 DEF SomeOf, SameItems, IsList
<1>10. CASE x.size < 2
  <2>1. Rising(x, s) /\ SameItems(x, x)
    BY <1>1, <1>10 DEF Rising, SameItems
  <2> QED  BY <2>1, <1>2, <1>10
<1>11. CASE ~(x.size < 2)
  BY <1>2, <1>8, <1>9, <1>11
<1> QED  BY <1>10, <1>11

LEMMA ClearedIs ==
  ASSUME Null \notin Ids, NEW x, NEW s, IsList(x, s)
  PROVE  \E t : IsList(LI!Cleared(x), t) /\ Len(t) = 0
<1> DEFINE E == DOMAIN x.elem
           n == LI!Cardinality(LI!Elements(x))
           next(y) == IF y.first = Null THEN y ELSE LI!Erased(y, y.first)
           c == CHOOSE c : c = [i \in 0 .. n |-> IF i = 0 THEN x ELSE next(c[i - 1])]
<1>1. n = Len(s) /\ n \in Nat
  <2>1. Cardinality(DOMAIN x.elem) = Len(s)
    BY BothWays
  <2>2. Len(s) \in Nat
    BY DEF IsList, Chain
  <2> QED  BY <2>1, <2>2, CountsElements DEF LI!Elements
<1>2. LI!Cleared(x) = c[n]
  BY DEF LI!Cleared, Null
<1> HIDE DEF n
<1>3. c = [i \in 0 .. n |-> IF i = 0 THEN x ELSE next(c[i - 1])]
  <2> DEFINE T == {k \in 0 .. n : \E f : f = [i \in 0 .. k |-> IF i = 0 THEN x ELSE next(f[i - 1])]}
  <2> HIDE DEF next
  <2>1. 0 \in T
    <3> DEFINE f == [i \in 0 .. 0 |-> x]
    <3>1. f = [i \in 0 .. 0 |-> IF i = 0 THEN x ELSE next(f[i - 1])]
      OBVIOUS
    <3> HIDE DEF f
    <3> QED  BY <3>1, <1>1
  <2>2. ASSUME NEW k \in 1 .. n, k - 1 \in T PROVE k \in T
    <3>1. PICK f : f = [i \in 0 .. k - 1 |-> IF i = 0 THEN x ELSE next(f[i - 1])]
      BY <2>2
    <3> DEFINE h == [i \in 0 .. k |-> IF i = k THEN next(f[k - 1]) ELSE f[i]]
    <3>2. \A i \in 0 .. k : h[i] = IF i = 0 THEN x ELSE next(h[i - 1])
      <4> TAKE i \in 0 .. k
      <4>1. CASE i = k
        <5>1. i # 0 /\ k - 1 \in 0 .. k /\ k - 1 # k /\ h[k - 1] = f[k - 1] /\ h[i] = next(f[k - 1])
          BY <4>1
        <5> HIDE DEF h
        <5> QED  BY <5>1, <4>1
      <4>2. CASE i # k
        <5>1. i \in 0 .. k - 1 /\ h[i] = f[i] /\ (i # 0 => i - 1 \in 0 .. k /\ i - 1 # k /\ h[i - 1] = f[i - 1])
          BY <4>2
        <5> HIDE DEF h
        <5> QED  BY <5>1, <3>1
      <4> QED  BY <4>1, <4>2
    <3>3. h = [i \in 0 .. k |-> IF i = 0 THEN x ELSE next(h[i - 1])]
      <4>1. h = [i \in 0 .. k |-> h[i]]
        OBVIOUS
      <4> HIDE DEF h
      <4> QED  BY <3>2, <4>1
    <3> HIDE DEF h
    <3>4. k \in 0 .. n
      BY <1>1
    <3> QED  BY <3>3, <3>4
  <2> HIDE DEF T
  <2>3. \A i \in 0 .. n : i \in T
    BY <2>1, <2>2, <1>1, UpTo
  <2>4. n \in 0 .. n
    BY <1>1
  <2> QED  BY <2>3, <2>4 DEF T
<1> HIDE DEF c
<1>4. c[0] = x /\ \A i \in 1 .. n : c[i] = next(c[i - 1])
  <2> HIDE DEF next
  <2>1. 0 \in 0 .. n
    BY <1>1
  <2>2. \A i \in 1 .. n : i \in 0 .. n /\ i # 0
    BY <1>1
  <2> QED  BY <2>1, <2>2, <1>3
<1> DEFINE T == {i \in 0 .. n : \E t : IsList(c[i], t) /\ Len(t) = n - i}
<1>5. 0 \in T
  BY <1>1, <1>4
<1>6. ASSUME NEW i \in 1 .. n, i - 1 \in T PROVE i \in T
  <2> DEFINE y == c[i - 1]
  <2>1. PICK t : IsList(y, t) /\ Len(t) = n - (i - 1)
    BY <1>6
  <2> HIDE DEF y
  <2>2. 1 \in 1 .. Len(t) /\ t \in Seq(Ids) /\ y.first = t[1] /\ t[1] # Null
    <3>1. y.first = At(t, 1) /\ t \in Seq(Ids)
      BY <2>1 DEF IsList, Chain
    <3>2. 1 \in 1 .. Len(t)
      BY <2>1, <1>1
    <3> QED  BY <3>1, <3>2 DEF At
  <2>3. c[i] = LI!Erased(y, t[1])
    BY <2>2, <1>4 DEF y
  <2>4. IsList(c[i], Less(t, 1))
    BY <2>1, <2>2, <2>3, ErasedIs
  <2>5. Len(Less(t, 1)) = n - i
    <3>1. Len(Less(t, 1)) = Len(t) - 1
      BY <2>2, LessIs
    <3> QED  BY <3>1, <2>1, <1>1
  <2>6. i \in 0 .. n
    BY <1>1
  <2> QED  BY <2>4, <2>5, <2>6
<1> HIDE DEF T
<1>7. \A i \in 0 .. n : i \in T
  BY <1>1, <1>5, <1>6, UpTo
<1>8. n \in 0 .. n /\ n - n = 0
  BY <1>1
<1> QED  BY <1>2, <1>7, <1>8 DEF T

\* A new element is put at the end.
LEMMA PushedIs ==
  ASSUME Null \notin Ids, NEW x, NEW s, IsList(x, s), NEW e \in Ids \ DOMAIN x.elem, NEW v \in Values
  PROVE  IsList(LI!Pushed(x, e, v), More(s, Len(s) + 1, e)) /\ OneMore(LI!Pushed(x, e, v), x, e, v)
<1>1. s \in Seq(Ids) /\ Len(s) \in Nat /\ x.last = At(s, Len(s))
  BY DEF IsList, Chain
<1>2. Len(s) + 1 \in 1 .. Len(s) + 1 /\ (Len(s) + 1) - 1 = Len(s) /\ At(s, Len(s) + 1) = Null
  BY <1>1 DEF At
<1> DEFINE y == LI!Between(LI!Made(x, e, v), At(s, (Len(s) + 1) - 1), e, At(s, Len(s) + 1))
<1>3. IsList(y, More(s, Len(s) + 1, e)) /\ OneMore(y, x, e, v)
  BY <1>2, InsertedIs
<1>4. y = LI!Between(LI!Made(x, e, v), x.last, e, Null)
  BY <1>1, <1>2
<1> HIDE DEF y
<1> QED  BY <1>3, <1>4 DEF LI!Pushed, Null

LEMMA PushedAllIs ==
  ASSUME Null \notin Ids, NEW x, NEW r, IsList(x, r), Len(r) = 0,
         NEW s \in Seq(Ids), \A i, j \in 1 .. Len(s) : s[i] = s[j] => i = j,
         NEW other \in Seq(Values), Len(other) = Len(s)
  PROVE  \E t : IsList(LI!PushedAll(x, s, other), t)
<1> DEFINE n == Len(s)
           next(y, i) == LI!Pushed(y, s[i], other[i])
           c == CHOOSE c : c = [i \in 0 .. n |-> IF i = 0 THEN x ELSE next(c[i - 1], i)]
<1>1. n \in Nat
  OBVIOUS
<1>2. LI!PushedAll(x, s, other) = c[n]
  BY DEF LI!PushedAll
<1>3. c = [i \in 0 .. n |-> IF i = 0 THEN x ELSE next(c[i - 1], i)]
  <2> DEFINE T == {k \in 0 .. n : \E f : f = [i \in 0 .. k |-> IF i = 0 THEN x ELSE next(f[i - 1], i)]}
  <2> HIDE DEF next, n
  <2>1. 0 \in T
    <3> DEFINE f == [i \in 0 .. 0 |-> x]
    <3>1. f = [i \in 0 .. 0 |-> IF i = 0 THEN x ELSE next(f[i - 1], i)]
      OBVIOUS
    <3> HIDE DEF f
    <3> QED  BY <3>1, <1>1
  <2>2. ASSUME NEW k \in 1 .. n, k - 1 \in T PROVE k \in T
    <3>1. PICK f : f = [i \in 0 .. k - 1 |-> IF i = 0 THEN x ELSE next(f[i - 1], i)]
      BY <2>2
    <3> DEFINE h == [i \in 0 .. k |-> IF i = k THEN next(f[k - 1], k) ELSE f[i]]
    <3>2. \A i \in 0 .. k : h[i] = IF i = 0 THEN x ELSE next(h[i - 1], i)
      <4> TAKE i \in 0 .. k
      <4>1. CASE i = k
        <5>1. i # 0 /\ k - 1 \in 0 .. k /\ k - 1 # k /\ h[k - 1] = f[k - 1] /\ h[i] = next(f[k - 1], k)
          BY <4>1
        <5> HIDE DEF h
        <5> QED  BY <5>1, <4>1
      <4>2. CASE i # k
        <5>1. i \in 0 .. k - 1 /\ h[i] = f[i] /\ (i # 0 => i - 1 \in 0 .. k /\ i - 1 # k /\ h[i - 1] = f[i - 1])
          BY <4>2
        <5> HIDE DEF h
        <5> QED  BY <5>1, <3>1
      <4> QED  BY <4>1, <4>2
    <3>3. h = [i \in 0 .. k |-> IF i = 0 THEN x ELSE next(h[i - 1], i)]
      <4>1. h = [i \in 0 .. k |-> h[i]]
        OBVIOUS
      <4> HIDE DEF h
      <4> QED  BY <3>2, <4>1
    <3> HIDE DEF h
    <3>4. k \in 0 .. n
      BY <1>1
    <3> QED  BY <3>3, <3>4
  <2> HIDE DEF T
  <2>3. \A i \in 0 .. n : i \in T
    BY <2>1, <2>2, <1>1, UpTo
  <2>4. n \in 0 .. n
    BY <1>1
  <2> QED  BY <2>3, <2>4 DEF T
<1> HIDE DEF c
<1>4. c[0] = x /\ \A i \in 1 .. n : c[i] = next(c[i - 1], i)
  <2> HIDE DEF next
  <2>1. 0 \in 0 .. n
    BY <1>1
  <2>2. \A i \in 1 .. n : i \in 0 .. n /\ i # 0
    BY <1>1
  <2> QED  BY <2>1, <2>2, <1>3
<1> DEFINE T == {i \in 0 .. n : \E t : IsList(c[i], t) /\ InAll(t) \subseteq {s[k] : k \in 1 .. i}}
<1>5. 0 \in T
  <2>1. InAll(r) = {}
    BY DEF InAll
  <2> QED  BY <2>1, <1>1, <1>4
<1>6. ASSUME NEW i \in 1 .. n, i - 1 \in T PROVE i \in T
  <2> DEFINE y == c[i - 1]
             e == s[i]
             v == other[i]
  <2>1. PICK t : IsList(y, t) /\ InAll(t) \subseteq {s[k] : k \in 1 .. i - 1}
    BY <1>6
  <2>2. e \in Ids /\ v \in Values /\ t \in Seq(Ids) /\ DOMAIN y.elem = InAll(t)
    BY <2>1 DEF IsList, Chain, InAll
  <2>3. e \notin DOMAIN y.elem
    <3>1. SUFFICES ASSUME e \in DOMAIN y.elem PROVE FALSE
      OBVIOUS
    <3>2. PICK k \in 1 .. i - 1 : s[i] = s[k]
      BY <3>1, <2>1, <2>2
    <3>3. k \in 1 .. n /\ k # i /\ i \in 1 .. n
      BY <1>1
    <3> QED  BY <3>2, <3>3
  <2>4. c[i] = LI!Pushed(y, e, v)
    BY <1>4
  <2> HIDE DEF y, e, v
  <2> DEFINE u == More(t, Len(t) + 1, e)
  <2>5. IsList(c[i], u)
    BY <2>1, <2>2, <2>3, <2>4, PushedIs
  <2>6. InAll(u) = InAll(t) \cup {e}
    <3>1. Len(t) + 1 \in 1 .. Len(t) + 1
      BY <2>2
    <3> QED  BY <3>1, <2>2, MoreHas
  <2> HIDE DEF u
  <2>7. InAll(u) \subseteq {s[k] : k \in 1 .. i}
    <3>1. (1 .. i - 1) \cup {i} \subseteq 1 .. i
      BY <1>1
    <3> QED  BY <3>1, <2>1, <2>6 DEF e
  <2>8. i \in 0 .. n
    BY <1>1
  <2> QED  BY <2>5, <2>7, <2>8
<1> HIDE DEF T
<1>7. \A i \in 0 .. n : i \in T
  BY <1>1, <1>5, <1>6, UpTo
<1>8. n \in 0 .. n
  BY <1>1
<1> QED  BY <1>2, <1>7, <1>8 DEF T

LEMMA PushedFrontIs ==
  ASSUME Null \notin Ids, NEW x, NEW s, IsList(x, s), NEW e \in Ids \ DOMAIN x.elem, NEW v \in Values
  PROVE  IsList(LI!PushedFront(x, e, v), More(s, 1, e)) /\ OneMore(LI!PushedFront(x, e, v), x, e, v)
<1>1. s \in Seq(Ids) /\ Len(s) \in Nat /\ x.first = At(s, 1)
  BY DEF IsList, Chain
<1>2. 1 \in 1 .. Len(s) + 1 /\ 1 - 1 = 0 /\ At(s, 0) = Null
  BY <1>1 DEF At
<1> DEFINE y == LI!Between(LI!Made(x, e, v), At(s, 1 - 1), e, At(s, 1))
<1>3. IsList(y, More(s, 1, e)) /\ OneMore(y, x, e, v)
  BY <1>2, InsertedIs
<1>4. y = LI!PushedFront(x, e, v)
  BY <1>1, <1>2 DEF LI!PushedFront, Null
<1> HIDE DEF y
<1> QED  BY <1>3, <1>4

LEMMA InsertedAfterIs ==
  ASSUME Null \notin Ids, NEW x, NEW s, IsList(x, s), NEW i \in 1 .. Len(s),
         NEW e \in Ids \ DOMAIN x.elem, NEW v \in Values
  PROVE  IsList(LI!InsertedAfter(x, s[i], e, v), More(s, i + 1, e)) /\ OneMore(LI!InsertedAfter(x, s[i], e, v), x, e, v)
<1>1. s \in Seq(Ids) /\ Len(s) \in Nat /\ x.elem[s[i]].next = At(s, i + 1)
  BY DEF IsList, Chain
<1>2. i + 1 \in 1 .. Len(s) + 1 /\ At(s, (i + 1) - 1) = s[i]
  BY <1>1 DEF At
<1> DEFINE y == LI!Between(LI!Made(x, e, v), At(s, (i + 1) - 1), e, At(s, i + 1))
<1>3. IsList(y, More(s, i + 1, e)) /\ OneMore(y, x, e, v)
  BY <1>2, InsertedIs
<1>4. y = LI!InsertedAfter(x, s[i], e, v)
  BY <1>1, <1>2 DEF LI!InsertedAfter, Null
<1> HIDE DEF y
<1> QED  BY <1>3, <1>4

LEMMA InsertedBeforeIs ==
  ASSUME Null \notin Ids, NEW x, NEW s, IsList(x, s), NEW i \in 1 .. Len(s),
         NEW e \in Ids \ DOMAIN x.elem, NEW v \in Values
  PROVE  IsList(LI!InsertedBefore(x, s[i], e, v), More(s, i, e)) /\ OneMore(LI!InsertedBefore(x, s[i], e, v), x, e, v)
<1>1. s \in Seq(Ids) /\ Len(s) \in Nat /\ x.elem[s[i]].prev = At(s, i - 1)
  BY DEF IsList, Chain
<1>2. i \in 1 .. Len(s) + 1 /\ At(s, i) = s[i]
  BY <1>1 DEF At
<1> DEFINE y == LI!Between(LI!Made(x, e, v), At(s, i - 1), e, At(s, i))
<1>3. IsList(y, More(s, i, e)) /\ OneMore(y, x, e, v)
  BY <1>2, InsertedIs
<1>4. y = LI!InsertedBefore(x, s[i], e, v)
  BY <1>1, <1>2 DEF LI!InsertedBefore, Null
<1> HIDE DEF y
<1> QED  BY <1>3, <1>4

LEMMA LastMovedIs ==
  ASSUME NEW s \in Seq(Ids), NEW i \in 1 .. Len(s)
  PROVE  /\ i = Len(s) => More(Less(s, i), Len(s), s[i]) = s
         /\ i = 1 => More(Less(s, i), 1, s[i]) = s
<1> DEFINE t == Less(s, i)
<1>1. /\ t \in Seq(Ids) /\ Len(t) = Len(s) - 1 /\ Len(s) \in Nat /\ s[i] \in Ids
      /\ \A k \in 1 .. Len(s) - 1 : t[k] = IF k < i THEN s[k] ELSE s[k + 1]
  BY LessIs
<1> HIDE DEF t
<1>2. ASSUME NEW k \in 1 .. Len(s), k = i, k \in {1, Len(s)}
      PROVE  More(t, k, s[i]) = s
  <2> DEFINE u == More(t, k, s[i])
  <2>1. k \in 1 .. Len(t) + 1 /\ k = i
    BY <1>1, <1>2
  <2> HIDE DEF u
  <2>2. /\ u \in Seq(Ids) /\ Len(u) = Len(t) + 1
        /\ \A m \in 1 .. Len(t) + 1 : u[m] = IF m < k THEN t[m] ELSE IF m = k THEN s[i] ELSE t[m - 1]
    <3>1. t \in Seq(Ids) /\ s[i] \in Ids
      BY <1>1
    <3> DEFINE e == s[i]
    <3>2. e \in Ids
      BY <3>1
    <3> HIDE DEF e
    <3>3. /\ More(t, k, e) \in Seq(Ids) /\ Len(More(t, k, e)) = Len(t) + 1
          /\ \A m \in 1 .. Len(t) + 1 : More(t, k, e)[m] = IF m < k THEN t[m] ELSE IF m = k THEN e ELSE t[m - 1]
      <4>1. k \in 1 .. Len(t) + 1
        BY <2>1
      <4> QED  BY <3>1, <3>2, <4>1, MoreIs
    <3> QED  BY <3>3 DEF e, u
  <2>3. ASSUME NEW m \in 1 .. Len(s) PROVE u[m] = s[m]
    <3>1. CASE m < k
      BY <3>1, <2>1, <2>2, <1>1
    <3>2. CASE m = k
      BY <3>2, <2>1, <2>2, <1>1
    <3>3. CASE m > k
      <4>1. t[m - 1] = s[m]
        BY <3>3, <2>1, <1>1
      <4> QED  BY <4>1, <3>3, <2>2, <1>1
    <3> QED  BY <3>1, <3>2, <3>3, <1>1
  <2>4. Len(u) = Len(s)
    BY <2>2, <1>1
  <2>5. u = s
    BY <2>2, <2>3, <2>4
  <2> QED  BY <2>5 DEF u
<1>3. Len(s) \in 1 .. Len(s) /\ 1 \in 1 .. Len(s)
  BY <1>1
<1>4. i = Len(s) => More(t, Len(s), s[i]) = s
  BY <1>2, <1>3
<1>5. i = 1 => More(t, 1, s[i]) = s
  BY <1>2, <1>3
<1> QED  BY <1>4, <1>5 DEF t

LEMMA MovedToBackIs ==
  ASSUME Null \notin Ids, NEW x, NEW s, IsList(x, s), NEW i \in 1 .. Len(s)
  PROVE  /\ IsList(LI!MovedToBack(x, s[i]), More(Less(s, i), Len(s), s[i]))
         /\ SameItems(LI!MovedToBack(x, s[i]), x)
<1> DEFINE e == s[i]
           y == LI!Detached(x, e)
           t == Less(s, i)
<1>1. s \in Seq(Ids) /\ Len(s) \in Nat /\ Chain(x, s) /\ x.elem[e].next = At(s, i + 1)
  <2>1. Chain(x, s)
    BY DEF IsList
  <2> QED  BY <2>1 DEF Chain
<1>2. x.elem[e].next = Null <=> i = Len(s)
  BY <1>1 DEF At
<1>3. Chain(y, t) /\ Len(t) = Len(s) - 1
  BY <1>1, DetachedIs, LessIs
<1>4. y.last = At(t, Len(s) - 1) /\ At(t, Len(s)) = Null
  <2> HIDE DEF t, y
  <2> QED  BY <1>1, <1>3 DEF Chain, At
<1>5. Len(s) \in 1 .. Len(s)
  BY <1>1
<1> DEFINE z == LI!Between(y, At(t, Len(s) - 1), e, At(t, Len(s)))
<1>6. IsList(z, More(t, Len(s), e)) /\ SameItems(z, x)
  BY <1>5, MovedIs
<1>7. LI!MovedToBack(x, e) = IF i = Len(s) THEN x ELSE z
  BY <1>2, <1>4 DEF LI!MovedToBack, Null
<1>8. SameItems(x, x)
  BY DEF SameItems
<1> HIDE DEF t, y, z
<1> QED  BY <1>1, <1>6, <1>7, <1>8, LastMovedIs DEF t

LEMMA MovedToFrontIs ==
  ASSUME Null \notin Ids, NEW x, NEW s, IsList(x, s), NEW i \in 1 .. Len(s)
  PROVE  /\ IsList(LI!MovedToFront(x, s[i]), More(Less(s, i), 1, s[i]))
         /\ SameItems(LI!MovedToFront(x, s[i]), x)
<1> DEFINE e == s[i]
           y == LI!Detached(x, e)
           t == Less(s, i)
<1>1. s \in Seq(Ids) /\ Len(s) \in Nat /\ Chain(x, s) /\ x.elem[e].prev = At(s, i - 1)
  <2>1. Chain(x, s)
    BY DEF IsList
  <2> QED  BY <2>1 DEF Chain
<1>2. x.elem[e].prev = Null <=> i = 1
  BY <1>1 DEF At
<1>3. Chain(y, t)
  BY <1>1, DetachedIs
<1>4. y.first = At(t, 1) /\ At(t, 1 - 1) = Null
  <2> HIDE DEF t, y
  <2> QED  BY <1>3 DEF Chain, At
<1>5. 1 \in 1 .. Len(s)
  BY <1>1
<1> DEFINE z == LI!Between(y, At(t, 1 - 1), e, At(t, 1))
<1>6. IsList(z, More(t, 1, e)) /\ SameItems(z, x)
  BY <1>5, MovedIs
<1>7. LI!MovedToFront(x, e) = IF i = 1 THEN x ELSE z
  BY <1>2, <1>4 DEF LI!MovedToFront, Null
<1>8. SameItems(x, x)
  BY DEF SameItems
<1> HIDE DEF t, y, z
<1> QED  BY <1>1, <1>6, <1>7, <1>8, LastMovedIs DEF t

LEMMA MovedBeforeIs ==
  ASSUME Null \notin Ids, NEW x, NEW s, IsList(x, s), NEW i \in 1 .. Len(s), NEW j \in 1 .. Len(s), i # j
  PROVE  /\ IsList(LI!MovedBefore(x, s[i], s[j]), More(Less(s, i), IF i < j THEN j - 1 ELSE j, s[i]))
         /\ SameItems(LI!MovedBefore(x, s[i], s[j]), x)
<1> DEFINE e == s[i]
           y == LI!Detached(x, e)
           t == Less(s, i)
           k == IF i < j THEN j - 1 ELSE j
<1>1. s \in Seq(Ids) /\ Len(s) \in Nat /\ Chain(x, s)
  <2>1. Chain(x, s)
    BY DEF IsList
  <2> QED  BY <2>1 DEF Chain
<1>2. /\ Chain(y, t) /\ Len(t) = Len(s) - 1
      /\ \A m \in 1 .. Len(s) - 1 : t[m] = IF m < i THEN s[m] ELSE s[m + 1]
  BY <1>1, DetachedIs, LessIs
<1>3. k \in 1 .. Len(t) /\ k \in 1 .. Len(s)
  BY <1>1, <1>2
<1>4. t[k] = s[j]
  BY <1>1, <1>2, <1>3
<1> HIDE DEF t, y, k
<1>5. y.elem[s[j]].prev = At(t, k - 1) /\ s[j] = At(t, k)
  BY <1>2, <1>3, <1>4 DEF Chain, At
<1> DEFINE z == LI!Between(y, At(t, k - 1), e, At(t, k))
<1>6. IsList(z, More(t, k, e)) /\ SameItems(z, x)
  BY <1>3, MovedIs DEF y, t
<1>7. LI!MovedBefore(x, e, s[j]) = z
  BY <1>5 DEF LI!MovedBefore, y
<1> HIDE DEF z
<1> QED  BY <1>6, <1>7 DEF k, t

ListInv == \E s : IsList(l, s)

LEMMA ListInit == LI!Init => ListInv
<1> SUFFICES ASSUME LI!Init PROVE ListInv
  OBVIOUS
<1> DEFINE g == [e \in {} |-> Null]
<1>1. l = [data |-> FALSE, first |-> Null, last |-> Null, size |-> 0, elem |-> g]
  BY DEF LI!Init, LI!NoData, Null
<1>2. g \in [{} -> Item] /\ {} \in SUBSET Ids
  OBVIOUS
<1>3. l \in Lists
  <2> HIDE DEF g
  <2>1. g \in UNION {[E -> Item] : E \in SUBSET Ids}
    BY <1>2
  <2> QED  BY <1>1, <2>1 DEF Lists
<1>4. <<>> \in Seq(Ids) /\ Len(<<>>) = 0 /\ 1 .. 0 = {}
  OBVIOUS
<1>5. Chain(l, <<>>)
  BY <1>1, <1>3, <1>4 DEF Chain, At
<1>6. DOMAIN l.elem = {<<>>[i] : i \in 1 .. Len(<<>>)} /\ l.size = 0 /\ l.data = FALSE
  BY <1>1, <1>4
<1>7. IsList(l, <<>>)
  BY <1>4, <1>5, <1>6 DEF IsList
<1> QED  BY <1>7 DEF ListInv

LEMMA ListStep ==
  ASSUME Null \notin Ids, Values \subseteq Int, Others \subseteq Seq(Values), ListInv, [LI!Next]_l
  PROVE  ListInv'
<1>1. PICK s : IsList(l, s)
  BY DEF ListInv
<1>2. s \in Seq(Ids) /\ Len(s) \in Nat /\ LI!Elements(l) = {s[i] : i \in 1 .. Len(s)}
      /\ l.first = At(s, 1) /\ l.last = At(s, Len(s)) /\ l.size = Len(s)
      /\ LI!Elements(l) = DOMAIN l.elem
  BY <1>1 DEF IsList, Chain, LI!Elements
<1>3. LI!Forward(l) = s
  BY <1>1, BothWays
<1>4. SUFFICES \E t : IsList(l', t)
  BY DEF ListInv
<1>5. CASE UNCHANGED l
  BY <1>1, <1>5
<1>6. ASSUME NEW v \in Values, NEW e \in LI!Free, l' = LI!Pushed(l, e, v) \/ l' = LI!PushedFront(l, e, v)
      PROVE  \E t : IsList(l', t)
  <2>1. e \in Ids \ DOMAIN l.elem
    BY <1>2 DEF LI!Free
  <2>2. IsList(LI!Pushed(l, e, v), More(s, Len(s) + 1, e)) /\ IsList(LI!PushedFront(l, e, v), More(s, 1, e))
    BY <1>1, <2>1, PushedIs, PushedFrontIs
  <2> QED  BY <1>6, <2>2
<1>7. ASSUME NEW i \in DOMAIN s, l' = LI!Erased(l, s[i])
      PROVE  \E t : IsList(l', t)
  BY <1>1, <1>2, <1>7, ErasedIs
<1>8. ASSUME NEW v \in Values, LI!push_back(v) \/ LI!push_front(v) \/ LI!eraseValue(v)
      PROVE  \E t : IsList(l', t)
  BY <1>3, <1>6, <1>7, <1>8 DEF LI!push_back, LI!push_front, LI!eraseValue
<1>9. ASSUME NEW p \in LI!Elements(l), NEW v \in Values, LI!insert_after(p, v) \/ LI!insert_before(p, v)
      PROVE  \E t : IsList(l', t)
  <2>1. PICK i \in 1 .. Len(s) : p = s[i]
    BY <1>2
  <2>2. PICK e \in Ids \ DOMAIN l.elem : l' = LI!InsertedAfter(l, s[i], e, v) \/ l' = LI!InsertedBefore(l, s[i], e, v)
    BY <1>2, <1>9, <2>1 DEF LI!insert_after, LI!insert_before, LI!Free
  <2> QED  BY <1>1, <2>2, InsertedAfterIs, InsertedBeforeIs
<1>10. ASSUME NEW e \in LI!Elements(l), LI!erase(e) \/ LI!move_to_back(e) \/ LI!move_to_front(e)
       PROVE  \E t : IsList(l', t)
  <2>1. PICK i \in 1 .. Len(s) : e = s[i]
    BY <1>2
  <2> QED  BY <1>1, <1>10, <2>1, ErasedIs, MovedToBackIs, MovedToFrontIs
           DEF LI!erase, LI!move_to_back, LI!move_to_front
<1>11. ASSUME NEW a \in LI!Elements(l), NEW b \in LI!Elements(l), LI!swap(a, b)
       PROVE  \E t : IsList(l', t)
  <2>1. PICK i \in 1 .. Len(s), j \in 1 .. Len(s) : a = s[i] /\ b = s[j]
    BY <1>2
  <2>2. l' = LI!Swapped(l, s[i], s[j])
    BY <1>11, <2>1 DEF LI!swap
  <2>3. CASE i = j
    BY <1>1, <2>2, <2>3 DEF LI!Swapped
  <2>4. CASE i # j
    BY <1>1, <2>2, <2>4, SwappedIs
  <2> QED  BY <2>3, <2>4
<1>12. ASSUME NEW e \in LI!Elements(l), NEW w \in LI!Elements(l), LI!move_before(e, w)
       PROVE  \E t : IsList(l', t)
  <2>1. PICK i \in 1 .. Len(s), j \in 1 .. Len(s) : e = s[i] /\ w = s[j]
    BY <1>2
  <2>2. i # j /\ l' = LI!MovedBefore(l, s[i], s[j])
    BY <1>12, <2>1 DEF LI!move_before
  <2> QED  BY <1>1, <2>2, MovedBeforeIs
<1>13. CASE LI!pop_back \/ LI!pop_front
  <2>1. 1 \in DOMAIN s /\ Len(s) \in DOMAIN s
    BY <1>2, <1>13 DEF LI!pop_back, LI!pop_front, At, Null
  <2>2. l.first = s[1] /\ l.last = s[Len(s)]
    BY <1>2, <2>1 DEF At
  <2> QED  BY <1>7, <1>13, <2>1, <2>2 DEF LI!pop_back, LI!pop_front
<1>14. CASE LI!clear
  BY <1>1, <1>14, ClearedIs DEF LI!clear
<1>15. CASE LI!reverse
  BY <1>1, <1>15, ReversedIs DEF LI!reverse
<1>16. CASE LI!sort_custom_inplace
  BY <1>1, <1>16, SortedInPlaceIs DEF LI!sort_custom_inplace
<1>17. CASE LI!sort_custom
  <2>1. PICK t \in [1 .. Len(s) -> DOMAIN l.elem] : LI!IsInjective(t) /\ l' = LI!Ordered(l, t)
    BY <1>2, <1>17 DEF LI!sort_custom
  <2>2. \A i, j \in 1 .. Len(s) : t[i] = t[j] => i = j
    BY <2>1 DEF LI!IsInjective
  <2>3. Len(s) >= 2
    BY <1>2, <1>17 DEF LI!sort_custom
  <2> QED  BY <1>1, <2>1, <2>2, <2>3, OrderedIs
<1>18. ASSUME NEW other \in Others, LI!assign(other)
       PROVE  \E t : IsList(l', t)
  <2>1. PICK z \in [DOMAIN other -> Ids] : LI!IsInjective(z) /\ l' = LI!PushedAll(LI!Cleared(l), z, other)
    BY <1>18 DEF LI!assign
  <2>2. other \in Seq(Values) /\ Len(other) \in Nat /\ DOMAIN other = 1 .. Len(other)
    OBVIOUS
  <2>3. z \in Seq(Ids) /\ Len(z) = Len(other)
    BY <2>1, <2>2, IsSequence
  <2>4. \A i, j \in 1 .. Len(z) : z[i] = z[j] => i = j
    BY <2>1, <2>2, <2>3 DEF LI!IsInjective
  <2>5. PICK r : IsList(LI!Cleared(l), r) /\ Len(r) = 0
    BY <1>1, ClearedIs
  <2> QED  BY <2>1, <2>2, <2>3, <2>4, <2>5, PushedAllIs
<1> QED  BY <1>5, <1>8, <1>9, <1>10, <1>11, <1>12, <1>13, <1>14, <1>15, <1>16, <1>17, <1>18 DEF LI!Next

\* The elements of s with their values.
Pairs(x, s) == [i \in 1 .. Len(s) |-> <<s[i], x.elem[s[i]].value>>]

LEMMA ItemsIs ==
  ASSUME Null \notin Ids, NEW x, NEW s, IsList(x, s)
  PROVE  /\ LI!Items(x) = Pairs(x, s)
         /\ Len(Pairs(x, s)) = Len(s) /\ Pairs(x, s) \in Seq(Ids \X Values) /\ s \in Seq(Ids)
         /\ \A i \in 1 .. Len(s) : s[i] \in DOMAIN x.elem /\ Pairs(x, s)[i] = <<s[i], x.elem[s[i]].value>>
<1>1. LI!Forward(x) = s
  BY BothWays
<1>2. /\ s \in Seq(Ids) /\ Len(s) \in Nat /\ DOMAIN s = 1 .. Len(s) /\ x \in Lists
      /\ \A i \in 1 .. Len(s) : s[i] \in DOMAIN x.elem
  BY DEF IsList, Chain
<1>3. LI!Items(x) = Pairs(x, s)
  BY <1>1, <1>2 DEF LI!Items, Pairs
<1>4. \A i \in 1 .. Len(s) : <<s[i], x.elem[s[i]].value>> \in Ids \X Values
  <2>1. x.elem \in [DOMAIN x.elem -> Item]
    BY <1>2, ListIs
  <2>2. ASSUME NEW i \in 1 .. Len(s) PROVE s[i] \in Ids /\ x.elem[s[i]].value \in Values
    BY <2>1, <1>2 DEF Item
  <2> QED  BY <2>2
<1>5. Pairs(x, s) \in [1 .. Len(s) -> Ids \X Values]
  BY <1>4 DEF Pairs
<1>6. Pairs(x, s) \in Seq(Ids \X Values) /\ Len(Pairs(x, s)) = Len(s)
  BY <1>2, <1>5, IsSequence
<1>7. \A i \in 1 .. Len(s) : Pairs(x, s)[i] = <<s[i], x.elem[s[i]].value>>
  BY DEF Pairs
<1> QED  BY <1>2, <1>3, <1>6, <1>7

\* Two sequences of the same length and with the same elements are the same.
LEMMA SameSequence ==
  ASSUME NEW S, NEW n \in Nat, NEW f \in Seq(S), NEW g \in Seq(S), Len(f) = n, Len(g) = n,
         \A i \in 1 .. n : f[i] = g[i]
  PROVE  f = g
OBVIOUS

LEMMA MoreIsInsertAt ==
  ASSUME NEW S, NEW s \in Seq(S), NEW e \in S
  PROVE  /\ \A k \in 1 .. Len(s) + 1 : More(s, k, e) = LI!InsertAt(s, k, e)
         /\ More(s, Len(s) + 1, e) = Append(s, e)
         /\ More(s, 1, e) = <<e>> \o s
<1>1. ASSUME NEW k \in 1 .. Len(s) + 1 PROVE More(s, k, e) = LI!InsertAt(s, k, e)
  <2> DEFINE u == More(s, k, e)
             a == SubSeq(s, 1, k - 1)
             b == SubSeq(s, k, Len(s))
             w == a \o <<e>> \o b
  <2>1. /\ u \in Seq(S) /\ Len(u) = Len(s) + 1
        /\ \A i \in 1 .. Len(s) + 1 : u[i] = IF i < k THEN s[i] ELSE IF i = k THEN e ELSE s[i - 1]
    <3>1. k \in 1 .. Len(s) + 1 /\ e \in S /\ s \in Seq(S)
      OBVIOUS
    <3> HIDE DEF a, b
    <3>2. IsMore(u, S, s, k, e)
      BY <3>1, MoreInAWord
    <3> HIDE DEF u
    <3> QED  BY <3>2 DEF IsMore
  <2>2. /\ a \in Seq(S) /\ Len(a) = k - 1 /\ \A i \in 1 .. k - 1 : a[i] = s[i]
    OBVIOUS
  <2>3. /\ b \in Seq(S) /\ Len(b) = Len(s) + 1 - k /\ \A i \in 1 .. Len(s) + 1 - k : b[i] = s[k + i - 1]
    OBVIOUS
  <2> HIDE DEF u, a, b
  <2>4. w \in Seq(S) /\ Len(w) = Len(s) + 1
    BY <2>2, <2>3
  <2>5. ASSUME NEW i \in 1 .. Len(s) + 1 PROVE w[i] = u[i]
    <3>1. CASE i < k
      BY <3>1, <2>1, <2>2, <2>3
    <3>2. CASE i = k
      BY <3>2, <2>1, <2>2, <2>3
    <3>3. CASE i > k
      <4>1. w[i] = b[i - k]
        BY <3>3, <2>2, <2>3
      <4>2. i - k \in 1 .. Len(s) + 1 - k /\ k + (i - k) - 1 = i - 1
        BY <3>3
      <4>3. b[i - k] = s[i - 1]
        BY <4>2, <2>3
      <4>4. u[i] = s[i - 1]
        BY <3>3, <2>1
      <4> QED  BY <4>1, <4>3, <4>4
    <3>4. i \in Int /\ k \in Int
      OBVIOUS
    <3> HIDE DEF w
    <3> QED  BY <3>1, <3>2, <3>3, <3>4
  <2> HIDE DEF w
  <2>6. u = w
    <3>1. Len(s) + 1 \in Nat
      OBVIOUS
    <3> QED  BY <3>1, <2>1, <2>4, <2>5, SameSequence
  <2> QED  BY <2>6 DEF LI!InsertAt, u, w, a, b
<1>2. Len(s) + 1 \in 1 .. Len(s) + 1 /\ 1 \in 1 .. Len(s) + 1 /\ Len(s) + 1 \in Nat
  OBVIOUS
<1>3. More(s, Len(s) + 1, e) = Append(s, e)
  <2> DEFINE u == More(s, Len(s) + 1, e)
             w == Append(s, e)
  <2>1. /\ u \in Seq(S) /\ Len(u) = Len(s) + 1
        /\ \A i \in 1 .. Len(s) + 1 : u[i] = IF i < Len(s) + 1 THEN s[i] ELSE IF i = Len(s) + 1 THEN e ELSE s[i - 1]
    BY <1>2, MoreIs, SMTT(30)
  <2> HIDE DEF u
  <2>2. w \in Seq(S) /\ Len(w) = Len(s) + 1 /\ \A i \in 1 .. Len(s) + 1 : u[i] = w[i]
    BY <2>1
  <2> HIDE DEF w
  <2>3. u = w
    BY <1>2, <2>1, <2>2, SameSequence
  <2> QED  BY <2>3 DEF u, w
<1>4. More(s, 1, e) = <<e>> \o s
  <2> DEFINE u == More(s, 1, e)
             w == <<e>> \o s
  <2>1. /\ u \in Seq(S) /\ Len(u) = Len(s) + 1
        /\ \A i \in 1 .. Len(s) + 1 : u[i] = IF i < 1 THEN s[i] ELSE IF i = 1 THEN e ELSE s[i - 1]
    BY <1>2, MoreIs
  <2> HIDE DEF u
  <2>2. w \in Seq(S) /\ Len(w) = Len(s) + 1 /\ \A i \in 1 .. Len(s) + 1 : u[i] = w[i]
    BY <2>1
  <2> HIDE DEF w
  <2>3. u = w
    BY <1>2, <2>1, <2>2, SameSequence
  <2> QED  BY <2>3 DEF u, w
<1> QED  BY <1>1, <1>3, <1>4

LEMMA LessIsRemoveAt ==
  ASSUME NEW S, NEW s \in Seq(S), NEW k \in 1 .. Len(s)
  PROVE  Less(s, k) = LI!RemoveAt(s, k)
<1> DEFINE u == Less(s, k)
           a == SubSeq(s, 1, k - 1)
           b == SubSeq(s, k + 1, Len(s))
           w == a \o b
<1>1. /\ u \in Seq(S) /\ Len(u) = Len(s) - 1
      /\ \A i \in 1 .. Len(s) - 1 : u[i] = IF i < k THEN s[i] ELSE s[i + 1]
  BY LessIs
<1>2. /\ a \in Seq(S) /\ Len(a) = k - 1 /\ \A i \in 1 .. k - 1 : a[i] = s[i]
  OBVIOUS
<1>3. /\ b \in Seq(S) /\ Len(b) = Len(s) - k /\ \A i \in 1 .. Len(s) - k : b[i] = s[k + i]
  OBVIOUS
<1> HIDE DEF u, a, b
<1>4. w \in Seq(S) /\ Len(w) = Len(s) - 1
  <2>1. w \in Seq(S) /\ Len(w) = Len(a) + Len(b)
    <3>1. a \in Seq(S) /\ b \in Seq(S)
      BY <1>2, <1>3
    <3> QED  BY ONLY <3>1
  <2>2. Len(s) \in Nat /\ k \in Int
    OBVIOUS
  <2> HIDE DEF w
  <2> QED  BY <2>1, <2>2, <1>2, <1>3
<1>5. ASSUME NEW i \in 1 .. Len(s) - 1 PROVE w[i] = u[i]
  <2>1. CASE i < k
    BY <2>1, <1>1, <1>2, <1>3
  <2>2. CASE i >= k
    <3>1. w[i] = b[i - (k - 1)]
      BY <2>2, <1>2, <1>3
    <3>2. i - (k - 1) \in 1 .. Len(s) - k /\ k + (i - (k - 1)) = i + 1
      BY <2>2
    <3>3. b[i - (k - 1)] = s[i + 1]
      BY <3>2, <1>3
    <3> QED  BY <3>1, <3>3, <2>2, <1>1
  <2>3. i \in Int /\ k \in Int
    OBVIOUS
  <2> HIDE DEF w
  <2> QED  BY <2>1, <2>2, <2>3
<1> HIDE DEF w
<1>6. u = w
  <2>1. Len(s) - 1 \in Nat
    OBVIOUS
  <2> QED  BY <2>1, <1>1, <1>4, <1>5, SameSequence
<1> QED  BY <1>6 DEF LI!RemoveAt, u, w, a, b

LEMMA MorePairs ==
  ASSUME Null \notin Ids, NEW x, NEW s, IsList(x, s), NEW k \in 1 .. Len(s) + 1, NEW e \in Ids, NEW v \in Values,
         NEW z, OneMore(z, x, e, v), IsList(z, More(s, k, e))
  PROVE  LI!Items(z) = More(Pairs(x, s), k, <<e, v>>)
<1> DEFINE P == Pairs(x, s)
           u == More(s, k, e)
           w == More(P, k, <<e, v>>)
           Q == Pairs(z, u)
<1>1. /\ s \in Seq(Ids) /\ Len(s) \in Nat /\ P \in Seq(Ids \X Values) /\ Len(P) = Len(s)
      /\ \A i \in 1 .. Len(s) : s[i] \in DOMAIN x.elem /\ P[i] = <<s[i], x.elem[s[i]].value>>
  BY ItemsIs
<1>2. /\ u \in Seq(Ids) /\ Len(u) = Len(s) + 1
      /\ \A i \in 1 .. Len(s) + 1 : u[i] = IF i < k THEN s[i] ELSE IF i = k THEN e ELSE s[i - 1]
  <2> HIDE DEF P
  <2>1. k \in 1 .. Len(s) + 1 /\ e \in Ids /\ s \in Seq(Ids)
    BY <1>1
  <2> QED  BY <2>1, MoreIs
<1>3. LI!Items(z) = Q /\ Q \in Seq(Ids \X Values) /\ Len(Q) = Len(u)
      /\ \A i \in 1 .. Len(u) : Q[i] = <<u[i], z.elem[u[i]].value>>
  <2> HIDE DEF u
  <2> QED  BY ItemsIs DEF u
<1> HIDE DEF P, u, Q
<1>4. /\ w \in Seq(Ids \X Values) /\ Len(w) = Len(P) + 1
      /\ \A i \in 1 .. Len(P) + 1 : w[i] = IF i < k THEN P[i] ELSE IF i = k THEN <<e, v>> ELSE P[i - 1]
  <2> DEFINE f == <<e, v>>
  <2>1. f \in Ids \X Values /\ k \in 1 .. Len(P) + 1
    BY <1>1
  <2> HIDE DEF f
  <2> DEFINE S == Ids \X Values
  <2>2. P \in Seq(S) /\ f \in S
    BY <1>1, <2>1
  <2> HIDE DEF S
  <2>3. /\ More(P, k, f) \in Seq(S) /\ Len(More(P, k, f)) = Len(P) + 1
        /\ \A i \in 1 .. Len(P) + 1 : More(P, k, f)[i] = IF i < k THEN P[i] ELSE IF i = k THEN f ELSE P[i - 1]
    BY ONLY <2>1, <2>2, MoreIs
  <2> QED  BY <2>3 DEF f, S, w
<1> HIDE DEF w
<1>5. ASSUME NEW i \in 1 .. Len(s) + 1 PROVE Q[i] = w[i]
  <2>1. Q[i] = <<u[i], z.elem[u[i]].value>>
    BY <1>2, <1>3
  <2>2. CASE i < k
    <3>1. i \in 1 .. Len(s) /\ u[i] = s[i] /\ w[i] = P[i]
      BY <2>2, <1>1, <1>2, <1>4
    <3> QED  BY <3>1, <2>1, <1>1 DEF OneMore
  <2>3. CASE i = k
    <3>1. k \in 1 .. Len(P) + 1 /\ ~(k < k)
      BY <1>1
    <3>2. u[i] = e /\ w[i] = <<e, v>>
      BY <3>1, <2>3, <1>2, <1>4
    <3> QED  BY <3>2, <2>1 DEF OneMore
  <2>4. CASE i > k
    <3>1. i - 1 \in 1 .. Len(s) /\ u[i] = s[i - 1] /\ w[i] = P[i - 1]
      <4>1. i - 1 \in 1 .. Len(s) /\ ~(i < k) /\ i # k /\ i \in 1 .. Len(P) + 1
        BY <2>4, <1>1
      <4> QED  BY <4>1, <1>2, <1>4
    <3> QED  BY <3>1, <2>1, <1>1 DEF OneMore
  <2>5. i \in Int /\ k \in Int
    OBVIOUS
  <2> QED  BY <2>2, <2>3, <2>4, <2>5
<1>6. Q = w
  <2>1. Len(s) + 1 \in Nat
    BY <1>1
  <2> QED  BY <2>1, <1>1, <1>2, <1>3, <1>4, <1>5, SameSequence
<1> QED  BY <1>3, <1>6 DEF w, P

LEMMA LessPairs ==
  ASSUME Null \notin Ids, NEW x, NEW s, IsList(x, s), NEW k \in 1 .. Len(s),
         NEW z, OneLess(z, x, s[k]), IsList(z, Less(s, k))
  PROVE  LI!Items(z) = Less(Pairs(x, s), k)
<1> DEFINE P == Pairs(x, s)
           u == Less(s, k)
           w == Less(P, k)
           Q == Pairs(z, u)
<1>1. /\ s \in Seq(Ids) /\ Len(s) \in Nat /\ P \in Seq(Ids \X Values) /\ Len(P) = Len(s)
      /\ \A i \in 1 .. Len(s) : s[i] \in DOMAIN x.elem /\ P[i] = <<s[i], x.elem[s[i]].value>>
      /\ \A i, j \in 1 .. Len(s) : s[i] = s[j] => i = j
  <2>1. \A i, j \in 1 .. Len(s) : s[i] = s[j] => i = j
    BY DEF IsList, Chain
  <2>2. Len(s) \in Nat
    BY DEF IsList, Chain
  <2> HIDE DEF P
  <2> QED  BY <2>1, <2>2, ItemsIs DEF P
<1>2. /\ u \in Seq(Ids) /\ Len(u) = Len(s) - 1
      /\ \A i \in 1 .. Len(s) - 1 : u[i] = IF i < k THEN s[i] ELSE s[i + 1]
  BY <1>1, LessIs
<1>3. LI!Items(z) = Q /\ Q \in Seq(Ids \X Values) /\ Len(Q) = Len(u)
      /\ \A i \in 1 .. Len(u) : Q[i] = <<u[i], z.elem[u[i]].value>>
  <2> HIDE DEF u
  <2> QED  BY ItemsIs DEF u
<1> HIDE DEF P, u, Q
<1>4. /\ w \in Seq(Ids \X Values) /\ Len(w) = Len(P) - 1
      /\ \A i \in 1 .. Len(P) - 1 : w[i] = IF i < k THEN P[i] ELSE P[i + 1]
  BY <1>1, LessIs
<1> HIDE DEF w
<1>5. ASSUME NEW i \in 1 .. Len(s) - 1 PROVE Q[i] = w[i]
  <2>1. Q[i] = <<u[i], z.elem[u[i]].value>>
    BY <1>2, <1>3
  <2>2. CASE i < k
    <3>1. i \in 1 .. Len(s) /\ u[i] = s[i] /\ w[i] = P[i] /\ s[i] # s[k]
      BY <2>2, <1>1, <1>2, <1>4
    <3> QED  BY <3>1, <2>1, <1>1 DEF OneLess
  <2>3. CASE i >= k
    <3>1. i + 1 \in 1 .. Len(s) /\ u[i] = s[i + 1] /\ w[i] = P[i + 1] /\ s[i + 1] # s[k]
      BY <2>3, <1>1, <1>2, <1>4
    <3> QED  BY <3>1, <2>1, <1>1 DEF OneLess
  <2>4. i \in Int /\ k \in Int
    OBVIOUS
  <2> QED  BY <2>2, <2>3, <2>4
<1>6. Q = w
  <2>1. Len(s) - 1 \in Nat
    BY <1>1
  <2> QED  BY <2>1, <1>1, <1>2, <1>3, <1>4, <1>5, SameSequence
<1> QED  BY <1>3, <1>6 DEF w, P

\* An element that moves takes its value along.
LEMMA MovedPairs ==
  ASSUME Null \notin Ids, NEW x, NEW s, IsList(x, s), NEW i \in 1 .. Len(s), NEW k \in 1 .. Len(s),
         NEW z, SameItems(z, x), IsList(z, More(Less(s, i), k, s[i]))
  PROVE  LI!Items(z) = LI!InsertAt(LI!RemoveAt(Pairs(x, s), i), k, Pairs(x, s)[i])
<1> DEFINE P == Pairs(x, s)
           t == Less(s, i)
           R == Less(P, i)
           e == s[i]
           u == More(t, k, e)
           Q == Pairs(z, u)
           w == More(R, k, P[i])
<1>1. /\ s \in Seq(Ids) /\ Len(s) \in Nat /\ P \in Seq(Ids \X Values) /\ Len(P) = Len(s)
      /\ \A j \in 1 .. Len(s) : s[j] \in DOMAIN x.elem /\ P[j] = <<s[j], x.elem[s[j]].value>>
  <2> HIDE DEF P, t, R, e, u, Q, w
  <2>1. Len(s) \in Nat
    BY DEF IsList, Chain
  <2>2. s \in Seq(Ids) /\ \A j \in 1 .. Len(s) : s[j] \in DOMAIN x.elem
    BY ItemsIs
  <2>3. P \in Seq(Ids \X Values) /\ Len(P) = Len(s)
    BY ItemsIs DEF P
  <2>4. \A j \in 1 .. Len(s) : P[j] = <<s[j], x.elem[s[j]].value>>
    BY ItemsIs DEF P
  <2> QED  BY <2>1, <2>2, <2>3, <2>4
<1>2. /\ t \in Seq(Ids) /\ Len(t) = Len(s) - 1
      /\ \A j \in 1 .. Len(s) - 1 : t[j] = IF j < i THEN s[j] ELSE s[j + 1]
  BY <1>1, LessIs
<1> HIDE DEF P
<1>3. /\ R \in Seq(Ids \X Values) /\ Len(R) = Len(s) - 1
      /\ \A j \in 1 .. Len(s) - 1 : R[j] = IF j < i THEN P[j] ELSE P[j + 1]
  <2>1. i \in 1 .. Len(P) /\ P \in Seq(Ids \X Values)
    BY <1>1
  <2> QED  BY <2>1, <1>1, LessIs
<1>4. R = LI!RemoveAt(P, i)
  BY <1>1, LessIsRemoveAt
<1> HIDE DEF t, R
<1>5. k \in 1 .. Len(t) + 1 /\ k \in 1 .. Len(R) + 1 /\ e \in Ids /\ P[i] \in Ids \X Values
  BY <1>1, <1>2, <1>3
<1> HIDE DEF e
<1>6. /\ u \in Seq(Ids) /\ Len(u) = Len(t) + 1
      /\ \A j \in 1 .. Len(t) + 1 : u[j] = IF j < k THEN t[j] ELSE IF j = k THEN e ELSE t[j - 1]
  BY <1>2, <1>5, MoreIs
<1>7. /\ w \in Seq(Ids \X Values) /\ Len(w) = Len(R) + 1 /\ w = LI!InsertAt(R, k, P[i])
      /\ \A j \in 1 .. Len(R) + 1 : w[j] = IF j < k THEN R[j] ELSE IF j = k THEN P[i] ELSE R[j - 1]
  <2> DEFINE f == P[i]
  <2>1. f \in Ids \X Values
    BY <1>5
  <2> HIDE DEF f
  <2>2. /\ More(R, k, f) \in Seq(Ids \X Values) /\ Len(More(R, k, f)) = Len(R) + 1
        /\ \A j \in 1 .. Len(R) + 1 : More(R, k, f)[j] = IF j < k THEN R[j] ELSE IF j = k THEN f ELSE R[j - 1]
    <3>1. IsMore(More(R, k, f), Ids \X Values, R, k, f)
      BY <2>1, <1>3, <1>5, MoreInAWord
    <3> QED  BY <3>1 DEF IsMore
  <2>3. More(R, k, f) = LI!InsertAt(R, k, f)
    BY <2>1, <1>3, <1>5, MoreIsInsertAt
  <2> QED  BY <2>2, <2>3 DEF f
<1>8. LI!Items(z) = Q /\ Q \in Seq(Ids \X Values) /\ Len(Q) = Len(u)
      /\ \A j \in 1 .. Len(u) : Q[j] = <<u[j], z.elem[u[j]].value>>
  <2>1. IsList(z, u)
    BY DEF u, t, e
  <2> HIDE DEF u
  <2> QED  BY <2>1, ItemsIs
<1> HIDE DEF u, Q, w
<1>9. \A j \in 1 .. Len(t) : t[j] \in DOMAIN x.elem /\ R[j] = <<t[j], x.elem[t[j]].value>>
  <2> TAKE j \in 1 .. Len(t)
  <2>0. j \in Int /\ i \in Int /\ j \in 1 .. Len(s) - 1 /\ j \in 1 .. Len(s) /\ j + 1 \in 1 .. Len(s)
    BY <1>1, <1>2
  <2>1. CASE j < i
    <3>1. t[j] = s[j] /\ R[j] = P[j]
      BY <2>0, <2>1, <1>2, <1>3
    <3> QED  BY <3>1, <2>0, <1>1
  <2>2. CASE j >= i
    <3>1. t[j] = s[j + 1] /\ R[j] = P[j + 1]
      BY <2>0, <2>2, <1>2, <1>3
    <3> QED  BY <3>1, <2>0, <1>1
  <2>3. j < i \/ j >= i
    BY <2>0
  <2> QED  BY <2>1, <2>2, <2>3
<1>10. ASSUME NEW j \in 1 .. Len(s) PROVE Q[j] = w[j]
  <2>1. Q[j] = <<u[j], z.elem[u[j]].value>>
    BY <1>1, <1>2, <1>6, <1>8
  <2>2. CASE j < k
    <3>1. j \in 1 .. Len(t) /\ u[j] = t[j] /\ w[j] = R[j]
      BY <2>2, <1>1, <1>2, <1>3, <1>6, <1>7
    <3> QED  BY <3>1, <2>1, <1>9 DEF SameItems
  <2>3. CASE j = k
    <3>1. u[j] = e /\ w[j] = P[i] /\ e \in DOMAIN x.elem /\ P[i] = <<e, x.elem[e].value>>
      BY <2>3, <1>1, <1>2, <1>3, <1>6, <1>7 DEF e
    <3> QED  BY <3>1, <2>1 DEF SameItems
  <2>4. CASE j > k
    <3>1. j - 1 \in 1 .. Len(t) /\ u[j] = t[j - 1] /\ w[j] = R[j - 1]
      <4>1. /\ j - 1 \in 1 .. Len(t) /\ ~(j < k) /\ j # k
            /\ j \in 1 .. Len(t) + 1 /\ j \in 1 .. Len(R) + 1
        BY <2>4, <1>1, <1>2, <1>3
      <4> QED  BY <4>1, <1>6, <1>7
    <3> QED  BY <3>1, <2>1, <1>9 DEF SameItems
  <2>5. j \in Int /\ k \in Int
    OBVIOUS
  <2> QED  BY <2>2, <2>3, <2>4, <2>5
<1>11. Q = w
  <2>1. Len(Q) = Len(s) /\ Len(w) = Len(s)
    BY <1>1, <1>2, <1>3, <1>6, <1>7, <1>8
  <2>2. Q \in Seq(Ids \X Values) /\ w \in Seq(Ids \X Values) /\ Len(s) \in Nat
    BY <1>1, <1>7, <1>8
  <2> QED  BY <2>1, <2>2, <1>10, SameSequence
<1> QED  BY <1>4, <1>7, <1>8, <1>11 DEF P

LEMMA SwappedPairs ==
  ASSUME Null \notin Ids, NEW x, NEW s, IsList(x, s), NEW i \in 1 .. Len(s), NEW j \in 1 .. Len(s)
  PROVE  LI!Items(LI!Swapped(x, s[i], s[j])) = [Pairs(x, s) EXCEPT ![i] = Pairs(x, s)[j], ![j] = Pairs(x, s)[i]]
<1> DEFINE P == Pairs(x, s)
           z == LI!Swapped(x, s[i], s[j])
           u == Exchanged(s, i, j)
           Q == Pairs(z, u)
           w == [P EXCEPT ![i] = P[j], ![j] = P[i]]
<1>1. /\ s \in Seq(Ids) /\ Len(s) \in Nat /\ P \in Seq(Ids \X Values) /\ Len(P) = Len(s)
      /\ \A k \in 1 .. Len(s) : s[k] \in DOMAIN x.elem /\ P[k] = <<s[k], x.elem[s[k]].value>>
      /\ LI!Items(x) = P
  <2>1. Len(s) \in Nat
    BY DEF IsList, Chain
  <2> HIDE DEF P
  <2> QED  BY <2>1, ItemsIs DEF P
<1> HIDE DEF P
<1>2. CASE i = j
  <2>1. z = x
    BY <1>2 DEF LI!Swapped
  <2>2. w = P
    BY <1>1, <1>2
  <2> QED  BY <2>1, <2>2, <1>1 DEF P
<1>3. CASE i # j
  <2>1. IsList(z, u) /\ SameItems(z, x)
    BY <1>3, SwappedIs
  <2>2. /\ u \in Seq(Ids) /\ Len(u) = Len(s)
        /\ \A k \in 1 .. Len(s) : u[k] = IF k = i THEN s[j] ELSE IF k = j THEN s[i] ELSE s[k]
    <3>1. s \in Seq(Ids) /\ i \in 1 .. Len(s) /\ j \in 1 .. Len(s)
      BY <1>1
    <3> HIDE DEF z, w, Q
    <3> QED  BY <3>1, ExchangedIs
  <2> HIDE DEF z, u
  <2>3. LI!Items(z) = Q /\ Q \in Seq(Ids \X Values) /\ Len(Q) = Len(s)
        /\ \A k \in 1 .. Len(s) : Q[k] = <<u[k], z.elem[u[k]].value>>
    BY <2>1, <2>2, ItemsIs
  <2>4. /\ w \in Seq(Ids \X Values) /\ Len(w) = Len(s)
        /\ \A k \in 1 .. Len(s) : w[k] = IF k = i THEN P[j] ELSE IF k = j THEN P[i] ELSE P[k]
    BY <1>1, <1>3
  <2> HIDE DEF Q, w
  <2>5. ASSUME NEW k \in 1 .. Len(s) PROVE Q[k] = w[k]
    <3>1. \A m \in 1 .. Len(s) : z.elem[s[m]].value = x.elem[s[m]].value
      BY <1>1, <2>1 DEF SameItems
    <3> DEFINE m == IF k = i THEN j ELSE IF k = j THEN i ELSE k
    <3>2. m \in 1 .. Len(s) /\ u[k] = s[m] /\ w[k] = P[m]
      BY <2>2, <2>4
    <3> HIDE DEF m
    <3>3. Q[k] = <<s[m], z.elem[s[m]].value>> /\ P[m] = <<s[m], x.elem[s[m]].value>>
      BY <3>2, <2>3, <1>1
    <3> QED  BY <3>1, <3>2, <3>3
  <2>6. Q = w
    BY <1>1, <2>3, <2>4, <2>5, SameSequence
  <2> QED  BY <2>3, <2>6 DEF w, z, P
<1> QED  BY <1>2, <1>3

LEMMA ReversedPairs ==
  ASSUME Null \notin Ids, NEW x, NEW s, IsList(x, s)
  PROVE  LI!Items(LI!Reversed(x)) = [i \in 1 .. Len(s) |-> <<Pairs(x, s)[i][1], Pairs(x, s)[(Len(s) + 1) - i][2]>>]
<1> DEFINE P == Pairs(x, s)
           z == LI!Reversed(x)
           Q == Pairs(z, s)
<1>1. /\ s \in Seq(Ids) /\ Len(s) \in Nat
      /\ \A k \in 1 .. Len(s) : P[k] = <<s[k], x.elem[s[k]].value>>
  <2>1. Len(s) \in Nat
    BY DEF IsList, Chain
  <2> HIDE DEF P
  <2> QED  BY <2>1, ItemsIs DEF P
<1> HIDE DEF P
<1>2. IsList(z, s) /\ \A i \in 1 .. Len(s) : z.elem[s[i]].value = x.elem[s[(Len(s) - i) + 1]].value
  BY ReversedIs, ZenonT(30)
<1> HIDE DEF z
<1>3. LI!Items(z) = Q
  BY <1>2, ItemsIs
<1>4. \A i \in 1 .. Len(s) : <<s[i], z.elem[s[i]].value>> = <<P[i][1], P[(Len(s) + 1) - i][2]>>
  <2> TAKE i \in 1 .. Len(s)
  <2>1. (Len(s) + 1) - i \in 1 .. Len(s) /\ (Len(s) + 1) - i = (Len(s) - i) + 1
    BY <1>1
  <2>2. P[i][1] = s[i]
    BY <1>1
  <2>3. P[(Len(s) + 1) - i][2] = x.elem[s[(Len(s) - i) + 1]].value
    BY <2>1, <1>1
  <2> QED  BY <2>2, <2>3, <1>2
<1>5. Q = [i \in 1 .. Len(s) |-> <<P[i][1], P[(Len(s) + 1) - i][2]>>]
  BY <1>4 DEF Pairs
<1> QED  BY <1>3, <1>5 DEF z, P

LEMMA SortedPairs ==
  ASSUME Null \notin Ids, Values \subseteq Int, NEW x, NEW s, IsList(x, s)
  PROVE  LI!IsSorting(Pairs(x, s), LI!Items(LI!SortedInPlace(x)))
<1> DEFINE z == LI!SortedInPlace(x)
           P == Pairs(x, s)
<1>1. PICK t : IsList(z, t) /\ SameItems(z, x) /\ Rising(z, t)
  BY SortedInPlaceIs
<1> DEFINE Q == Pairs(z, t)
<1>2. /\ s \in Seq(Ids) /\ Len(s) \in Nat /\ P \in Seq(Ids \X Values) /\ Len(P) = Len(s)
      /\ \A k \in 1 .. Len(s) : P[k] = <<s[k], x.elem[s[k]].value>>
      /\ x.size = Len(s) /\ DOMAIN x.elem = {s[i] : i \in 1 .. Len(s)}
  <2>1. Len(s) \in Nat /\ x.size = Len(s) /\ DOMAIN x.elem = {s[i] : i \in 1 .. Len(s)}
    BY DEF IsList, Chain
  <2> HIDE DEF P
  <2> QED  BY <2>1, ItemsIs DEF P
<1> HIDE DEF P, z
<1>3. /\ LI!Items(z) = Q /\ t \in Seq(Ids) /\ Q \in Seq(Ids \X Values) /\ Len(Q) = Len(t)
      /\ \A k \in 1 .. Len(t) : Q[k] = <<t[k], z.elem[t[k]].value>>
  <2> HIDE DEF Q
  <2> QED  BY <1>1, ItemsIs DEF Q
<1>4. Len(t) = Len(s) /\ {t[i] : i \in 1 .. Len(t)} = {s[i] : i \in 1 .. Len(s)}
  <2>1. z.size = Len(t) /\ DOMAIN z.elem = {t[i] : i \in 1 .. Len(t)} /\ z.size = x.size /\ DOMAIN z.elem = DOMAIN x.elem
    BY <1>1 DEF IsList, SameItems
  <2> QED  BY <2>1, <1>2
<1> HIDE DEF Q
<1>5. \A k \in 1 .. Len(s) : s[k] \in DOMAIN x.elem /\ z.elem[s[k]].value = x.elem[s[k]].value
  BY <1>1, <1>2 DEF SameItems
<1>6. DOMAIN P = 1 .. Len(s) /\ DOMAIN Q = 1 .. Len(s)
  BY <1>2, <1>3, <1>4
<1>7. LI!Range(Q) = LI!Range(P)
  <2>1. ASSUME NEW k \in 1 .. Len(s) PROVE \E m \in 1 .. Len(s) : P[m] = Q[k]
    <3>1. PICK m \in 1 .. Len(s) : t[k] = s[m]
      BY <1>4
    <3>2. Q[k] = <<s[m], z.elem[s[m]].value>>
      BY <3>1, <1>3, <1>4
    <3> QED  BY <3>2, <1>2, <1>5
  <2>2. ASSUME NEW k \in 1 .. Len(s) PROVE \E m \in 1 .. Len(s) : Q[m] = P[k]
    <3>1. s[k] \in {t[i] : i \in 1 .. Len(t)}
      BY <1>4
    <3>2. PICK m \in 1 .. Len(t) : t[m] = s[k]
      BY <3>1
    <3>3. Q[m] = <<s[k], z.elem[s[k]].value>> /\ m \in 1 .. Len(s)
      BY <3>2, <1>3, <1>4
    <3> QED  BY <3>3, <1>2, <1>5
  <2>3. ASSUME NEW c \in LI!Range(Q) PROVE c \in LI!Range(P)
    BY <2>1, <1>6 DEF LI!Range
  <2>4. ASSUME NEW c \in LI!Range(P) PROVE c \in LI!Range(Q)
    BY <2>2, <1>6 DEF LI!Range
  <2> QED  BY <2>3, <2>4
<1>8. \A i, j \in DOMAIN Q : i < j => Q[i][2] <= Q[j][2]
  <2> TAKE i, j \in DOMAIN Q
  <2>1. i \in 1 .. Len(t) /\ j \in 1 .. Len(t)
    BY <1>4, <1>6
  <2>2. Q[i][2] = z.elem[t[i]].value /\ Q[j][2] = z.elem[t[j]].value
    BY <2>1, <1>3
  <2> QED  BY <2>1, <2>2, <1>1 DEF Rising
<1> QED  BY <1>2, <1>3, <1>4, <1>7, <1>8 DEF LI!IsSorting, P, z

LEMMA ActsLikeIt ==
  ASSUME Null \notin Ids, Values \subseteq Int, NEW s, IsList(l, s)
  PROVE  LI!ActsOnSequence
<1> DEFINE P == Pairs(l, s)
           n == Len(P)
           at(i) == P[i][1]
           moved(i, j) == LI!InsertAt(LI!RemoveAt(P, i), j, P[i])
<1>1. /\ s \in Seq(Ids) /\ Len(s) \in Nat /\ P \in Seq(Ids \X Values) /\ n = Len(s) /\ LI!Items(l) = P
      /\ \A k \in 1 .. n : P[k] = <<s[k], l.elem[s[k]].value>>
  <2>1. Len(s) \in Nat
    BY DEF IsList, Chain
  <2> HIDE DEF P
  <2> QED  BY <2>1, ItemsIs DEF P
<1> HIDE DEF P
<1>2. \A k \in 1 .. n : at(k) = s[k]
  BY <1>1
<1>3. ASSUME NEW e \in LI!Free, NEW v \in Values
      PROVE  /\ LI!Items(LI!Pushed(l, e, v)) = Append(P, <<e, v>>)
             /\ LI!Items(LI!PushedFront(l, e, v)) = <<<<e, v>>>> \o P
             /\ \A i \in 1 .. n : /\ LI!Items(LI!InsertedAfter(l, at(i), e, v)) = LI!InsertAt(P, i + 1, <<e, v>>)
                                  /\ LI!Items(LI!InsertedBefore(l, at(i), e, v)) = LI!InsertAt(P, i, <<e, v>>)
  <2>1. e \in Ids \ DOMAIN l.elem
    BY DEF LI!Free, LI!Elements
  <2>2. /\ \A k \in 1 .. n + 1 : More(P, k, <<e, v>>) = LI!InsertAt(P, k, <<e, v>>)
        /\ More(P, n + 1, <<e, v>>) = Append(P, <<e, v>>)
        /\ More(P, 1, <<e, v>>) = <<<<e, v>>>> \o P
    <3> DEFINE f == <<e, v>>
               S == Ids \X Values
    <3>1. f \in S /\ P \in Seq(S)
      BY <2>1, <1>1
    <3> HIDE DEF f, S
    <3>2. /\ \A k \in 1 .. n + 1 : More(P, k, f) = LI!InsertAt(P, k, f)
          /\ More(P, n + 1, f) = Append(P, f)
          /\ More(P, 1, f) = <<f>> \o P
      BY <3>1, MoreIsInsertAt
    <3> QED  BY <3>2 DEF f
  <2>3. LI!Items(LI!Pushed(l, e, v)) = Append(P, <<e, v>>)
    <3>1. IsList(LI!Pushed(l, e, v), More(s, Len(s) + 1, e)) /\ OneMore(LI!Pushed(l, e, v), l, e, v)
      BY <2>1, PushedIs
    <3>2. Len(s) + 1 \in 1 .. Len(s) + 1
      BY <1>1
    <3>3. LI!Items(LI!Pushed(l, e, v)) = More(P, Len(s) + 1, <<e, v>>)
      BY <3>1, <3>2, <2>1, MorePairs DEF P
    <3> QED  BY <3>3, <2>2, <1>1
  <2>4. LI!Items(LI!PushedFront(l, e, v)) = <<<<e, v>>>> \o P
    <3>1. IsList(LI!PushedFront(l, e, v), More(s, 1, e)) /\ OneMore(LI!PushedFront(l, e, v), l, e, v)
      BY <2>1, PushedFrontIs
    <3>2. 1 \in 1 .. Len(s) + 1
      BY <1>1
    <3>3. LI!Items(LI!PushedFront(l, e, v)) = More(P, 1, <<e, v>>)
      BY <3>1, <3>2, <2>1, MorePairs DEF P
    <3> QED  BY <3>3, <2>2, <1>1
  <2>5. ASSUME NEW i \in 1 .. n
        PROVE  LI!Items(LI!InsertedAfter(l, at(i), e, v)) = LI!InsertAt(P, i + 1, <<e, v>>)
    <3>1. i \in 1 .. Len(s) /\ at(i) = s[i] /\ i + 1 \in 1 .. Len(s) + 1 /\ i + 1 \in 1 .. n + 1
      BY <1>1, <1>2
    <3> HIDE DEF n, at
    <3>2. IsList(LI!InsertedAfter(l, s[i], e, v), More(s, i + 1, e)) /\ OneMore(LI!InsertedAfter(l, s[i], e, v), l, e, v)
      BY <3>1, <2>1, InsertedAfterIs
    <3>3. LI!Items(LI!InsertedAfter(l, s[i], e, v)) = More(P, i + 1, <<e, v>>)
      BY <3>1, <3>2, <2>1, MorePairs DEF P
    <3> QED  BY <3>1, <3>3, <2>2
  <2>6. ASSUME NEW i \in 1 .. n
        PROVE  LI!Items(LI!InsertedBefore(l, at(i), e, v)) = LI!InsertAt(P, i, <<e, v>>)
    <3>1. i \in 1 .. Len(s) /\ at(i) = s[i] /\ i \in 1 .. Len(s) + 1 /\ i \in 1 .. n + 1
      BY <1>1, <1>2
    <3> HIDE DEF n, at
    <3>2. IsList(LI!InsertedBefore(l, s[i], e, v), More(s, i, e)) /\ OneMore(LI!InsertedBefore(l, s[i], e, v), l, e, v)
      BY <3>1, <2>1, InsertedBeforeIs
    <3>3. LI!Items(LI!InsertedBefore(l, s[i], e, v)) = More(P, i, <<e, v>>)
      BY <3>1, <3>2, <2>1, MorePairs DEF P
    <3> QED  BY <3>1, <3>3, <2>2
  <2> QED  BY <2>3, <2>4, <2>5, <2>6
<1>4. ASSUME NEW i \in 1 .. n
      PROVE  /\ LI!Items(LI!Erased(l, at(i))) = LI!RemoveAt(P, i)
             /\ LI!Items(LI!MovedToBack(l, at(i))) = moved(i, n)
             /\ LI!Items(LI!MovedToFront(l, at(i))) = moved(i, 1)
  <2>1. i \in 1 .. Len(s) /\ at(i) = s[i] /\ Len(s) \in 1 .. Len(s) /\ 1 \in 1 .. Len(s) /\ n = Len(s)
    BY <1>1, <1>2
  <2>2. Less(P, i) = LI!RemoveAt(P, i)
    BY <1>1, LessIsRemoveAt
  <2> HIDE DEF n, at
  <2>3. LI!Items(LI!Erased(l, s[i])) = Less(P, i)
    <3>1. IsList(LI!Erased(l, s[i]), Less(s, i)) /\ OneLess(LI!Erased(l, s[i]), l, s[i])
      BY <2>1, ErasedIs
    <3> QED  BY <3>1, <2>1, LessPairs DEF P
  <2>4. LI!Items(LI!MovedToBack(l, s[i])) = moved(i, Len(s))
    <3>1. IsList(LI!MovedToBack(l, s[i]), More(Less(s, i), Len(s), s[i])) /\ SameItems(LI!MovedToBack(l, s[i]), l)
      BY <2>1, MovedToBackIs
    <3> QED  BY <3>1, <2>1, MovedPairs DEF P
  <2>5. LI!Items(LI!MovedToFront(l, s[i])) = moved(i, 1)
    <3>1. IsList(LI!MovedToFront(l, s[i]), More(Less(s, i), 1, s[i])) /\ SameItems(LI!MovedToFront(l, s[i]), l)
      BY <2>1, MovedToFrontIs
    <3> QED  BY <3>1, <2>1, MovedPairs DEF P
  <2> QED  BY <2>1, <2>2, <2>3, <2>4, <2>5
<1>5. ASSUME NEW i \in 1 .. n, NEW j \in 1 .. n
      PROVE  /\ LI!Items(LI!Swapped(l, at(i), at(j))) = [P EXCEPT ![i] = P[j], ![j] = P[i]]
             /\ i # j => LI!Items(LI!MovedBefore(l, at(i), at(j))) = moved(i, IF i < j THEN j - 1 ELSE j)
  <2>1. i \in 1 .. Len(s) /\ j \in 1 .. Len(s) /\ at(i) = s[i] /\ at(j) = s[j]
    BY <1>1, <1>2
  <2> HIDE DEF n, at
  <2>2. LI!Items(LI!Swapped(l, s[i], s[j])) = [P EXCEPT ![i] = P[j], ![j] = P[i]]
    BY <2>1, SwappedPairs DEF P
  <2>3. ASSUME i # j
        PROVE  LI!Items(LI!MovedBefore(l, s[i], s[j])) = moved(i, IF i < j THEN j - 1 ELSE j)
    <3> DEFINE k == IF i < j THEN j - 1 ELSE j
               z == LI!MovedBefore(l, s[i], s[j])
    <3>1. IsList(z, More(Less(s, i), k, s[i])) /\ SameItems(z, l)
      BY <2>1, <2>3, MovedBeforeIs
    <3>2. k \in 1 .. Len(s)
      BY <2>1, <2>3, <1>1
    <3> HIDE DEF k, z
    <3>3. LI!Items(z) = moved(i, k)
      BY <3>1, <3>2, <2>1, MovedPairs DEF P
    <3> QED  BY <3>3 DEF k, z
  <2> QED  BY <2>1, <2>2, <2>3
<1>6. LI!Items(LI!Cleared(l)) = <<>>
  <2>1. PICK t : IsList(LI!Cleared(l), t) /\ Len(t) = 0
    BY ClearedIs
  <2>2. LI!Items(LI!Cleared(l)) = Pairs(LI!Cleared(l), t)
    BY <2>1, ItemsIs
  <2>3. Pairs(LI!Cleared(l), t) \in Seq(Ids \X Values) /\ Len(Pairs(LI!Cleared(l), t)) = 0
    BY <2>1, ItemsIs
  <2> QED  BY <2>2, <2>3
<1>7. LI!Items(LI!Reversed(l)) = [i \in 1 .. n |-> <<P[i][1], P[(n + 1) - i][2]>>]
  BY <1>1, ReversedPairs DEF P
<1>8. LI!IsSorting(P, LI!Items(LI!SortedInPlace(l)))
  BY SortedPairs DEF P
<1> QED  BY <1>1, <1>3, <1>4, <1>5, <1>6, <1>7, <1>8, SMTT(30) DEF LI!ActsOnSequence

\* What the pointers of a List lead through is always a sequence of all its elements.
THEOREM ListInvariant == LI!Spec => []ListInv
<1>1. ListInv /\ [LI!Next]_l => ListInv'
  BY ListAssumption, ListStep DEF Null
<1> QED  BY <1>1, ListInit, PTL DEF LI!Spec

\* Both ways through a List are the same way, and _data is there while an element
\* is, for any elements, values and lists that are assigned.
THEOREM ListHolds == LI!Spec => []ListIsSound
<1>1. ListInv => ListIsSound
  BY ListAssumption, ListIsGood DEF ListInv, ListIsSound, Null
<1> QED  BY <1>1, ListInvariant, PTL

\* In every state each operation of a List does to the sequence of elements and
\* values what its name says.
THEOREM ListActs == LI!Spec => []ActsOnSequence
<1>1. ListInv => ActsOnSequence
  BY ListAssumption, ActsLikeIt DEF ListInv, ActsOnSequence, Null
<1> QED  BY <1>1, ListInvariant, PTL

------------------------------------------------------------------------------
(* HashMap, for any keys, values, hashes and capacities: the slots are a Robin   *)
(* Hood table of the keys, the pointers lead through them in one order, and     *)
(* every step is one of the dictionary. A map is described by the sequence of   *)
(* its keys; the search, each turn of the insertion, the shift of an erase and  *)
(* the move to a larger table are dealt with one after the other.               *)

\* What division leaves over is below the divisor.
LEMMA DivMod == ASSUME NEW c \in Nat \ {0}, NEW n \in Nat
  PROVE n \div c \in Nat /\ n % c \in 0 .. c - 1 /\ n = c * (n \div c) + (n % c)
  OBVIOUS

\* A number below the divisor is what is left of a multiple and it.
LEMMA ModIs ==
  ASSUME NEW c \in Nat \ {0}, NEW q \in Nat, NEW r \in 0 .. c - 1
  PROVE  (c * q + r) % c = r
  OBVIOUS

\* Less than a divisor more wraps around at most once.
LEMMA ModPlus ==
  ASSUME NEW c \in Nat \ {0}, NEW n \in Nat, NEW d \in 0 .. c - 1
  PROVE  (n + d) % c = IF (n % c) + d < c THEN (n % c) + d ELSE (n % c) + d - c
<1> DEFINE q == n \div c
           r == n % c
<1>1. q \in Nat /\ r \in 0 .. c - 1 /\ n = c * q + r
  BY DivMod
<1> HIDE DEF q, r
<1>2. CASE r + d < c
  <2>1. n + d = c * q + (r + d)
    BY <1>1
  <2> QED  BY <2>1, <1>1, <1>2, ModIs DEF r
<1>3. CASE r + d >= c
  <2>1. n + d = c * (q + 1) + (r + d - c)
    BY <1>1
  <2>2. q + 1 \in Nat /\ r + d - c \in 0 .. c - 1
    BY <1>1, <1>3
  <2>3. (n + d) % c = r + d - c
    BY ONLY <2>1, <2>2, ModIs
  <2> QED  BY <2>3, <1>1, <1>3 DEF r
<1> QED  BY <1>1, <1>2, <1>3

\* The probe length of a slot is its distance from the hash, around the table.
LEMMA ProbeIs ==
  ASSUME NEW c \in Nat \ {0}, NEW h \in Nat, NEW p \in 0 .. c - 1
  PROVE  /\ h % c \in 0 .. c - 1
         /\ HM!Probe(p, h, c) = IF p >= h % c THEN p - (h % c) ELSE p - (h % c) + c
<1> DEFINE r == h % c
<1>1. r \in 0 .. c - 1
  BY DivMod
<1>2. HM!Probe(p, h, c) = (p - r + c) % c
  BY DEF HM!Probe
<1> HIDE DEF r
<1>3. CASE p >= r
  <2>1. p - r + c = c * 1 + (p - r) /\ p - r \in 0 .. c - 1
    BY <1>1, <1>3
  <2>2. (c * 1 + (p - r)) % c = p - r
    BY <2>1, ModIs
  <2> QED  BY <2>1, <2>2, <1>1, <1>2, <1>3 DEF r
<1>4. CASE p < r
  <2>1. p - r + c = c * 0 + (p - r + c) /\ p - r + c \in 0 .. c - 1
    BY <1>1, <1>4
  <2>2. (c * 0 + (p - r + c)) % c = p - r + c
    BY <2>1, ModIs
  <2> QED  BY <2>1, <2>2, <1>1, <1>2, <1>4 DEF r
<1> QED  BY <1>1, <1>3, <1>4 DEF r

\* The next slot, around the table.
LEMMA NextIs ==
  ASSUME NEW c \in Nat, c > 1, NEW p \in 0 .. c - 1
  PROVE  (p + 1) % c = IF p + 1 < c THEN p + 1 ELSE 0
<1>1. c \in Nat \ {0} /\ 1 \in 0 .. c - 1 /\ p \in Nat
  OBVIOUS
<1>2. p = c * 0 + p
  OBVIOUS
<1>3. p % c = p
  BY <1>1, <1>2, ModIs
<1>4. (p + 1) % c = IF (p % c) + 1 < c THEN (p % c) + 1 ELSE (p % c) + 1 - c
  BY <1>1, ModPlus
<1> QED  BY <1>3, <1>4

\* The place d steps from home, and how far a place is from home.
LEMMA StepsIs ==
  ASSUME NEW c \in Nat, c > 1, NEW h \in Nat, NEW d \in 0 .. c - 1
  PROVE  /\ (h + d) % c \in 0 .. c - 1
         /\ HM!Probe((h + d) % c, h, c) = d
         /\ (((h + d) % c) + 1) % c = (h + (d + 1)) % c
<1> DEFINE r == h % c
           p == (h + d) % c
<1>1. c \in Nat \ {0} /\ r \in 0 .. c - 1 /\ p \in 0 .. c - 1 /\ h + d \in Nat
  BY DivMod
<1>2. p = IF r + d < c THEN r + d ELSE r + d - c
  BY <1>1, ModPlus
<1>3. HM!Probe(p, h, c) = IF p >= r THEN p - r ELSE p - r + c
  BY <1>1, ProbeIs
<1>4. (p + 1) % c = ((h + d) + 1) % c
  <2>1. 1 \in 0 .. c - 1
    OBVIOUS
  <2>2. ((h + d) + 1) % c = IF p + 1 < c THEN p + 1 ELSE p + 1 - c
    BY <2>1, <1>1, ModPlus
  <2>3. (p + 1) % c = IF p + 1 < c THEN p + 1 ELSE 0
    BY <1>1, NextIs
  <2> HIDE DEF p
  <2> QED  BY <2>2, <2>3, <1>1
<1>5. (h + d) + 1 = h + (d + 1)
  OBVIOUS
<1>6. HM!Probe(p, h, c) = d
  <2> HIDE DEF r, p
  <2> QED  BY <1>1, <1>2, <1>3
<1> QED  BY <1>1, <1>4, <1>5, <1>6

\* The probe length leads from the hash to the slot, and grows by one per slot until it wraps.
LEMMA ProbeFacts ==
  ASSUME NEW c \in Nat, c > 1, NEW h \in Nat, NEW p \in 0 .. c - 1
  PROVE  /\ HM!Probe(p, h, c) \in 0 .. c - 1
         /\ (h + HM!Probe(p, h, c)) % c = p
         /\ (p + 1) % c \in 0 .. c - 1
         /\ HM!Probe((p + 1) % c, h, c) = IF HM!Probe(p, h, c) = c - 1 THEN 0 ELSE HM!Probe(p, h, c) + 1
<1> DEFINE r == h % c
           d == HM!Probe(p, h, c)
           q == (p + 1) % c
<1>1. c \in Nat \ {0} /\ r \in 0 .. c - 1
  BY DivMod
<1>2. d = IF p >= r THEN p - r ELSE p - r + c
  BY <1>1, ProbeIs
<1>3. q = IF p + 1 < c THEN p + 1 ELSE 0
  BY NextIs
<1>4. q \in 0 .. c - 1
  BY <1>3
<1>5. HM!Probe(q, h, c) = IF q >= r THEN q - r ELSE q - r + c
  BY <1>1, <1>4, ProbeIs
<1>6. d \in 0 .. c - 1
  <2> HIDE DEF d, r
  <2> QED  BY <1>1, <1>2
<1>7. (h + d) % c = p
  <2>1. (h + d) % c = IF r + d < c THEN r + d ELSE r + d - c
    BY <1>1, <1>6, ModPlus
  <2> HIDE DEF d, r
  <2> QED  BY <2>1, <1>1, <1>2
<1>8. HM!Probe(q, h, c) = IF d = c - 1 THEN 0 ELSE d + 1
  <2> HIDE DEF q, r, d
  <2> QED  BY <1>1, <1>2, <1>3, <1>4, <1>5
<1> QED  BY <1>4, <1>6, <1>7, <1>8

\* What an empty slot holds.
NoKey == HM!Null

\* What follows a place and is not at home itself is at most one further from its home.
Nearer(H, c) ==
  \A p \in 0 .. c - 1 : LET q == (p + 1) % c
                        IN H[q] # 0 /\ HM!Probe(q, H[q], c) # 0
                             => H[p] # 0 /\ HM!Probe(p, H[p], c) + 1 >= HM!Probe(q, H[q], c)

\* A table of c slots, in which each key is once, under its hash.
IsTable(H, S, c) ==
  /\ H \in [0 .. c - 1 -> Nat] /\ S \in [0 .. c - 1 -> MapKeys \cup {NoKey}]
  /\ \A p \in 0 .. c - 1 : (H[p] = 0 <=> S[p] = NoKey) /\ (S[p] # NoKey => H[p] = HM!hash(S[p]))
  /\ \A p, q \in 0 .. c - 1 : S[p] # NoKey /\ S[p] = S[q] => p = q
  /\ Nearer(H, c)

\* The slots S of c places hold the keys K.
Holds(S, c, K) == \A k \in MapKeys : k \in K <=> \E p \in 0 .. c - 1 : S[p] = k

\* No hash of a key is EMPTY_HASH, and no key is Null.
LEMMA HashIs == \A k \in MapKeys : HM!hash(k) \in Nat \ {0} /\ k # NoKey
BY HashAssumption DEF HM!hash, HM!EMPTY_HASH, NoKey

\* The least number of a set, in the words of HashMap.
LEMMA HMLeast ==
  ASSUME NEW S \in SUBSET Nat, S # {}
  PROVE  HM!Min(S) \in S /\ \A y \in S : HM!Min(S) <= y
BY LeastIsThere DEF HM!Min, LI!Min

\* Between its home and its place every slot is taken, by elements that are as far
\* from their home as it was there.
LEMMA OnTheWay ==
  ASSUME NEW c \in Nat, c > 1, NEW H, NEW S, IsTable(H, S, c), NEW p \in 0 .. c - 1, H[p] # 0
  PROVE  \A d \in 0 .. HM!Probe(p, H[p], c) :
           LET q == (H[p] + d) % c IN q \in 0 .. c - 1 /\ H[q] # 0 /\ HM!Probe(q, H[q], c) >= d
<1> DEFINE h == H[p]
           far == HM!Probe(p, h, c)
           at(d) == (h + d) % c
           T == {j \in 0 .. far : H[at(far - j)] # 0 /\ HM!Probe(at(far - j), H[at(far - j)], c) >= far - j}
<1>1. h \in Nat /\ H \in [0 .. c - 1 -> Nat] /\ Nearer(H, c)
  BY DEF IsTable
<1>2. far \in 0 .. c - 1 /\ at(far) = p
  BY <1>1, ProbeFacts
<1>3. \A d \in 0 .. c - 1 : at(d) \in 0 .. c - 1 /\ (at(d) + 1) % c = at(d + 1)
  BY <1>1, StepsIs
<1>4. 0 \in T
  <2>1. far - 0 = far
    BY <1>2
  <2> QED  BY <2>1, <1>2
<1> HIDE DEF h, far, at
<1>5. ASSUME NEW j \in 1 .. far, j - 1 \in T PROVE j \in T
  <2> DEFINE d == far - j
  <2>1. d \in 0 .. c - 1 /\ d + 1 \in 0 .. c - 1 /\ far - (j - 1) = d + 1 /\ j \in 0 .. far
    BY <1>2
  <2>2. H[at(d + 1)] # 0 /\ HM!Probe(at(d + 1), H[at(d + 1)], c) >= d + 1
    BY <1>5, <2>1
  <2>3. at(d) \in 0 .. c - 1 /\ (at(d) + 1) % c = at(d + 1) /\ at(d + 1) \in 0 .. c - 1
    BY <2>1, <1>3
  <2>4. HM!Probe(at(d + 1), H[at(d + 1)], c) \in 0 .. c - 1 /\ HM!Probe(at(d), H[at(d)], c) \in 0 .. c - 1
    BY <2>3, <1>1, ProbeFacts
  <2> HIDE DEF d
  <2>5. HM!Probe(at(d + 1), H[at(d + 1)], c) # 0
    BY <2>1, <2>2, <2>4
  <2>6. H[at(d)] # 0 /\ HM!Probe(at(d), H[at(d)], c) + 1 >= HM!Probe(at(d + 1), H[at(d + 1)], c)
    BY <2>2, <2>3, <2>5, <1>1 DEF Nearer
  <2>7. HM!Probe(at(d), H[at(d)], c) >= d
    BY <2>1, <2>2, <2>4, <2>6
  <2> QED  BY <2>1, <2>6, <2>7 DEF d
<1>6. \A j \in 0 .. far : j \in T
  <2> HIDE DEF T
  <2> QED  BY <1>2, <1>4, <1>5, UpTo
<1>7. ASSUME NEW d \in 0 .. far PROVE at(d) \in 0 .. c - 1 /\ H[at(d)] # 0 /\ HM!Probe(at(d), H[at(d)], c) >= d
  <2>1. far - d \in 0 .. far /\ far - (far - d) = d /\ d \in 0 .. c - 1
    BY <1>2
  <2>2. far - d \in T
    BY <2>1, <1>6
  <2> QED  BY <2>1, <2>2, <1>3
<1> QED  BY <1>7 DEF h, far, at

\* The search ends where the key is, or without it.
LEMMA LookupIs ==
  ASSUME NEW x, NEW c \in Nat, c > 1, HM!capacity(x) = c, x.elements = TRUE,
         IsTable(x.hashes, x.slots, c), NEW k \in MapKeys
  PROVE  /\ \A p \in 0 .. c - 1 : x.slots[p] = k => HM!Lookup(x, k) = p
         /\ (\A p \in 0 .. c - 1 : x.slots[p] # k) => HM!Lookup(x, k) = -1
<1> DEFINE H == x.hashes
           S == x.slots
           h == HM!hash(k)
           at(d) == (h + d) % c
           stops == {d \in 0 .. c - 1 : HM!Ends(x, k, d)}
           far == HM!Min(stops)
<1>1. h \in Nat \ {0} /\ k # NoKey
  BY HashIs
<1>2. /\ H \in [0 .. c - 1 -> Nat]
      /\ \A p \in 0 .. c - 1 : S[p] # NoKey => H[p] = HM!hash(S[p])
      /\ \A p, q \in 0 .. c - 1 : S[p] # NoKey /\ S[p] = S[q] => p = q
      /\ \A p \in 0 .. c - 1 : (H[p] = 0 <=> S[p] = NoKey)
  BY DEF IsTable
<1>3. \A d \in 0 .. c - 1 : at(d) \in 0 .. c - 1 /\ HM!Probe(at(d), h, c) = d
  BY <1>1, StepsIs
<1>4. HM!Lookup(x, k) = IF stops # {} /\ S[at(far)] = k /\ H[at(far)] = h THEN at(far) ELSE -1
  BY DEF HM!Lookup
<1>5. stops # {} => far \in stops /\ \A d \in stops : far <= d
  <2>1. stops \in SUBSET Nat
    OBVIOUS
  <2> HIDE DEF stops
  <2> QED  BY <2>1, HMLeast
<1>6. \A d \in 0 .. c - 1 : HM!Ends(x, k, d) <=> \/ H[at(d)] = 0
                                                \/ d > HM!Probe(at(d), H[at(d)], c)
                                                \/ S[at(d)] = k
  BY DEF HM!Ends, HM!EMPTY_HASH
<1>7. ASSUME NEW p \in 0 .. c - 1, S[p] = k PROVE HM!Lookup(x, k) = p
  <2> DEFINE d == HM!Probe(p, h, c)
  <2>1. H[p] = h /\ d \in 0 .. c - 1 /\ at(d) = p
    <3>1. H[p] = h
      BY <1>1, <1>2, <1>7
    <3>2. d \in 0 .. c - 1 /\ at(d) = p
      <4> HIDE DEF h, H, S
      <4> QED  BY <1>1, ProbeFacts
    <3> QED  BY <3>1, <3>2
  <2>2. d \in stops
    BY <2>1, <1>6, <1>7
  <2>3. \A n \in 0 .. d : H[at(n)] # 0 /\ HM!Probe(at(n), H[at(n)], c) >= n
    BY <2>1, <1>1, OnTheWay
  <2>4. far \in stops /\ far \in 0 .. d
    <3>1. far \in stops /\ far <= d
      BY <2>2, <1>5
    <3> HIDE DEF d, far, at
    <3> QED  BY <3>1, <2>1
  <2>5. S[at(far)] = k
    <3>1. far \in 0 .. c - 1 /\ HM!Ends(x, k, far) /\ far <= d
      BY <2>4
    <3>2. H[at(far)] # 0 /\ HM!Probe(at(far), H[at(far)], c) >= far /\ at(far) \in 0 .. c - 1
      BY <2>4, <2>3, <1>3
    <3>3. HM!Probe(at(far), H[at(far)], c) \in 0 .. c - 1
      BY <3>2, <1>2, ProbeFacts
    <3> HIDE DEF far, at, d
    <3> QED  BY <3>1, <3>2, <3>3, <1>6
  <2>6. at(far) = p
    <3>1. far \in 0 .. c - 1
      BY <2>4
    <3> HIDE DEF far, at
    <3> QED  BY <3>1, <2>5, <1>1, <1>2, <1>3, <1>7
  <2> QED  BY <2>1, <2>2, <2>5, <2>6, <1>4
<1>8. ASSUME \A p \in 0 .. c - 1 : S[p] # k PROVE HM!Lookup(x, k) = -1
  <2>1. stops # {} => far \in 0 .. c - 1
    BY <1>5
  <2> HIDE DEF stops, far, at
  <2> QED  BY <2>1, <1>3, <1>4, <1>8
<1> QED  BY <1>7, <1>8

\* A table with the key k, of hash h, put into the slot p, whether one was there or not.
LEMMA TakenIs ==
  ASSUME NEW c \in Nat, c > 1, NEW H, NEW S, IsTable(H, S, c), NEW K, Holds(S, c, K),
         NEW p \in 0 .. c - 1, NEW k \in MapKeys, k \notin K,
         \* who was there was at most as far from home
         H[p] # 0 => HM!Probe(p, H[p], c) < HM!Probe(p, HM!hash(k), c),
         \* and the one before is not too near
         \A q \in 0 .. c - 1 : (q + 1) % c = p /\ HM!Probe(p, HM!hash(k), c) # 0
           => H[q] # 0 /\ HM!Probe(q, H[q], c) + 1 >= HM!Probe(p, HM!hash(k), c)
  PROVE  /\ IsTable([H EXCEPT ![p] = HM!hash(k)], [S EXCEPT ![p] = k], c)
         /\ Holds([S EXCEPT ![p] = k], c, (K \ {S[p]}) \cup {k})
<1> DEFINE h == HM!hash(k)
           G == [H EXCEPT ![p] = h]
           R == [S EXCEPT ![p] = k]
<1>1. /\ H \in [0 .. c - 1 -> Nat] /\ S \in [0 .. c - 1 -> MapKeys \cup {NoKey}]
      /\ \A q \in 0 .. c - 1 : (H[q] = 0 <=> S[q] = NoKey) /\ (S[q] # NoKey => H[q] = HM!hash(S[q]))
      /\ \A q, r \in 0 .. c - 1 : S[q] # NoKey /\ S[q] = S[r] => q = r
      /\ Nearer(H, c)
  BY DEF IsTable
<1>2. h \in Nat \ {0} /\ k # NoKey
  BY HashIs
<1>3. \A q \in 0 .. c - 1 : G[q] = (IF q = p THEN h ELSE H[q]) /\ R[q] = IF q = p THEN k ELSE S[q]
  BY <1>1
<1>4. \A q \in 0 .. c - 1 : S[q] # k
  BY DEF Holds
<1>5. G \in [0 .. c - 1 -> Nat] /\ R \in [0 .. c - 1 -> MapKeys \cup {NoKey}]
  BY <1>1, <1>2
<1>6. Nearer(G, c)
  <2> SUFFICES ASSUME NEW q \in 0 .. c - 1, G[(q + 1) % c] # 0, HM!Probe((q + 1) % c, G[(q + 1) % c], c) # 0
               PROVE  G[q] # 0 /\ HM!Probe(q, G[q], c) + 1 >= HM!Probe((q + 1) % c, G[(q + 1) % c], c)
    BY DEF Nearer
  <2> DEFINE r == (q + 1) % c
  <2>1. r \in 0 .. c - 1 /\ r # q
    BY NextIs
  <2>3. H[r] # 0 /\ HM!Probe(r, H[r], c) # 0 => H[q] # 0 /\ HM!Probe(q, H[q], c) + 1 >= HM!Probe(r, H[r], c)
    BY <1>1 DEF Nearer
  <2>4. r = p /\ HM!Probe(p, h, c) # 0 => H[q] # 0 /\ HM!Probe(q, H[q], c) + 1 >= HM!Probe(p, h, c)
    OBVIOUS
  <2> HIDE DEF G, R, h, r
  <2>5. CASE r = p
    BY <2>1, <2>4, <2>5, <1>3 DEF r
  <2>6. CASE q = p
    <3>1. G[q] = h /\ G[r] = H[r] /\ h # 0
      BY <2>1, <2>6, <1>2, <1>3
    <3>2. H[q] # 0 /\ HM!Probe(q, H[q], c) + 1 >= HM!Probe(r, H[r], c)
      BY <2>3, <3>1 DEF r
    <3>3. HM!Probe(q, H[q], c) < HM!Probe(q, h, c)
      BY <3>2, <2>6 DEF h
    <3>4. HM!Probe(q, H[q], c) \in Int /\ HM!Probe(q, h, c) \in Int /\ HM!Probe(r, H[r], c) \in Int
      <4>1. H[q] \in Nat /\ H[r] \in Nat /\ h \in Nat
        BY <2>1, <1>1, <1>2
      <4>2. /\ HM!Probe(q, H[q], c) \in 0 .. c - 1 /\ HM!Probe(q, h, c) \in 0 .. c - 1
            /\ HM!Probe(r, H[r], c) \in 0 .. c - 1
        BY <4>1, <2>1, ProbeFacts
      <4> QED  BY <4>2
    <3>5. HM!Probe(q, h, c) + 1 >= HM!Probe(r, H[r], c)
      BY ONLY <3>2, <3>3, <3>4
    <3> QED  BY <3>1, <3>5 DEF r
  <2>7. CASE r # p /\ q # p
    BY <2>1, <2>3, <2>7, <1>3 DEF r
  <2> QED  BY <2>5, <2>6, <2>7
<1>7. /\ \A q \in 0 .. c - 1 : (G[q] = 0 <=> R[q] = NoKey) /\ (R[q] # NoKey => G[q] = HM!hash(R[q]))
      /\ \A q, r \in 0 .. c - 1 : R[q] # NoKey /\ R[q] = R[r] => q = r
  <2> HIDE DEF G, R
  <2> QED  BY <1>1, <1>2, <1>3, <1>4
<1>8. IsTable(G, R, c)
  <2> HIDE DEF G, R
  <2> QED  BY <1>5, <1>6, <1>7 DEF IsTable
<1>9. Holds(R, c, (K \ {S[p]}) \cup {k})
  <2> SUFFICES ASSUME NEW i \in MapKeys
               PROVE  i \in (K \ {S[p]}) \cup {k} <=> \E q \in 0 .. c - 1 : R[q] = i
    BY DEF Holds
  <2>1. i \in K <=> \E q \in 0 .. c - 1 : S[q] = i
    BY DEF Holds
  <2>2. i # NoKey
    BY HashIs
  <2> HIDE DEF R, G
  <2>3. CASE i = k
    BY <2>3, <1>3
  <2>4. CASE i # k
    BY <2>1, <2>2, <2>4, <1>1, <1>3
  <2> QED  BY <2>3, <2>4
<1> QED  BY <1>8, <1>9

\* The state of the loop of _insert_with_hash is a record of this form.
IsTurn(t) == t = [hashes |-> t.hashes, slots |-> t.slots, h |-> t.h, e |-> t.e, pos |-> t.pos,
                  distance |-> t.distance, done |-> t.done]

\* What a turn of the loop of _insert_with_hash does: end, take the place of another, or go on.
LEMMA TurnIs ==
  ASSUME NEW t, IsTurn(t), NEW c \in Nat, c > 1, t.pos \in 0 .. c - 1, t.done = FALSE
  PROVE  LET u == HM!Turn(t, c)
             p == t.pos
             G == [t.hashes EXCEPT ![p] = t.h]
             R == [t.slots EXCEPT ![p] = t.e]
         IN /\ IsTurn(u)
            /\ t.hashes[p] = 0 => u.done = TRUE /\ u.hashes = G /\ u.slots = R
            /\ t.hashes[p] # 0 =>
                 /\ u.done = FALSE /\ u.pos = (p + 1) % c
                 /\ HM!Probe(p, t.hashes[p], c) < t.distance =>
                      /\ u.hashes = G /\ u.slots = R /\ u.h = t.hashes[p] /\ u.e = t.slots[p]
                      /\ u.distance = HM!Probe(p, t.hashes[p], c) + 1
                 /\ ~(HM!Probe(p, t.hashes[p], c) < t.distance) =>
                      /\ u.hashes = t.hashes /\ u.slots = t.slots /\ u.h = t.h /\ u.e = t.e
                      /\ u.distance = t.distance + 1
<1> DEFINE u == HM!Turn(t, c)
           p == t.pos
           G == [t.hashes EXCEPT ![p] = t.h]
           R == [t.slots EXCEPT ![p] = t.e]
           there == HM!Probe(p, t.hashes[p], c)
           taken == [t EXCEPT !.hashes[p] = t.h, !.slots[p] = t.e]
<1>1. u = IF t.hashes[p] = 0 THEN [taken EXCEPT !.done = TRUE]
          ELSE IF there < t.distance
            THEN [taken EXCEPT !.h = t.hashes[p], !.e = t.slots[p], !.pos = (p + 1) % c, !.distance = there + 1]
          ELSE [t EXCEPT !.pos = (p + 1) % c, !.distance = t.distance + 1]
  BY DEF HM!Turn, HM!EMPTY_HASH
<1>2. taken = [hashes |-> G, slots |-> R, h |-> t.h, e |-> t.e, pos |-> p, distance |-> t.distance, done |-> FALSE]
  <2>1. PICK hashes, slots, h, e, pos, distance :
          t = [hashes |-> hashes, slots |-> slots, h |-> h, e |-> e, pos |-> pos, distance |-> distance,
               done |-> FALSE]
    BY DEF IsTurn
  <2>2. taken = [t EXCEPT !.hashes = G, !.slots = R]
    OBVIOUS
  <2> HIDE DEF G, R, taken
  <2> QED  BY <2>1, <2>2
<1> HIDE DEF u, G, R, there, taken, p
<1>3. CASE t.hashes[p] = 0
  <2>1. u = [hashes |-> G, slots |-> R, h |-> t.h, e |-> t.e, pos |-> p, distance |-> t.distance, done |-> TRUE]
    BY <1>1, <1>2, <1>3
  <2> QED  BY <2>1, <1>3 DEF IsTurn, u, p, G, R
<1>4. CASE t.hashes[p] # 0 /\ there < t.distance
  <2>1. u = [hashes |-> G, slots |-> R, h |-> t.hashes[p], e |-> t.slots[p], pos |-> (p + 1) % c,
             distance |-> there + 1, done |-> FALSE]
    BY <1>1, <1>2, <1>4
  <2> QED  BY <2>1, <1>4 DEF IsTurn, u, p, G, R, there
<1>5. CASE t.hashes[p] # 0 /\ ~(there < t.distance)
  <2>1. u = [hashes |-> t.hashes, slots |-> t.slots, h |-> t.h, e |-> t.e, pos |-> (p + 1) % c,
             distance |-> t.distance + 1, done |-> FALSE]
    BY <1>1, <1>5 DEF IsTurn
  <2> QED  BY <2>1, <1>5 DEF IsTurn, u, p, there
<1> QED  BY <1>3, <1>4, <1>5 DEF there, p

\* The newcomer k has been put into the table (H, S), which held K, or is on its way
\* after i turns, or made another go on that way.
Under(t, i, H, K, k, c) ==
  /\ IsTurn(t) /\ t.done \in BOOLEAN
  /\ t.done => IsTable(t.hashes, t.slots, c) /\ Holds(t.slots, c, K \cup {k})
  /\ ~t.done =>
       /\ t.e \in MapKeys /\ t.e \in K \cup {k} /\ t.h = HM!hash(t.e)
       /\ IsTable(t.hashes, t.slots, c) /\ Holds(t.slots, c, (K \cup {k}) \ {t.e})
       /\ t.pos = (HM!hash(k) + i) % c
       /\ t.distance \in 0 .. i
       /\ i < c => t.distance = HM!Probe(t.pos, t.h, c)
       /\ \A q \in 0 .. c - 1 : (q + 1) % c = t.pos /\ t.distance # 0
            => t.hashes[q] # 0 /\ HM!Probe(q, t.hashes[q], c) + 1 >= t.distance
       /\ \A q \in 0 .. c - 1 : t.hashes[q] = 0 <=> H[q] = 0
       /\ \A j \in 0 .. i - 1 : H[(HM!hash(k) + j) % c] # 0

\* A turn of the loop of _insert_with_hash leaves a table that the next turn may begin with.
LEMMA UnderStep ==
  ASSUME NEW c \in Nat, c > 1, NEW H, NEW K, NEW k \in MapKeys, NEW i \in 0 .. c - 1,
         NEW t, Under(t, i, H, K, k, c)
  PROVE  Under(HM!Turn(t, c), i + 1, H, K, k, c)
<1> DEFINE u == HM!Turn(t, c)
           p == t.pos
           h0 == HM!hash(k)
           there == HM!Probe(p, t.hashes[p], c)
           G == [t.hashes EXCEPT ![p] = t.h]
           R == [t.slots EXCEPT ![p] = t.e]
<1>1. CASE t.done
  <2>1. u = t
    BY <1>1 DEF HM!Turn
  <2> HIDE DEF u
  <2> QED  BY <2>1, <1>1 DEF Under, u
<1>2. CASE ~t.done
  <2>1. /\ IsTurn(t) /\ t.done = FALSE
        /\ t.e \in MapKeys /\ t.e \in K \cup {k} /\ t.h = HM!hash(t.e)
        /\ IsTable(t.hashes, t.slots, c) /\ Holds(t.slots, c, (K \cup {k}) \ {t.e})
        /\ p = (h0 + i) % c /\ t.distance \in 0 .. i /\ t.distance = HM!Probe(p, t.h, c)
    BY <1>2 DEF Under
  <2>2. /\ \A q \in 0 .. c - 1 : (q + 1) % c = p /\ t.distance # 0
             => t.hashes[q] # 0 /\ HM!Probe(q, t.hashes[q], c) + 1 >= t.distance
        /\ \A q \in 0 .. c - 1 : t.hashes[q] = 0 <=> H[q] = 0
        /\ \A j \in 0 .. i - 1 : H[(h0 + j) % c] # 0
    BY <1>2 DEF Under
  <2>3. h0 \in Nat \ {0} /\ t.h \in Nat \ {0} /\ t.e # NoKey
    BY <2>1, HashIs
  <2>4. p \in 0 .. c - 1 /\ (p + 1) % c = (h0 + (i + 1)) % c /\ (p + 1) % c \in 0 .. c - 1
    <3>1. (h0 + i) % c \in 0 .. c - 1 /\ (((h0 + i) % c) + 1) % c = (h0 + (i + 1)) % c
      <4> HIDE DEF h0
      <4> QED  BY <2>3, StepsIs
    <3>2. p \in 0 .. c - 1
      BY <3>1, <2>1
    <3> HIDE DEF p, h0
    <3>3. (p + 1) % c = (h0 + (i + 1)) % c
      BY <3>1, <2>1
    <3> QED  BY <3>2, <3>3, NextIs
  <2>5. /\ t.hashes \in [0 .. c - 1 -> Nat] /\ t.slots \in [0 .. c - 1 -> MapKeys \cup {NoKey}]
        /\ t.hashes[p] \in Nat
        /\ t.hashes[p] # 0 => t.slots[p] \in MapKeys /\ t.hashes[p] = HM!hash(t.slots[p])
        /\ t.hashes[p] = 0 => t.slots[p] = NoKey
    BY <2>1, <2>4 DEF IsTable
  <2>6. there \in 0 .. c - 1 /\ t.distance \in 0 .. c - 1
    <3>1. HM!Probe(p, t.hashes[p], c) \in 0 .. c - 1
      <4> HIDE DEF p
      <4> QED  BY <2>4, <2>5, ProbeFacts
    <3>2. HM!Probe(p, t.h, c) \in 0 .. c - 1
      <4> HIDE DEF p
      <4> QED  BY <2>3, <2>4, ProbeFacts
    <3> QED  BY <3>1, <3>2, <2>1
  <2>7. /\ IsTurn(u)
        /\ t.hashes[p] = 0 => u.done = TRUE /\ u.hashes = G /\ u.slots = R
        /\ t.hashes[p] # 0 =>
             /\ u.done = FALSE /\ u.pos = (p + 1) % c
             /\ there < t.distance =>
                  /\ u.hashes = G /\ u.slots = R /\ u.h = t.hashes[p] /\ u.e = t.slots[p]
                  /\ u.distance = there + 1
             /\ ~(there < t.distance) =>
                  /\ u.hashes = t.hashes /\ u.slots = t.slots /\ u.h = t.h /\ u.e = t.e
                  /\ u.distance = t.distance + 1
    BY <2>1, <2>4, TurnIs
  <2>8. t.hashes[p] # 0 => \A j \in 0 .. i : H[(h0 + j) % c] # 0
    <3> SUFFICES ASSUME t.hashes[p] # 0, NEW j \in 0 .. i PROVE H[(h0 + j) % c] # 0
      OBVIOUS
    <3>1. CASE j = i
      BY <3>1, <2>1, <2>2, <2>4
    <3>2. CASE j # i
      <4>1. j \in 0 .. i - 1
        BY <3>2
      <4> QED  BY <4>1, <2>2
    <3> QED  BY <3>1, <3>2
  <2> HIDE DEF u, p, h0
  <2>9. (t.hashes[p] = 0 \/ there < t.distance) =>
          IsTable(G, R, c) /\ Holds(R, c, (((K \cup {k}) \ {t.e}) \ {t.slots[p]}) \cup {t.e})
    <3> DEFINE J == (K \cup {k}) \ {t.e}
    <3> SUFFICES ASSUME t.hashes[p] = 0 \/ there < t.distance
                 PROVE  IsTable(G, R, c) /\ Holds(R, c, (J \ {t.slots[p]}) \cup {t.e})
      OBVIOUS
    <3>1. t.e \notin J /\ Holds(t.slots, c, J)
      BY <2>1
    <3>2. t.hashes[p] # 0 => HM!Probe(p, t.hashes[p], c) < HM!Probe(p, HM!hash(t.e), c)
      BY <2>1
    <3>3. \A q \in 0 .. c - 1 : (q + 1) % c = p /\ HM!Probe(p, HM!hash(t.e), c) # 0
           => t.hashes[q] # 0 /\ HM!Probe(q, t.hashes[q], c) + 1 >= HM!Probe(p, HM!hash(t.e), c)
      BY <2>1, <2>2
    <3> HIDE DEF J
    <3>4. IsTable([t.hashes EXCEPT ![p] = HM!hash(t.e)], R, c) /\ Holds(R, c, (J \ {t.slots[p]}) \cup {t.e})
      BY <2>1, <2>4, <3>1, <3>2, <3>3, TakenIs
    <3> QED  BY <3>4, <2>1
  <2>13. \A q \in 0 .. c - 1 : (q + 1) % c = (p + 1) % c => q = p
    <3>1. \A q \in 0 .. c - 1 : (q + 1) % c = IF q + 1 < c THEN q + 1 ELSE 0
      BY NextIs
    <3>2. (p + 1) % c = IF p + 1 < c THEN p + 1 ELSE 0
      BY <3>1, <2>4
    <3> QED  BY <3>1, <3>2, <2>4
  <2>10. CASE t.hashes[p] = 0
    <3>1. (((K \cup {k}) \ {t.e}) \ {t.slots[p]}) \cup {t.e} = (K \cup {k}) \ {t.slots[p]}
      BY <2>1, <2>3, <2>5, <2>10
    <3>2. Holds(R, c, K \cup {k})
      <4>1. Holds(R, c, (K \cup {k}) \ {NoKey})
        BY <3>1, <2>5, <2>9, <2>10
      <4> QED  BY <4>1, HashIs DEF Holds
    <3> QED  BY <3>2, <2>7, <2>9, <2>10 DEF Under, u
  <2>11. CASE t.hashes[p] # 0 /\ there < t.distance
    <3>1. /\ IsTurn(u) /\ u.done = FALSE /\ u.hashes = G /\ u.slots = R /\ u.h = t.hashes[p]
          /\ u.e = t.slots[p] /\ u.distance = there + 1 /\ u.pos = (p + 1) % c
      BY <2>7, <2>11
    <3>2. u.e \in MapKeys /\ u.h = HM!hash(u.e) /\ \E q \in 0 .. c - 1 : t.slots[q] = u.e
      BY <3>1, <2>4, <2>5, <2>11
    <3>3. u.e \in (K \cup {k}) \ {t.e}
      BY <3>2, <2>1 DEF Holds
    <3>4. (((K \cup {k}) \ {t.e}) \ {t.slots[p]}) \cup {t.e} = (K \cup {k}) \ {u.e}
      BY <3>1, <3>3, <2>1
    <3>5. IsTable(u.hashes, u.slots, c) /\ Holds(u.slots, c, (K \cup {k}) \ {u.e})
      BY <3>1, <3>4, <2>9, <2>11
    <3>6. u.distance \in 0 .. i + 1
      BY <3>1, <2>1, <2>6, <2>11
    <3>7. i + 1 < c => u.distance = HM!Probe(u.pos, u.h, c)
      <4>1. HM!Probe((p + 1) % c, t.hashes[p], c) = IF there = c - 1 THEN 0 ELSE there + 1
        BY <2>4, <2>5, ProbeFacts
      <4> QED  BY <4>1, <3>1, <2>1, <2>6, <2>11
    <3>8. \A q \in 0 .. c - 1 : G[q] = IF q = p THEN t.h ELSE t.hashes[q]
      BY <2>5
    <3>9. \A q \in 0 .. c - 1 : (q + 1) % c = u.pos => q = p
      BY <3>1, <2>13
    <3>10. \A q \in 0 .. c - 1 : (q + 1) % c = u.pos /\ u.distance # 0
             => u.hashes[q] # 0 /\ HM!Probe(q, u.hashes[q], c) + 1 >= u.distance
      <4>1. G[p] = t.h /\ t.h # 0
        BY <3>8, <2>3, <2>4
      <4>2. HM!Probe(p, t.h, c) + 1 >= there + 1
        BY <2>1, <2>6, <2>11
      <4> QED  BY <4>1, <4>2, <3>1, <3>9
    <3>11. \A q \in 0 .. c - 1 : u.hashes[q] = 0 <=> H[q] = 0
      BY <3>1, <3>8, <2>2, <2>3, <2>11
    <3>12. u.pos = (h0 + (i + 1)) % c /\ \A j \in 0 .. (i + 1) - 1 : H[(h0 + j) % c] # 0
      <4>1. (i + 1) - 1 = i
        OBVIOUS
      <4> QED  BY <4>1, <3>1, <2>4, <2>8, <2>11
    <3> QED  BY <3>1, <3>2, <3>3, <3>5, <3>6, <3>7, <3>10, <3>11, <3>12 DEF Under, h0, u
  <2>12. CASE t.hashes[p] # 0 /\ ~(there < t.distance)
    <3>1. /\ IsTurn(u) /\ u.done = FALSE /\ u.hashes = t.hashes /\ u.slots = t.slots /\ u.h = t.h
          /\ u.e = t.e /\ u.distance = t.distance + 1 /\ u.pos = (p + 1) % c
      BY <2>7, <2>12
    <3>2. u.distance \in 0 .. i + 1
      BY <3>1, <2>1, <2>6
    <3>3. i + 1 < c => u.distance = HM!Probe(u.pos, u.h, c)
      <4>1. HM!Probe((p + 1) % c, t.h, c) = IF t.distance = c - 1 THEN 0 ELSE t.distance + 1
        <5>1. HM!Probe((p + 1) % c, t.h, c) = IF HM!Probe(p, t.h, c) = c - 1 THEN 0 ELSE HM!Probe(p, t.h, c) + 1
          BY <2>3, <2>4, ProbeFacts
        <5> QED  BY <5>1, <2>1
      <4> QED  BY <4>1, <3>1, <2>1
    <3>4. \A q \in 0 .. c - 1 : (q + 1) % c = u.pos => q = p
      BY <3>1, <2>13
    <3>5. \A q \in 0 .. c - 1 : (q + 1) % c = u.pos /\ u.distance # 0
             => u.hashes[q] # 0 /\ HM!Probe(q, u.hashes[q], c) + 1 >= u.distance
      <4>1. there + 1 >= t.distance + 1
        BY <2>6, <2>12
      <4> QED  BY <4>1, <3>1, <3>4, <2>12
    <3>6. u.pos = (h0 + (i + 1)) % c /\ \A j \in 0 .. (i + 1) - 1 : H[(h0 + j) % c] # 0
      <4>1. (i + 1) - 1 = i
        OBVIOUS
      <4> QED  BY <4>1, <3>1, <2>4, <2>8, <2>12
    <3> QED  BY <3>1, <3>2, <3>3, <3>5, <3>6, <2>1, <2>2 DEF Under, h0, u
  <2> QED  BY <2>10, <2>11, <2>12 DEF u
<1>3. t.done \in BOOLEAN
  BY DEF Under
<1> QED  BY <1>1, <1>2, <1>3

\* A HashMap is a record of this form.
IsRec(x) == x = [elements |-> x.elements, index |-> x.index, hashes |-> x.hashes, slots |-> x.slots,
                 num |-> x.num, head |-> x.head, tail |-> x.tail, elem |-> x.elem]

\* y is x, but for its table.
SameList(y, x) == /\ IsRec(y) /\ y.elements = x.elements
                  /\ y.head = x.head /\ y.tail = x.tail /\ y.elem = x.elem

\* A key that is not in a table with an empty slot comes in.
LEMMA InsertWithHashIs ==
  ASSUME NEW x, IsRec(x), NEW c \in Nat, c > 1, HM!capacity(x) = c, IsTable(x.hashes, x.slots, c),
         NEW K, Holds(x.slots, c, K), NEW k \in MapKeys, k \notin K,
         \E p \in 0 .. c - 1 : x.hashes[p] = 0
  PROVE  LET y == HM!InsertWithHash(x, HM!hash(k), k)
         IN /\ SameList(y, x) /\ y.index = x.index /\ y.num = x.num + 1
            /\ IsTable(y.hashes, y.slots, c) /\ Holds(y.slots, c, K \cup {k})
<1> DEFINE h == HM!hash(k)
           y == HM!InsertWithHash(x, h, k)
           start == [hashes |-> x.hashes, slots |-> x.slots, h |-> h, e |-> k,
                     pos |-> h % c, distance |-> 0, done |-> FALSE]
           next(u) == HM!Turn(u, c)
           t == CHOOSE t : t = [i \in 0 .. c |-> IF i = 0 THEN start ELSE next(t[i - 1])]
<1>1. y = [x EXCEPT !.hashes = t[c].hashes, !.slots = t[c].slots, !.num = @ + 1]
  BY DEF HM!InsertWithHash
<1>2. t = [i \in 0 .. c |-> IF i = 0 THEN start ELSE next(t[i - 1])]
  <2> DEFINE T == {n \in 0 .. c : \E f : f = [i \in 0 .. n |-> IF i = 0 THEN start ELSE next(f[i - 1])]}
  <2> HIDE DEF next, start
  <2>1. 0 \in T
    <3> DEFINE f == [i \in 0 .. 0 |-> start]
    <3>1. f = [i \in 0 .. 0 |-> IF i = 0 THEN start ELSE next(f[i - 1])]
      OBVIOUS
    <3> HIDE DEF f
    <3> QED  BY <3>1
  <2>2. ASSUME NEW n \in 1 .. c, n - 1 \in T PROVE n \in T
    <3>1. PICK f : f = [i \in 0 .. n - 1 |-> IF i = 0 THEN start ELSE next(f[i - 1])]
      BY <2>2
    <3> DEFINE g == [i \in 0 .. n |-> IF i = n THEN next(f[n - 1]) ELSE f[i]]
    <3>2. \A i \in 0 .. n : g[i] = IF i = 0 THEN start ELSE next(g[i - 1])
      <4> TAKE i \in 0 .. n
      <4>1. CASE i = n
        <5>1. i # 0 /\ n - 1 \in 0 .. n /\ n - 1 # n /\ g[n - 1] = f[n - 1] /\ g[i] = next(f[n - 1])
          BY <4>1
        <5> HIDE DEF g
        <5> QED  BY <5>1, <4>1
      <4>2. CASE i # n
        <5>1. i \in 0 .. n - 1 /\ g[i] = f[i] /\ (i # 0 => i - 1 \in 0 .. n /\ i - 1 # n /\ g[i - 1] = f[i - 1])
          BY <4>2
        <5> HIDE DEF g
        <5> QED  BY <5>1, <3>1
      <4> QED  BY <4>1, <4>2
    <3>3. g = [i \in 0 .. n |-> IF i = 0 THEN start ELSE next(g[i - 1])]
      <4>1. g = [i \in 0 .. n |-> g[i]]
        OBVIOUS
      <4> HIDE DEF g
      <4> QED  BY <3>2, <4>1
    <3> HIDE DEF g
    <3>4. n \in 0 .. c
      OBVIOUS
    <3> QED  BY <3>3, <3>4
  <2> HIDE DEF T
  <2>3. \A i \in 0 .. c : i \in T
    BY <2>1, <2>2, UpTo
  <2>4. c \in 0 .. c
    OBVIOUS
  <2> QED  BY <2>3, <2>4 DEF T
<1> HIDE DEF t
<1>3. t[0] = start /\ \A i \in 1 .. c : t[i] = next(t[i - 1])
  <2> HIDE DEF next, start
  <2>1. 0 \in 0 .. c /\ \A i \in 1 .. c : i \in 0 .. c /\ i # 0
    OBVIOUS
  <2> QED  BY <2>1, <1>2
<1> DEFINE T == {i \in 0 .. c : Under(t[i], i, x.hashes, K, k, c)}
<1>4. h \in Nat \ {0}
  BY HashIs
<1>5. 0 \in T
  <2>1. h % c = (h + 0) % c
    BY <1>4
  <2>2. h % c \in 0 .. c - 1 /\ HM!Probe(h % c, h, c) = 0
    <3>1. 0 \in 0 .. c - 1
      OBVIOUS
    <3>2. (h + 0) % c \in 0 .. c - 1 /\ HM!Probe((h + 0) % c, h, c) = 0
      BY <3>1, <1>4, StepsIs
    <3> HIDE DEF h
    <3> QED  BY <3>2, <2>1
  <2>3. (K \cup {k}) \ {k} = K
    OBVIOUS
  <2>4. /\ IsTurn(start) /\ start.done = FALSE /\ start.e = k /\ start.h = HM!hash(k) /\ start.distance = 0
        /\ start.pos = (HM!hash(k) + 0) % c /\ start.hashes = x.hashes /\ start.slots = x.slots
    BY <2>1 DEF IsTurn
  <2> HIDE DEF start
  <2>5. /\ HM!Probe(start.pos, start.h, c) = 0 /\ k \in K \cup {k}
        /\ IsTable(start.hashes, start.slots, c) /\ Holds(start.slots, c, (K \cup {k}) \ {start.e})
    <3>1. start.pos = h % c /\ start.h = h
      BY <2>1, <2>4
    <3> HIDE DEF h
    <3> QED  BY <3>1, <2>2, <2>3, <2>4
  <2>6. Under(start, 0, x.hashes, K, k, c)
    <3>1. /\ start.distance \in 0 .. 0 /\ start.distance = 0 /\ start.e \in MapKeys /\ start.e \in K \cup {k}
          /\ start.h = HM!hash(start.e) /\ \A q \in 0 .. c - 1 : start.hashes[q] = 0 <=> x.hashes[q] = 0
      BY <2>4, <2>5
    <3>2. \A j \in 0 .. 0 - 1 : x.hashes[(HM!hash(k) + j) % c] # 0
      OBVIOUS
    <3>3. start.distance = HM!Probe(start.pos, start.h, c)
      BY <2>5, <3>1
    <3> QED  BY <3>1, <3>2, <3>3, <2>4, <2>5, ZenonT(30) DEF Under
  <2>7. Under(t[0], 0, x.hashes, K, k, c) /\ 0 \in 0 .. c
    BY <2>6, <1>3
  <2> QED  BY <2>7
<1>6. ASSUME NEW i \in 1 .. c, i - 1 \in T PROVE i \in T
  <2>1. i - 1 \in 0 .. c - 1 /\ (i - 1) + 1 = i /\ i \in 0 .. c
    OBVIOUS
  <2>2. Under(t[i - 1], i - 1, x.hashes, K, k, c)
    BY <1>6
  <2>3. Under(HM!Turn(t[i - 1], c), (i - 1) + 1, x.hashes, K, k, c)
    BY <2>1, <2>2, UnderStep
  <2> QED  BY <2>1, <2>3, <1>3
<1>7. Under(t[c], c, x.hashes, K, k, c)
  <2> HIDE DEF T
  <2>1. \A i \in 0 .. c : i \in T
    BY <1>5, <1>6, UpTo
  <2> QED  BY <2>1 DEF T
<1>8. t[c].done
  <2> SUFFICES ASSUME ~t[c].done PROVE FALSE
    OBVIOUS
  <2>1. \A j \in 0 .. c - 1 : x.hashes[(h + j) % c] # 0
    BY <1>7 DEF Under
  <2>2. PICK p \in 0 .. c - 1 : x.hashes[p] = 0
    OBVIOUS
  <2>3. HM!Probe(p, h, c) \in 0 .. c - 1 /\ (h + HM!Probe(p, h, c)) % c = p
    <3>1. h \in Nat
      BY <1>4
    <3> HIDE DEF h
    <3> QED  BY <3>1, ProbeFacts
  <2> HIDE DEF h
  <2>4. x.hashes[(h + HM!Probe(p, h, c)) % c] # 0
    BY <2>1, <2>3
  <2> QED  BY <2>2, <2>3, <2>4
<1>9. IsTable(t[c].hashes, t[c].slots, c) /\ Holds(t[c].slots, c, K \cup {k})
  BY <1>7, <1>8 DEF Under
<1>10. /\ SameList(y, x) /\ y.index = x.index /\ y.num = x.num + 1
       /\ y.hashes = t[c].hashes /\ y.slots = t[c].slots
  <2>1. PICK elements, index, hashes, slots, num, head, tail, elem :
          x = [elements |-> elements, index |-> index, hashes |-> hashes, slots |-> slots,
               num |-> num, head |-> head, tail |-> tail, elem |-> elem]
    BY DEF IsRec
  <2> HIDE DEF y
  <2>2. y = [elements |-> elements, index |-> index, hashes |-> t[c].hashes, slots |-> t[c].slots,
             num |-> num + 1, head |-> head, tail |-> tail, elem |-> elem]
    BY <1>1, <2>1
  <2> QED  BY <2>1, <2>2 DEF SameList, IsRec
<1> HIDE DEF t
<1> QED  BY <1>9, <1>10

\* The indices of hash_table_size_primes.
Indices == 0 .. 28

\* The capacities: each is larger than the one before by two at least.
LEMMA CapacitiesAre ==
  /\ \A i \in Indices : HM!CapacityAt(i) \in Nat /\ HM!CapacityAt(i) > 1
  /\ \A i \in 0 .. 27 : HM!CapacityAt(i) + 2 <= HM!CapacityAt(i + 1)
  /\ Len(HM!hash_table_size_primes) = 29
BY SMT DEF HM!CapacityAt, HM!hash_table_size_primes, Indices

\* A larger index of hash_table_size_primes is a larger capacity.
LEMMA CapacitiesGrow ==
  ASSUME NEW i \in Indices, NEW j \in Indices, i < j
  PROVE  HM!CapacityAt(i) + 2 <= HM!CapacityAt(j)
<1> DEFINE n == j - (i + 1)
           T == {k \in 0 .. n : HM!CapacityAt(i) + 2 <= HM!CapacityAt(i + 1 + k)}
<1>1. n \in Nat /\ i + 1 + n = j /\ i \in 0 .. 27
  BY DEF Indices
<1>2. 0 \in T
  <2>1. i + 1 + 0 = i + 1
    BY <1>1
  <2> QED  BY <2>1, <1>1, CapacitiesAre
<1>3. ASSUME NEW k \in 1 .. n, k - 1 \in T PROVE k \in T
  <2>1. i + 1 + (k - 1) \in 0 .. 27 /\ i + 1 + (k - 1) + 1 = i + 1 + k
    BY <1>1 DEF Indices
  <2>2. HM!CapacityAt(i + 1 + (k - 1)) + 2 <= HM!CapacityAt(i + 1 + k)
    BY <2>1, CapacitiesAre
  <2>3. /\ HM!CapacityAt(i) \in Nat /\ HM!CapacityAt(i + 1 + (k - 1)) \in Nat
        /\ HM!CapacityAt(i + 1 + k) \in Nat
    BY <2>1, <1>1, CapacitiesAre DEF Indices
  <2>4. HM!CapacityAt(i) + 2 <= HM!CapacityAt(i + 1 + (k - 1))
    BY <1>3
  <2> QED  BY <2>2, <2>3, <2>4
<1>4. \A k \in 0 .. n : k \in T
  <2> HIDE DEF T, n
  <2> QED  BY <1>1, <1>2, <1>3, UpTo
<1> QED  BY <1>1, <1>4

\* Fewer keys than slots leave a slot empty.
LEMMA RoomIs ==
  ASSUME NEW c \in Nat, NEW H, NEW S, IsTable(H, S, c), NEW K \in SUBSET MapKeys,
         Holds(S, c, K), Cardinality(K) < c
  PROVE  \E p \in 0 .. c - 1 : H[p] = 0
<1> SUFFICES ASSUME \A p \in 0 .. c - 1 : H[p] # 0 PROVE FALSE
  OBVIOUS
<1>1. \A p \in 0 .. c - 1 : S[p] \in MapKeys /\ S[p] # NoKey
  BY DEF IsTable
<1>2. S \in [0 .. c - 1 -> K]
  BY <1>1 DEF IsTable, Holds
<1>3. S \in Injection(0 .. c - 1, K)
  BY <1>1, <1>2 DEF Injection, IsInjective, IsTable
<1>4. IsFiniteSet(K)
  BY HashAssumption, FS_Subset
<1>5. Cardinality(0 .. c - 1) <= Cardinality(K)
  BY <1>3, <1>4, FS_Injection
<1>6. Cardinality(0 .. c - 1) = c
  <2>1. Cardinality(0 .. c - 1) = IF 0 > c - 1 THEN 0 ELSE (c - 1) - 0 + 1
    BY FS_Interval
  <2> QED  BY <2>1
<1>7. Cardinality(K) \in Nat
  BY <1>4, FS_CardinalityType
<1> QED  BY <1>5, <1>6, <1>7

\* A new table is empty and in order.
LEMMA EmptyTableIs ==
  ASSUME NEW c \in Nat, c > 1
  PROVE  LET t == HM!Table(c)
         IN IsTable(t.hashes, t.slots, c) /\ Holds(t.slots, c, {}) /\ \A p \in 0 .. c - 1 : t.hashes[p] = 0
<1> DEFINE t == HM!Table(c)
<1>1. t.hashes = [p \in 0 .. c - 1 |-> 0] /\ t.slots = [p \in 0 .. c - 1 |-> NoKey]
  BY DEF HM!Table, HM!EMPTY_HASH, NoKey
<1> HIDE DEF t
<1>2. \A p \in 0 .. c - 1 : t.hashes[p] = 0 /\ t.slots[p] = NoKey
  BY <1>1
<1>3. Nearer(t.hashes, c)
  <2>1. \A p \in 0 .. c - 1 : (p + 1) % c \in 0 .. c - 1
    BY NextIs
  <2> QED  BY <2>1, <1>2 DEF Nearer
<1>4. IsTable(t.hashes, t.slots, c)
  BY <1>1, <1>2, <1>3 DEF IsTable
<1>5. Holds(t.slots, c, {})
  BY <1>2, HashIs DEF Holds
<1> QED  BY <1>2, <1>4, <1>5 DEF t

\* The allocated table of x holds exactly the keys K, which are counted.
Filled(x, K) ==
  /\ x.index \in Indices /\ IsTable(x.hashes, x.slots, HM!capacity(x))
  /\ K \subseteq MapKeys /\ Holds(x.slots, HM!capacity(x), K) /\ x.num = Cardinality(K)

\* x with another table.
With(x, i, n, H, S) == [x EXCEPT !.index = i, !.num = n, !.hashes = H, !.slots = S]

\* What a table for the same list leaves alone.
LEMMA WithTable ==
  ASSUME NEW x, IsRec(x), NEW i, NEW n, NEW H, NEW S
  PROVE  LET y == With(x, i, n, H, S)
         IN SameList(y, x) /\ y.index = i /\ y.num = n /\ y.hashes = H /\ y.slots = S
<1> DEFINE y == With(x, i, n, H, S)
<1>1. PICK elements, index, hashes, slots, num, head, tail, elem :
        x = [elements |-> elements, index |-> index, hashes |-> hashes, slots |-> slots,
             num |-> num, head |-> head, tail |-> tail, elem |-> elem]
  BY DEF IsRec
<1>2. y = [x EXCEPT !.index = i, !.num = n, !.hashes = H, !.slots = S]
  BY DEF With
<1> HIDE DEF y
<1>3. y = [elements |-> elements, index |-> i, hashes |-> H, slots |-> S,
           num |-> n, head |-> head, tail |-> tail, elem |-> elem]
  BY <1>1, <1>2
<1>4. SameList(y, x) /\ y.index = i /\ y.num = n /\ y.hashes = H /\ y.slots = S
  BY <1>1, <1>3 DEF SameList, IsRec
<1> QED  BY <1>4 DEF y

\* A larger table holds the same keys.
LEMMA ResizedIs ==
  ASSUME NEW x, IsRec(x), NEW K, Filled(x, K), NEW i \in Indices, NEW n, n = (IF i > 2 THEN i ELSE 2),
         Cardinality(K) < HM!CapacityAt(n)
  PROVE  LET y == HM!Resized(x, i) IN SameList(y, x) /\ y.index = n /\ Filled(y, K)
<1> DEFINE y == HM!Resized(x, i)
           c == HM!capacity(x)
           b == HM!CapacityAt(n)
           table == HM!Table(b)
           start == [x EXCEPT !.index = n, !.num = 0, !.hashes = table.hashes, !.slots = table.slots]
           next(u, j) == IF x.hashes[j - 1] = 0 THEN u ELSE HM!InsertWithHash(u, x.hashes[j - 1], x.slots[j - 1])
           t == CHOOSE t : t = [j \in 0 .. c |-> IF j = 0 THEN start ELSE next(t[j - 1], j)]
<1>1. c \in Nat /\ c > 1 /\ n \in Indices /\ b \in Nat /\ b > 1 /\ x.index \in Indices
  BY CapacitiesAre DEF Indices, Filled, HM!capacity
<1>2. HM!Max({HM!MIN_CAPACITY_INDEX, i}) = n
  BY DEF HM!Max, HM!MIN_CAPACITY_INDEX, Indices
<1>3. y = t[c]
  BY <1>2 DEF HM!Resized, HM!EMPTY_HASH
<1>4. t = [j \in 0 .. c |-> IF j = 0 THEN start ELSE next(t[j - 1], j)]
  <2> DEFINE T == {k \in 0 .. c : \E f : f = [j \in 0 .. k |-> IF j = 0 THEN start ELSE next(f[j - 1], j)]}
  <2> HIDE DEF next, start, c
  <2>1. 0 \in T
    <3> DEFINE f == [j \in 0 .. 0 |-> start]
    <3>1. f = [j \in 0 .. 0 |-> IF j = 0 THEN start ELSE next(f[j - 1], j)]
      OBVIOUS
    <3> HIDE DEF f
    <3> QED  BY <3>1, <1>1
  <2>2. ASSUME NEW k \in 1 .. c, k - 1 \in T PROVE k \in T
    <3>1. PICK f : f = [j \in 0 .. k - 1 |-> IF j = 0 THEN start ELSE next(f[j - 1], j)]
      BY <2>2
    <3> DEFINE g == [j \in 0 .. k |-> IF j = k THEN next(f[k - 1], k) ELSE f[j]]
    <3>2. \A j \in 0 .. k : g[j] = IF j = 0 THEN start ELSE next(g[j - 1], j)
      <4> TAKE j \in 0 .. k
      <4>1. CASE j = k
        <5>1. j # 0 /\ k - 1 \in 0 .. k /\ k - 1 # k /\ g[k - 1] = f[k - 1] /\ g[j] = next(f[k - 1], k)
          BY <4>1
        <5> HIDE DEF g
        <5> QED  BY <5>1, <4>1
      <4>2. CASE j # k
        <5>1. j \in 0 .. k - 1 /\ g[j] = f[j] /\ (j # 0 => j - 1 \in 0 .. k /\ j - 1 # k /\ g[j - 1] = f[j - 1])
          BY <4>2
        <5> HIDE DEF g
        <5> QED  BY <5>1, <3>1
      <4> QED  BY <4>1, <4>2
    <3>3. g = [j \in 0 .. k |-> IF j = 0 THEN start ELSE next(g[j - 1], j)]
      <4>1. g = [j \in 0 .. k |-> g[j]]
        OBVIOUS
      <4> HIDE DEF g
      <4> QED  BY <3>2, <4>1
    <3> HIDE DEF g
    <3>4. k \in 0 .. c
      BY <1>1
    <3> QED  BY <3>3, <3>4
  <2> HIDE DEF T
  <2>3. \A j \in 0 .. c : j \in T
    BY <2>1, <2>2, <1>1, UpTo
  <2>4. c \in 0 .. c
    BY <1>1
  <2> QED  BY <2>3, <2>4 DEF T
<1> HIDE DEF t
<1>5. t[0] = start /\ \A j \in 1 .. c : t[j] = next(t[j - 1], j)
  <2> HIDE DEF next, start, c
  <2>1. 0 \in 0 .. c /\ \A j \in 1 .. c : j \in 0 .. c /\ j # 0
    BY <1>1
  <2> QED  BY <2>1, <1>4
<1> DEFINE Kept(j) == {x.slots[p] : p \in 0 .. j - 1} \ {NoKey}
           T == {j \in 0 .. c : SameList(t[j], x) /\ t[j].index = n /\ Filled(t[j], Kept(j))}
<1>6. IsTable(x.hashes, x.slots, c) /\ K \subseteq MapKeys /\ Holds(x.slots, c, K)
  BY DEF Filled
<1>7. 0 \in T
  <2> DEFINE H == table.hashes
             S == table.slots
  <2> HIDE DEF H, S
  <2>1. start = With(x, n, 0, H, S)
    BY DEF H, S, With
  <2> HIDE DEF start
  <2>2. SameList(start, x) /\ start.index = n /\ start.num = 0 /\ start.hashes = H /\ start.slots = S
    BY <2>1, WithTable
  <2>3. SameList(start, x) /\ start.index = n /\ start.num = 0
        /\ start.hashes = table.hashes /\ start.slots = table.slots
    BY <2>2 DEF H, S
  <2> HIDE DEF table, b, c
  <2>4. Kept(0) = {}
    OBVIOUS
  <2>5. IsTable(table.hashes, table.slots, b) /\ Holds(table.slots, b, {})
    BY <1>1, EmptyTableIs DEF table
  <2>6. HM!capacity(start) = b
    BY <2>3 DEF HM!capacity, b
  <2>7. Filled(start, {})
    BY <2>3, <2>5, <2>6, <1>1, FS_EmptySet DEF Filled
  <2> QED  BY <2>3, <2>4, <2>7, <1>1, <1>5
<1>8. ASSUME NEW j \in 1 .. c, j - 1 \in T PROVE j \in T
  <2> DEFINE u == t[j - 1]
             h == x.hashes[j - 1]
             k == x.slots[j - 1]
  <2>1. SameList(u, x) /\ u.index = n /\ Filled(u, Kept(j - 1))
    BY <1>8
  <2>2. j - 1 \in 0 .. c - 1 /\ j \in 0 .. c
    BY <1>1
  <2>3. (h = 0 <=> k = NoKey) /\ (k # NoKey => h = HM!hash(k) /\ k \in MapKeys /\ k \in K)
    BY <2>2, <1>6 DEF IsTable, Holds
  <2>4. t[j] = next(u, j)
    BY <1>5
  <2>5. Kept(j) = Kept(j - 1) \cup ({k} \ {NoKey})
    <3>1. \A p : p \in 0 .. j - 1 <=> p \in 0 .. (j - 1) - 1 \/ p = j - 1
      BY <1>1
    <3> QED  BY <3>1
  <2> HIDE DEF c, u, h, k, Kept
  <2>6. CASE h = 0
    <3>1. t[j] = u /\ Kept(j) = Kept(j - 1)
      BY <2>3, <2>4, <2>5, <2>6 DEF h
    <3> QED  BY <3>1, <2>1, <2>2
  <2>7. CASE h # 0
    <3> DEFINE J == Kept(j - 1)
               v == HM!InsertWithHash(u, HM!hash(k), k)
    <3>1. k # NoKey /\ h = HM!hash(k) /\ k \in MapKeys /\ Kept(j) = J \cup {k} /\ t[j] = v
      BY <2>3, <2>4, <2>5, <2>7 DEF h, k
    <3>2. k \notin J
      <4>1. \A p \in 0 .. (j - 1) - 1 : p \in 0 .. c - 1 /\ p # j - 1
        BY <2>2, <1>1
      <4> QED  BY <4>1, <3>1, <2>2, <1>6 DEF IsTable, k, Kept
    <3>3. J \subseteq K /\ J \subseteq MapKeys
      <4>1. \A p \in 0 .. (j - 1) - 1 : p \in 0 .. c - 1 /\ x.slots[p] \in MapKeys \cup {NoKey}
        BY <2>2, <1>1, <1>6 DEF IsTable
      <4> QED  BY <4>1, <1>6 DEF Holds, Kept
    <3>4. HM!capacity(u) = b /\ IsRec(u) /\ IsTable(u.hashes, u.slots, b) /\ Holds(u.slots, b, J)
          /\ u.num = Cardinality(J)
      BY <2>1 DEF HM!capacity, Filled, SameList
    <3>5. IsFiniteSet(K) /\ IsFiniteSet(J) /\ Cardinality(J) <= Cardinality(K)
          /\ Cardinality(K) \in Nat /\ Cardinality(J) \in Nat
      BY <3>3, <1>6, HashAssumption, FS_Subset, FS_CardinalityType
    <3>6. \E p \in 0 .. b - 1 : u.hashes[p] = 0
      <4>1. Cardinality(J) < b
        BY <3>5, <1>1
      <4> HIDE DEF b, J
      <4> QED  BY <4>1, <3>3, <3>4, <1>1, RoomIs
    <3> HIDE DEF J, v, b
    <3>7. /\ SameList(v, u) /\ v.index = u.index /\ v.num = u.num + 1
          /\ IsTable(v.hashes, v.slots, b) /\ Holds(v.slots, b, J \cup {k})
      BY <3>1, <3>2, <3>4, <3>6, <1>1, InsertWithHashIs DEF v
    <3>8. SameList(v, x) /\ v.index = n /\ HM!capacity(v) = b
      BY <3>7, <2>1 DEF SameList, HM!capacity, b
    <3>9. v.num = Cardinality(J \cup {k})
      BY <3>2, <3>4, <3>5, <3>7, FS_AddElement
    <3>10. Filled(v, J \cup {k})
      BY <3>1, <3>3, <3>7, <3>8, <3>9, <1>1 DEF Filled
    <3> QED  BY <3>1, <3>8, <3>10, <2>2 DEF c
  <2> QED  BY <2>6, <2>7
<1>9. c \in T
  <2> HIDE DEF T, c
  <2>1. \A j \in 0 .. c : j \in T
    BY <1>1, <1>7, <1>8, UpTo
  <2> QED  BY <2>1, <1>1
<1>10. Kept(c) = K
  <2>1. \A k \in MapKeys : k \in K <=> \E p \in 0 .. c - 1 : x.slots[p] = k
    BY <1>6 DEF Holds
  <2>2. \A p \in 0 .. c - 1 : x.slots[p] \in MapKeys \cup {NoKey}
    BY <1>6 DEF IsTable
  <2> HIDE DEF c
  <2> QED  BY <2>1, <2>2, <1>6, HashIs
<1> QED  BY <1>3, <1>9, <1>10

\* What a pointer leads to.
Places == MapKeys \cup {NoKey}
\* What any key may hold.
AnyValue == UNION {ValuesOf[k] : k \in MapKeys}
\* An element of the list.
Entry == [next : Places, prev : Places, value : AnyValue]

\* The keys s, no key twice.
IsOrder(s) == s \in Seq(MapKeys) /\ \A i, j \in 1 .. Len(s) : s[i] = s[j] => i = j
\* The keys of a sequence.
KeysIn(s) == {s[i] : i \in 1 .. Len(s)}

\* The list of x leads through the keys s and no others.
Threaded(x, s) ==
  /\ IsOrder(s) /\ x.head = At(s, 1) /\ x.tail = At(s, Len(s))
  /\ x.elem \in [KeysIn(s) -> Entry]
  /\ \A i \in 1 .. Len(s) : /\ x.elem[s[i]].prev = At(s, i - 1) /\ x.elem[s[i]].next = At(s, i + 1)
                            /\ x.elem[s[i]].value \in ValuesOf[s[i]]

\* y is x, but for its list.
SameSlots(y, x) == /\ IsRec(y) /\ y.elements = x.elements /\ y.index = x.index
                   /\ y.hashes = x.hashes /\ y.slots = x.slots /\ y.num = x.num

\* x with another list.
WithList(x, g, a, b) == [x EXCEPT !.elem = g, !.head = a, !.tail = b]

\* What another list for the same table leaves alone.
LEMMA WithListIs ==
  ASSUME NEW x, IsRec(x), NEW g, NEW a, NEW b
  PROVE  LET y == WithList(x, g, a, b)
         IN SameSlots(y, x) /\ y.elem = g /\ y.head = a /\ y.tail = b
<1> DEFINE y == WithList(x, g, a, b)
<1>1. PICK elements, index, hashes, slots, num, head, tail, elem :
        x = [elements |-> elements, index |-> index, hashes |-> hashes, slots |-> slots,
             num |-> num, head |-> head, tail |-> tail, elem |-> elem]
  BY DEF IsRec
<1>2. y = [x EXCEPT !.elem = g, !.head = a, !.tail = b]
  BY DEF WithList
<1> HIDE DEF y
<1>3. y = [elements |-> elements, index |-> index, hashes |-> hashes, slots |-> slots,
           num |-> num, head |-> a, tail |-> b, elem |-> g]
  BY <1>1, <1>2
<1>4. SameSlots(y, x) /\ y.elem = g /\ y.head = a /\ y.tail = b
  BY <1>1, <1>3 DEF SameSlots, IsRec
<1> QED  BY <1>4 DEF y

\* The keys of a sequence with one more, and with one less.
LEMMA MoreKeys ==
  ASSUME NEW s, IsOrder(s), NEW i \in 1 .. Len(s) + 1, NEW k \in MapKeys, k \notin KeysIn(s)
  PROVE  LET t == More(s, i, k)
         IN /\ IsOrder(t) /\ KeysIn(t) = KeysIn(s) \cup {k} /\ Len(t) = Len(s) + 1
            /\ \A j \in 0 .. i - 1 : At(t, j) = At(s, j)
            /\ At(t, i) = k
            /\ \A j \in i + 1 .. Len(s) + 2 : At(t, j) = At(s, j - 1)
<1> DEFINE t == More(s, i, k)
           from(j) == IF j < i THEN j ELSE j - 1
           to(j) == IF j < i THEN j ELSE j + 1
<1>1. s \in Seq(MapKeys) /\ Len(s) \in Nat /\ \A p, q \in 1 .. Len(s) : s[p] = s[q] => p = q
  BY DEF IsOrder
<1>2. /\ t \in Seq(MapKeys) /\ Len(t) = Len(s) + 1
      /\ \A j \in 1 .. Len(s) + 1 : t[j] = IF j < i THEN s[j] ELSE IF j = i THEN k ELSE s[j - 1]
  <2>1. IsMore(t, MapKeys, s, i, k)
    BY <1>1, MoreInAWord
  <2> HIDE DEF t
  <2> QED  BY <2>1 DEF IsMore
<1>3. \A j \in 1 .. Len(s) : s[j] # k
  BY DEF KeysIn
<1> HIDE DEF t
<1>4. \A j \in 1 .. Len(t) : j # i => from(j) \in 1 .. Len(s) /\ t[j] = s[from(j)]
  BY <1>1, <1>2
<1>5. i \in 1 .. Len(t) /\ t[i] = k
  BY <1>1, <1>2
<1>6. \A j \in 1 .. Len(s) : to(j) \in 1 .. Len(t) /\ t[to(j)] = s[j]
  BY <1>1, <1>2
<1>7. IsOrder(t)
  <2> SUFFICES ASSUME NEW p \in 1 .. Len(t), NEW q \in 1 .. Len(t), t[p] = t[q] PROVE p = q
    BY <1>2 DEF IsOrder
  <2>1. CASE p = i \/ q = i
    <3> HIDE DEF from
    <3> QED  BY <2>1, <1>3, <1>4, <1>5
  <2>2. CASE p # i /\ q # i
    <3>1. from(p) = from(q)
      <4> HIDE DEF from
      <4> QED  BY <2>2, <1>1, <1>4, ZenonT(30)
    <3> QED  BY <3>1, <2>2, <1>1, <1>2
  <2> QED  BY <2>1, <2>2
<1>8. KeysIn(t) = KeysIn(s) \cup {k}
  <2> HIDE DEF from, to
  <2>1. KeysIn(t) \subseteq KeysIn(s) \cup {k}
    BY <1>4, <1>5 DEF KeysIn
  <2>2. KeysIn(s) \cup {k} \subseteq KeysIn(t)
    BY <1>5, <1>6 DEF KeysIn
  <2> QED  BY <2>1, <2>2
<1>9. /\ \A j \in 0 .. i - 1 : At(t, j) = At(s, j)
      /\ At(t, i) = k
      /\ \A j \in i + 1 .. Len(s) + 2 : At(t, j) = At(s, j - 1)
  BY <1>1, <1>2 DEF At
<1> QED  BY <1>2, <1>7, <1>8, <1>9 DEF t

\* A sequence of distinct keys that loses its i-th one.
LEMMA LessKeys ==
  ASSUME NEW s, IsOrder(s), NEW i \in 1 .. Len(s)
  PROVE  LET t == Less(s, i)
         IN /\ IsOrder(t) /\ KeysIn(t) = KeysIn(s) \ {s[i]} /\ Len(t) = Len(s) - 1
            /\ \A j \in 0 .. Len(s) : At(t, j) = IF j < i THEN At(s, j) ELSE At(s, j + 1)
<1> DEFINE t == Less(s, i)
           from(j) == IF j < i THEN j ELSE j + 1
           to(j) == IF j < i THEN j ELSE j - 1
<1>1. s \in Seq(MapKeys) /\ Len(s) \in Nat /\ \A p, q \in 1 .. Len(s) : s[p] = s[q] => p = q
  BY DEF IsOrder
<1>2. /\ t \in Seq(MapKeys) /\ Len(t) = Len(s) - 1
      /\ \A j \in 1 .. Len(s) - 1 : t[j] = IF j < i THEN s[j] ELSE s[j + 1]
  BY <1>1, LessIs
<1> HIDE DEF t
<1>3. \A j \in 1 .. Len(t) : from(j) \in 1 .. Len(s) /\ from(j) # i /\ t[j] = s[from(j)]
  BY <1>1, <1>2
<1>4. \A j \in 1 .. Len(s) : j # i => to(j) \in 1 .. Len(t) /\ t[to(j)] = s[j]
  BY <1>1, <1>2
<1>5. IsOrder(t)
  <2> SUFFICES ASSUME NEW p \in 1 .. Len(t), NEW q \in 1 .. Len(t), t[p] = t[q] PROVE p = q
    BY <1>2 DEF IsOrder
  <2>1. from(p) = from(q)
    <3> HIDE DEF from
    <3> QED  BY <1>1, <1>3, ZenonT(30)
  <2> QED  BY <2>1, <1>1, <1>2
<1>6. KeysIn(t) = KeysIn(s) \ {s[i]}
  <2> HIDE DEF from, to
  <2>1. KeysIn(t) \subseteq KeysIn(s) \ {s[i]}
    BY <1>1, <1>3 DEF KeysIn
  <2>2. KeysIn(s) \ {s[i]} \subseteq KeysIn(t)
    BY <1>1, <1>4 DEF KeysIn
  <2> QED  BY <2>1, <2>2
<1>7. \A j \in 0 .. Len(s) : At(t, j) = IF j < i THEN At(s, j) ELSE At(s, j + 1)
  BY <1>1, <1>2 DEF At
<1> QED  BY <1>2, <1>5, <1>6, <1>7 DEF t

\* k with value v comes into the list as the i-th.
LEMMA ThreadedMore ==
  ASSUME NEW x, NEW s, Threaded(x, s), NEW i \in 1 .. Len(s) + 1, NEW k \in MapKeys, k \notin KeysIn(s),
         NEW v \in ValuesOf[k], NEW y, y.elem \in [KeysIn(s) \cup {k} -> Entry],
         y.elem[k].next = At(s, i), y.elem[k].prev = At(s, i - 1), y.elem[k].value = v,
         \A j \in KeysIn(s) : /\ y.elem[j].next = IF j = At(s, i - 1) THEN k ELSE x.elem[j].next
                              /\ y.elem[j].prev = IF j = At(s, i) THEN k ELSE x.elem[j].prev
                              /\ y.elem[j].value = x.elem[j].value,
         y.head = IF i = 1 THEN k ELSE x.head, y.tail = IF i = Len(s) + 1 THEN k ELSE x.tail
  PROVE  Threaded(y, More(s, i, k))
<1> DEFINE t == More(s, i, k)
<1>1. /\ IsOrder(t) /\ KeysIn(t) = KeysIn(s) \cup {k} /\ Len(t) = Len(s) + 1
      /\ \A j \in 0 .. i - 1 : At(t, j) = At(s, j)
      /\ At(t, i) = k
      /\ \A j \in i + 1 .. Len(s) + 2 : At(t, j) = At(s, j - 1)
  BY MoreKeys DEF Threaded
<1>2. /\ s \in Seq(MapKeys) /\ Len(s) \in Nat /\ \A p, q \in 1 .. Len(s) : s[p] = s[q] => p = q
      /\ x.head = At(s, 1) /\ x.tail = At(s, Len(s))
      /\ \A j \in 1 .. Len(s) : /\ x.elem[s[j]].prev = At(s, j - 1) /\ x.elem[s[j]].next = At(s, j + 1)
                                /\ x.elem[s[j]].value \in ValuesOf[s[j]] /\ s[j] \in KeysIn(s)
  BY DEF Threaded, IsOrder, KeysIn
<1> HIDE DEF t
<1>3. \A p \in 0 .. Len(s) + 1 : \A j \in 1 .. Len(s) : s[j] = At(s, p) <=> p = j
  <2>1. \A j \in 1 .. Len(s) : s[j] \in MapKeys /\ s[j] # Null
    BY <1>2, HashIs DEF NoKey, Null, LI!Null, HM!Null
  <2> QED  BY <1>2, <2>1 DEF At
<1>4. \A j \in 1 .. Len(t) : t[j] = At(t, j)
  BY DEF At
<1>5. y.head = At(t, 1) /\ y.tail = At(t, Len(t))
  <2>1. CASE i = 1
    BY <2>1, <1>1, <1>2
  <2>2. CASE i # 1 
    BY <2>2, <1>1, <1>2
  <2> QED  BY <2>1, <2>2
<1>6. ASSUME NEW j \in 1 .. Len(t)
      PROVE  /\ y.elem[t[j]].prev = At(t, j - 1) /\ y.elem[t[j]].next = At(t, j + 1)
             /\ y.elem[t[j]].value \in ValuesOf[t[j]]
  <2>1. CASE j = i
    <3>1. t[j] = k
      BY <2>1, <1>1, <1>4
    <3>2. At(t, j - 1) = At(s, i - 1) /\ At(t, j + 1) = At(s, i)
      BY <2>1, <1>1, <1>2
    <3> QED  BY <3>1, <3>2
  <2>2. CASE j < i
    <3>1. t[j] = s[j] /\ j \in 1 .. Len(s) /\ s[j] \in KeysIn(s)
      BY <2>2, <1>1, <1>2, <1>4 DEF At
    <3>a. (s[j] = At(s, i - 1) <=> j = i - 1) /\ s[j] # At(s, i)
      BY <3>1, <2>2, <1>3
    <3>2. y.elem[s[j]].prev = At(s, j - 1) /\ y.elem[s[j]].value \in ValuesOf[s[j]]
      BY <3>1, <3>a, <1>2
    <3>3. y.elem[s[j]].next = IF j = i - 1 THEN k ELSE At(s, j + 1)
      BY <3>1, <3>a, <1>2
    <3>4. At(t, j - 1) = At(s, j - 1) /\ At(t, j + 1) = IF j = i - 1 THEN k ELSE At(s, j + 1)
      BY <2>2, <1>1, <1>2
    <3> QED  BY <3>1, <3>2, <3>3, <3>4
  <2>3. CASE j > i
    <3> DEFINE p == j - 1
    <3>1. p \in 1 .. Len(s) /\ p >= i
      BY <2>3, <1>1
    <3>2. t[j] = s[p] /\ s[p] \in KeysIn(s)
      <4>1. At(t, j) = At(s, p)
        BY <2>3, <1>1
      <4> HIDE DEF p
      <4> QED  BY <4>1, <3>1, <1>2, <1>4 DEF At
    <3>a. (s[p] = At(s, i) <=> p = i) /\ s[p] # At(s, i - 1)
      <4> HIDE DEF p
      <4> QED  BY <3>1, <1>2, <1>3, SMTT(30)
    <3>3. y.elem[s[p]].next = At(s, p + 1) /\ y.elem[s[p]].value \in ValuesOf[s[p]]
      <4> HIDE DEF p
      <4> QED  BY <3>1, <3>2, <3>a, <1>2
    <3>4. y.elem[s[p]].prev = IF p = i THEN k ELSE At(s, p - 1)
      <4> HIDE DEF p
      <4> QED  BY <3>1, <3>2, <3>a, <1>2
    <3>5. At(t, j + 1) = At(s, p + 1) /\ At(t, j - 1) = IF p = i THEN k ELSE At(s, p - 1)
      BY <3>1, <2>3, <1>1, <1>2
    <3> QED  BY <3>2, <3>3, <3>4, <3>5
  <2> QED  BY <2>1, <2>2, <2>3, <1>1
<1> QED  BY <1>1, <1>5, <1>6 DEF Threaded, t

\* The i-th goes out of it.
LEMMA ThreadedLess ==
  ASSUME NEW x, NEW s, Threaded(x, s), NEW i \in 1 .. Len(s),
         NEW y, y.elem \in [KeysIn(s) \ {s[i]} -> Entry],
         \A j \in KeysIn(s) \ {s[i]} :
           /\ y.elem[j].next = IF j = At(s, i - 1) THEN At(s, i + 1) ELSE x.elem[j].next
           /\ y.elem[j].prev = IF j = At(s, i + 1) THEN At(s, i - 1) ELSE x.elem[j].prev
           /\ y.elem[j].value = x.elem[j].value,
         y.head = IF i = 1 THEN At(s, 2) ELSE x.head,
         y.tail = IF i = Len(s) THEN At(s, i - 1) ELSE x.tail
  PROVE  Threaded(y, Less(s, i))
<1> DEFINE t == Less(s, i)
<1>1. /\ IsOrder(t) /\ KeysIn(t) = KeysIn(s) \ {s[i]} /\ Len(t) = Len(s) - 1
      /\ \A j \in 0 .. Len(s) : At(t, j) = IF j < i THEN At(s, j) ELSE At(s, j + 1)
  BY LessKeys DEF Threaded
<1>2. /\ s \in Seq(MapKeys) /\ Len(s) \in Nat /\ \A p, q \in 1 .. Len(s) : s[p] = s[q] => p = q
      /\ x.head = At(s, 1) /\ x.tail = At(s, Len(s))
      /\ \A j \in 1 .. Len(s) : /\ x.elem[s[j]].prev = At(s, j - 1) /\ x.elem[s[j]].next = At(s, j + 1)
                                /\ x.elem[s[j]].value \in ValuesOf[s[j]] /\ s[j] \in KeysIn(s)
  BY DEF Threaded, IsOrder, KeysIn
<1> HIDE DEF t
<1>3. \A p \in 0 .. Len(s) + 1 : \A j \in 1 .. Len(s) : s[j] = At(s, p) <=> p = j
  <2>1. \A j \in 1 .. Len(s) : s[j] \in MapKeys /\ s[j] # Null
    BY <1>2, HashIs DEF NoKey, Null, LI!Null, HM!Null
  <2> QED  BY <1>2, <2>1 DEF At
<1>4. \A j \in 1 .. Len(t) : t[j] = At(t, j)
  BY DEF At
<1>5. y.head = At(t, 1) /\ y.tail = At(t, Len(t))
  BY <1>1, <1>2
<1>6. ASSUME NEW j \in 1 .. Len(t)
      PROVE  /\ y.elem[t[j]].prev = At(t, j - 1) /\ y.elem[t[j]].next = At(t, j + 1)
             /\ y.elem[t[j]].value \in ValuesOf[t[j]]
  <2> DEFINE p == IF j < i THEN j ELSE j + 1
  <2>1. p \in 1 .. Len(s) /\ p # i /\ t[j] = s[p] /\ s[p] \in KeysIn(s) \ {s[i]}
    BY <1>1, <1>2, <1>4 DEF At
  <2>a. (s[p] = At(s, i - 1) <=> p = i - 1) /\ (s[p] = At(s, i + 1) <=> p = i + 1)
    <3> HIDE DEF p
    <3>1. i - 1 \in 0 .. Len(s) + 1 /\ i + 1 \in 0 .. Len(s) + 1
      BY <1>2
    <3>2. p \in 1 .. Len(s)
      BY <2>1
    <3>3. (s[p] = At(s, i - 1) <=> i - 1 = p) /\ (s[p] = At(s, i + 1) <=> i + 1 = p)
      BY <3>1, <3>2, <1>3
    <3> QED  BY <3>3
  <2>2. y.elem[s[p]].next = IF p = i - 1 THEN At(s, i + 1) ELSE At(s, p + 1)
    <3> HIDE DEF p
    <3> QED  BY <2>1, <2>a, <1>2
  <2>3. y.elem[s[p]].prev = IF p = i + 1 THEN At(s, i - 1) ELSE At(s, p - 1)
    <3> HIDE DEF p
    <3> QED  BY <2>1, <2>a, <1>2
  <2>4. y.elem[s[p]].value \in ValuesOf[s[p]]
    <3> HIDE DEF p
    <3> QED  BY <2>1, <1>2
  <2>5. At(t, j - 1) = (IF p = i + 1 THEN At(s, i - 1) ELSE At(s, p - 1))
        /\ At(t, j + 1) = (IF p = i - 1 THEN At(s, i + 1) ELSE At(s, p + 1))
    BY <2>1, <1>1, <1>2
  <2> QED  BY <2>1, <2>2, <2>3, <2>4, <2>5
<1> QED  BY <1>1, <1>5, <1>6 DEF Threaded, t

\* The Null of a HashMap is that of a List, and no key is it.
LEMMA NullIs == HM!Null = Null /\ NoKey = Null /\ Null \notin MapKeys
BY HashIs DEF NoKey, Null, LI!Null, HM!Null

\* What stands between the ends of a list.
LEMMA EndsAre ==
  ASSUME NEW x, NEW s, Threaded(x, s)
  PROVE  /\ \A i \in 0 .. Len(s) + 1 : At(s, i) \in Places
         /\ x.head \in Places /\ x.tail \in Places /\ Len(s) \in Nat /\ s \in Seq(MapKeys)
         /\ KeysIn(s) \subseteq MapKeys
         /\ (x.head = Null <=> Len(s) = 0) /\ (x.tail = Null <=> Len(s) = 0)
         /\ \A i \in 1 .. Len(s) : At(s, i) = s[i] /\ s[i] \in KeysIn(s)
<1>1. s \in Seq(MapKeys) /\ Len(s) \in Nat /\ x.head = At(s, 1) /\ x.tail = At(s, Len(s))
  BY DEF Threaded, IsOrder
<1>2. \A i \in 0 .. Len(s) + 1 : At(s, i) \in Places
  BY <1>1, NullIs DEF At, Places
<1>3. \A i \in 1 .. Len(s) : At(s, i) = s[i] /\ s[i] \in KeysIn(s) /\ s[i] \in MapKeys
  BY <1>1 DEF At, KeysIn
<1>4. KeysIn(s) \subseteq MapKeys
  BY <1>1 DEF KeysIn
<1>5. (x.head = Null <=> Len(s) = 0) /\ (x.tail = Null <=> Len(s) = 0)
  BY <1>1, <1>3, NullIs DEF At
<1> QED  BY <1>1, <1>2, <1>3, <1>4, <1>5

\* y and x have the same values for the keys K.
SameValues(y, x, K) == \A j \in K : y.elem[j].value = x.elem[j].value

\* _insert puts an element in front of all others or behind them.
LEMMA LinkedIs ==
  ASSUME NEW x, IsRec(x), NEW s, Threaded(x, s), NEW k \in MapKeys, k \notin KeysIn(s),
         NEW v \in ValuesOf[k], NEW front \in BOOLEAN
  PROVE  LET y == HM!Linked(x, k, v, front)
         IN /\ SameSlots(y, x) /\ Threaded(y, More(s, IF front THEN 1 ELSE Len(s) + 1, k))
            /\ y.elem[k].value = v /\ SameValues(y, x, KeysIn(s))
<1> DEFINE y == HM!Linked(x, k, v, front)
           i == IF front THEN 1 ELSE Len(s) + 1
           new == [next |-> IF front THEN x.head ELSE HM!Null,
                   prev |-> IF front THEN HM!Null ELSE x.tail, value |-> v]
           g == [j \in DOMAIN x.elem \cup {k} |->
                   IF j = k THEN new
                   ELSE IF front /\ j = x.head THEN [x.elem[j] EXCEPT !.prev = k]
                   ELSE IF ~front /\ j = x.tail THEN [x.elem[j] EXCEPT !.next = k]
                   ELSE x.elem[j]]
           a == IF front \/ x.head = HM!Null THEN k ELSE x.head
           b == IF ~front \/ x.tail = HM!Null THEN k ELSE x.tail
<1>1. y = WithList(x, g, a, b)
  BY DEF HM!Linked, WithList
<1> HIDE DEF y, a, b, g
<1>2. SameSlots(y, x) /\ y.elem = g /\ y.head = a /\ y.tail = b
  BY <1>1, WithListIs
<1>3. /\ x.head \in Places /\ x.tail \in Places /\ Len(s) \in Nat /\ KeysIn(s) \subseteq MapKeys
      /\ (x.head = Null <=> Len(s) = 0) /\ (x.tail = Null <=> Len(s) = 0)
      /\ x.head = At(s, 1) /\ x.tail = At(s, Len(s)) /\ x.elem \in [KeysIn(s) -> Entry]
  BY EndsAre DEF Threaded
<1>4. v \in AnyValue
  BY DEF AnyValue
<1>5. i \in 1 .. Len(s) + 1
  BY <1>3
<1>6. At(s, i) = (IF front THEN x.head ELSE Null) /\ At(s, i - 1) = (IF front THEN Null ELSE x.tail)
  <2>1. At(s, 0) = Null /\ At(s, Len(s) + 1) = Null
    BY <1>3 DEF At
  <2>2. Len(s) + 1 - 1 = Len(s) /\ 1 - 1 = 0
    BY <1>3
  <2> QED  BY <2>1, <2>2, <1>3
<1>7. new \in Entry /\ new.next = At(s, i) /\ new.prev = At(s, i - 1) /\ new.value = v
  <2>1. HM!Null = Null /\ HM!Null \in Places
    BY NullIs DEF Places
  <2> HIDE DEF i
  <2> QED  BY <2>1, <1>3, <1>4, <1>6 DEF Entry
<1> HIDE DEF new, i
<1>8. DOMAIN x.elem = KeysIn(s) /\ \A j \in KeysIn(s) : j \in MapKeys /\ j \in Places /\ x.elem[j] \in Entry /\ j # k /\ j # Null
  BY <1>3, NullIs DEF Places
<1>9. ASSUME NEW j \in KeysIn(s)
      PROVE  /\ g[j] \in Entry /\ g[j].value = x.elem[j].value
             /\ g[j].next = IF j = At(s, i - 1) THEN k ELSE x.elem[j].next
             /\ g[j].prev = IF j = At(s, i) THEN k ELSE x.elem[j].prev
  <2>1. x.elem[j] \in Entry /\ j # k /\ j # Null /\ j \in DOMAIN x.elem \cup {k} /\ k \in Places
    BY <1>8 DEF Places
  <2>2. CASE front /\ j = x.head
    <3>1. g[j] = [x.elem[j] EXCEPT !.prev = k]
      BY <2>1, <2>2 DEF g
    <3>2. g[j] \in Entry /\ g[j].value = x.elem[j].value /\ g[j].next = x.elem[j].next /\ g[j].prev = k
      BY <3>1, <2>1 DEF Entry
    <3> QED  BY <3>2, <2>1, <2>2, <1>6
  <2>3. CASE ~front /\ j = x.tail
    <3>1. g[j] = [x.elem[j] EXCEPT !.next = k]
      BY <2>1, <2>3 DEF g
    <3>2. g[j] \in Entry /\ g[j].value = x.elem[j].value /\ g[j].prev = x.elem[j].prev /\ g[j].next = k
      BY <3>1, <2>1 DEF Entry
    <3> QED  BY <3>2, <2>1, <2>3, <1>6
  <2>4. CASE ~(front /\ j = x.head) /\ ~(~front /\ j = x.tail)
    <3>1. g[j] = x.elem[j]
      BY <2>1, <2>4 DEF g
    <3> QED  BY <3>1, <2>1, <2>4, <1>6
  <2> QED  BY <2>2, <2>3, <2>4
<1>10. g[k] = new
  BY DEF g
<1>11. g \in [KeysIn(s) \cup {k} -> Entry]
  <2>1. DOMAIN g = KeysIn(s) \cup {k} /\ g = [j \in DOMAIN g |-> g[j]]
    BY <1>8 DEF g
  <2> QED  BY <2>1, <1>7, <1>9, <1>10
<1>12. a = (IF i = 1 THEN k ELSE x.head) /\ b = (IF i = Len(s) + 1 THEN k ELSE x.tail)
  BY <1>3, NullIs DEF a, b, i
<1>13. Threaded(y, More(s, i, k))
  <2>1. y.elem[k].next = At(s, i) /\ y.elem[k].prev = At(s, i - 1) /\ y.elem[k].value = v
    BY <1>2, <1>7, <1>10
  <2>2. \A j \in KeysIn(s) : /\ y.elem[j].next = IF j = At(s, i - 1) THEN k ELSE x.elem[j].next
                             /\ y.elem[j].prev = IF j = At(s, i) THEN k ELSE x.elem[j].prev
                             /\ y.elem[j].value = x.elem[j].value
    BY <1>2, <1>9
  <2>3. /\ y.head = (IF i = 1 THEN k ELSE x.head) /\ y.tail = (IF i = Len(s) + 1 THEN k ELSE x.tail)
        /\ y.elem \in [KeysIn(s) \cup {k} -> Entry]
    BY <1>2, <1>11, <1>12
  <2> QED  BY <2>1, <2>2, <2>3, <1>5, ThreadedMore, ZenonT(60)
<1>14. y.elem[k].value = v /\ SameValues(y, x, KeysIn(s))
  BY <1>2, <1>7, <1>9, <1>10 DEF SameValues
<1> QED  BY <1>2, <1>13, <1>14 DEF y, i

\* erase takes an element out of the list, wherever it is.
LEMMA UnlinkedIs ==
  ASSUME NEW x, IsRec(x), NEW s, Threaded(x, s), NEW i \in 1 .. Len(s)
  PROVE  LET y == HM!Unlinked(x, s[i])
         IN SameSlots(y, x) /\ Threaded(y, Less(s, i)) /\ SameValues(y, x, KeysIn(s) \ {s[i]})
<1> DEFINE k == s[i]
           y == HM!Unlinked(x, k)
           p == x.elem[k].prev
           n == x.elem[k].next
           g == [j \in DOMAIN x.elem \ {k} |->
                   IF j = p THEN [x.elem[j] EXCEPT !.next = n]
                   ELSE IF j = n THEN [x.elem[j] EXCEPT !.prev = p]
                   ELSE x.elem[j]]
           a == IF x.head = k THEN n ELSE x.head
           b == IF x.tail = k THEN p ELSE x.tail
<1>1. y = WithList(x, g, a, b)
  BY DEF HM!Unlinked, WithList
<1> HIDE DEF y, a, b, g
<1>2. SameSlots(y, x) /\ y.elem = g /\ y.head = a /\ y.tail = b
  BY <1>1, WithListIs
<1>3. /\ s \in Seq(MapKeys) /\ Len(s) \in Nat /\ KeysIn(s) \subseteq MapKeys
      /\ x.head = At(s, 1) /\ x.tail = At(s, Len(s)) /\ x.elem \in [KeysIn(s) -> Entry]
      /\ p = At(s, i - 1) /\ n = At(s, i + 1)
      /\ \A u, w \in 1 .. Len(s) : s[u] = s[w] => u = w
  BY EndsAre DEF Threaded, IsOrder
<1>4. p \in Places /\ n \in Places
  <2>1. i - 1 \in 0 .. Len(s) + 1 /\ i + 1 \in 0 .. Len(s) + 1
    BY <1>3
  <2> QED  BY <2>1, <1>3, EndsAre
<1>5. k \in KeysIn(s) /\ k \in MapKeys
  BY <1>3 DEF KeysIn
<1> HIDE DEF k, p, n
<1>6. p = n => p = Null
  <2>1. CASE i - 1 \in 1 .. Len(s) /\ i + 1 \in 1 .. Len(s)
    <3>1. p = s[i - 1] /\ n = s[i + 1] /\ i - 1 # i + 1
      BY <2>1, <1>3 DEF At
    <3> QED  BY <3>1, <2>1, <1>3
  <2>2. CASE ~(i - 1 \in 1 .. Len(s) /\ i + 1 \in 1 .. Len(s))
    BY <2>2, <1>3 DEF At
  <2> QED  BY <2>1, <2>2
<1>7. DOMAIN x.elem = KeysIn(s) /\ \A j \in KeysIn(s) : j \in MapKeys /\ j \in Places /\ x.elem[j] \in Entry /\ j # Null
  BY <1>3, NullIs DEF Places
<1>8. ASSUME NEW j \in KeysIn(s) \ {k}
      PROVE  /\ g[j] \in Entry /\ g[j].value = x.elem[j].value
             /\ g[j].next = IF j = p THEN n ELSE x.elem[j].next
             /\ g[j].prev = IF j = n THEN p ELSE x.elem[j].prev
  <2>1. x.elem[j] \in Entry /\ j # Null /\ j \in DOMAIN x.elem \ {k}
    BY <1>7
  <2>2. CASE j = p
    <3>1. g[j] = [x.elem[j] EXCEPT !.next = n]
      BY <2>1, <2>2 DEF g
    <3>2. g[j] \in Entry /\ g[j].value = x.elem[j].value /\ g[j].prev = x.elem[j].prev /\ g[j].next = n
      BY <3>1, <2>1, <1>4 DEF Entry
    <3> QED  BY <3>2, <2>1, <2>2, <1>6
  <2>3. CASE j # p /\ j = n
    <3>1. g[j] = [x.elem[j] EXCEPT !.prev = p]
      BY <2>1, <2>3 DEF g
    <3>2. g[j] \in Entry /\ g[j].value = x.elem[j].value /\ g[j].next = x.elem[j].next /\ g[j].prev = p
      BY <3>1, <2>1, <1>4 DEF Entry
    <3> QED  BY <3>2, <2>3
  <2>4. CASE j # p /\ j # n
    <3>1. g[j] = x.elem[j]
      BY <2>1, <2>4 DEF g
    <3> QED  BY <3>1, <2>1, <2>4
  <2> QED  BY <2>2, <2>3, <2>4
<1>9. g \in [KeysIn(s) \ {k} -> Entry]
  <2>1. DOMAIN g = KeysIn(s) \ {k} /\ g = [j \in DOMAIN g |-> g[j]]
    BY <1>7 DEF g
  <2> QED  BY <2>1, <1>8
<1>10. a = (IF i = 1 THEN At(s, 2) ELSE x.head) /\ b = (IF i = Len(s) THEN At(s, i - 1) ELSE x.tail)
  <2>1. At(s, 1) = s[1] /\ At(s, Len(s)) = s[Len(s)]
    BY <1>3 DEF At
  <2>2. (x.head = k <=> i = 1) /\ (x.tail = k <=> i = Len(s))
    BY <2>1, <1>3 DEF k
  <2>3. 1 + 1 = 2
    OBVIOUS
  <2> QED  BY <2>2, <2>3, <1>3 DEF a, b
<1>11. Threaded(y, Less(s, i))
  <2>1. \A j \in KeysIn(s) \ {s[i]} :
          /\ y.elem[j].next = IF j = At(s, i - 1) THEN At(s, i + 1) ELSE x.elem[j].next
          /\ y.elem[j].prev = IF j = At(s, i + 1) THEN At(s, i - 1) ELSE x.elem[j].prev
          /\ y.elem[j].value = x.elem[j].value
    BY <1>2, <1>3, <1>8 DEF k
  <2>2. /\ y.head = (IF i = 1 THEN At(s, 2) ELSE x.head)
        /\ y.tail = (IF i = Len(s) THEN At(s, i - 1) ELSE x.tail)
        /\ y.elem \in [KeysIn(s) \ {s[i]} -> Entry]
    BY <1>2, <1>9, <1>10 DEF k
  <2> QED  BY <2>1, <2>2, ThreadedLess
<1>12. SameValues(y, x, KeysIn(s) \ {k})
  BY <1>2, <1>8 DEF SameValues
<1> QED  BY <1>2, <1>11, <1>12 DEF y, k

\* x with the value v for k.
WithValue(x, k, v) == [x EXCEPT !.elem[k].value = v]

\* Setting the value of a key that is there leaves the list and the slots alone.
LEMMA ValueSetIs ==
  ASSUME NEW x, IsRec(x), NEW s, Threaded(x, s), NEW k \in KeysIn(s), NEW v \in ValuesOf[k]
  PROVE  LET y == WithValue(x, k, v)
         IN SameSlots(y, x) /\ Threaded(y, s) /\ y.elem[k].value = v /\ SameValues(y, x, KeysIn(s) \ {k})
<1> DEFINE y == WithValue(x, k, v)
           g == [x.elem EXCEPT ![k].value = v]
<1>1. PICK elements, index, hashes, slots, num, head, tail, elem :
        x = [elements |-> elements, index |-> index, hashes |-> hashes, slots |-> slots,
             num |-> num, head |-> head, tail |-> tail, elem |-> elem]
  BY DEF IsRec
<1>a. y = [x EXCEPT !.elem[k].value = v]
  BY DEF WithValue
<1> HIDE DEF y
<1>2. y = [elements |-> elements, index |-> index, hashes |-> hashes, slots |-> slots,
           num |-> num, head |-> head, tail |-> tail, elem |-> [elem EXCEPT ![k].value = v]]
  BY <1>1, <1>a
<1>3. y.elem = g /\ y.head = x.head /\ y.tail = x.tail /\ SameSlots(y, x)
  BY <1>1, <1>2 DEF SameSlots, IsRec
<1>4. x.elem \in [KeysIn(s) -> Entry] /\ k \in MapKeys /\ v \in AnyValue
  BY EndsAre DEF Threaded, AnyValue
<1>5. g \in [KeysIn(s) -> Entry]
      /\ \A j \in KeysIn(s) : /\ g[j].next = x.elem[j].next /\ g[j].prev = x.elem[j].prev
                              /\ g[j].value = IF j = k THEN v ELSE x.elem[j].value
  BY <1>4 DEF Entry
<1>6. \A i \in 1 .. Len(s) : s[i] \in KeysIn(s)
  BY DEF KeysIn
<1> HIDE DEF g
<1>7. Threaded(y, s)
  BY <1>3, <1>5, <1>6 DEF Threaded
<1> QED  BY <1>3, <1>5, <1>7 DEF SameValues, y

\* The places from pos on, around the table.
Around(pos, c, d) == (pos + d) % c

\* The places around the table are all of them, each once.
IsAround(pos, c) ==
  /\ Around(pos, c, 0) = pos
  /\ \A d \in 0 .. c - 1 : Around(pos, c, d) \in 0 .. c - 1
  /\ \A d \in 0 .. c - 2 : (Around(pos, c, d) + 1) % c = Around(pos, c, d + 1)
  /\ (Around(pos, c, c - 1) + 1) % c = pos
  /\ \A d, e \in 0 .. c - 1 : Around(pos, c, d) = Around(pos, c, e) => d = e
  /\ \A p \in 0 .. c - 1 : \E d \in 0 .. c - 1 : Around(pos, c, d) = p

\* Going around the table comes to every place once.
LEMMA AroundIs ==
  ASSUME NEW c \in Nat, c > 1, NEW pos \in 0 .. c - 1
  PROVE  IsAround(pos, c)
<1> USE DEF Around
<1> DEFINE at(d) == Around(pos, c, d)
<1>1. c \in Nat \ {0} /\ pos \in Nat
  OBVIOUS
<1>2. \A d \in 0 .. c - 1 : /\ at(d) \in 0 .. c - 1 /\ HM!Probe(at(d), pos, c) = d
                            /\ (at(d) + 1) % c = at(d + 1)
  BY <1>1, StepsIs
<1>3. at(0) = pos /\ at(c) = pos
  <2>1. pos + 0 = c * 0 + pos /\ pos + c = c * 1 + pos
    BY <1>1
  <2>2. (c * 0 + pos) % c = pos /\ (c * 1 + pos) % c = pos
    BY <1>1, ModIs
  <2> QED  BY <2>1, <2>2
<1>4. \A p \in 0 .. c - 1 : HM!Probe(p, pos, c) \in 0 .. c - 1 /\ at(HM!Probe(p, pos, c)) = p
  BY <1>1, ProbeFacts
<1> HIDE DEF at
<1>5. (at(c - 1) + 1) % c = pos
  <2>1. c - 1 \in 0 .. c - 1 /\ (c - 1) + 1 = c
    BY <1>1
  <2> QED  BY <2>1, <1>2, <1>3
<1>6. \A d \in 0 .. c - 2 : (at(d) + 1) % c = at(d + 1)
  BY <1>2
<1>7. \A d, e \in 0 .. c - 1 : at(d) = at(e) => d = e
  BY <1>2, ZenonT(30)
<1>8. \A p \in 0 .. c - 1 : \E d \in 0 .. c - 1 : at(d) = p
  BY <1>4
<1> QED  BY <1>2, <1>3, <1>5, <1>6, <1>7, <1>8 DEF at, IsAround

\* A key is taken out: those that follow and are not at home move up.
LEMMA ShiftedIs ==
  ASSUME NEW x, NEW c \in Nat, c > 1, HM!capacity(x) = c, IsTable(x.hashes, x.slots, c),
         NEW K, Holds(x.slots, c, K), NEW pos \in 0 .. c - 1, x.slots[pos] # NoKey,
         \E p \in 0 .. c - 1 : x.hashes[p] = 0
  PROVE  LET t == HM!Shifted(x, pos)
         IN IsTable(t.hashes, t.slots, c) /\ Holds(t.slots, c, K \ {x.slots[pos]})
<1> DEFINE H == x.hashes
           S == x.slots
           at(d) == Around(pos, c, d)
           stops == {d \in 1 .. c : H[at(d)] = 0 \/ HM!Probe(at(d), H[at(d)], c) = 0}
           stop == HM!Min(stops)
           moved == {at(d) : d \in 0 .. stop - 2}
           up(f, empty) == [i \in DOMAIN f |-> IF i \in moved THEN f[(i + 1) % c]
                                               ELSE IF i = at(stop - 1) THEN empty ELSE f[i]]
           t == HM!Shifted(x, pos)
           I == t.hashes
           U == t.slots
<1>1. I = up(H, 0) /\ U = up(S, NoKey)
  BY DEF HM!Shifted, HM!EMPTY_HASH, NoKey, Around
<1>2. /\ H \in [0 .. c - 1 -> Nat] /\ S \in [0 .. c - 1 -> MapKeys \cup {NoKey}]
      /\ \A p \in 0 .. c - 1 : (H[p] = 0 <=> S[p] = NoKey) /\ (S[p] # NoKey => H[p] = HM!hash(S[p]))
      /\ \A p, q \in 0 .. c - 1 : S[p] # NoKey /\ S[p] = S[q] => p = q
      /\ Nearer(H, c)
  BY DEF IsTable
<1>3. /\ at(0) = pos
      /\ \A d \in 0 .. c - 1 : at(d) \in 0 .. c - 1
      /\ \A d \in 0 .. c - 2 : (at(d) + 1) % c = at(d + 1)
      /\ (at(c - 1) + 1) % c = pos
      /\ \A d, e \in 0 .. c - 1 : at(d) = at(e) => d = e
      /\ \A p \in 0 .. c - 1 : \E d \in 0 .. c - 1 : at(d) = p
  <2>1. IsAround(pos, c)
    BY AroundIs
  <2> HIDE DEF H, S, stops, stop, moved, t, I, U
  <2> QED  BY <2>1 DEF IsAround
<1>a. S[pos] # NoKey /\ H[pos] # 0
  BY <1>2
<1> HIDE DEF H, S, at
<1>4. stop \in 1 .. c - 1 /\ (H[at(stop)] = 0 \/ HM!Probe(at(stop), H[at(stop)], c) = 0)
      /\ \A d \in 1 .. stop - 1 : H[at(d)] # 0 /\ HM!Probe(at(d), H[at(d)], c) # 0
  <2>1. PICK p \in 0 .. c - 1 : H[p] = 0
    BY DEF H
  <2>2. PICK d \in 0 .. c - 1 : at(d) = p
    BY <1>3
  <2>3. d # 0
    BY <1>a, <1>3, <2>1, <2>2
  <2>4. d \in stops /\ d \in 1 .. c - 1
    BY <2>1, <2>2, <2>3
  <2>5. stops \in SUBSET Nat /\ stops # {}
    BY <2>4
  <2> HIDE DEF stops
  <2>6. stop \in stops /\ \A e \in stops : stop <= e
    BY <2>5, HMLeast
  <2>7. stop \in 1 .. c - 1 /\ (H[at(stop)] = 0 \/ HM!Probe(at(stop), H[at(stop)], c) = 0)
    BY <2>4, <2>6 DEF stops
  <2>8. \A e \in 1 .. stop - 1 : e \in 1 .. c /\ ~(stop <= e)
    BY <2>7
  <2>9. \A e \in 1 .. stop - 1 : H[at(e)] # 0 /\ HM!Probe(at(e), H[at(e)], c) # 0
    BY <2>6, <2>8 DEF stops
  <2> QED  BY <2>7, <2>9
<1> HIDE DEF stop, stops
\* What is d places on comes from so many places on.
<1> DEFINE from(d) == IF d <= stop - 2 THEN d + 1 ELSE d
<1>5. ASSUME NEW d \in 0 .. c - 1
      PROVE  /\ d = stop - 1 => I[at(d)] = 0 /\ U[at(d)] = NoKey
             /\ d # stop - 1 => /\ from(d) \in 0 .. c - 1
                                /\ I[at(d)] = H[at(from(d))] /\ U[at(d)] = S[at(from(d))]
  <2>1. at(d) \in DOMAIN H /\ at(d) \in DOMAIN S
    BY <1>2, <1>3
  <2>2. at(d) \in moved <=> d <= stop - 2
    <3>1. \A e \in 0 .. stop - 2 : e \in 0 .. c - 1
      BY <1>4
    <3>2. d <= stop - 2 => d \in 0 .. stop - 2
      BY <1>4
    <3> QED  BY <3>1, <3>2, <1>3, <1>4
  <2>3. at(d) = at(stop - 1) <=> d = stop - 1
    <3>1. stop - 1 \in 0 .. c - 1
      BY <1>4
    <3> QED  BY <3>1, <1>3
  <2> HIDE DEF moved
  <2>4. /\ I[at(d)] = IF at(d) \in moved THEN H[(at(d) + 1) % c] ELSE IF at(d) = at(stop - 1) THEN 0 ELSE H[at(d)]
        /\ U[at(d)] = IF at(d) \in moved THEN S[(at(d) + 1) % c] ELSE IF at(d) = at(stop - 1) THEN NoKey ELSE S[at(d)]
    BY <2>1, <1>1
  <2> HIDE DEF I, U
  <2>5. CASE d <= stop - 2
    <3>1. d \in 0 .. c - 2 /\ from(d) = d + 1 /\ from(d) \in 0 .. c - 1 /\ d # stop - 1
      BY <2>5, <1>4
    <3>2. (at(d) + 1) % c = at(d + 1)
      BY <3>1, <1>3
    <3> QED  BY <3>1, <3>2, <2>2, <2>4, <2>5
  <2>6. CASE d = stop - 1
    BY <2>2, <2>3, <2>4, <2>6, <1>4
  <2>7. CASE d >= stop
    <3>1. from(d) = d /\ d # stop - 1 /\ ~(d <= stop - 2)
      BY <2>7, <1>4
    <3> QED  BY <3>1, <2>2, <2>3, <2>4
  <2> QED  BY <2>5, <2>6, <2>7, <1>4
<1>6. DOMAIN I = 0 .. c - 1 /\ DOMAIN U = 0 .. c - 1 /\ I = [i \in DOMAIN I |-> I[i]] /\ U = [i \in DOMAIN U |-> U[i]]
  BY <1>1, <1>2
<1> HIDE DEF t, I, U, moved
<1>7. \A d, e \in 0 .. c - 1 : d # stop - 1 /\ e # stop - 1 /\ from(d) = from(e) => d = e
  BY <1>4
<1>8. \A d \in 0 .. c - 1 : d # 0 => \E e \in 0 .. c - 1 : e # stop - 1 /\ from(e) = d
  <2> TAKE d \in 0 .. c - 1
  <2>1. CASE d \in 1 .. stop - 1
    <3>1. d - 1 \in 0 .. c - 1 /\ d - 1 # stop - 1 /\ from(d - 1) = d
      BY <2>1, <1>4
    <3> QED  BY <3>1
  <2>2. CASE d >= stop
    <3>1. d # stop - 1 /\ from(d) = d
      BY <2>2, <1>4
    <3> QED  BY <3>1
  <2> QED  BY <2>1, <2>2, <1>4
<1>9. \A d \in 0 .. c - 1 : d # stop - 1 => from(d) # 0
  BY <1>4
<1>10. \A p \in 0 .. c - 1 : /\ I[p] \in Nat /\ U[p] \in MapKeys \cup {NoKey}
                             /\ (I[p] = 0 <=> U[p] = NoKey) /\ (U[p] # NoKey => I[p] = HM!hash(U[p]))
  <2> TAKE p \in 0 .. c - 1
  <2>1. PICK d \in 0 .. c - 1 : at(d) = p
    BY <1>3
  <2> HIDE DEF from
  <2>2. CASE d = stop - 1
    BY <2>1, <2>2, <1>5
  <2>3. CASE d # stop - 1
    <3>1. from(d) \in 0 .. c - 1 /\ I[p] = H[at(from(d))] /\ U[p] = S[at(from(d))] /\ at(from(d)) \in 0 .. c - 1
      BY <2>1, <2>3, <1>3, <1>5
    <3> QED  BY <3>1, <1>2
  <2> QED  BY <2>2, <2>3
<1>11. \A p, q \in 0 .. c - 1 : U[p] # NoKey /\ U[p] = U[q] => p = q
  <2> SUFFICES ASSUME NEW p \in 0 .. c - 1, NEW q \in 0 .. c - 1, U[p] # NoKey, U[p] = U[q] PROVE p = q
    OBVIOUS
  <2>1. PICK d \in 0 .. c - 1 : at(d) = p
    BY <1>3
  <2>2. PICK e \in 0 .. c - 1 : at(e) = q
    BY <1>3
  <2> HIDE DEF from
  <2>3. d # stop - 1 /\ e # stop - 1
    BY <2>1, <2>2, <1>5
  <2>4. /\ U[p] = S[at(from(d))] /\ U[q] = S[at(from(e))] /\ from(d) \in 0 .. c - 1 /\ from(e) \in 0 .. c - 1
        /\ at(from(d)) \in 0 .. c - 1 /\ at(from(e)) \in 0 .. c - 1
    BY <2>1, <2>2, <2>3, <1>3, <1>5
  <2>5. at(from(d)) = at(from(e))
    <3>1. S[at(from(d))] # NoKey /\ S[at(from(d))] = S[at(from(e))]
      BY <2>4
    <3> QED  BY <3>1, <2>4, <1>2, Zenon
  <2>6. from(d) = from(e)
    BY <2>4, <2>5, <1>3
  <2> QED  BY <2>1, <2>2, <2>3, <2>6, <1>7
<1>12. Holds(U, c, K \ {S[pos]})
  <2> SUFFICES ASSUME NEW k \in MapKeys
               PROVE  k \in K \ {S[pos]} <=> \E p \in 0 .. c - 1 : U[p] = k
    BY DEF Holds
  <2>1. k # NoKey /\ (k \in K <=> \E p \in 0 .. c - 1 : S[p] = k)
    BY HashIs DEF Holds, S
  <2> HIDE DEF from
  <2>2. ASSUME k \in K \ {S[pos]} PROVE \E p \in 0 .. c - 1 : U[p] = k
    <3>1. PICK p \in 0 .. c - 1 : S[p] = k
      BY <2>1, <2>2
    <3>2. PICK d \in 0 .. c - 1 : at(d) = p
      BY <1>3
    <3>3. d # 0
      BY <2>2, <3>1, <3>2, <1>3
    <3>4. PICK e \in 0 .. c - 1 : e # stop - 1 /\ from(e) = d
      BY <3>3, <1>8
    <3>5. U[at(e)] = k /\ at(e) \in 0 .. c - 1
      BY <3>1, <3>2, <3>4, <1>3, <1>5
    <3> QED  BY <3>5
  <2>3. ASSUME NEW p \in 0 .. c - 1, U[p] = k PROVE k \in K \ {S[pos]}
    <3>1. PICK d \in 0 .. c - 1 : at(d) = p
      BY <1>3
    <3>2. d # stop - 1
      BY <2>1, <2>3, <3>1, <1>5
    <3>3. from(d) \in 0 .. c - 1 /\ S[at(from(d))] = k /\ at(from(d)) \in 0 .. c - 1
      BY <2>3, <3>1, <3>2, <1>3, <1>5
    <3>4. at(from(d)) # pos
      <4>1. from(d) # 0 /\ 0 \in 0 .. c - 1
        BY <3>2, <1>9
      <4> QED  BY <4>1, <3>3, <1>3
    <3>5. S[pos] # k
      BY <3>3, <3>4, <2>1, <1>2
    <3> QED  BY <3>3, <3>5, <2>1
  <2> QED  BY <2>2, <2>3
<1>13. Nearer(I, c)
  <2> SUFFICES ASSUME NEW p \in 0 .. c - 1, NEW q, q = (p + 1) % c, I[q] # 0, HM!Probe(q, I[q], c) # 0
               PROVE  I[p] # 0 /\ HM!Probe(p, I[p], c) + 1 >= HM!Probe(q, I[q], c)
    BY DEF Nearer
  <2>1. PICK d \in 0 .. c - 1 : at(d) = p
    BY <1>3
  <2> DEFINE e == IF d = c - 1 THEN 0 ELSE d + 1
  <2>2. e \in 0 .. c - 1 /\ q = at(e)
    BY <2>1, <1>3
  \* How far from home is one that has moved up.
  <2>3. ASSUME NEW i \in 0 .. stop - 2
        PROVE  /\ I[at(i)] = H[at(i + 1)] /\ I[at(i)] # 0
               /\ HM!Probe(at(i + 1), H[at(i + 1)], c) = HM!Probe(at(i), I[at(i)], c) + 1
               /\ HM!Probe(at(i), I[at(i)], c) \in Nat
    <3>1. i \in 0 .. c - 2 /\ i + 1 \in 1 .. stop - 1 /\ i + 1 \in 0 .. c - 1 /\ i \in 0 .. c - 1
      BY <1>4
    <3>2. I[at(i)] = H[at(i + 1)] /\ H[at(i + 1)] # 0 /\ HM!Probe(at(i + 1), H[at(i + 1)], c) # 0
      <4>1. from(i) = i + 1 /\ i # stop - 1
        BY <3>1
      <4> QED  BY <4>1, <3>1, <1>4, <1>5
    <3>3. at(i) \in 0 .. c - 1 /\ (at(i) + 1) % c = at(i + 1) /\ H[at(i + 1)] \in Nat
      BY <3>1, <1>2, <1>3
    <3>4. /\ HM!Probe(at(i), H[at(i + 1)], c) \in 0 .. c - 1
          /\ HM!Probe(at(i + 1), H[at(i + 1)], c)
               = IF HM!Probe(at(i), H[at(i + 1)], c) = c - 1 THEN 0
                 ELSE HM!Probe(at(i), H[at(i + 1)], c) + 1
      <4> DEFINE a == at(i)
                 h == H[at(i + 1)]
      <4>1. a \in 0 .. c - 1 /\ h \in Nat /\ (a + 1) % c = at(i + 1)
        BY <3>3
      <4> HIDE DEF a, h
      <4>2. HM!Probe(a, h, c) \in 0 .. c - 1
            /\ HM!Probe((a + 1) % c, h, c) = IF HM!Probe(a, h, c) = c - 1 THEN 0 ELSE HM!Probe(a, h, c) + 1
        BY <4>1, ProbeFacts
      <4> QED  BY <4>1, <4>2 DEF a, h
    <3> QED  BY <3>2, <3>4
  <2>4. \A i \in 0 .. c - 1 : H[at(i)] \in Nat /\ at(i) \in 0 .. c - 1 /\ HM!Probe(at(i), H[at(i)], c) \in 0 .. c - 1
    BY <1>2, <1>3, ProbeFacts
  <2>5. \A i \in 0 .. c - 1 : i >= stop => I[at(i)] = H[at(i)]
    <3> TAKE i \in 0 .. c - 1
    <3> HAVE i >= stop
    <3>1. from(i) = i /\ i # stop - 1
      BY <1>4
    <3> QED  BY <3>1, <1>5
  <2>6. \A i \in 0 .. c - 1 :
          LET j == IF i = c - 1 THEN 0 ELSE i + 1
          IN H[at(j)] # 0 /\ HM!Probe(at(j), H[at(j)], c) # 0
               => H[at(i)] # 0 /\ HM!Probe(at(i), H[at(i)], c) + 1 >= HM!Probe(at(j), H[at(j)], c)
    <3> TAKE i \in 0 .. c - 1
    <3> DEFINE j == IF i = c - 1 THEN 0 ELSE i + 1
    <3>1. at(j) = (at(i) + 1) % c /\ at(i) \in 0 .. c - 1
      BY <1>3
    <3> HIDE DEF j
    <3>2. H[at(j)] # 0 /\ HM!Probe(at(j), H[at(j)], c) # 0
            => H[at(i)] # 0 /\ HM!Probe(at(i), H[at(i)], c) + 1 >= HM!Probe(at(j), H[at(j)], c)
      BY <3>1, <1>2 DEF Nearer
    <3> QED  BY <3>2 DEF j
  <2> HIDE DEF from
  <2>7. CASE d <= stop - 3
    <3>1. d \in 0 .. stop - 2 /\ d + 1 \in 0 .. stop - 2 /\ e = d + 1 /\ d + 1 \in 0 .. c - 1 /\ d + 1 # c - 1
          /\ d + 1 + 1 \in 1 .. stop - 1
      BY <2>7, <1>4
    <3>2. H[at(d + 1 + 1)] # 0 /\ HM!Probe(at(d + 1 + 1), H[at(d + 1 + 1)], c) # 0
      BY <3>1, <1>4
    <3>3. HM!Probe(at(d + 1), H[at(d + 1)], c) + 1 >= HM!Probe(at(d + 1 + 1), H[at(d + 1 + 1)], c)
      BY <3>1, <3>2, <2>6
    <3>4. I[at(d)] # 0 /\ HM!Probe(at(d), I[at(d)], c) \in Nat
          /\ HM!Probe(at(d + 1), H[at(d + 1)], c) = HM!Probe(at(d), I[at(d)], c) + 1
      BY <3>1, <2>3
    <3>5. HM!Probe(at(d + 1), I[at(d + 1)], c) \in Nat
          /\ HM!Probe(at(d + 1 + 1), H[at(d + 1 + 1)], c) = HM!Probe(at(d + 1), I[at(d + 1)], c) + 1
      BY <3>1, <2>3
    <3> QED  BY <3>1, <3>3, <3>4, <3>5, <2>1, <2>2
  <2>8. CASE d = stop - 2
    <3>1. e = stop - 1
      BY <2>8, <1>4
    <3> QED  BY <3>1, <2>2, <1>5
  <2>9. CASE d = stop - 1
    <3>1. e = stop /\ stop \in 0 .. c - 1
      BY <2>9, <1>4
    <3> QED  BY <3>1, <2>2, <2>5, <1>4
  <2>10. CASE d >= stop /\ d # c - 1
    <3>1. e \in 0 .. c - 1 /\ e >= stop /\ e = IF d = c - 1 THEN 0 ELSE d + 1
      BY <2>10, <1>4
    <3>2. I[at(d)] = H[at(d)] /\ I[at(e)] = H[at(e)]
      BY <3>1, <2>5, <2>10
    <3>3. H[at(e)] # 0 /\ HM!Probe(at(e), H[at(e)], c) # 0
            => H[at(d)] # 0 /\ HM!Probe(at(d), H[at(d)], c) + 1 >= HM!Probe(at(e), H[at(e)], c)
      BY <2>6
    <3> HIDE DEF e
    <3> QED  BY <3>2, <3>3, <2>1, <2>2
  <2>11. CASE d >= stop /\ d = c - 1
    <3>1. e = 0 /\ q = at(0)
      BY <2>2, <2>11
    <3>2. CASE stop = 1
      <4>1. 0 \in 0 .. c - 1 /\ 0 = stop - 1
        BY <3>2
      <4> QED  BY <4>1, <3>1, <1>5
    <3>3. CASE stop # 1
      <4>1. 0 \in 0 .. stop - 2 /\ 0 + 1 = 1 /\ 0 \in 0 .. c - 1 /\ 1 \in 1 .. stop - 1 /\ 0 # c - 1
        BY <3>3, <1>4
      <4>2. HM!Probe(at(1), H[at(1)], c) = HM!Probe(at(0), I[at(0)], c) + 1
        BY <4>1, <2>3
      <4>3. H[at(1)] # 0 /\ HM!Probe(at(1), H[at(1)], c) # 0
        BY <4>1, <1>4
      <4>4. H[at(0)] # 0 /\ HM!Probe(at(0), H[at(0)], c) + 1 >= HM!Probe(at(1), H[at(1)], c)
        BY <4>1, <4>3, <2>6
      <4>5. I[at(d)] = H[at(d)]
        BY <2>5, <2>11
      <4>6. H[at(0)] # 0 /\ HM!Probe(at(0), H[at(0)], c) # 0
              => H[at(d)] # 0 /\ HM!Probe(at(d), H[at(d)], c) + 1 >= HM!Probe(at(0), H[at(0)], c)
        BY <2>6, <2>11
      <4>7. HM!Probe(at(0), H[at(0)], c) \in Nat /\ HM!Probe(at(0), I[at(0)], c) \in Nat
            /\ HM!Probe(at(d), H[at(d)], c) \in Nat
        BY <4>1, <2>3, <2>4
      <4>8. HM!Probe(at(0), I[at(0)], c) # 0
        BY <3>1
      <4> QED  BY <3>1, <4>2, <4>4, <4>5, <4>6, <4>7, <4>8, <2>1
    <3> QED  BY <3>2, <3>3
  <2> QED  BY <2>7, <2>8, <2>9, <2>10, <2>11, <1>4
<1>14. IsTable(I, U, c)
  BY <1>6, <1>10, <1>11, <1>13 DEF IsTable
<1> QED  BY <1>12, <1>14 DEF I, U, t, S

\* x is a map with the keys s, in their order.
IsMap(x, s) ==
  /\ IsRec(x) /\ x.elements \in BOOLEAN /\ x.index \in Indices /\ Threaded(x, s) /\ x.num = Len(s)
  /\ x.elements => Filled(x, KeysIn(s)) /\ 4 * x.num <= 3 * HM!capacity(x)
  /\ ~x.elements => Len(s) = 0

\* The capacity of a map, read from its index.
LEMMA CapacityIs ==
  ASSUME NEW x, x.index \in Indices
  PROVE  HM!capacity(x) \in Nat /\ HM!capacity(x) > 1 /\ HM!capacity(x) = HM!CapacityAt(x.index)
BY CapacitiesAre DEF HM!capacity

\* A lookup finds what is there and nothing else.
LEMMA FindsIs ==
  ASSUME NEW x, NEW s, IsMap(x, s), NEW k \in MapKeys
  PROVE  /\ k \notin KeysIn(s) => HM!Lookup(x, k) = -1
         /\ k \in KeysIn(s) => /\ x.elements = TRUE /\ HM!Lookup(x, k) \in 0 .. HM!capacity(x) - 1
                               /\ x.slots[HM!Lookup(x, k)] = k
<1>1. CASE x.elements
  <2> DEFINE c == HM!capacity(x)
  <2>1. c \in Nat /\ c > 1 /\ x.elements = TRUE /\ IsTable(x.hashes, x.slots, c) /\ Holds(x.slots, c, KeysIn(s))
    BY <1>1, CapacityIs DEF IsMap, Filled
  <2>2. k \in KeysIn(s) <=> \E p \in 0 .. c - 1 : x.slots[p] = k
    BY <2>1 DEF Holds
  <2> HIDE DEF c
  <2>3. /\ \A p \in 0 .. c - 1 : x.slots[p] = k => HM!Lookup(x, k) = p
        /\ (\A p \in 0 .. c - 1 : x.slots[p] # k) => HM!Lookup(x, k) = -1
    BY <2>1, LookupIs DEF c
  <2> QED  BY <2>1, <2>2, <2>3 DEF c
<1>2. CASE ~x.elements
  <2>1. KeysIn(s) = {}
    BY <1>2 DEF IsMap, KeysIn
  <2> QED  BY <1>2, <2>1 DEF HM!Lookup
<1> QED  BY <1>1, <1>2 DEF IsMap

\* There is always an empty slot.
LEMMA EmptySlot ==
  ASSUME NEW x, NEW s, IsMap(x, s), x.elements
  PROVE  \E p \in 0 .. HM!capacity(x) - 1 : x.hashes[p] = 0
<1> DEFINE c == HM!capacity(x)
           K == KeysIn(s)
<1>1. /\ IsTable(x.hashes, x.slots, c) /\ K \in SUBSET MapKeys /\ Holds(x.slots, c, K)
      /\ Cardinality(K) = Len(s) /\ 4 * Len(s) <= 3 * c /\ Len(s) \in Nat /\ c \in Nat /\ c > 1
  BY CapacityIs, EndsAre DEF IsMap, Filled
<1>2. Cardinality(K) < c
  BY <1>1
<1> HIDE DEF c, K
<1> QED  BY <1>1, <1>2, RoomIs DEF c

\* x with other slots.
WithSlots(x, e, H, S, n) == [x EXCEPT !.elements = e, !.hashes = H, !.slots = S, !.num = n]

\* What other slots for the same list leave alone.
LEMMA WithSlotsIs ==
  ASSUME NEW x, IsRec(x), NEW e, NEW H, NEW S, NEW n
  PROVE  LET y == WithSlots(x, e, H, S, n)
         IN /\ IsRec(y) /\ y.elements = e /\ y.hashes = H /\ y.slots = S /\ y.num = n
            /\ y.index = x.index /\ y.head = x.head /\ y.tail = x.tail /\ y.elem = x.elem
<1> DEFINE y == WithSlots(x, e, H, S, n)
<1>1. PICK elements, index, hashes, slots, num, head, tail, elem :
        x = [elements |-> elements, index |-> index, hashes |-> hashes, slots |-> slots,
             num |-> num, head |-> head, tail |-> tail, elem |-> elem]
  BY DEF IsRec
<1>2. y = [x EXCEPT !.elements = e, !.hashes = H, !.slots = S, !.num = n]
  BY DEF WithSlots
<1> HIDE DEF y
<1>3. y = [elements |-> e, index |-> index, hashes |-> H, slots |-> S,
           num |-> n, head |-> head, tail |-> tail, elem |-> elem]
  BY <1>1, <1>2
<1>4. /\ IsRec(y) /\ y.elements = e /\ y.hashes = H /\ y.slots = S /\ y.num = n
      /\ y.index = x.index /\ y.head = x.head /\ y.tail = x.tail /\ y.elem = x.elem
  BY <1>1, <1>3 DEF IsRec
<1> QED  BY <1>4 DEF y

\* The table is allocated with the first element.
Allocated(x) ==
  LET t == HM!Table(HM!capacity(x))
  IN IF x.elements THEN x ELSE [x EXCEPT !.elements = TRUE, !.hashes = t.hashes, !.slots = t.slots]

\* Allocating the table of a map changes none of its elements.
LEMMA AllocatedIs ==
  ASSUME NEW x, NEW s, IsMap(x, s)
  PROVE  IsMap(Allocated(x), s) /\ Allocated(x).elements = TRUE /\ Allocated(x).elem = x.elem
<1>1. CASE x.elements
  BY <1>1 DEF Allocated, IsMap
<1>2. CASE ~x.elements
  <2> DEFINE c == HM!capacity(x)
             t == HM!Table(c)
             y == Allocated(x)
             H == t.hashes
             S == t.slots
  <2>1. /\ IsRec(x) /\ x.index \in Indices /\ Threaded(x, s) /\ x.num = 0 /\ Len(s) = 0
        /\ c \in Nat /\ c > 1
    BY <1>2, CapacityIs DEF IsMap
  <2>2. IsTable(H, S, c) /\ Holds(S, c, {})
    <3> HIDE DEF c
    <3> QED  BY <2>1, EmptyTableIs
  <2>3. y = [x EXCEPT !.elements = TRUE, !.hashes = H, !.slots = S]
    BY <1>2 DEF Allocated
  <2> HIDE DEF y, H, S, t, c
  <2>4. /\ IsRec(y) /\ y.elements = TRUE /\ y.hashes = H /\ y.slots = S /\ y.num = 0
        /\ y.index = x.index /\ y.head = x.head /\ y.tail = x.tail /\ y.elem = x.elem
    <3>1. PICK elements, index, hashes, slots, num, head, tail, elem :
            x = [elements |-> elements, index |-> index, hashes |-> hashes, slots |-> slots,
                 num |-> num, head |-> head, tail |-> tail, elem |-> elem]
      BY <2>1 DEF IsRec
    <3>2. y = [elements |-> TRUE, index |-> index, hashes |-> H, slots |-> S,
               num |-> num, head |-> head, tail |-> tail, elem |-> elem]
      BY <2>3, <3>1
    <3> QED  BY <2>1, <3>1, <3>2 DEF IsRec
  <2>5. KeysIn(s) = {}
    BY <2>1 DEF KeysIn
  <2>6. HM!capacity(y) = c
    BY <2>4 DEF HM!capacity, c
  <2>7. Filled(y, KeysIn(s)) /\ 4 * y.num <= 3 * HM!capacity(y)
    BY <2>1, <2>2, <2>4, <2>5, <2>6, FS_EmptySet DEF Filled
  <2>8. Threaded(y, s)
    BY <2>1, <2>4 DEF Threaded
  <2> QED  BY <2>1, <2>4, <2>7, <2>8 DEF IsMap, y
<1> QED  BY <1>1, <1>2

\* One more key than x has fits into a table that grows when it is full.
Grown(x) == IF HM!Full(x) THEN HM!Resized(x, x.index + 1) ELSE x

\* The index that _insert grows to is a larger one, at least MIN_CAPACITY_INDEX.
LEMMA NextIndex ==
  ASSUME NEW i \in Indices
  PROVE  /\ i # 28 => i + 1 \in Indices
         /\ i + 1 \in Indices => LET n == IF i + 1 > 2 THEN i + 1 ELSE 2
                                 IN n \in Indices /\ i < n
BY DEF Indices

\* A quarter of a number, four times, is not more than it.
LEMMA QuarterIs == ASSUME NEW c \in Nat PROVE 4 * (c \div 4) <= c /\ c \div 4 \in Nat
<1>1. c \div 4 \in Nat /\ c % 4 \in 0 .. 3 /\ c = 4 * (c \div 4) + (c % 4)
  BY DivMod
<1> QED  BY <1>1

\* The map that grows in _insert when it has to has room for one key more.
LEMMA GrownIs ==
  ASSUME NEW x, NEW s, IsMap(x, s), x.elements = TRUE, NEW k \in MapKeys, k \notin KeysIn(s)
  PROVE  LET y == Grown(x)
         IN IsMap(y, s) /\ y.elements = TRUE /\ y.elem = x.elem /\ 4 * (y.num + 1) <= 3 * HM!capacity(y)
<1> DEFINE K == KeysIn(s)
           c == HM!capacity(x)
           y == Grown(x)
<1>1. /\ IsRec(x) /\ x.index \in Indices /\ Threaded(x, s) /\ x.num = Len(s) /\ Filled(x, K)
      /\ 4 * x.num <= 3 * c /\ c \in Nat /\ c > 1 /\ c = HM!CapacityAt(x.index)
      /\ Len(s) \in Nat /\ K \subseteq MapKeys /\ Cardinality(K) = Len(s)
  BY CapacityIs, EndsAre DEF IsMap, Filled
<1>2. HM!Full(x) <=> 4 * (x.num + 1) > 3 * c
  BY DEF HM!Full
<1>3. CASE ~HM!Full(x)
  BY <1>1, <1>2, <1>3 DEF Grown
<1>4. CASE HM!Full(x)
  <2>1. y = HM!Resized(x, x.index + 1)
    BY <1>4 DEF Grown
  <2> HIDE DEF y, c
  <2>2. x.index + 1 \in Indices
    <3>1. SUFFICES ASSUME x.index = 28 PROVE FALSE
      BY <1>1, NextIndex
    <3>2. K \cup {k} \subseteq MapKeys /\ Cardinality(K \cup {k}) = Cardinality(K) + 1
      BY <1>1, HashAssumption, FS_Subset, FS_AddElement
    <3>3. Cardinality(K) + 1 <= Cardinality(MapKeys) /\ Cardinality(MapKeys) \in Nat
      BY <3>2, HashAssumption, FS_Subset, FS_CardinalityType
    <3>4. HM!LargestCapacity = c
      <4>1. HM!LargestCapacity = HM!CapacityAt(29 - 1)
        BY CapacitiesAre DEF HM!LargestCapacity
      <4> QED  BY <4>1, <3>1, <1>1
    <3>5. Cardinality(MapKeys) <= 3 * (c \div 4)
      <4>1. Cardinality(MapKeys) <= 3 * (HM!LargestCapacity \div 4)
        BY HashAssumption
      <4> QED  BY <4>1, <3>4, Zenon
    <3>6. 4 * (c \div 4) <= c /\ c \div 4 \in Nat
      BY <1>1, QuarterIs
    <3> QED  BY <1>1, <1>2, <1>4, <3>3, <3>5, <3>6
  <2> DEFINE i == x.index + 1
             n == IF i > 2 THEN i ELSE 2
             b == HM!CapacityAt(n)
  <2>3. n \in Indices /\ x.index < n
    BY <1>1, <2>2, NextIndex
  <2> HIDE DEF i, n, b
  <2>4. c + 2 <= b /\ b \in Nat
    BY <2>3, <1>1, CapacitiesGrow, CapacitiesAre DEF b
  <2>5. Cardinality(K) < b
    BY <2>4, <1>1
  <2>6. SameList(y, x) /\ y.index = n /\ Filled(y, K)
    <3>1. n = IF i > 2 THEN i ELSE 2
      BY DEF n
    <3> HIDE DEF K
    <3> QED  BY <3>1, <2>1, <2>2, <2>5, <1>1, ResizedIs DEF i, b
  <2>7. HM!capacity(y) = b /\ y.num = Len(s)
    BY <2>6, <1>1 DEF HM!capacity, b, Filled
  <2>8. 4 * (y.num + 1) <= 3 * b
    BY <2>4, <2>7, <1>1
  <2>9. Threaded(y, s) /\ IsRec(y) /\ y.elements = x.elements /\ y.elem = x.elem
    BY <2>6, <1>1 DEF SameList, Threaded
  <2>10. 4 * y.num <= 3 * b
    BY <2>4, <2>7, <2>8, <1>1
  <2> QED  BY <2>3, <2>6, <2>7, <2>8, <2>9, <2>10 DEF IsMap, y
<1> QED  BY <1>3, <1>4

\* What is inserted: the value of a key that is there, or a key at an end.
LEMMA MapInsertedIs ==
  ASSUME NEW x, NEW s, IsMap(x, s), NEW k \in MapKeys, NEW v \in ValuesOf[k], NEW front \in BOOLEAN
  PROVE  LET y == HM!Inserted(x, k, v, front)
         IN /\ k \in KeysIn(s) => IsMap(y, s) /\ y.elem[k].value = v /\ SameValues(y, x, KeysIn(s) \ {k})
            /\ k \notin KeysIn(s) => /\ IsMap(y, More(s, IF front THEN 1 ELSE Len(s) + 1, k))
                                     /\ y.elem[k].value = v /\ SameValues(y, x, KeysIn(s))
<1> DEFINE y == HM!Inserted(x, k, v, front)
           z == Allocated(x)
           w == Grown(z)
           u == HM!Linked(w, k, v, front)
           K == KeysIn(s)
           i == IF front THEN 1 ELSE Len(s) + 1
           h == HM!hash(k)
<1>1. y = IF HM!Lookup(z, k) # -1 THEN WithValue(z, k, v) ELSE HM!InsertWithHash(u, h, k)
  BY DEF HM!Inserted, Allocated, Grown, WithValue
<1> HIDE DEF y, z
<1>2. IsMap(z, s) /\ z.elements = TRUE /\ z.elem = x.elem
  BY AllocatedIs DEF z
<1>3. ASSUME k \in K PROVE IsMap(y, s) /\ y.elem[k].value = v /\ SameValues(y, x, K \ {k})
  <2>1. HM!Lookup(z, k) # -1
    <3>1. HM!Lookup(z, k) \in 0 .. HM!capacity(z) - 1
      BY <1>2, <1>3, FindsIs
    <3> QED  BY <3>1
  <2>2. y = WithValue(z, k, v)
    BY <2>1, <1>1
  <2>3. SameSlots(y, z) /\ Threaded(y, s) /\ y.elem[k].value = v /\ SameValues(y, z, K \ {k})
    <3>1. IsRec(z) /\ Threaded(z, s)
      BY <1>2 DEF IsMap
    <3> HIDE DEF w, u, i, h
    <3> QED  BY <3>1, <2>2, <1>3, ValueSetIs
  <2>4. IsMap(y, s)
    BY <2>3, <1>2 DEF IsMap, SameSlots, Filled, HM!capacity
  <2> QED  BY <2>3, <2>4, <1>2 DEF SameValues
<1>4. ASSUME k \notin K PROVE IsMap(y, More(s, i, k)) /\ y.elem[k].value = v /\ SameValues(y, x, K)
  <2>1. HM!Lookup(z, k) = -1
    BY <1>2, <1>4, FindsIs
  <2> HIDE DEF w, u, h
  <2>2. y = HM!InsertWithHash(u, h, k)
    BY <2>1, <1>1
  <2>3. IsMap(w, s) /\ w.elements = TRUE /\ w.elem = z.elem /\ 4 * (w.num + 1) <= 3 * HM!capacity(w)
    BY <1>2, <1>4, GrownIs DEF w
  <2> DEFINE t == More(s, i, k)
  <2>4. SameSlots(u, w) /\ Threaded(u, t) /\ u.elem[k].value = v /\ SameValues(u, w, K)
    BY <2>3, <1>4, LinkedIs DEF u, IsMap
  <2> DEFINE c == HM!capacity(w)
  <2>5. HM!capacity(u) = c /\ c \in Nat /\ c > 1 /\ IsRec(u)
    BY <2>3, <2>4, CapacityIs DEF HM!capacity, SameSlots, IsMap
  <2>6. IsTable(u.hashes, u.slots, c) /\ Holds(u.slots, c, K) /\ \E p \in 0 .. c - 1 : u.hashes[p] = 0
    <3>1. \E p \in 0 .. c - 1 : w.hashes[p] = 0
      BY <2>3, EmptySlot
    <3> QED  BY <3>1, <2>3, <2>4 DEF IsMap, Filled, SameSlots
  <2> HIDE DEF c, t, K
  <2>7. /\ SameList(y, u) /\ y.index = u.index /\ y.num = u.num + 1
        /\ IsTable(y.hashes, y.slots, c) /\ Holds(y.slots, c, K \cup {k})
    BY <2>2, <2>5, <2>6, <1>4, InsertWithHashIs DEF h
  <2>8. Threaded(y, t) /\ y.elem = u.elem /\ y.elements = TRUE /\ y.index = w.index /\ y.num = w.num + 1
        /\ y.index \in Indices /\ IsRec(y) /\ HM!capacity(y) = c
    BY <2>3, <2>4, <2>7 DEF SameList, SameSlots, Threaded, IsMap, HM!capacity, c
  <2>9. i \in 1 .. Len(s) + 1 /\ IsOrder(s) /\ w.num = Len(s)
    BY <2>3, EndsAre DEF IsMap, Threaded
  <2>10. KeysIn(t) = K \cup {k} /\ Len(t) = Len(s) + 1
    <3> HIDE DEF i
    <3> QED  BY <2>9, <1>4, MoreKeys, SMTT(30) DEF t, K
  <2>11. K \subseteq MapKeys /\ IsFiniteSet(K) /\ Cardinality(K \cup {k}) = Cardinality(K) + 1 /\ Cardinality(K) = w.num
    <3>1. K \subseteq MapKeys /\ Cardinality(K) = w.num
      BY <2>3 DEF IsMap, Filled, K
    <3> QED  BY <3>1, <1>4, HashAssumption, FS_Subset, FS_AddElement
  <2>12. Filled(y, KeysIn(t))
    BY <2>7, <2>8, <2>10, <2>11 DEF Filled
  <2>13. IsMap(y, t)
    BY <2>3, <2>8, <2>9, <2>10, <2>12 DEF IsMap, c
  <2> QED  BY <2>3, <2>4, <2>8, <2>13, <1>2 DEF SameValues, t
<1> QED  BY <1>3, <1>4 DEF y

\* A table that holds one key less, of a map whose list has lost it.
LEMMA MapErasedIs ==
  ASSUME NEW x, NEW s, IsMap(x, s), NEW k \in MapKeys
  PROVE  LET y == HM!Erased(x, k)
         IN /\ k \notin KeysIn(s) => y = x
            /\ \A i \in 1 .. Len(s) : s[i] = k => IsMap(y, Less(s, i)) /\ SameValues(y, x, KeysIn(s) \ {k})
<1> DEFINE y == HM!Erased(x, k)
           K == KeysIn(s)
<1>1. k \notin K => y = x
  BY FindsIs DEF HM!Erased
<1>2. ASSUME NEW i \in 1 .. Len(s), s[i] = k
      PROVE  IsMap(y, Less(s, i)) /\ SameValues(y, x, K \ {k})
  <2> DEFINE pos == HM!Lookup(x, k)
             t == HM!Shifted(x, pos)
             u == HM!Unlinked(x, k)
             c == HM!capacity(x)
             H == t.hashes
             S == t.slots
             r == Less(s, i)
  <2>1. k \in K
    BY <1>2 DEF KeysIn
  <2>2. x.elements = TRUE /\ pos \in 0 .. c - 1 /\ x.slots[pos] = k
    BY <2>1, FindsIs
  <2>3. y = [u EXCEPT !.hashes = H, !.slots = S, !.num = @ - 1]
    <3>1. pos # -1
      BY <2>2
    <3> QED  BY <3>1 DEF HM!Erased
  <2> HIDE DEF y, t, u, H, S
  <2>4. /\ IsRec(x) /\ x.index \in Indices /\ Threaded(x, s) /\ x.num = Len(s) /\ Filled(x, K)
        /\ 4 * x.num <= 3 * c /\ c \in Nat /\ c > 1 /\ Len(s) \in Nat /\ K \subseteq MapKeys
        /\ Cardinality(K) = Len(s) /\ IsTable(x.hashes, x.slots, c) /\ Holds(x.slots, c, K)
    BY <2>2, CapacityIs, EndsAre DEF IsMap, Filled
  <2>5. SameSlots(u, x) /\ Threaded(u, r) /\ SameValues(u, x, K \ {k})
    <3>1. /\ SameSlots(HM!Unlinked(x, s[i]), x) /\ Threaded(HM!Unlinked(x, s[i]), Less(s, i))
          /\ SameValues(HM!Unlinked(x, s[i]), x, KeysIn(s) \ {s[i]})
      BY <2>4, UnlinkedIs
    <3> QED  BY <3>1, <1>2 DEF u
  <2>6. /\ IsRec(y) /\ y.elements = u.elements /\ y.index = u.index /\ y.hashes = H /\ y.slots = S
        /\ y.num = u.num - 1 /\ y.head = u.head /\ y.tail = u.tail /\ y.elem = u.elem
    <3>1. PICK elements, index, hashes, slots, num, head, tail, elem :
            u = [elements |-> elements, index |-> index, hashes |-> hashes, slots |-> slots,
                 num |-> num, head |-> head, tail |-> tail, elem |-> elem]
      BY <2>5 DEF SameSlots, IsRec
    <3>2. y = [elements |-> elements, index |-> index, hashes |-> H, slots |-> S,
               num |-> num - 1, head |-> head, tail |-> tail, elem |-> elem]
      BY <2>3, <3>1
    <3> QED  BY <3>1, <3>2 DEF IsRec
  <2>7. IsTable(H, S, c) /\ Holds(S, c, K \ {k})
    <3>1. k # NoKey
      BY HashIs
    <3>2. \E p \in 0 .. c - 1 : x.hashes[p] = 0
      BY <2>2, EmptySlot
    <3> HIDE DEF pos, K, c
    <3>3. IsTable(t.hashes, t.slots, c) /\ Holds(t.slots, c, K \ {x.slots[pos]})
      BY <3>1, <3>2, <2>2, <2>4, ShiftedIs DEF t, c
    <3> QED  BY <3>3, <2>2 DEF H, S
  <2>8. KeysIn(r) = K \ {k} /\ Len(r) = Len(s) - 1
    BY <2>4, <1>2, LessKeys DEF Threaded
  <2>9. Cardinality(K \ {k}) = Cardinality(K) - 1
    BY <2>1, <2>4, HashAssumption, FS_Subset, FS_RemoveElement
  <2> HIDE DEF r, K, pos, c
  <2>10. Threaded(y, r) /\ y.elements = TRUE /\ y.index = x.index /\ y.num = Len(r) /\ HM!capacity(y) = c
    BY <2>2, <2>4, <2>5, <2>6, <2>8 DEF Threaded, SameSlots, HM!capacity, c
  <2>11. Filled(y, KeysIn(r))
    BY <2>4, <2>6, <2>7, <2>8, <2>9, <2>10 DEF Filled
  <2>12. 4 * y.num <= 3 * c
    BY <2>4, <2>8, <2>10
  <2>13. IsMap(y, r)
    BY <2>4, <2>6, <2>10, <2>11, <2>12 DEF IsMap
  <2> QED  BY <2>5, <2>6, <2>13 DEF SameValues, r
<1> QED  BY <1>1, <1>2 DEF y

\* The map of no key.
LEMMA NoneIs ==
  ASSUME NEW x, IsRec(x), x.head = Null, x.tail = Null, x.elem = [k \in {} |-> HM!Null]
  PROVE  Threaded(x, << >>)
<1>1. << >> \in Seq(MapKeys) /\ Len(<< >>) = 0
  OBVIOUS
<1>2. KeysIn(<< >>) = {} /\ IsOrder(<< >>) /\ At(<< >>, 1) = Null /\ At(<< >>, 0) = Null
  BY <1>1 DEF KeysIn, IsOrder, At
<1>3. x.elem \in [{} -> Entry]
  OBVIOUS
<1> QED  BY <1>1, <1>2, <1>3 DEF Threaded

\* A map that is constructed has no element, and no table yet.
LEMMA EmptyMapIs == \A i \in Indices : IsMap(HM!Made(i), << >>) /\ HM!Made(i).elements = FALSE
<1> TAKE i \in Indices
<1> DEFINE x == HM!Made(i)
<1>1. /\ IsRec(x) /\ x.elements = FALSE /\ x.index = i /\ x.num = 0 /\ x.head = Null /\ x.tail = Null
      /\ x.elem = [k \in {} |-> HM!Null]
  BY NullIs DEF HM!Made, IsRec
<1> HIDE DEF x
<1>2. Threaded(x, << >>) /\ Len(<< >>) = 0
  BY <1>1, NoneIs
<1>3. HM!capacity(x) \in Nat
  BY <1>1, CapacityIs
<1> QED  BY <1>1, <1>2, <1>3 DEF IsMap, x

\* clear leaves an empty map.
LEMMA MapClearedIs ==
  ASSUME NEW x, NEW s, IsMap(x, s)
  PROVE  IsMap(HM!Cleared(x), << >>)
<1> DEFINE y == HM!Cleared(x)
<1>1. CASE ~x.elements
  <2>1. s = << >>
    <3>1. s \in Seq(MapKeys) /\ Len(s) = 0
      BY <1>1 DEF IsMap, Threaded, IsOrder
    <3> QED  BY <3>1
  <2> QED  BY <2>1, <1>1 DEF HM!Cleared
<1>2. CASE x.elements
  <2> DEFINE c == HM!capacity(x)
             t == HM!Table(c)
             H == t.hashes
             S == t.slots
             E == [k \in {} |-> HM!Null]
  <2>1. IsRec(x) /\ x.elements = TRUE /\ x.index \in Indices /\ c \in Nat /\ c > 1
    BY <1>2, CapacityIs DEF IsMap
  <2>2. IsTable(H, S, c) /\ Holds(S, c, {})
    <3> HIDE DEF c
    <3> QED  BY <2>1, EmptyTableIs
  <2>3. y = [x EXCEPT !.hashes = H, !.slots = S, !.num = 0, !.head = Null, !.tail = Null, !.elem = E]
    BY <1>2, NullIs DEF HM!Cleared
  <2> HIDE DEF y, t, H, S, E, c
  <2>4. /\ IsRec(y) /\ y.elements = TRUE /\ y.hashes = H /\ y.slots = S /\ y.num = 0
        /\ y.index = x.index /\ y.head = Null /\ y.tail = Null /\ y.elem = E
    <3>1. PICK elements, index, hashes, slots, num, head, tail, elem :
            x = [elements |-> elements, index |-> index, hashes |-> hashes, slots |-> slots,
                 num |-> num, head |-> head, tail |-> tail, elem |-> elem]
      BY <2>1 DEF IsRec
    <3>2. y = [elements |-> elements, index |-> index, hashes |-> H, slots |-> S,
               num |-> 0, head |-> Null, tail |-> Null, elem |-> E]
      BY <2>3, <3>1
    <3> QED  BY <2>1, <3>1, <3>2 DEF IsRec
  <2>5. Threaded(y, << >>) /\ Len(<< >>) = 0 /\ KeysIn(<< >>) = {}
    BY <2>4, NoneIs DEF E, KeysIn
  <2>6. HM!capacity(y) = c
    BY <2>4 DEF HM!capacity, c
  <2>7. Filled(y, {}) /\ 4 * y.num <= 3 * HM!capacity(y)
    BY <2>1, <2>2, <2>4, <2>6, FS_EmptySet DEF Filled
  <2> QED  BY <2>1, <2>4, <2>5, <2>6, <2>7 DEF IsMap, y
<1> QED  BY <1>1, <1>2

\* reserve keeps what is there.
LEMMA ReservedIs ==
  ASSUME NEW x, NEW s, IsMap(x, s), NEW n \in 0 .. HM!LargestCapacity
  PROVE  IsMap(HM!Reserved(x, n), s) /\ HM!Reserved(x, n).elem = x.elem
<1>0. PICK a \in 0 .. 28 : a = x.index
  BY DEF IsMap, Indices
<1> DEFINE I == {j \in a .. 28 : HM!CapacityAt(j) >= n}
           i == HM!Min(I)
           y == HM!Reserved(x, n)
           K == KeysIn(s)
           c == HM!capacity(x)
<1>1. /\ IsRec(x) /\ x.index \in Indices /\ Threaded(x, s) /\ x.num = Len(s) /\ Len(s) \in Nat
      /\ 4 * x.num <= 3 * c /\ c \in Nat /\ c > 1 /\ c = HM!CapacityAt(x.index)
      /\ x.elements \in BOOLEAN
  BY CapacityIs, EndsAre DEF IsMap, Indices
<1>2. y = IF i = x.index THEN x ELSE IF ~x.elements THEN [x EXCEPT !.index = i] ELSE HM!Resized(x, i)
  <2>1. Len(HM!hash_table_size_primes) - 1 = 28
    BY CapacitiesAre
  <2> QED  BY <2>1, <1>0 DEF HM!Reserved
<1>3. i \in I
  <2>1. HM!LargestCapacity = HM!CapacityAt(28)
    <3>1. 29 - 1 = 28
      OBVIOUS
    <3> QED  BY <3>1, CapacitiesAre DEF HM!LargestCapacity
  <2>2. 28 \in I
    <3>1. 28 \in Indices
      BY DEF Indices
    <3>2. HM!CapacityAt(28) \in Nat
      BY <3>1, CapacitiesAre
    <3>3. HM!CapacityAt(28) >= n
      BY <2>1, <3>2, SMT
    <3>4. 28 \in a .. 28
      OBVIOUS
    <3> QED  BY <3>3, <3>4
  <2>3. I \in SUBSET Nat
    OBVIOUS
  <2> HIDE DEF I
  <2> QED  BY <2>2, <2>3, HMLeast
<1>4. i \in Indices /\ i \in a .. 28
  <2>1. i \in a .. 28
    BY <1>3
  <2> HIDE DEF i
  <2> QED  BY <2>1 DEF Indices
<1> HIDE DEF i, I, y, c
<1>5. CASE i = x.index
  BY <1>2, <1>5 DEF y
<1>6. CASE i # x.index /\ ~x.elements
  <2>1. y = [x EXCEPT !.index = i]
    BY <1>2, <1>6
  <2>2. /\ IsRec(y) /\ y.elements = x.elements /\ y.index = i /\ y.num = x.num
        /\ y.head = x.head /\ y.tail = x.tail /\ y.elem = x.elem
    BY <2>1, <1>1 DEF IsRec
  <2>3. Threaded(y, s) /\ Len(s) = 0
    BY <2>2, <1>1, <1>6 DEF Threaded, IsMap
  <2>4. HM!capacity(y) \in Nat
    BY <2>2, <1>4, CapacityIs
  <2>5. 4 * y.num <= 3 * HM!capacity(y)
    BY <2>2, <2>3, <2>4, <1>1
  <2> QED  BY <2>2, <2>3, <2>5, <1>1, <1>4, <1>6 DEF IsMap, y
<1>7. CASE i # x.index /\ x.elements
  <2> DEFINE m == IF i > 2 THEN i ELSE 2
             b == HM!CapacityAt(m)
  <2>1. y = HM!Resized(x, i)
    BY <1>2, <1>7
  <2>2. m \in Indices /\ x.index < m
    <3>1. a < i
      BY <1>0, <1>4, <1>7
    <3>2. m \in 0 .. 28 /\ a < m
      BY <3>1, <1>4
    <3> QED  BY <3>2, <1>0 DEF Indices
  <2>3. c + 2 <= b /\ b \in Nat
    <3> HIDE DEF m
    <3> QED  BY <2>2, <1>1, CapacitiesGrow, CapacitiesAre
  <2>4. Filled(x, K) /\ Cardinality(K) = Len(s)
    BY <1>1, <1>7 DEF IsMap, Filled
  <2>5. Cardinality(K) < b
    BY <2>3, <2>4, <1>1
  <2>6. SameList(y, x) /\ y.index = m /\ Filled(y, K)
    <3>1. m = IF i > 2 THEN i ELSE 2
      OBVIOUS
    <3> HIDE DEF K, m
    <3> QED  BY <3>1, <2>1, <2>2, <2>4, <2>5, <1>1, <1>4, ResizedIs
  <2> HIDE DEF m
  <2>7. HM!capacity(y) = b /\ y.num = Len(s)
    BY <2>4, <2>6 DEF HM!capacity, Filled
  <2>8. 4 * y.num <= 3 * HM!capacity(y)
    BY <2>3, <2>7, <1>1
  <2>9. Threaded(y, s) /\ IsRec(y) /\ y.elements = x.elements /\ y.elem = x.elem
    BY <2>6, <1>1 DEF SameList, Threaded
  <2> QED  BY <2>2, <2>6, <2>7, <2>8, <2>9, <1>1, <1>7 DEF IsMap, y
<1> QED  BY <1>5, <1>6, <1>7

\* The keys of the first i pairs of other.
KeysTo(other, i) == [j \in 1 .. i |-> other[j].key]

\* The pairs of a map with the keys s.
PairsOf(x, s) == [i \in 1 .. Len(s) |-> [key |-> s[i], value |-> x.elem[s[i]].value]]

\* What a map that is assigned consists of: pairs with distinct keys.
LEMMA OtherIs ==
  ASSUME NEW other \in OtherMaps
  PROVE  /\ Len(other) \in Nat /\ DOMAIN other = 1 .. Len(other)
         /\ \A i \in 1 .. Len(other) : /\ other[i] = [key |-> other[i].key, value |-> other[i].value]
                                       /\ other[i].key \in MapKeys /\ other[i].value \in ValuesOf[other[i].key]
         /\ \A i, j \in 1 .. Len(other) : other[i].key = other[j].key => i = j
         /\ other = [i \in 1 .. Len(other) |-> other[i]]
<1>1. /\ other \in Seq([key : MapKeys, value : AnyValue])
      /\ \A i \in DOMAIN other : other[i].value \in ValuesOf[other[i].key]
      /\ \A i, j \in DOMAIN other : other[i].key = other[j].key => i = j
  BY HashAssumption DEF AnyValue
<1>2. Len(other) \in Nat /\ DOMAIN other = 1 .. Len(other) /\ other = [i \in 1 .. Len(other) |-> other[i]]
  BY <1>1
<1>3. \A i \in 1 .. Len(other) : other[i] \in [key : MapKeys, value : AnyValue]
  <2> DEFINE R == [key : MapKeys, value : AnyValue]
  <2>1. other \in Seq(R)
    BY <1>1
  <2> HIDE DEF R
  <2>2. \A i \in 1 .. Len(other) : other[i] \in R
    BY <2>1
  <2> QED  BY <2>2 DEF R
<1>4. \A r \in [key : MapKeys, value : AnyValue] : r = [key |-> r.key, value |-> r.value] /\ r.key \in MapKeys
  OBVIOUS
<1>5. \A i \in 1 .. Len(other) : other[i].value \in ValuesOf[other[i].key]
  BY <1>1, <1>2
<1>6. \A i, j \in 1 .. Len(other) : other[i].key = other[j].key => i = j
  BY <1>1, <1>2
<1> QED  BY <1>2, <1>3, <1>4, <1>5, <1>6

\* Inserting all pairs of a map into an empty one makes a map with the same pairs in the same order.
LEMMA InsertedAllIs ==
  ASSUME NEW x, IsMap(x, << >>), NEW other \in OtherMaps
  PROVE  LET y == HM!InsertedAll(x, other)
             s == KeysTo(other, Len(other))
         IN IsMap(y, s) /\ PairsOf(y, s) = other
<1> DEFINE n == Len(other)
           next(u, i) == HM!Inserted(u, other[i].key, other[i].value, FALSE)
           t == CHOOSE t : t = [i \in 0 .. n |-> IF i = 0 THEN x ELSE next(t[i - 1], i)]
<1>1. /\ n \in Nat
      /\ \A i \in 1 .. n : /\ other[i] = [key |-> other[i].key, value |-> other[i].value]
                           /\ other[i].key \in MapKeys /\ other[i].value \in ValuesOf[other[i].key]
      /\ \A i, j \in 1 .. n : other[i].key = other[j].key => i = j
      /\ other = [i \in 1 .. n |-> other[i]]
  BY OtherIs
<1>2. HM!InsertedAll(x, other) = t[n]
  BY DEF HM!InsertedAll
<1> HIDE DEF n, next
<1>3. t = [i \in 0 .. n |-> IF i = 0 THEN x ELSE next(t[i - 1], i)]
  <2> DEFINE T == {k \in 0 .. n : \E f : f = [i \in 0 .. k |-> IF i = 0 THEN x ELSE next(f[i - 1], i)]}
  <2>1. 0 \in T
    <3> DEFINE f == [i \in 0 .. 0 |-> x]
    <3>1. f = [i \in 0 .. 0 |-> IF i = 0 THEN x ELSE next(f[i - 1], i)]
      OBVIOUS
    <3> HIDE DEF f
    <3> QED  BY <3>1, <1>1
  <2>2. ASSUME NEW k \in 1 .. n, k - 1 \in T PROVE k \in T
    <3>1. PICK f : f = [i \in 0 .. k - 1 |-> IF i = 0 THEN x ELSE next(f[i - 1], i)]
      BY <2>2
    <3> DEFINE g == [i \in 0 .. k |-> IF i = k THEN next(f[k - 1], k) ELSE f[i]]
    <3>2. \A i \in 0 .. k : g[i] = IF i = 0 THEN x ELSE next(g[i - 1], i)
      <4> TAKE i \in 0 .. k
      <4>1. CASE i = k
        <5>1. i # 0 /\ k - 1 \in 0 .. k /\ k - 1 # k /\ g[k - 1] = f[k - 1] /\ g[i] = next(f[k - 1], k)
          BY <4>1
        <5> HIDE DEF g
        <5> QED  BY <5>1, <4>1
      <4>2. CASE i # k
        <5>1. i \in 0 .. k - 1 /\ g[i] = f[i] /\ (i # 0 => i - 1 \in 0 .. k /\ i - 1 # k /\ g[i - 1] = f[i - 1])
          BY <4>2
        <5> HIDE DEF g
        <5> QED  BY <5>1, <3>1
      <4> QED  BY <4>1, <4>2
    <3>3. g = [i \in 0 .. k |-> IF i = 0 THEN x ELSE next(g[i - 1], i)]
      <4>1. g = [i \in 0 .. k |-> g[i]]
        OBVIOUS
      <4> HIDE DEF g
      <4> QED  BY <3>2, <4>1
    <3> HIDE DEF g
    <3>4. k \in 0 .. n
      BY <1>1
    <3> QED  BY <3>3, <3>4
  <2> HIDE DEF T
  <2>3. \A i \in 0 .. n : i \in T
    BY <2>1, <2>2, <1>1, UpTo
  <2>4. n \in 0 .. n
    BY <1>1
  <2> QED  BY <2>3, <2>4 DEF T
<1> HIDE DEF t
<1>4. t[0] = x /\ \A i \in 1 .. n : t[i] = next(t[i - 1], i)
  <2>1. 0 \in 0 .. n /\ \A i \in 1 .. n : i \in 0 .. n /\ i # 0
    BY <1>1
  <2> QED  BY <2>1, <1>3
<1> DEFINE s(i) == KeysTo(other, i)
           T == {i \in 0 .. n : /\ IsMap(t[i], s(i))
                                /\ \A j \in 1 .. i : t[i].elem[other[j].key].value = other[j].value}
<1>5. \A i \in 0 .. n : s(i) \in Seq(MapKeys) /\ Len(s(i)) = i /\ \A j \in 1 .. i : s(i)[j] = other[j].key
  <2> TAKE i \in 0 .. n
  <2>1. s(i) \in [1 .. i -> MapKeys] /\ i \in Nat
    BY <1>1 DEF KeysTo
  <2>2. \A j \in 1 .. i : s(i)[j] = other[j].key
    BY DEF KeysTo
  <2> HIDE DEF s
  <2> QED  BY <2>1, <2>2, IsSequence
<1> HIDE DEF s
<1>6. 0 \in T
  <2>1. s(0) = << >>
    BY <1>1, <1>5
  <2> QED  BY <2>1, <1>1, <1>4
<1>7. ASSUME NEW i \in 1 .. n, i - 1 \in T PROVE i \in T
  <2> DEFINE k == other[i].key
             v == other[i].value
             u == t[i - 1]
             r == s(i - 1)
  <2>1. i - 1 \in 0 .. n /\ i \in 0 .. n /\ IsMap(u, r)
        /\ \A j \in 1 .. i - 1 : u.elem[other[j].key].value = other[j].value
    BY <1>7
  <2>2. k \in MapKeys /\ v \in ValuesOf[k]
    BY <1>1
  <2>3. r \in Seq(MapKeys) /\ Len(r) = i - 1 /\ \A j \in 1 .. i - 1 : r[j] = other[j].key
    BY <2>1, <1>5
  <2>4. k \notin KeysIn(r)
    <3>1. \A j \in 1 .. i - 1 : j \in 1 .. n /\ j # i
      BY <1>1
    <3> QED  BY <3>1, <2>3, <1>1 DEF KeysIn
  <2> HIDE DEF k, v, u, r
  <2>5. /\ IsMap(t[i], More(r, Len(r) + 1, k)) /\ t[i].elem[k].value = v /\ SameValues(t[i], u, KeysIn(r))
    <3>1. t[i] = HM!Inserted(u, k, v, FALSE)
      BY <1>4 DEF next, k, v, u
    <3>2. /\ IsMap(HM!Inserted(u, k, v, FALSE), More(r, IF FALSE THEN 1 ELSE Len(r) + 1, k))
          /\ HM!Inserted(u, k, v, FALSE).elem[k].value = v /\ SameValues(HM!Inserted(u, k, v, FALSE), u, KeysIn(r))
      BY <2>1, <2>2, <2>4, MapInsertedIs
    <3> QED  BY <3>1, <3>2
  <2>6. More(r, Len(r) + 1, k) = s(i)
    <3> DEFINE w == More(r, Len(r) + 1, k)
    <3>1. IsMore(w, MapKeys, r, Len(r) + 1, k)
      BY <2>2, <2>3, MoreInAWord
    <3> HIDE DEF w
    <3>2. w \in Seq(MapKeys) /\ Len(w) = i /\ \A j \in 1 .. i : w[j] = IF j < i THEN r[j] ELSE k
      BY <3>1, <2>3 DEF IsMore
    <3>3. \A j \in 1 .. i : w[j] = s(i)[j]
      <4> TAKE j \in 1 .. i
      <4>1. j < i => j \in 1 .. i - 1
        OBVIOUS
      <4>2. j < i \/ j = i
        OBVIOUS
      <4> QED  BY <4>1, <4>2, <3>2, <2>1, <2>3, <1>5 DEF k
    <3>4. w = s(i)
      BY <3>2, <3>3, <2>1, <1>1, <1>5, SameSequence
    <3> QED  BY <3>4 DEF w
  <2>7. \A j \in 1 .. i : t[i].elem[other[j].key].value = other[j].value
    <3> TAKE j \in 1 .. i
    <3>1. CASE j = i
      BY <3>1, <2>5 DEF k, v
    <3>2. CASE j # i
      <4>1. j \in 1 .. i - 1
        BY <3>2
      <4>2. other[j].key \in KeysIn(r)
        BY <4>1, <2>3 DEF KeysIn
      <4> QED  BY <4>1, <4>2, <2>1, <2>5 DEF SameValues
    <3> QED  BY <3>1, <3>2
  <2> QED  BY <2>1, <2>5, <2>6, <2>7
<1>8. n \in T
  <2> HIDE DEF T
  <2>1. \A i \in 0 .. n : i \in T
    BY <1>1, <1>6, <1>7, UpTo
  <2> QED  BY <2>1, <1>1
<1>9. PairsOf(t[n], s(n)) = other
  <2>1. Len(s(n)) = n /\ \A j \in 1 .. n : s(n)[j] = other[j].key /\ t[n].elem[other[j].key].value = other[j].value
    BY <1>1, <1>5, <1>8
  <2>2. \A j \in 1 .. n : [key |-> s(n)[j], value |-> t[n].elem[s(n)[j]].value] = other[j]
    BY <2>1, <1>1
  <2>3. PairsOf(t[n], s(n)) = [j \in 1 .. n |-> other[j]]
    BY <2>1, <2>2 DEF PairsOf
  <2> QED  BY <2>3, <1>1
<1> QED  BY <1>2, <1>8, <1>9 DEF s, n

\* The assignment makes a map with the pairs of the other, whatever was in it.
LEMMA AssignedIs ==
  ASSUME NEW x, NEW s, IsMap(x, s), NEW other \in OtherMaps
  PROVE  LET y == HM!Assigned(x, other)
             r == KeysTo(other, Len(other))
         IN IsMap(y, r) /\ PairsOf(y, r) = other
<1> DEFINE a == IF x.num # 0 THEN HM!Cleared(x) ELSE x
           n == HM!CapacityAt(HM!MIN_CAPACITY_INDEX)
           b == HM!Reserved(a, n)
<1>1. IsMap(a, << >>)
  <2>1. CASE x.num # 0
    BY <2>1, MapClearedIs
  <2>2. CASE x.num = 0
    <3>1. s \in Seq(MapKeys) /\ Len(s) = 0
      BY <2>2 DEF IsMap, Threaded, IsOrder
    <3>2. s = << >>
      BY <3>1
    <3> QED  BY <3>2, <2>2
  <2> QED  BY <2>1, <2>2
<1>2. n \in 0 .. HM!LargestCapacity
  <2>1. 2 \in Indices /\ 28 \in Indices /\ 2 < 28 /\ 29 - 1 = 28
    BY DEF Indices
  <2>2. n = HM!CapacityAt(2) /\ HM!LargestCapacity = HM!CapacityAt(28)
    BY <2>1, CapacitiesAre DEF HM!LargestCapacity, HM!MIN_CAPACITY_INDEX
  <2>3. HM!CapacityAt(2) \in Nat /\ HM!CapacityAt(28) \in Nat /\ HM!CapacityAt(2) + 2 <= HM!CapacityAt(28)
    BY <2>1, CapacitiesAre, CapacitiesGrow
  <2> HIDE DEF n
  <2> QED  BY <2>2, <2>3
<1>3. IsMap(b, << >>)
  <2> HIDE DEF a, n
  <2> QED  BY <1>1, <1>2, ReservedIs
<1>4. HM!Assigned(x, other) = HM!InsertedAll(b, other)
  BY DEF HM!Assigned
<1> HIDE DEF b
<1> QED  BY <1>3, <1>4, InsertedAllIs

\* A walk along the pointers comes through r.
LEMMA AlongIs ==
  ASSUME NEW d, NEW r \in Seq(MapKeys), map.num = Len(r),
         \A i \in 1 .. Len(r) : r[i] \in DOMAIN map.elem,
         \A i \in 1 .. Len(r) : i + 1 \in 1 .. Len(r) => map.elem[r[i]][d] = r[i + 1]
  PROVE  HM!Along(At(r, 1), d) = r
<1> DEFINE n == Len(r)
           from == At(r, 1)
           to(e) == IF e \in DOMAIN map.elem THEN map.elem[e][d] ELSE HM!Null
           w == CHOOSE w : w = [i \in 1 .. n |-> IF i = 1 THEN from ELSE to(w[i - 1])]
<1>1. n \in Nat /\ DOMAIN r = 1 .. n /\ r = [i \in 1 .. n |-> r[i]]
  OBVIOUS
<1>2. HM!Along(from, d) = w
  BY DEF HM!Along
<1>3. \A i \in 1 .. n : r[i] = IF i = 1 THEN from ELSE to(r[i - 1])
  <2> TAKE i \in 1 .. n
  <2>1. CASE i = 1
    BY <2>1 DEF At
  <2>2. CASE i # 1
    <3>1. i - 1 \in 1 .. n /\ (i - 1) + 1 = i
      BY <2>2
    <3>2. r[i - 1] \in DOMAIN map.elem /\ map.elem[r[i - 1]][d] = r[i]
      BY <3>1
    <3> QED  BY <3>2, <2>2
  <2> QED  BY <2>1, <2>2
<1> HIDE DEF from, to, n
<1>4. r = [i \in 1 .. n |-> IF i = 1 THEN from ELSE to(r[i - 1])]
  BY <1>1, <1>3
<1>5. w = [i \in 1 .. n |-> IF i = 1 THEN from ELSE to(w[i - 1])]
  BY <1>4
<1> HIDE DEF w
<1> DEFINE T == {i \in 0 .. n : i # 0 => w[i] = r[i]}
<1>6. 0 \in T
  BY <1>1
<1>7. ASSUME NEW i \in 1 .. n, i - 1 \in T PROVE i \in T
  <2>1. w[i] = IF i = 1 THEN from ELSE to(w[i - 1])
    BY <1>5
  <2>2. i # 1 => w[i - 1] = r[i - 1]
    BY <1>7
  <2>3. w[i] = r[i]
    BY <2>1, <2>2, <1>3
  <2> QED  BY <2>3, <1>1
<1>8. \A i \in 1 .. n : w[i] = r[i]
  <2> HIDE DEF T
  <2>1. \A i \in 0 .. n : i \in T
    BY <1>1, <1>6, <1>7, UpTo
  <2> QED  BY <2>1 DEF T
<1>9. DOMAIN w = 1 .. n /\ w = [i \in DOMAIN w |-> w[i]]
  BY <1>5
<1>10. w = r
  BY <1>1, <1>8, <1>9
<1> QED  BY <1>2, <1>10 DEF from

\* Both ways through the list of a map.
LEMMA BothWaysOf ==
  ASSUME NEW s, IsMap(map, s)
  PROVE  /\ HM!Along(map.head, "next") = s /\ HM!Along(map.tail, "prev") = HM!Reverse(s)
         /\ HM!Pairs = PairsOf(map, s)
<1> DEFINE n == Len(s)
           r == [i \in 1 .. n |-> s[n + 1 - i]]
<1>1. /\ s \in Seq(MapKeys) /\ n \in Nat /\ map.num = n
      /\ map.head = At(s, 1) /\ map.tail = At(s, n)
      /\ \A i \in 1 .. n : /\ s[i] \in DOMAIN map.elem
                           /\ map.elem[s[i]].prev = At(s, i - 1) /\ map.elem[s[i]].next = At(s, i + 1)
  BY DEF IsMap, Threaded, IsOrder, KeysIn
<1>2. HM!Along(map.head, "next") = s
  <2>1. \A i \in 1 .. Len(s) : i + 1 \in 1 .. Len(s) => map.elem[s[i]]["next"] = s[i + 1]
    BY <1>1 DEF At
  <2>2. HM!Along(At(s, 1), "next") = s
    BY <2>1, <1>1, AlongIs
  <2> QED  BY <2>2, <1>1
<1>3. r \in Seq(MapKeys) /\ Len(r) = n /\ (\A i \in 1 .. n : r[i] = s[n + 1 - i]) /\ r = HM!Reverse(s)
  <2>1. r \in [1 .. n -> MapKeys]
    BY <1>1
  <2>2. \A i \in 1 .. n : r[i] = s[n + 1 - i]
    OBVIOUS
  <2>3. r = HM!Reverse(s)
    BY <1>1 DEF HM!Reverse
  <2> HIDE DEF r, n
  <2> QED  BY <2>1, <2>2, <2>3, <1>1, IsSequence, SMTT(30)
<1> HIDE DEF r
<1>4. HM!Along(map.tail, "prev") = r
  <2>1. \A i \in 1 .. Len(r) : r[i] \in DOMAIN map.elem
    <3> TAKE i \in 1 .. Len(r)
    <3>1. n + 1 - i \in 1 .. n /\ r[i] = s[n + 1 - i]
      BY <1>1, <1>3
    <3> QED  BY <3>1, <1>1
  <2>2. \A i \in 1 .. Len(r) : i + 1 \in 1 .. Len(r) => map.elem[r[i]]["prev"] = r[i + 1]
    <3> TAKE i \in 1 .. Len(r)
    <3> HAVE i + 1 \in 1 .. Len(r)
    <3> DEFINE j == n + 1 - i
    <3>1. j \in 1 .. n /\ r[i] = s[j] /\ j - 1 \in 1 .. n /\ r[i + 1] = s[j - 1]
      BY <1>1, <1>3
    <3> HIDE DEF j
    <3> QED  BY <3>1, <1>1 DEF At
  <2>3. At(r, 1) = At(s, n)
    BY <1>1, <1>3 DEF At
  <2>4. r \in Seq(MapKeys) /\ map.num = Len(r)
    BY <1>1, <1>3
  <2>5. HM!Along(At(r, 1), "prev") = r
    BY <2>1, <2>2, <2>4, AlongIs
  <2> QED  BY <2>3, <2>5, <1>1
<1>5. HM!Pairs = PairsOf(map, s)
  <2>1. HM!Pairs = [i \in 1 .. n |-> [key |-> s[i], value |-> IF s[i] \in DOMAIN map.elem THEN map.elem[s[i]].value ELSE HM!Null]]
    BY <1>1, <1>2 DEF HM!Pairs
  <2> HIDE DEF n
  <2>2. \A i \in 1 .. n : [key |-> s[i], value |-> IF s[i] \in DOMAIN map.elem THEN map.elem[s[i]].value ELSE HM!Null]
                          = [key |-> s[i], value |-> map.elem[s[i]].value]
    BY <1>1
  <2>3. HM!Pairs = [i \in 1 .. n |-> [key |-> s[i], value |-> map.elem[s[i]].value]]
    BY <2>1, <2>2
  <2> QED  BY <2>3 DEF PairsOf, n
<1> QED  BY <1>2, <1>3, <1>4, <1>5

\* An iterator at e has still to come to those that are left, which follow it.
Walks(e, left, s) ==
  \/ e = Null /\ left = {}
  \/ \E i \in 1 .. Len(s) : s[i] = e /\ \A k \in left : \E j \in i + 1 .. Len(s) : s[j] = k

\* The inductive invariant: some sequence of keys that the slots, the pointers and the iterator agree on.
MapInv == \E s : IsMap(map, s) /\ Walks(iter, due, s)

\* Cardinality of HashMap is that of FiniteSets.
LEMMA CountsKeys == \A S : HM!Cardinality(S) = Cardinality(S)
BY DEF HM!Cardinality, Cardinality

\* The inductive invariant says that the map is sound.
LEMMA MapIsGood == MapInv => MapIsSound
<1> SUFFICES ASSUME NEW s, IsMap(map, s), Walks(iter, due, s)
             PROVE  MapIsSound
  BY DEF MapInv
<1> DEFINE K == KeysIn(s)
           c == HM!capacity(map)
<1>1. /\ map.index \in Indices /\ map.num = Len(s) /\ Len(s) \in Nat /\ K \subseteq MapKeys
      /\ s \in Seq(MapKeys) /\ map.head \in K \cup {Null} /\ map.tail \in K \cup {Null}
      /\ map.elem \in [K -> Entry] /\ DOMAIN map.elem = K
      /\ \A i \in 1 .. Len(s) : /\ map.elem[s[i]].prev = At(s, i - 1) /\ map.elem[s[i]].next = At(s, i + 1)
                                /\ map.elem[s[i]].value \in ValuesOf[s[i]]
  BY EndsAre DEF IsMap, Threaded, IsOrder, At, KeysIn
<1>2. HM!TypeOK
  <2>1. map.index \in 0 .. Len(HM!hash_table_size_primes) - 1
    <3>1. 29 - 1 = 28
      OBVIOUS
    <3> QED  BY <3>1, <1>1, CapacitiesAre DEF Indices
  <2>2. map.num \in 0 .. HM!Cardinality(MapKeys)
    <3>1. Cardinality(K) <= Cardinality(MapKeys) /\ Cardinality(MapKeys) \in Nat
      BY <1>1, HashAssumption, FS_Subset, FS_CardinalityType
    <3>2. map.num = Cardinality(K) \/ map.num = 0
      BY DEF IsMap, Filled
    <3> QED  BY <3>1, <3>2, <1>1, CountsKeys
  <2>3. \A k \in K : /\ map.elem[k].value \in ValuesOf[k]
                     /\ {map.elem[k].next, map.elem[k].prev} \subseteq K \cup {Null}
    <3> TAKE k \in K
    <3>1. PICK i \in 1 .. Len(s) : k = s[i]
      BY DEF KeysIn
    <3>2. \A j \in Int : At(s, j) \in K \cup {Null}
      BY DEF At, KeysIn
    <3>3. i - 1 \in Int /\ i + 1 \in Int
      OBVIOUS
    <3> QED  BY <3>1, <3>2, <3>3, <1>1
  <2>4. {map.head, map.tail, iter} \subseteq K \cup {Null}
    BY <1>1 DEF Walks, KeysIn
  <2> HIDE DEF K
  <2> QED  BY <2>1, <2>2, <2>3, <2>4, <1>1, NullIs DEF HM!TypeOK
<1>3. HM!ListIsWhole
  <2>1. HM!Along(map.head, "next") = s /\ HM!Along(map.tail, "prev") = HM!Reverse(s)
    BY BothWaysOf
  <2>2. HM!Range(s) = K
    <3>1. HM!Range(s) = {s[i] : i \in DOMAIN s} /\ DOMAIN s = 1 .. Len(s)
      BY <1>1 DEF HM!Range
    <3> QED  BY <3>1 DEF KeysIn
  <2> QED  BY <2>1, <2>2, <1>1 DEF HM!ListIsWhole
<1>4. HM!RoomLeft
  <2> SUFFICES ASSUME map.elements PROVE \E i \in DOMAIN map.hashes : map.hashes[i] = 0
    BY DEF HM!RoomLeft, HM!EMPTY_HASH
  <2>1. DOMAIN map.hashes = 0 .. c - 1
    BY DEF IsMap, Filled, IsTable
  <2> QED  BY <2>1, EmptySlot
<1>5. HM!LookupFinds
  <2> SUFFICES ASSUME NEW k \in MapKeys
               PROVE  IF k \in DOMAIN map.elem THEN HM!Lookup(map, k) # -1 ELSE HM!Lookup(map, k) = -1
    BY DEF HM!LookupFinds
  <2>1. CASE k \in K
    <3>1. HM!Lookup(map, k) \in 0 .. c - 1
      BY <2>1, FindsIs
    <3>2. HM!Lookup(map, k) # -1
      BY <3>1
    <3> QED  BY <3>2, <2>1, <1>1
  <2>2. CASE k \notin K
    BY <2>2, <1>1, FindsIs
  <2> QED  BY <2>1, <2>2
<1>6. HM!IterationIsWhole
  <2>1. \A i \in 1 .. Len(s) : s[i] # Null
    BY <1>1, NullIs
  <2> QED  BY <2>1, NullIs DEF HM!IterationIsWhole, Walks
<1> QED  BY <1>2, <1>3, <1>4, <1>5, <1>6 DEF MapIsSound

\* A pair of the dictionary.
Pair == [key : MapKeys, value : AnyValue]

\* The pairs of a map.
LEMMA PairsAre ==
  ASSUME NEW x, NEW s, Threaded(x, s)
  PROVE  LET p == PairsOf(x, s)
         IN /\ p \in Seq(Pair) /\ Len(p) = Len(s) /\ DOMAIN p = 1 .. Len(s) /\ Len(s) \in Nat
            /\ \A i \in 1 .. Len(s) : /\ p[i] = [key |-> s[i], value |-> x.elem[s[i]].value]
                                      /\ p[i].key = s[i] /\ s[i] \in KeysIn(s)
            /\ HM!Dictionary!KeysOf(p) = KeysIn(s)
<1> DEFINE p == PairsOf(x, s)
<1>1. s \in Seq(MapKeys) /\ Len(s) \in Nat
      /\ \A i \in 1 .. Len(s) : s[i] \in MapKeys /\ x.elem[s[i]].value \in AnyValue /\ s[i] \in KeysIn(s)
  <2>1. s \in Seq(MapKeys) /\ Len(s) \in Nat /\ \A i \in 1 .. Len(s) : s[i] \in MapKeys /\ s[i] \in KeysIn(s)
    BY DEF Threaded, IsOrder, KeysIn
  <2>2. \A i \in 1 .. Len(s) : x.elem[s[i]].value \in ValuesOf[s[i]]
    BY <2>1 DEF Threaded
  <2> QED  BY <2>1, <2>2 DEF AnyValue
<1>2. p = [i \in 1 .. Len(s) |-> [key |-> s[i], value |-> x.elem[s[i]].value]]
  BY DEF PairsOf
<1> HIDE DEF p
<1>3. DOMAIN p = 1 .. Len(s) /\ \A i \in 1 .. Len(s) : p[i] = [key |-> s[i], value |-> x.elem[s[i]].value]
  BY <1>2
<1>4. \A i \in 1 .. Len(s) : p[i].key = s[i] /\ p[i] \in Pair
  BY <1>1, <1>3 DEF Pair
<1>5. p \in [1 .. Len(s) -> Pair]
  BY <1>2, <1>3, <1>4
<1>6. p \in Seq(Pair) /\ Len(p) = Len(s)
  BY <1>1, <1>5, IsSequence
<1>7. HM!Dictionary!KeysOf(p) = KeysIn(s)
  BY <1>3, <1>4 DEF HM!Dictionary!KeysOf, KeysIn
<1> QED  BY <1>1, <1>3, <1>4, <1>6, <1>7 DEF p

\* One more key is one more pair, in its place.
LEMMA PairsMore ==
  ASSUME NEW x, NEW s, Threaded(x, s), NEW i \in 1 .. Len(s) + 1, NEW k \in MapKeys, k \notin KeysIn(s),
         NEW y, Threaded(y, More(s, i, k)), NEW v, y.elem[k].value = v, SameValues(y, x, KeysIn(s))
  PROVE  LET p == PairsOf(x, s)
             e == [key |-> k, value |-> v]
         IN /\ PairsOf(y, More(s, i, k)) = More(p, i, e) /\ p \in Seq(Pair) /\ e \in Pair
            /\ i = Len(s) + 1 => PairsOf(y, More(s, i, k)) = Append(p, e)
            /\ i = 1 => PairsOf(y, More(s, i, k)) = << e >> \o p
<1> DEFINE p == PairsOf(x, s)
           e == [key |-> k, value |-> v]
           t == More(s, i, k)
           q == PairsOf(y, t)
           r == More(p, i, e)
<1>1. /\ p \in Seq(Pair) /\ Len(p) = Len(s) /\ Len(s) \in Nat
      /\ \A j \in 1 .. Len(s) : p[j] = [key |-> s[j], value |-> x.elem[s[j]].value] /\ s[j] \in KeysIn(s)
  BY PairsAre
<1>2. s \in Seq(MapKeys)
  BY DEF Threaded, IsOrder
<1>3. IsMore(t, MapKeys, s, i, k)
  BY <1>2, MoreInAWord
<1> HIDE DEF t, p
<1>4. /\ q \in Seq(Pair) /\ Len(q) = Len(t) /\ Len(t) \in Nat
      /\ \A j \in 1 .. Len(t) : q[j] = [key |-> t[j], value |-> y.elem[t[j]].value]
  <2>1. Threaded(y, t)
    BY DEF t
  <2> QED  BY <2>1, PairsAre
<1> HIDE DEF q
<1>5. Len(t) = Len(s) + 1 /\ \A j \in 1 .. Len(s) + 1 : t[j] = IF j < i THEN s[j] ELSE IF j = i THEN k ELSE s[j - 1]
  BY <1>3 DEF IsMore
<1>6. e \in Pair
  <2>1. i \in 1 .. Len(t) /\ t[i] = k
    BY <1>1, <1>5
  <2>2. q[i] = e
    BY <2>1, <1>4
  <2>3. q[i] \in Pair
    BY <2>1, <1>4
  <2> QED  BY <2>2, <2>3
<1> HIDE DEF e
<1>7. IsMore(r, Pair, p, i, e)
  BY <1>1, <1>6, MoreInAWord
<1> HIDE DEF r
<1>8. /\ r \in Seq(Pair) /\ Len(r) = Len(s) + 1
      /\ \A j \in 1 .. Len(s) + 1 : r[j] = IF j < i THEN p[j] ELSE IF j = i THEN e ELSE p[j - 1]
  BY <1>1, <1>7 DEF IsMore
<1>9. ASSUME NEW j \in 1 .. Len(s) + 1 PROVE q[j] = r[j]
  <2>1. CASE j = i
    <3>1. t[j] = k /\ r[j] = e
      BY <2>1, <1>5, <1>8
    <3>2. q[j] = [key |-> k, value |-> v]
      BY <3>1, <1>4, <1>5
    <3> QED  BY <3>1, <3>2 DEF e
  <2>2. CASE j < i
    <3>1. j \in 1 .. Len(s) /\ t[j] = s[j] /\ r[j] = p[j]
      BY <2>2, <1>1, <1>5, <1>8
    <3>2. y.elem[s[j]].value = x.elem[s[j]].value
      BY <3>1, <1>1 DEF SameValues
    <3> QED  BY <3>1, <3>2, <1>1, <1>4, <1>5
  <2>3. CASE j > i
    <3>1. j - 1 \in 1 .. Len(s) /\ t[j] = s[j - 1] /\ r[j] = p[j - 1]
      BY <2>3, <1>1, <1>5, <1>8
    <3>2. y.elem[s[j - 1]].value = x.elem[s[j - 1]].value
      BY <3>1, <1>1 DEF SameValues
    <3> QED  BY <3>1, <3>2, <1>1, <1>4, <1>5
  <2> QED  BY <2>1, <2>2, <2>3, <1>1
<1>10. q = r
  <2>1. Len(s) + 1 \in Nat
    BY <1>1
  <2> QED  BY <2>1, <1>4, <1>5, <1>8, <1>9, SameSequence
<1>11. More(p, Len(p) + 1, e) = Append(p, e) /\ More(p, 1, e) = << e >> \o p
  BY <1>1, <1>6, MoreIsInsertAt
<1>12. /\ i = Len(s) + 1 => q = Append(p, e)
       /\ i = 1 => q = << e >> \o p
  BY <1>1, <1>10, <1>11 DEF r
<1> QED  BY <1>1, <1>6, <1>10, <1>12 DEF p, e, t, q, r

\* One key less is one pair less.
LEMMA PairsLess ==
  ASSUME NEW x, NEW s, Threaded(x, s), NEW i \in 1 .. Len(s),
         NEW y, Threaded(y, Less(s, i)), SameValues(y, x, KeysIn(s) \ {s[i]})
  PROVE  PairsOf(y, Less(s, i)) = HM!Dictionary!RemoveAt(PairsOf(x, s), i)
<1> DEFINE p == PairsOf(x, s)
           t == Less(s, i)
           q == PairsOf(y, t)
           r == Less(p, i)
<1>1. /\ p \in Seq(Pair) /\ Len(p) = Len(s) /\ Len(s) \in Nat
      /\ \A j \in 1 .. Len(s) : p[j] = [key |-> s[j], value |-> x.elem[s[j]].value] /\ s[j] \in KeysIn(s)
  BY PairsAre
<1>2. s \in Seq(MapKeys) /\ \A j, m \in 1 .. Len(s) : s[j] = s[m] => j = m
  BY DEF Threaded, IsOrder
<1>3. Len(t) = Len(s) - 1 /\ \A j \in 1 .. Len(s) - 1 : t[j] = IF j < i THEN s[j] ELSE s[j + 1]
  BY <1>2, LessIs
<1> HIDE DEF t, p
<1>4. /\ q \in Seq(Pair) /\ Len(q) = Len(t) /\ Len(t) \in Nat
      /\ \A j \in 1 .. Len(t) : q[j] = [key |-> t[j], value |-> y.elem[t[j]].value]
  <2>1. Threaded(y, t)
    BY DEF t
  <2> QED  BY <2>1, PairsAre
<1> HIDE DEF q
<1>5. /\ r \in Seq(Pair) /\ Len(r) = Len(s) - 1
      /\ \A j \in 1 .. Len(s) - 1 : r[j] = IF j < i THEN p[j] ELSE p[j + 1]
  <2>1. i \in 1 .. Len(p)
    BY <1>1
  <2>2. /\ r \in Seq(Pair) /\ Len(r) = Len(p) - 1
        /\ \A j \in 1 .. Len(p) - 1 : r[j] = IF j < i THEN p[j] ELSE p[j + 1]
    BY <2>1, <1>1, LessIs
  <2> HIDE DEF r
  <2> QED  BY <2>2, <1>1
<1> HIDE DEF r
<1>6. ASSUME NEW j \in 1 .. Len(s) - 1 PROVE q[j] = r[j]
  <2> DEFINE m == IF j < i THEN j ELSE j + 1
  <2>1. m \in 1 .. Len(s) /\ m # i /\ t[j] = s[m] /\ r[j] = p[m]
    BY <1>1, <1>3, <1>5
  <2> HIDE DEF m
  <2>2. y.elem[s[m]].value = x.elem[s[m]].value
    <3>1. s[m] \in KeysIn(s) \ {s[i]}
      BY <2>1, <1>1, <1>2
    <3> QED  BY <3>1 DEF SameValues
  <2>3. q[j] = [key |-> s[m], value |-> y.elem[s[m]].value]
    BY <2>1, <1>3, <1>4
  <2>4. r[j] = [key |-> s[m], value |-> x.elem[s[m]].value]
    BY <2>1, <1>1
  <2> QED  BY <2>2, <2>3, <2>4
<1>7. q = r
  <2>1. Len(s) - 1 \in Nat
    BY <1>1
  <2> QED  BY <2>1, <1>3, <1>4, <1>5, <1>6, SameSequence
<1>8. r = HM!Dictionary!RemoveAt(p, i)
  <2>1. i \in 1 .. Len(p)
    BY <1>1
  <2>2. Less(p, i) = LI!RemoveAt(p, i)
    BY <2>1, <1>1, LessIsRemoveAt
  <2>3. LI!RemoveAt(p, i) = HM!Dictionary!RemoveAt(p, i)
    BY DEF LI!RemoveAt, HM!Dictionary!RemoveAt
  <2> QED  BY <2>2, <2>3 DEF r
<1> QED  BY <1>7, <1>8 DEF p, q, t

\* Another value of a key is another value in its pair.
ValueIn(p, k, v) == [i \in DOMAIN p |-> IF p[i].key = k THEN [key |-> k, value |-> v] ELSE p[i]]

\* A key that gets a value gets it in the dictionary.
LEMMA PairsSet ==
  ASSUME NEW x, NEW s, Threaded(x, s), NEW k \in KeysIn(s),
         NEW y, Threaded(y, s), SameValues(y, x, KeysIn(s) \ {k})
  PROVE  PairsOf(y, s) = ValueIn(PairsOf(x, s), k, y.elem[k].value)
<1> DEFINE p == PairsOf(x, s)
           q == PairsOf(y, s)
<1>1. DOMAIN p = 1 .. Len(s) /\ \A j \in 1 .. Len(s) : /\ p[j] = [key |-> s[j], value |-> x.elem[s[j]].value]
                                                       /\ p[j].key = s[j] /\ s[j] \in KeysIn(s)
  BY PairsAre
<1>2. q = [j \in 1 .. Len(s) |-> q[j]] /\ \A j \in 1 .. Len(s) : q[j] = [key |-> s[j], value |-> y.elem[s[j]].value]
  BY DEF PairsOf
<1> HIDE DEF p, q
<1>3. ASSUME NEW j \in 1 .. Len(s) PROVE q[j] = IF p[j].key = k THEN [key |-> k, value |-> y.elem[k].value] ELSE p[j]
  <2>1. CASE s[j] = k
    BY <2>1, <1>1, <1>2
  <2>2. CASE s[j] # k
    <3>1. y.elem[s[j]].value = x.elem[s[j]].value
      BY <2>2, <1>1 DEF SameValues
    <3> QED  BY <3>1, <2>2, <1>1, <1>2
  <2> QED  BY <2>1, <2>2
<1>4. q = [j \in DOMAIN p |-> IF p[j].key = k THEN [key |-> k, value |-> y.elem[k].value] ELSE p[j]]
  BY <1>1, <1>2, <1>3
<1> QED  BY <1>4 DEF p, q, ValueIn

\* The same elements are the same dictionary.
LEMMA PairsSame ==
  ASSUME NEW x, NEW s, NEW y, y.elem = x.elem
  PROVE  PairsOf(y, s) = PairsOf(x, s)
BY DEF PairsOf

\* What walking the pointers collects is the pairs of the sequence.
LEMMA PairsIs == \A s : IsMap(map, s) => HM!Pairs = PairsOf(map, s)
BY BothWaysOf

\* The same, after a step.
LEMMA PairsNextIs == \A s : IsMap(map', s) => HM!Pairs' = PairsOf(map', s)
<1>1. (\A s : IsMap(map, s) => HM!Pairs = PairsOf(map, s))'
  BY PairsIs, PTL
<1> QED  BY <1>1

\* An iterator goes on over what comes in at an end, and what others take out.
LEMMA WalksMore ==
  ASSUME NEW s, IsOrder(s), NEW k \in MapKeys, k \notin KeysIn(s), NEW e, NEW left, Walks(e, left, s)
  PROVE  /\ Walks(e, left, More(s, 1, k))
         /\ Walks(e, IF e # Null THEN left \cup {k} ELSE left, More(s, Len(s) + 1, k))
<1>1. s \in Seq(MapKeys) /\ Len(s) \in Nat
  BY DEF IsOrder
<1>2. CASE e = Null /\ left = {}
  BY <1>2 DEF Walks
<1>3. ASSUME NEW i \in 1 .. Len(s), s[i] = e, \A j \in left : \E m \in i + 1 .. Len(s) : s[m] = j
      PROVE  Walks(e, left, More(s, 1, k)) /\ Walks(e, left \cup {k}, More(s, Len(s) + 1, k))
  <2> DEFINE f == More(s, 1, k)
             b == More(s, Len(s) + 1, k)
  <2>1. IsMore(f, MapKeys, s, 1, k) /\ IsMore(b, MapKeys, s, Len(s) + 1, k)
    BY <1>1, MoreInAWord
  <2> HIDE DEF f, b
  <2>2. /\ Len(f) = Len(s) + 1 /\ \A j \in 1 .. Len(s) : f[j + 1] = s[j]
        /\ Len(b) = Len(s) + 1 /\ b[Len(s) + 1] = k /\ \A j \in 1 .. Len(s) : b[j] = s[j]
    BY <2>1, <1>1 DEF IsMore
  <2>3. Walks(e, left, f)
    <3>1. i + 1 \in 1 .. Len(f) /\ f[i + 1] = e
      BY <2>2, <1>1, <1>3
    <3>2. ASSUME NEW j \in left PROVE \E m \in (i + 1) + 1 .. Len(f) : f[m] = j
      <4>1. PICK m \in i + 1 .. Len(s) : s[m] = j
        BY <1>3
      <4>2. m + 1 \in (i + 1) + 1 .. Len(f) /\ m \in 1 .. Len(s)
        BY <2>2, <1>1
      <4> QED  BY <4>1, <4>2, <2>2
    <3> QED  BY <3>1, <3>2 DEF Walks
  <2>4. Walks(e, left \cup {k}, b)
    <3>1. i \in 1 .. Len(b) /\ b[i] = e
      BY <2>2, <1>1, <1>3
    <3>2. ASSUME NEW j \in left \cup {k} PROVE \E m \in i + 1 .. Len(b) : b[m] = j
      <4>1. CASE j = k
        <5>1. Len(s) + 1 \in i + 1 .. Len(b)
          BY <2>2, <1>1
        <5> QED  BY <5>1, <4>1, <2>2
      <4>2. CASE j \in left
        <5>1. PICK m \in i + 1 .. Len(s) : s[m] = j
          BY <4>2, <1>3
        <5>2. m \in i + 1 .. Len(b) /\ m \in 1 .. Len(s)
          BY <2>2, <1>1
        <5> QED  BY <5>1, <5>2, <2>2
      <4> QED  BY <4>1, <4>2
    <3> QED  BY <3>1, <3>2 DEF Walks
  <2> QED  BY <2>3, <2>4 DEF f, b
<1>4. Walks(e, left, s) => (e = Null /\ left = {}) \/ \E i \in 1 .. Len(s) : s[i] = e /\ \A j \in left : \E m \in i + 1 .. Len(s) : s[m] = j
  BY DEF Walks
<1>5. \A t : Walks(e, left \cup {k}, t) => Walks(e, left, t)
  BY DEF Walks
<1> QED  BY <1>2, <1>3, <1>4, <1>5

\* Erasing another element than the one the iterator is at leaves it what it has still to come to.
LEMMA WalksLess ==
  ASSUME NEW s, IsOrder(s), NEW i \in 1 .. Len(s), NEW e, e # s[i], NEW left, Walks(e, left, s)
  PROVE  Walks(e, left \ {s[i]}, Less(s, i))
<1> DEFINE t == Less(s, i)
           to(j) == IF j < i THEN j ELSE j - 1
<1>1. s \in Seq(MapKeys) /\ Len(s) \in Nat
  BY DEF IsOrder
<1>2. Len(t) = Len(s) - 1 /\ \A j \in 1 .. Len(s) - 1 : t[j] = IF j < i THEN s[j] ELSE s[j + 1]
  BY <1>1, LessIs
<1> HIDE DEF t
<1>3. \A j \in 1 .. Len(s) : j # i => to(j) \in 1 .. Len(t) /\ t[to(j)] = s[j]
  BY <1>1, <1>2
<1>4. CASE e = Null /\ left = {}
  BY <1>4 DEF Walks
<1>5. ASSUME NEW a \in 1 .. Len(s), s[a] = e, \A j \in left : \E m \in a + 1 .. Len(s) : s[m] = j
      PROVE  Walks(e, left \ {s[i]}, t)
  <2>1. a # i /\ to(a) \in 1 .. Len(t) /\ t[to(a)] = e
    <3>1. a # i
      BY <1>5
    <3> HIDE DEF to
    <3> QED  BY <3>1, <1>3, <1>5
  <2>2. ASSUME NEW j \in left \ {s[i]} PROVE \E m \in to(a) + 1 .. Len(t) : t[m] = j
    <3>1. PICK m \in a + 1 .. Len(s) : s[m] = j
      BY <1>5
    <3>2. m \in 1 .. Len(s) /\ m # i
      BY <3>1, <1>1
    <3>3. to(m) \in 1 .. Len(t) /\ t[to(m)] = j
      <4> HIDE DEF to
      <4> QED  BY <3>1, <3>2, <1>3
    <3>4. to(m) \in to(a) + 1 .. Len(t)
      BY <2>1, <3>2, <3>3, <1>1, <1>2
    <3> HIDE DEF to
    <3> QED  BY <3>3, <3>4
  <2> HIDE DEF to
  <2> QED  BY <2>1, <2>2 DEF Walks
<1> QED  BY <1>4, <1>5 DEF Walks, t

\* What a step of the map does to it, and to what it promises.
MapStep == MapInv' /\ (HM!Dictionary!Next \/ HM!Pairs' = HM!Pairs)

\* insert keeps the invariant and is an insert of the dictionary.
LEMMA MapInserts ==
  ASSUME MapInv, NEW k \in MapKeys, NEW v \in ValuesOf[k], NEW front \in BOOLEAN, HM!insert(k, v, front)
  PROVE  MapStep
<1>1. PICK s : IsMap(map, s) /\ Walks(iter, due, s)
  BY DEF MapInv
<1> DEFINE K == KeysIn(s)
           i == IF front THEN 1 ELSE Len(s) + 1
           p == PairsOf(map, s)
<1>2. /\ map' = HM!Inserted(map, k, v, front) /\ iter' = iter
      /\ due' = IF iter # Null /\ ~front /\ k \notin DOMAIN map.elem THEN due \cup {k} ELSE due
  BY NullIs DEF HM!insert
<1>3. /\ Threaded(map, s) /\ IsOrder(s) /\ DOMAIN map.elem = K /\ Len(s) \in Nat /\ HM!Pairs = p
      /\ HM!Dictionary!KeysOf(p) = K
  BY <1>1, EndsAre, PairsIs, PairsAre DEF IsMap, Threaded
<1>4. CASE k \in K
  <2>1. IsMap(map', s) /\ map'.elem[k].value = v /\ SameValues(map', map, K \ {k})
    BY <1>1, <1>2, <1>4, MapInsertedIs
  <2>2. iter' = iter /\ due' = due
    BY <1>2, <1>3, <1>4
  <2>3. MapInv'
    BY <2>1, <2>2, <1>1 DEF MapInv
  <2>4. HM!Pairs' = ValueIn(p, k, v)
    <3>1. HM!Pairs' = PairsOf(map', s)
      BY <2>1, PairsNextIs
    <3>2. Threaded(map', s)
      BY <2>1 DEF IsMap
    <3>3. k \in KeysIn(s) /\ Threaded(map, s) /\ map'.elem[k].value = v /\ SameValues(map', map, KeysIn(s) \ {k})
      BY <2>1, <1>3, <1>4
    <3>4. PairsOf(map', s) = ValueIn(PairsOf(map, s), k, map'.elem[k].value)
      BY <3>2, <3>3, PairsSet, SMTT(30)
    <3> QED  BY <3>1, <3>3, <3>4
  <2>5. HM!Dictionary!Insert(k, v, front)
    BY <2>4, <1>3, <1>4 DEF HM!Dictionary!Insert, ValueIn
  <2> QED  BY <2>3, <2>5 DEF MapStep, HM!Dictionary!Next
<1>5. CASE k \notin K
  <2> DEFINE t == More(s, i, k)
  <2>1. IsMap(map', t) /\ map'.elem[k].value = v /\ SameValues(map', map, K)
    BY <1>1, <1>2, <1>5, MapInsertedIs
  <2>2. Walks(iter', due', t)
    <3>1. Walks(iter, due, More(s, 1, k))
          /\ Walks(iter, IF iter # Null THEN due \cup {k} ELSE due, More(s, Len(s) + 1, k))
      BY <1>1, <1>3, <1>5, WalksMore
    <3>2. CASE front
      BY <3>1, <3>2, <1>2
    <3>3. CASE ~front
      BY <3>1, <3>3, <1>2, <1>3, <1>5
    <3> QED  BY <3>2, <3>3
  <2>3. MapInv'
    BY <2>1, <2>2 DEF MapInv
  <2>4. HM!Pairs' = PairsOf(map', t)
    BY <2>1, PairsNextIs
  <2>5. i \in 1 .. Len(s) + 1 /\ Threaded(map', t)
    BY <2>1, <1>3 DEF IsMap
  <2> HIDE DEF i
  <2>6. /\ i = Len(s) + 1 => PairsOf(map', t) = Append(p, [key |-> k, value |-> v])
        /\ i = 1 => PairsOf(map', t) = << [key |-> k, value |-> v] >> \o p
    BY <2>1, <2>5, <1>3, <1>5, PairsMore
  <2>7. HM!Dictionary!Insert(k, v, front)
    <3> HIDE DEF p, t, K
    <3>1. CASE front
      BY <3>1, <2>4, <2>6, <1>3, <1>5 DEF HM!Dictionary!Insert, i
    <3>2. CASE ~front
      BY <3>2, <2>4, <2>6, <1>3, <1>5 DEF HM!Dictionary!Insert, i
    <3> QED  BY <3>1, <3>2
  <2> QED  BY <2>3, <2>7 DEF MapStep, HM!Dictionary!Next
<1> QED  BY <1>4, <1>5

\* erase keeps the invariant and is an erase of the dictionary.
LEMMA MapErases ==
  ASSUME MapInv, NEW k \in MapKeys, HM!erase(k)
  PROVE  MapStep
<1>1. PICK s : IsMap(map, s) /\ Walks(iter, due, s)
  BY DEF MapInv
<1>2. map' = HM!Erased(map, k) /\ iter' = iter /\ due' = due \ {k} /\ iter # k
  BY DEF HM!erase
<1>3. Threaded(map, s) /\ IsOrder(s) /\ HM!Pairs = PairsOf(map, s)
  BY <1>1, PairsIs DEF IsMap, Threaded
<1>4. CASE k \notin KeysIn(s)
  <2>1. map' = map
    BY <1>1, <1>2, <1>4, MapErasedIs
  <2>2. k \notin due
    BY <1>1, <1>4 DEF Walks, KeysIn
  <2>3. IsMap(map', s) /\ Walks(iter', due', s)
    BY <2>1, <2>2, <1>1, <1>2
  <2>4. HM!Pairs' = HM!Pairs
    BY <2>1, <2>3, <1>3, PairsNextIs
  <2> QED  BY <2>3, <2>4 DEF MapStep, MapInv
<1>5. CASE k \in KeysIn(s)
  <2>1. PICK i \in 1 .. Len(s) : s[i] = k
    BY <1>5 DEF KeysIn
  <2> DEFINE t == Less(s, i)
  <2>2. IsMap(map', t) /\ SameValues(map', map, KeysIn(s) \ {s[i]})
    BY <2>1, <1>1, <1>2, MapErasedIs
  <2>3. Walks(iter', due', t)
    BY <2>1, <1>1, <1>2, <1>3, WalksLess
  <2>4. HM!Pairs' = HM!Dictionary!RemoveAt(HM!Pairs, i)
    <3>1. Threaded(map', t)
      BY <2>2 DEF IsMap
    <3>2. PairsOf(map', t) = HM!Dictionary!RemoveAt(PairsOf(map, s), i)
      BY <3>1, <2>2, <1>3, PairsLess
    <3> HIDE DEF t
    <3> QED  BY <3>2, <2>2, <1>3, PairsNextIs
  <2>5. i \in DOMAIN HM!Pairs /\ HM!Pairs[i].key = k
    <3>1. s \in Seq(MapKeys)
      BY <1>3 DEF IsOrder
    <3>2. i \in DOMAIN PairsOf(map, s) /\ PairsOf(map, s)[i].key = s[i]
      BY <2>1, <3>1 DEF PairsOf
    <3> QED  BY <3>2, <2>1, <1>3
  <2>6. HM!Dictionary!Erase(k)
    BY <2>4, <2>5 DEF HM!Dictionary!Erase
  <2> HIDE DEF t
  <2> QED  BY <2>2, <2>3, <2>6 DEF MapStep, MapInv, HM!Dictionary!Next
<1> QED  BY <1>4, <1>5

\* Nothing is left to an iterator that is past the end.
LEMMA WalksEnd ==
  ASSUME NEW s, NEW x, IsMap(x, s), NEW left, Walks(Null, left, s)
  PROVE  left = {}
<1>1. s \in Seq(MapKeys)
  BY DEF IsMap, Threaded, IsOrder
<1>2. \A i \in 1 .. Len(s) : s[i] # Null
  BY <1>1, NullIs
<1> QED  BY <1>2 DEF Walks

\* clear keeps the invariant and is a clear of the dictionary.
LEMMA MapClears == ASSUME MapInv, HM!clear PROVE MapStep
<1>1. PICK s : IsMap(map, s) /\ Walks(iter, due, s)
  BY DEF MapInv
<1>2. map' = HM!Cleared(map) /\ iter' = Null /\ due' = due /\ iter = Null
  BY NullIs DEF HM!clear
<1>3. IsMap(map', << >>) /\ Walks(iter', due', << >>)
  BY <1>1, <1>2, MapClearedIs, WalksEnd DEF Walks
<1>4. HM!Pairs' = << >>
  <2>1. HM!Pairs' = PairsOf(map', << >>)
    BY <1>3, PairsNextIs
  <2> QED  BY <2>1 DEF PairsOf
<1> QED  BY <1>3, <1>4 DEF MapStep, MapInv, HM!Dictionary!Next, HM!Dictionary!Clear

\* reserve keeps the invariant and the dictionary as it is.
LEMMA MapReserves == ASSUME MapInv, NEW n \in Capacities, HM!reserve(n) PROVE MapStep
<1>1. PICK s : IsMap(map, s) /\ Walks(iter, due, s)
  BY DEF MapInv
<1>2. map' = HM!Reserved(map, n) /\ iter' = iter /\ due' = due
  BY DEF HM!reserve
<1>3. IsMap(map', s) /\ map'.elem = map.elem
  <2>1. n \in 0 .. HM!LargestCapacity
    BY HashAssumption, Zenon
  <2> QED  BY <2>1, <1>1, <1>2, ReservedIs
<1>4. HM!Pairs' = HM!Pairs
  BY <1>1, <1>3, PairsIs, PairsNextIs, PairsSame
<1> QED  BY <1>1, <1>2, <1>3, <1>4 DEF MapStep, MapInv

\* operator= keeps the invariant and is an assignment of the dictionary.
LEMMA MapAssigns == ASSUME MapInv, NEW other \in OtherMaps, HM!assign(other) PROVE MapStep
<1>1. PICK s : IsMap(map, s) /\ Walks(iter, due, s)
  BY DEF MapInv
<1> DEFINE t == KeysTo(other, Len(other))
<1>2. map' = HM!Assigned(map, other) /\ iter' = Null /\ due' = due /\ iter = Null
  BY NullIs DEF HM!assign
<1>3. IsMap(map', t) /\ PairsOf(map', t) = other
  BY <1>1, <1>2, AssignedIs
<1>4. Walks(iter', due', t)
  BY <1>1, <1>2, WalksEnd DEF Walks
<1> HIDE DEF t
<1>5. HM!Pairs' = other
  BY <1>3, PairsNextIs
<1> QED  BY <1>3, <1>4, <1>5 DEF MapStep, MapInv, HM!Dictionary!Next, HM!Dictionary!Assign

\* A map that stays as it is.
LEMMA MapStays ==
  ASSUME NEW s, IsMap(map, s), map' = map, Walks(iter', due', s)
  PROVE  MapStep
<1>1. IsMap(map', s)
  OBVIOUS
<1>2. HM!Pairs' = HM!Pairs
  BY <1>1, PairsIs, PairsNextIs
<1> QED  BY <1>1, <1>2 DEF MapStep, MapInv

\* begin keeps the invariant and the dictionary as it is.
LEMMA MapBegins == ASSUME MapInv, HM!begin PROVE MapStep
<1>1. PICK s : IsMap(map, s) /\ Walks(iter, due, s)
  BY DEF MapInv
<1>2. map' = map /\ iter' = map.head /\ due' = DOMAIN map.elem \ {map.head}
  BY DEF HM!begin
<1>3. DOMAIN map.elem = KeysIn(s) /\ map.head = At(s, 1) /\ Len(s) \in Nat /\ s \in Seq(MapKeys)
  BY <1>1, EndsAre DEF IsMap, Threaded
<1>4. Walks(iter', due', s)
  <2>1. CASE Len(s) = 0
    BY <2>1, <1>2, <1>3 DEF Walks, At, KeysIn
  <2>2. CASE Len(s) # 0
    <3>1. 1 \in 1 .. Len(s) /\ s[1] = iter'
      BY <2>2, <1>2, <1>3 DEF At
    <3>2. ASSUME NEW k \in due' PROVE \E j \in 1 + 1 .. Len(s) : s[j] = k
      <4>1. PICK j \in 1 .. Len(s) : s[j] = k
        BY <1>2, <1>3 DEF KeysIn
      <4>2. j # 1
        BY <4>1, <3>1, <1>2
      <4>3. j \in 1 + 1 .. Len(s)
        BY <4>2
      <4> QED  BY <4>1, <4>3
    <3> QED  BY <3>1, <3>2 DEF Walks
  <2> QED  BY <2>1, <2>2
<1> QED  BY <1>1, <1>2, <1>4, MapStays

\* The step of the iterator keeps the invariant and the dictionary as it is.
LEMMA MapSteps == ASSUME MapInv, HM!step PROVE MapStep
<1>1. PICK s : IsMap(map, s) /\ Walks(iter, due, s)
  BY DEF MapInv
<1>2. map' = map /\ iter # Null /\ iter' = map.elem[iter].next /\ due' = due \ {map.elem[iter].next}
  BY NullIs DEF HM!step
<1>3. PICK i \in 1 .. Len(s) : s[i] = iter /\ \A k \in due : \E j \in i + 1 .. Len(s) : s[j] = k
  BY <1>1, <1>2 DEF Walks
<1>4. iter' = At(s, i + 1) /\ Len(s) \in Nat /\ s \in Seq(MapKeys)
  BY <1>1, <1>2, <1>3 DEF IsMap, Threaded, IsOrder
<1>5. Walks(iter', due', s)
  <2>1. CASE i = Len(s)
    <3>1. iter' = Null /\ due = {}
      BY <2>1, <1>3, <1>4 DEF At
    <3> QED  BY <3>1, <1>2 DEF Walks
  <2>2. CASE i # Len(s)
    <3>1. i + 1 \in 1 .. Len(s) /\ s[i + 1] = iter'
      BY <2>2, <1>4 DEF At
    <3>2. ASSUME NEW k \in due' PROVE \E j \in (i + 1) + 1 .. Len(s) : s[j] = k
      <4>1. PICK j \in i + 1 .. Len(s) : s[j] = k
        BY <1>2, <1>3
      <4>2. j # i + 1
        BY <4>1, <3>1, <1>2
      <4>3. j \in (i + 1) + 1 .. Len(s)
        BY <4>2, <1>4
      <4> QED  BY <4>1, <4>3
    <3> QED  BY <3>1, <3>2 DEF Walks
  <2> QED  BY <2>1, <2>2
<1> QED  BY <1>1, <1>2, <1>5, MapStays

\* The constructor makes a map of the invariant and an empty dictionary.
LEMMA MapInitial == HM!Init => MapInv /\ HM!Dictionary!Init
<1> SUFFICES ASSUME HM!Init PROVE MapInv /\ HM!Dictionary!Init
  OBVIOUS
<1>1. IsMap(map, << >>)
  <2>1. 2 \in Indices /\ 0 \in Indices
    BY DEF Indices
  <2>2. CASE map = HM!Made(HM!MIN_CAPACITY_INDEX)
    BY <2>1, <2>2, EmptyMapIs DEF HM!MIN_CAPACITY_INDEX
  <2>3. ASSUME NEW n \in Capacities, map = HM!Reserved(HM!Made(0), n) PROVE IsMap(map, << >>)
    <3>1. n \in 0 .. HM!LargestCapacity
      BY HashAssumption, Zenon
    <3> QED  BY <3>1, <2>1, <2>3, EmptyMapIs, ReservedIs
  <2> QED  BY <2>2, <2>3 DEF HM!Init
<1>2. iter = Null /\ due = {}
  BY NullIs DEF HM!Init
<1>3. HM!Pairs = << >>
  <2>1. HM!Pairs = PairsOf(map, << >>)
    BY <1>1, PairsIs
  <2> QED  BY <2>1 DEF PairsOf
<1> QED  BY <1>1, <1>2, <1>3 DEF MapInv, Walks, HM!Dictionary!Init

\* Every step of a HashMap keeps the invariant and is a step of the dictionary or a stutter.
LEMMA MapNext == MapInv /\ [HM!Next]_HM!vars => MapStep
<1> SUFFICES ASSUME MapInv, [HM!Next]_HM!vars PROVE MapStep
  OBVIOUS
<1>1. ASSUME NEW k \in MapKeys, NEW front \in BOOLEAN, NEW v \in ValuesOf[k], HM!insert(k, v, front) PROVE MapStep
  BY <1>1, MapInserts
<1>2. ASSUME NEW k \in MapKeys, HM!index(k) PROVE MapStep
  <2>1. Default \in ValuesOf[k]
    BY HashAssumption
  <2> QED  BY <2>1, <1>2, MapInserts DEF HM!index
<1>3. ASSUME NEW k \in MapKeys, HM!erase(k) PROVE MapStep
  BY <1>3, MapErases
<1>4. CASE HM!clear
  BY <1>4, MapClears
<1>5. ASSUME NEW n \in Capacities, HM!reserve(n) PROVE MapStep
  BY <1>5, MapReserves
<1>6. ASSUME NEW other \in OtherMaps, HM!assign(other) PROVE MapStep
  BY <1>6, MapAssigns
<1>7. CASE HM!begin
  BY <1>7, MapBegins
<1>8. CASE HM!step
  BY <1>8, MapSteps
<1>9. CASE UNCHANGED HM!vars
  <2>1. PICK s : IsMap(map, s) /\ Walks(iter, due, s)
    BY DEF MapInv
  <2> QED  BY <2>1, <1>9, MapStays DEF HM!vars
<1> QED  BY <1>1, <1>2, <1>3, <1>4, <1>5, <1>6, <1>7, <1>8, <1>9 DEF HM!Next

\* In every state the slots, the pointers and the iterator agree on one sequence of keys.
LEMMA MapInvariant == HM!Spec => []MapInv
<1>1. HM!Init => MapInv
  BY MapInitial
<1>2. MapInv /\ [HM!Next]_HM!vars => MapInv'
  BY MapNext DEF MapStep
<1> QED  BY <1>1, <1>2, PTL DEF HM!Spec

\* Its list is whole in both directions, a lookup finds a key exactly when it is in
\* the map, and an iterator misses nobody, whatever is inserted, erased and rehashed.
THEOREM MapHolds == HM!Spec => []MapIsSound
<1>1. MapInv => MapIsSound
  BY MapIsGood
<1> QED  BY <1>1, MapInvariant, PTL

\* It is a dictionary that keeps the order of insertion (hash_map.hpp:46).
THEOREM MapIsDictionary == HM!Spec => IsOrderedMap
<1>1. HM!Init => HM!Dictionary!Init
  BY MapInitial
<1>2. MapInv /\ [HM!Next]_HM!vars => [HM!Dictionary!Next]_(HM!Pairs)
  BY MapNext DEF MapStep
<1> QED  BY <1>1, <1>2, MapInvariant, PTL DEF HM!Spec, IsOrderedMap, HM!IsOrderedMap, HM!Dictionary!Spec

==============================================================================
