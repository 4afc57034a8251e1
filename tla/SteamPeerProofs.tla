--------------------------- MODULE SteamPeerProofs ---------------------------
(* Proofs about SteamPeer, for any number of client instances and Steam users  *)
(* and any bounds: the maps of the server agree with each other and with the   *)
(* signals it has emitted, a packet that is read comes from the peer it was     *)
(* received from and that one is announced, no connection is left open with no *)
(* SteamConnection to close it, and both ends hear the reliable packets in the *)
(* order in which they were sent.                                              *)
EXTENDS SteamPeer, NaturalsInduction, WellFoundedInduction, TLAPS

EndStates == {"none", "connecting", "finding", "connected", "broken", "closed"}
Callbacks == [k : Insts, ev : {"arrived", "connected", "ended"},
              old : {"none", "connecting", "finding", "connected"}]

\* The types the arguments below need.
Types ==
  /\ end \in [Insts -> [Ends -> EndStates]]
  /\ calls \in Seq(Callbacks)
  /\ owner \in [Insts -> Users \cup Insts \cup {Nobody}]
  /\ status \in [Insts -> {"new", "connecting", "connected", "disconnected", "gone"}]
  /\ pid \in [Insts -> Insts \cup {Nobody}]
  /\ \A k \in Insts : DOMAIN got[k] = Dirs
  /\ DOMAIN got = Insts

\* An entry belongs to the Steam user of its connection, and a connection that
\* is in a map, in a callback or open is one that has been made.
Owned ==
  /\ \A x \in DOMAIN conns : conns[x] \in Insts /\ owner[conns[x]] = x
  /\ \A k \in Insts : owner[k] \in Users \cup {k, Nobody}
  /\ \A k \in Loops : \A e \in Ends : end[k][e] \in {"connected", "broken", "closed"}
Made ==
  /\ \A x \in DOMAIN conns : status[conns[x]] # "new"
  /\ \A k \in Insts : status[k] = "new" =>
       /\ \A e \in Ends : end[k][e] = "none"
       /\ pid[k] = Nobody
  /\ \A i \in 1 .. Len(calls) : status[calls[i].k] # "new"

\* A connection is only ever known under the id of its own instance.
OwnId ==
  /\ \A k \in Insts : pid[k] \in {Nobody, k}
  /\ \A p \in DOMAIN peers : p \in Insts /\ peers[p] = p /\ status[p] # "new"

IInv == Types /\ Owned /\ Made /\ OwnId /\ MapsAgree

------------------------------------------------------------------------------
(* The operators of the handlers. *)

LEMMA WithoutIs ==
  ASSUME NEW f, NEW x
  PROVE  /\ DOMAIN Without(f, x) = DOMAIN f \ {x}
         /\ \A y \in DOMAIN f \ {x} : Without(f, x)[y] = f[y]
  BY DEF Without, Restrict

\* Closing handles leaves the ends of the other connections and of the clients.
LEMMA CloseIs ==
  ASSUME Types, NEW S, CloseServer(S)
  PROVE  /\ end' \in [Insts -> [Ends -> EndStates]]
         /\ \A k \in Insts : end'[k][Client] = end[k][Client]
         /\ \A k \in Insts : end'[k][Server] =
              IF k \in S /\ end[k][Server] # "none" THEN "closed" ELSE end[k][Server]
  BY DEF Types, CloseServer, Ends, EndStates, Client, Server

\* Taking one peer out of both maps keeps them in agreement.
LEMMA TakenOut ==
  ASSUME IInv, NEW p \in DOMAIN peers,
         conns' = Without(conns, owner[p]), peers' = Without(peers, p), known' = known \ {p},
         UNCHANGED <<owner, status, pid>>
  PROVE  /\ \A x \in DOMAIN conns' : x \in DOMAIN conns /\ conns'[x] = conns[x]
         /\ \A q \in DOMAIN peers' : q \in DOMAIN peers /\ peers'[q] = peers[q]
         /\ MapsAgree'
<1>1. /\ DOMAIN conns' = DOMAIN conns \ {owner[p]}
      /\ \A x \in DOMAIN conns' : conns'[x] = conns[x]
      /\ DOMAIN peers' = DOMAIN peers \ {p}
      /\ \A q \in DOMAIN peers' : peers'[q] = peers[q]
  BY WithoutIs
<1>2. DOMAIN peers' = known'
  BY <1>1 DEF IInv, MapsAgree
<1>3. ASSUME NEW x \in DOMAIN conns', pid'[conns'[x]] # Nobody
      PROVE  pid'[conns'[x]] \in DOMAIN peers' /\ peers'[pid'[conns'[x]]] = conns'[x]
  <2>1. /\ x \in DOMAIN conns /\ x # owner[p] /\ conns'[x] = conns[x]
        /\ conns[x] \in Insts /\ owner[conns[x]] = x
    BY <1>1 DEF IInv, Owned
  <2>2. pid[conns[x]] = conns[x] /\ conns[x] \in DOMAIN peers /\ peers[conns[x]] = conns[x]
    BY <1>3, <2>1 DEF IInv, OwnId, MapsAgree
  <2>3. conns[x] # p
    BY <2>1
  <2> QED BY <1>1, <2>1, <2>2, <2>3
<1> QED BY <1>1, <1>2, <1>3 DEF MapsAgree

LEMMA DisconnectIs ==
  ASSUME IInv, NEW p, NEW extra, DisconnectPeer(p, extra), UNCHANGED <<owner, status, pid>>
  PROVE  /\ \A x \in DOMAIN conns' : x \in DOMAIN conns /\ conns'[x] = conns[x]
         /\ \A q \in DOMAIN peers' : q \in DOMAIN peers /\ peers'[q] = peers[q]
         /\ MapsAgree'
         /\ \E S : CloseServer(S)
<1>1. CASE p \in DOMAIN peers /\ end[peers[p]][Server] # "closed"
  <2>1. peers[p] = p
    BY <1>1 DEF IInv, OwnId
  <2>2. conns' = Without(conns, owner[p]) /\ peers' = Without(peers, p) /\ known' = known \ {p}
    BY <1>1, <2>1 DEF DisconnectPeer
  <2>3. \E S : CloseServer(S)
    BY <1>1 DEF DisconnectPeer
  <2> QED BY <1>1, <2>2, <2>3, TakenOut
<1>2. CASE ~(p \in DOMAIN peers /\ end[peers[p]][Server] # "closed")
  <2>1. UNCHANGED <<conns, peers, known>> /\ CloseServer(extra)
    BY <1>2 DEF DisconnectPeer
  <2> QED BY <2>1 DEF IInv, MapsAgree
<1> QED BY <1>1, <1>2

------------------------------------------------------------------------------
(* The invariant is inductive. *)

LEMMA Initially == Init => IInv
  <1> SUFFICES ASSUME Init PROVE IInv
    OBVIOUS
  <1>1. Types
    BY DEF Init, Types, EndStates, Callbacks
  <1>2. Owned
    BY UsersApart DEF Init, Owned, Loops
  <1>3. Made /\ OwnId /\ MapsAgree
    BY DEF Init, Made, OwnId, MapsAgree
  <1> QED BY <1>1, <1>2, <1>3 DEF IInv

\* What steps that leave the maps and the ids alone have to show.
LEMMA SameMaps ==
  ASSUME IInv, UNCHANGED <<owner, status, conns, pid, peers, known>>,
         Types', \A k \in Insts : status[k] = "new" => \A e \in Ends : end'[k][e] = "none",
         \A k \in Loops : \A e \in Ends : end'[k][e] \in {"connected", "broken", "closed"},
         \A i \in 1 .. Len(calls') : status[calls'[i].k] # "new"
  PROVE  IInv'
  BY DEF IInv, Owned, Made, OwnId, MapsAgree, Loops

\* And those that also leave the ends and the callbacks alone.
LEMMA SameEnds ==
  ASSUME IInv, UNCHANGED <<owner, status, conns, pid, peers, known, end, calls>>,
         DOMAIN got' = Insts, \A k \in Insts : DOMAIN got'[k] = Dirs
  PROVE  IInv'
  BY DEF IInv, Types, Owned, Made, OwnId, MapsAgree, Loops

LEMMA CallsOfInsts ==
  ASSUME Types
  PROVE  \A i \in 1 .. Len(calls) : calls[i] \in Callbacks /\ calls[i].k \in Insts
<1> SUFFICES ASSUME NEW i \in 1 .. Len(calls) PROVE calls[i] \in Callbacks /\ calls[i].k \in Insts
  OBVIOUS
<1>1. calls[i] \in Callbacks
  BY DEF Types
<1> QED BY <1>1 DEF Callbacks

\* The callbacks that wait behind the first one.
LEMMA TailIs ==
  ASSUME Types, Made, calls # <<>>
  PROVE  /\ Head(calls) \in Callbacks
         /\ status[Head(calls).k] # "new"
         /\ Tail(calls) \in Seq(Callbacks)
         /\ \A i \in 1 .. Len(Tail(calls)) : status[Tail(calls)[i].k] # "new"
  BY DEF Types, Made

\* Disconnecting a peer keeps the invariant, with the callbacks that are left.
LEMMA DisconnectKeeps ==
  ASSUME IInv, NEW p, NEW extra, DisconnectPeer(p, extra),
         UNCHANGED <<owner, status, pid, got>>,
         calls' \in Seq(Callbacks), \A i \in 1 .. Len(calls') : status[calls'[i].k] # "new"
  PROVE  IInv'
<1>1. /\ \A x \in DOMAIN conns' : x \in DOMAIN conns /\ conns'[x] = conns[x]
      /\ \A q \in DOMAIN peers' : q \in DOMAIN peers /\ peers'[q] = peers[q]
      /\ MapsAgree'
      /\ \E S : CloseServer(S)
  BY DisconnectIs
<1>2. PICK S : CloseServer(S)
  BY <1>1
<1>3. /\ end' \in [Insts -> [Ends -> EndStates]]
      /\ \A k \in Insts : end'[k][Client] = end[k][Client]
      /\ \A k \in Insts : end'[k][Server] = end[k][Server]
                         \/ (end[k][Server] # "none" /\ end'[k][Server] = "closed")
  BY <1>2, CloseIs DEF IInv
<1>4. Types'
  BY <1>3 DEF IInv, Types
<1>5. Owned'
  BY <1>1, <1>3 DEF IInv, Owned, Loops, Ends
<1>6. Made'
  BY <1>1, <1>3 DEF IInv, Made, Ends
<1>7. OwnId'
  BY <1>1 DEF IInv, OwnId
<1> QED BY <1>1, <1>4, <1>5, <1>6, <1>7 DEF IInv

LEMMA ServerCallbackKeeps ==
  ASSUME IInv, ServerCallback
  PROVE  IInv'
<1> DEFINE c == Head(calls)
<1>0. /\ c \in Callbacks /\ c.k \in Insts /\ status[c.k] # "new"
      /\ calls' = Tail(calls) /\ calls' \in Seq(Callbacks)
      /\ \A i \in 1 .. Len(calls') : status[calls'[i].k] # "new"
      /\ UNCHANGED <<owner, status, got>>
  BY TailIs DEF ServerCallback, IInv, clientVars, Callbacks
<1>1. CASE c.k \notin Loops /\ ServerArrived(c)
  <2>1. /\ UNCHANGED <<conns, pid, peers, known>>
        /\ end' = [end EXCEPT ![c.k][Server] = IF @ = "connecting" THEN "finding" ELSE "closed"]
    BY <1>1 DEF ServerArrived
  <2>2. end' \in [Insts -> [Ends -> EndStates]]
    BY <1>0, <2>1 DEF IInv, Types, Ends, EndStates, Server
  <2>3. \A k \in Insts \ {c.k} : end'[k] = end[k]
    BY <1>0, <2>1 DEF IInv, Types
  <2>4. Types'
    BY <1>0, <2>1, <2>2 DEF IInv, Types
  <2> HIDE DEF c
  <2>5. \A k \in Insts : status[k] = "new" => \A e \in Ends : end'[k][e] = "none"
    BY <1>0, <2>3 DEF IInv, Made
  <2>6. \A k \in Loops : \A e \in Ends : end'[k][e] \in {"connected", "broken", "closed"}
    BY <1>1, <2>3 DEF IInv, Owned, Loops
  <2> QED BY <1>0, <2>1, <2>4, <2>5, <2>6, SameMaps
<1>2. CASE c.k \notin Loops /\ ServerConnected(c)
  <2>1. /\ conns' = With(conns, owner[c.k], c.k)
        /\ pid' = [pid EXCEPT ![c.k] = Nobody]
        /\ UNCHANGED <<peers, known>>
        /\ \E S : CloseServer(S)
    BY <1>2 DEF ServerConnected
  <2> HIDE DEF c
  <2>2. PICK S : CloseServer(S)
    BY <2>1
  <2>3. /\ end' \in [Insts -> [Ends -> EndStates]]
        /\ \A k \in Insts : end'[k][Client] = end[k][Client]
        /\ \A k \in Insts : end'[k][Server] = end[k][Server]
                           \/ (end[k][Server] # "none" /\ end'[k][Server] = "closed")
    BY <2>2, CloseIs DEF IInv
  <2>4. /\ \A x \in DOMAIN conns' \ {owner[c.k]} : x \in DOMAIN conns /\ conns'[x] = conns[x]
        /\ conns'[owner[c.k]] = c.k
    BY <2>1 DEF With
  <2>5. /\ pid'[c.k] = Nobody /\ \A k \in Insts \ {c.k} : pid'[k] = pid[k]
        /\ pid' \in [Insts -> Insts \cup {Nobody}]
    BY <1>0, <2>1 DEF IInv, Types
  <2>6. Types'
    BY <1>0, <2>3, <2>5 DEF IInv, Types
  <2>7. Owned'
    <3>1. \A x \in DOMAIN conns' : conns'[x] \in Insts /\ owner'[conns'[x]] = x
      BY <1>0, <2>4 DEF IInv, Owned
    <3>2. \A k \in Loops' : \A e \in Ends : end'[k][e] \in {"connected", "broken", "closed"}
      BY <1>0, <2>3 DEF IInv, Owned, Loops, Ends
    <3> QED BY <1>0, <3>1, <3>2 DEF IInv, Owned
  <2>8. Made'
    <3>1. \A x \in DOMAIN conns' : status'[conns'[x]] # "new"
      BY <1>0, <2>4 DEF IInv, Made
    <3>2. ASSUME NEW k \in Insts, status'[k] = "new"
          PROVE  pid'[k] = Nobody /\ \A e \in Ends : end'[k][e] = "none"
      BY <1>0, <2>3, <2>5, <3>2 DEF IInv, Made, Ends
    <3> QED BY <1>0, <3>1, <3>2 DEF Made
  <2>9. OwnId'
    BY <1>0, <2>1, <2>5 DEF IInv, OwnId
  <2>10. MapsAgree'
    <3>1. ASSUME NEW x \in DOMAIN conns', pid'[conns'[x]] # Nobody
          PROVE  pid'[conns'[x]] \in DOMAIN peers' /\ peers'[pid'[conns'[x]]] = conns'[x]
      <4>1. conns'[x] # c.k
        BY <2>5, <3>1
      <4>2. x \in DOMAIN conns /\ conns'[x] = conns[x] /\ conns[x] \in Insts
        BY <2>4, <4>1 DEF IInv, Owned
      <4> QED BY <2>1, <2>5, <3>1, <4>1, <4>2 DEF IInv, MapsAgree
    <3> QED BY <2>1, <3>1 DEF IInv, MapsAgree
  <2> QED BY <2>6, <2>7, <2>8, <2>9, <2>10 DEF IInv
<1>3. CASE c.k \notin Loops /\ ServerEnded(c)
  <2>1. UNCHANGED pid /\ \E p, extra : DisconnectPeer(p, extra)
    BY <1>3 DEF ServerEnded
  <2> HIDE DEF c
  <2>2. PICK p, extra : DisconnectPeer(p, extra)
    BY <2>1
  <2> QED BY <1>0, <2>1, <2>2, DisconnectKeeps
<1>4. CASE UNCHANGED <<end, air, pend, conns, pid, peers, known>>
  <2>1. Types'
    BY <1>0, <1>4 DEF IInv, Types
  <2> HIDE DEF c
  <2> QED BY <1>0, <1>4, <2>1, SameMaps DEF IInv, Made, Owned
<1> QED BY <1>1, <1>2, <1>3, <1>4 DEF ServerCallback

LEMMA ServerPollKeeps ==
  ASSUME IInv, ServerPoll
  PROVE  IInv'
<1>1. PICK x \in DOMAIN conns : \E m \in Waiting(conns[x], Up) :
        ServerMessage(conns[x], conns[owner[conns[x]]], m) \/ ServerPing(conns[x], conns[owner[conns[x]]], m)
  BY DEF ServerPoll
<1> DEFINE k == conns[x]
<1>0. PICK m \in Waiting(k, Up) : ServerMessage(k, conns[owner[k]], m) \/ ServerPing(k, conns[owner[k]], m)
  BY <1>1
<1>2. /\ k \in Insts /\ owner[k] = x /\ conns[owner[k]] = k /\ status[k] # "new"
      /\ UNCHANGED <<end, calls, owner, status, conns>>
  BY DEF IInv, Owned, Made, ServerPoll, clientVars
<1>3. CASE ServerMessage(k, k, m)
  <2>1. DOMAIN got' = Insts /\ \A q \in Insts : DOMAIN got'[q] = Dirs
    BY <1>3 DEF ServerMessage, Deliver, IInv, Types
  <2> QED BY <1>2, <1>3, <2>1, SameEnds DEF ServerMessage
<1>4. CASE ServerPing(k, k, m) /\ m.type # "setup"
  BY <1>2, <1>4, SameEnds DEF ServerPing, IInv, Types
<1>5. CASE ServerPing(k, k, m) /\ m.type = "setup"
  <2>1. /\ pid' = [pid EXCEPT ![k] = k] /\ peers' = With(peers, k, k) /\ known' = known \cup {k}
        /\ UNCHANGED got
    BY <1>5 DEF ServerPing
  <2> HIDE DEF k
  <2>2. /\ DOMAIN peers' = DOMAIN peers \cup {k} /\ peers'[k] = k
        /\ \A q \in DOMAIN peers \ {k} : peers'[q] = peers[q]
    BY <2>1 DEF With
  <2>3. /\ pid'[k] = k /\ \A q \in Insts \ {k} : pid'[q] = pid[q]
        /\ pid' \in [Insts -> Insts \cup {Nobody}]
    BY <1>2, <2>1 DEF IInv, Types
  <2>4. Types' /\ Owned'
    BY <1>2, <2>1, <2>3 DEF IInv, Types, Owned, Loops
  <2>5. Made'
    BY <1>2, <2>3 DEF IInv, Made
  <2>6. OwnId'
    <3>1. \A q \in Insts : pid'[q] \in {Nobody, q}
      BY <2>3 DEF IInv, OwnId
    <3>2. \A q \in DOMAIN peers' : q \in Insts /\ peers'[q] = q /\ status'[q] # "new"
      BY <1>2, <2>2 DEF IInv, OwnId
    <3> QED BY <3>1, <3>2 DEF OwnId
  <2>7. MapsAgree'
    <3>1. ASSUME NEW y \in DOMAIN conns', pid'[conns'[y]] # Nobody
          PROVE  pid'[conns'[y]] \in DOMAIN peers' /\ peers'[pid'[conns'[y]]] = conns'[y]
      <4>1. y \in DOMAIN conns /\ conns'[y] = conns[y] /\ conns[y] \in Insts
        BY <1>2 DEF IInv, Owned
      <4>2. CASE conns[y] = k
        BY <2>2, <2>3, <4>1, <4>2
      <4>3. CASE conns[y] # k
        <5>1. /\ pid'[conns[y]] = pid[conns[y]] /\ pid[conns[y]] # Nobody
              /\ pid[conns[y]] = conns[y]
          BY <2>3, <3>1, <4>1, <4>3 DEF IInv, OwnId
        <5>2. conns[y] \in DOMAIN peers /\ peers[conns[y]] = conns[y]
          BY <4>1, <5>1 DEF IInv, MapsAgree
        <5> QED BY <2>2, <4>1, <4>3, <5>1, <5>2
      <4> QED BY <4>2, <4>3
    <3> QED BY <2>1, <2>2, <3>1 DEF IInv, MapsAgree
  <2> QED BY <2>4, <2>5, <2>6, <2>7 DEF IInv
<1> QED BY <1>0, <1>2, <1>3, <1>4, <1>5

LEMMA ServerGoneKeeps ==
  ASSUME IInv, ServerGone
  PROVE  IInv'
<1>1. /\ CloseServer(Insts) /\ calls' = <<>> /\ DOMAIN conns' = {} /\ DOMAIN peers' = {}
      /\ known' = {} /\ UNCHANGED <<owner, status, pid, got>>
  BY DEF ServerGone, clientVars
<1>2. /\ end' \in [Insts -> [Ends -> EndStates]]
      /\ \A k \in Insts : end'[k][Client] = end[k][Client]
      /\ \A k \in Insts : end'[k][Server] = end[k][Server]
                         \/ (end[k][Server] # "none" /\ end'[k][Server] = "closed")
  BY <1>1, CloseIs DEF IInv
<1>3. Types'
  BY <1>1, <1>2 DEF IInv, Types
<1>5. Owned'
  BY <1>1, <1>2 DEF IInv, Owned, Loops, Ends
<1>6. Made'
  BY <1>1, <1>2 DEF IInv, Made, Ends
<1>4. OwnId' /\ MapsAgree'
  BY <1>1 DEF IInv, OwnId, MapsAgree
<1> QED BY <1>3, <1>4, <1>5, <1>6 DEF IInv

\* A client that is made has no entry yet, whatever Steam user it connects as.
LEMMA CreationKeeps ==
  ASSUME IInv, NEW k \in Insts, status[k] = "new", status'[k] # "new", Types',
         owner'[k] \in Users \cup {k},
         owner'[k] = k => \A e \in Ends : end'[k][e] = "connected",
         \A j \in Insts \ {k} : owner'[j] = owner[j] /\ status'[j] = status[j] /\ end'[j] = end[j],
         UNCHANGED <<calls, pid, peers, known>>,
         conns' = conns \/ (owner'[k] = k /\ conns' = With(conns, k, k))
  PROVE  IInv'
<1>1. \A x \in DOMAIN conns' :
        \/ x \in DOMAIN conns /\ conns'[x] = conns[x] /\ conns[x] \in Insts \ {k}
        \/ x = k /\ conns'[x] = k /\ owner'[k] = k
  BY DEF With, IInv, Owned, Made
<1>2. \A j \in Insts : status'[j] = "new" => status[j] = "new" /\ j # k
  OBVIOUS
<1>3. Owned'
  <2>1. \A x \in DOMAIN conns' : conns'[x] \in Insts /\ owner'[conns'[x]] = x
    BY <1>1 DEF IInv, Owned
  <2>2. \A j \in Insts : owner'[j] \in Users \cup {j, Nobody}
    BY DEF IInv, Owned
  <2>3. ASSUME NEW j \in Loops', NEW e \in Ends
        PROVE  end'[j][e] \in {"connected", "broken", "closed"}
    <3>1. CASE j = k
      BY <2>3, <3>1 DEF Loops
    <3>2. CASE j # k
      <4>1. j \in Loops /\ end'[j] = end[j]
        BY <2>3, <3>2 DEF Loops
      <4> QED BY <4>1 DEF IInv, Owned
    <3> QED BY <3>1, <3>2
  <2> QED BY <2>1, <2>2, <2>3 DEF Owned
<1>4. Made'
  <2>1. \A x \in DOMAIN conns' : status'[conns'[x]] # "new"
    BY <1>1 DEF IInv, Made
  <2>2. \A i \in 1 .. Len(calls) : calls[i].k \in Insts
    BY CallsOfInsts DEF IInv
  <2> QED BY <1>2, <2>1, <2>2 DEF IInv, Made
<1>5. OwnId'
  BY DEF IInv, OwnId
<1>6. MapsAgree'
  <2>1. pid[k] = Nobody
    BY DEF IInv, Made
  <2> QED BY <1>1, <2>1 DEF IInv, MapsAgree
<1> QED BY <1>3, <1>4, <1>5, <1>6 DEF IInv

LEMMA CreateKeeps ==
  ASSUME IInv, NEW k \in Insts, CreateLoopbackClient(k) \/ \E u \in Users : CreateClient(k, u)
  PROVE  IInv'
<1>1. CASE CreateLoopbackClient(k)
  <2>1. /\ status[k] = "new" /\ status' = [status EXCEPT ![k] = "connected"]
        /\ owner' = [owner EXCEPT ![k] = k]
        /\ end' = [end EXCEPT ![k] = [e \in Ends |-> "connected"]]
        /\ UNCHANGED <<calls, pid, peers, known, got>>
        /\ conns' = With(conns, k, k)
    BY <1>1 DEF CreateLoopbackClient
  <2>2. Types'
    BY <2>1 DEF IInv, Types, EndStates
  <2>3. /\ status'[k] # "new" /\ owner'[k] = k /\ \A e \in Ends : end'[k][e] = "connected"
        /\ \A j \in Insts \ {k} : owner'[j] = owner[j] /\ status'[j] = status[j] /\ end'[j] = end[j]
    BY <2>1 DEF IInv, Types
  <2> QED BY <2>1, <2>2, <2>3, CreationKeeps
<1>2. ASSUME NEW u \in Users, CreateClient(k, u)
      PROVE  IInv'
  <2>1. /\ status[k] = "new" /\ status' = [status EXCEPT ![k] = "connecting"]
        /\ owner' = [owner EXCEPT ![k] = u]
        /\ end' = [end EXCEPT ![k][Client] = "connecting"]
        /\ UNCHANGED <<calls, pid, peers, known, got, conns>>
    BY <1>2 DEF CreateClient, serverVars
  <2>2. Types'
    BY <2>1 DEF IInv, Types, EndStates, Ends, Client
  <2>3. /\ status'[k] # "new" /\ owner'[k] = u /\ u # k
        /\ \A j \in Insts \ {k} : owner'[j] = owner[j] /\ status'[j] = status[j] /\ end'[j] = end[j]
    BY <2>1, UsersApart DEF IInv, Types
  <2> QED BY <2>1, <2>2, <2>3, CreationKeeps
<1> QED BY <1>1, <1>2

\* The client's end moves, or the client goes: the server's side stays.
LEMMA ClientsEnd ==
  ASSUME IInv, NEW k \in Insts, status[k] # "new",
         Types', UNCHANGED <<owner, pid, peers, known, conns, calls>>,
         \A j \in Insts : status'[j] = "new" <=> status[j] = "new",
         \A j \in Insts \ {k} : end'[j] = end[j],
         k \in Loops => \A e \in Ends : end'[k][e] \in {"connected", "broken", "closed"}
  PROVE  IInv'
<1>1. Owned'
  BY DEF IInv, Owned, Loops
<1>2. Made'
  <2>1. \A i \in 1 .. Len(calls) : calls[i].k \in Insts
    BY CallsOfInsts DEF IInv
  <2>2. \A x \in DOMAIN conns : conns[x] \in Insts
    BY DEF IInv, Owned
  <2>3. \A j \in Insts : status'[j] = "new" =>
          pid'[j] = Nobody /\ \A e \in Ends : end'[j][e] = "none"
    BY DEF IInv, Made
  <2>4. /\ \A x \in DOMAIN conns : status'[conns[x]] # "new"
        /\ \A i \in 1 .. Len(calls) : status'[calls[i].k] # "new"
    BY <2>1, <2>2 DEF IInv, Made
  <2> QED BY <2>3, <2>4 DEF Made
<1>3. OwnId' /\ MapsAgree'
  BY DEF IInv, OwnId, MapsAgree
<1> QED BY <1>1, <1>2, <1>3 DEF IInv

\* Closing a client's end is such a move.
LEMMA CloseClientIs ==
  ASSUME IInv, NEW k \in Insts, CloseClient(k)
  PROVE  /\ end' \in [Insts -> [Ends -> EndStates]]
         /\ \A j \in Insts \ {k} : end'[j] = end[j]
         /\ end'[k][Server] = end[k][Server]
         /\ k \in Loops => \A e \in Ends : end'[k][e] \in {"connected", "broken", "closed"}
<1>1. end' = [end EXCEPT ![k][Client] = "closed"]
  BY DEF CloseClient
<1>2. /\ end' \in [Insts -> [Ends -> EndStates]]
      /\ \A j \in Insts \ {k} : end'[j] = end[j]
      /\ end'[k][Server] = end[k][Server] /\ end'[k][Client] = "closed"
  BY <1>1 DEF IInv, Types, Ends, EndStates, Client, Server
<1> QED BY <1>2 DEF IInv, Owned, Ends

LEMMA ClientCallbackKeeps ==
  ASSUME IInv, NEW k \in Insts, ClientCallback(k)
  PROVE  IInv'
<1>0. /\ UNCHANGED <<calls, owner, conns, pid, peers, known, got>>
      /\ status[k] # "new"
  BY DEF ClientCallback, serverVars
<1> DEFINE c == Head(ccalls[k])
<1>1. CASE ClientConnected(k, c)
  <2>1. status' = [status EXCEPT ![k] = "connected"] /\ UNCHANGED end
    BY <1>1 DEF ClientConnected
  <2>2. Types' /\ \A j \in Insts : status'[j] = "new" <=> status[j] = "new"
    BY <1>0, <2>1 DEF IInv, Types
  <2> QED BY <1>0, <2>1, <2>2, ClientsEnd DEF IInv, Owned
<1>2. CASE ClientEnded(k, c)
  <2>1. status' = [status EXCEPT ![k] = "disconnected"] /\ CloseClient(k)
    BY <1>2 DEF ClientEnded
  <2>2. /\ end' \in [Insts -> [Ends -> EndStates]]
        /\ \A j \in Insts \ {k} : end'[j] = end[j]
        /\ k \in Loops => \A e \in Ends : end'[k][e] \in {"connected", "broken", "closed"}
    BY <2>1, CloseClientIs
  <2>3. Types' /\ \A j \in Insts : status'[j] = "new" <=> status[j] = "new"
    BY <1>0, <2>1, <2>2 DEF IInv, Types
  <2> QED BY <1>0, <2>2, <2>3, ClientsEnd
<1>3. CASE UNCHANGED <<status, knows, end, air, pend, lost>>
  BY <1>0, <1>3, SameEnds DEF IInv, Types
<1> QED BY <1>1, <1>2, <1>3 DEF ClientCallback

LEMMA ClientPollKeeps ==
  ASSUME IInv, NEW k \in Insts, ClientPoll(k)
  PROVE  IInv'
<1>1. UNCHANGED <<owner, status, conns, pid, peers, known, end, calls>>
  BY DEF ClientPoll, serverVars
<1>2. PICK m : got' = IF knows[k] = "peer" THEN Deliver(k, Down, k, m) ELSE got
  BY DEF ClientPoll
<1>3. DOMAIN got' = Insts /\ \A q \in Insts : DOMAIN got'[q] = Dirs
  BY <1>2 DEF Deliver, IInv, Types
<1> QED BY <1>1, <1>3, SameEnds

\* Steps that only send, or lose a setup packet.
LEMMA SendsKeep ==
  ASSUME IInv, \/ \E p \in Insts : \E packet : ServerSend(p, packet) \/ ClientSend(p, packet)
               \/ \E k \in Insts, d \in Dirs : Loses(k, d)
  PROVE  IInv'
<1>1. UNCHANGED <<owner, status, conns, pid, peers, known, end, calls, got>>
  BY DEF ServerSend, ClientSend, Loses, steamUnchanged, clientVars, serverVars
<1> QED BY <1>1, SameEnds DEF IInv, Types

LEMMA ClientKickKeeps ==
  ASSUME IInv, NEW k \in Insts, ClientKick(k) \/ ClientCrash(k)
  PROVE  IInv'
<1>1. /\ UNCHANGED <<calls, owner, conns, pid, peers, known, got>> /\ CloseClient(k)
      /\ status[k] # "new" /\ (UNCHANGED status \/ status' = [status EXCEPT ![k] = "gone"])
  BY DEF ClientKick, ClientCrash, serverVars
<1>2. /\ end' \in [Insts -> [Ends -> EndStates]]
      /\ \A j \in Insts \ {k} : end'[j] = end[j]
      /\ k \in Loops => \A e \in Ends : end'[k][e] \in {"connected", "broken", "closed"}
  BY <1>1, CloseClientIs
<1>3. Types' /\ \A j \in Insts : status'[j] = "new" <=> status[j] = "new"
  BY <1>1, <1>2 DEF IInv, Types
<1> QED BY <1>1, <1>2, <1>3, ClientsEnd

LEMMA ClientCloseKeeps ==
  ASSUME IInv, NEW k \in Insts, ClientClose(k)
  PROVE  IInv'
<1> DEFINE hosted == k \in Loops /\ status[k] = "connected" /\ k \in DOMAIN peers
<1>1. /\ status[k] # "new" /\ status' = [status EXCEPT ![k] = "gone"]
      /\ UNCHANGED <<calls, owner, pid, got>>
  BY DEF ClientClose
<1>2. \A j \in Insts : status'[j] = "new" <=> status[j] = "new"
  BY <1>1 DEF IInv, Types
<1>3. CASE hosted
  <2>1. /\ end' = [end EXCEPT ![k] = [e \in Ends |-> "closed"]]
        /\ conns' = Without(conns, owner[k]) /\ peers' = Without(peers, k) /\ known' = known \ {k}
    BY <1>3 DEF ClientClose
  <2>2. Types'
    BY <1>1, <2>1 DEF IInv, Types, EndStates
  <2>3. /\ \A j \in Insts \ {k} : end'[j] = end[j]
        /\ \A e \in Ends : end'[k][e] = "closed"
    BY <2>1 DEF IInv, Types
  <2>4. /\ \A x \in DOMAIN conns' : x \in DOMAIN conns /\ conns'[x] = conns[x]
        /\ \A q \in DOMAIN peers' : q \in DOMAIN peers /\ peers'[q] = peers[q]
    BY <2>1 DEF Without, Restrict
  <2>5. \A x \in DOMAIN conns' : pid[conns'[x]] # Nobody =>
          pid[conns'[x]] \in DOMAIN peers' /\ peers'[pid[conns'[x]]] = conns'[x]
    <3>1. /\ DOMAIN conns' = DOMAIN conns \ {owner[k]} /\ DOMAIN peers' = DOMAIN peers \ {k}
      BY <2>1, WithoutIs
    <3>2. ASSUME NEW x \in DOMAIN conns', pid[conns[x]] # Nobody
          PROVE  pid[conns[x]] \in DOMAIN peers' /\ peers'[pid[conns[x]]] = conns[x]
      <4>1. conns[x] \in Insts /\ owner[conns[x]] = x /\ conns[x] # k
        BY <2>4, <3>1 DEF IInv, Owned
      <4>2. pid[conns[x]] = conns[x] /\ conns[x] \in DOMAIN peers /\ peers[conns[x]] = conns[x]
        BY <2>4, <3>2, <4>1 DEF IInv, OwnId, MapsAgree
      <4> QED BY <2>4, <3>1, <4>1, <4>2
    <3> QED BY <2>4, <3>2
  <2>6. DOMAIN peers' = known'
    BY <2>1, WithoutIs DEF IInv, MapsAgree
  <2>7. MapsAgree'
    BY <1>1, <2>5, <2>6 DEF MapsAgree
  <2>8. OwnId'
    BY <1>1, <1>2, <2>4 DEF IInv, OwnId
  <2>9. Owned'
    BY <1>1, <2>3, <2>4 DEF IInv, Owned, Loops
  <2>10. Made'
    <3>1. /\ \A x \in DOMAIN conns' : status'[conns'[x]] # "new"
          /\ \A i \in 1 .. Len(calls) : status'[calls[i].k] # "new"
      BY <1>2, <2>4, CallsOfInsts DEF IInv, Owned, Made
    <3>2. \A j \in Insts : status'[j] = "new" =>
            pid[j] = Nobody /\ \A e \in Ends : end'[j][e] = "none"
      BY <1>1, <1>2, <2>3 DEF IInv, Made
    <3> QED BY <1>1, <3>1, <3>2 DEF Made
  <2> QED BY <2>2, <2>7, <2>8, <2>9, <2>10 DEF IInv
<1>4. CASE ~hosted
  <2>1. /\ UNCHANGED <<conns, peers, known>>
        /\ UNCHANGED end \/ CloseClient(k)
    BY <1>4 DEF ClientClose
  <2>2. /\ end' \in [Insts -> [Ends -> EndStates]]
        /\ \A j \in Insts \ {k} : end'[j] = end[j]
        /\ k \in Loops => \A e \in Ends : end'[k][e] \in {"connected", "broken", "closed"}
    BY <2>1, CloseClientIs DEF IInv, Types, Owned
  <2>3. Types'
    BY <1>1, <2>2 DEF IInv, Types
  <2> QED BY <1>1, <1>2, <2>1, <2>2, <2>3, ClientsEnd
<1> QED BY <1>3, <1>4

\* A callback that Steam posts is about a connection that has been made.
LEMMA PostIs ==
  ASSUME Types, Made, NEW k \in Insts, NEW e \in Ends, NEW ev \in {"arrived", "connected", "ended"},
         status[k] # "new", Post(k, e, ev),
         e = Server => end[k][Server] \in {"none", "connecting", "finding", "connected"}
  PROVE  /\ calls' \in Seq(Callbacks)
         /\ \A i \in 1 .. Len(calls') : status[calls'[i].k] # "new"
<1>1. CASE calls' = calls
  BY <1>1 DEF Types, Made
<1>2. CASE e = Server /\ calls' = Append(calls, [k |-> k, ev |-> ev, old |-> end[k][Server]])
  <2>1. [k |-> k, ev |-> ev, old |-> end[k][Server]] \in Callbacks
    BY <1>2 DEF Callbacks
  <2> DEFINE new == [k |-> k, ev |-> ev, old |-> end[k][Server]]
  <2>2. new.k = k /\ new \in Callbacks /\ calls \in Seq(Callbacks) /\ calls' = Append(calls, new)
    BY <1>2, <2>1 DEF Types
  <2> HIDE DEF new
  <2>3. \A i \in 1 .. Len(calls') : calls'[i] = IF i \in 1 .. Len(calls) THEN calls[i] ELSE new
    BY <2>2
  <2>4. calls' \in Seq(Callbacks)
    BY <2>2
  <2> QED BY <2>2, <2>3, <2>4 DEF Made
<1> QED BY <1>1, <1>2 DEF Post

\* A step of Steam that changes an end of k and posts a callback about it.
LEMMA EndMoves ==
  ASSUME IInv, NEW k \in Insts, NEW e \in Ends, NEW ev \in {"arrived", "connected", "ended"},
         NEW st \in EndStates, end' = [end EXCEPT ![k][e] = st], Post(k, e, ev), steamUnchanged' = steamUnchanged,
         status[k] # "new",
         e = Server => end[k][Server] \in {"none", "connecting", "finding", "connected"},
         k \in Loops => st = "broken"
  PROVE  IInv'
<1>1. UNCHANGED <<owner, status, conns, pid, peers, known, got>>
  BY DEF steamUnchanged, clientVars, serverVars
<1>2. /\ calls' \in Seq(Callbacks)
      /\ \A i \in 1 .. Len(calls') : status[calls'[i].k] # "new"
  BY PostIs DEF IInv
<1>3. /\ end' \in [Insts -> [Ends -> EndStates]]
      /\ \A j \in Insts \ {k} : end'[j] = end[j]
      /\ end'[k][e] = st /\ \A f \in Ends \ {e} : end'[k][f] = end[k][f]
  BY DEF IInv, Types
<1>4. Types'
  BY <1>1, <1>2, <1>3 DEF IInv, Types
<1>5. \A j \in Insts : status[j] = "new" => \A f \in Ends : end'[j][f] = "none"
  BY <1>3 DEF IInv, Made
<1>6. \A j \in Loops : \A f \in Ends : end'[j][f] \in {"connected", "broken", "closed"}
  BY <1>3 DEF IInv, Owned, Loops
<1> QED BY <1>1, <1>2, <1>4, <1>5, <1>6, SameMaps

LEMMA SteamKeeps ==
  ASSUME IInv, NEW k \in Insts, Arrives(k) \/ \E e \in Ends : Connects(k, e) \/ Breaks(k, e)
  PROVE  IInv'
<1>0. \A e \in Ends : end[k][e] # "none" => status[k] # "new"
  BY DEF IInv, Made
<1>1. CASE Arrives(k)
  <2>1. /\ end' = [end EXCEPT ![k][Server] = "connecting"] /\ Post(k, Server, "arrived")
        /\ end[k][Client] = "connecting" /\ end[k][Server] = "none"
        /\ steamUnchanged' = steamUnchanged
    BY <1>1 DEF Arrives
  <2>2. k \notin Loops /\ status[k] # "new" /\ Server \in Ends
    BY <1>0, <2>1 DEF IInv, Owned, Ends
  <2> QED BY <2>1, <2>2, EndMoves DEF EndStates
<1>2. ASSUME NEW e \in Ends, Connects(k, e)
      PROVE  IInv'
  <2>1. /\ end' = [end EXCEPT ![k][e] = "connected"] /\ Post(k, e, "connected")
        /\ end[k][Server] \in {"finding", "connected"} /\ end[k][e] # "connected"
        /\ end[k][Client] \in {"connecting", "finding", "connected"}
        /\ steamUnchanged' = steamUnchanged
    BY <1>2 DEF Connects, Live
  <2>2. k \notin Loops /\ status[k] # "new"
    BY <1>0, <2>1 DEF IInv, Owned, Ends
  <2> QED BY <2>1, <2>2, EndMoves DEF EndStates
<1>3. ASSUME NEW e \in Ends, Breaks(k, e)
      PROVE  IInv'
  <2>1. /\ end' = [end EXCEPT ![k][e] = "broken"] /\ Post(k, e, "ended")
        /\ end[k][e] \in {"connecting", "finding", "connected"}
        /\ steamUnchanged' = steamUnchanged
    BY <1>3 DEF Breaks, Live
  <2>2. status[k] # "new"
    BY <1>0, <2>1
  <2> QED BY <2>1, <2>2, EndMoves DEF EndStates
<1> QED BY <1>1, <1>2, <1>3

LEMMA ServerReadKeeps ==
  ASSUME IInv, ServerRead
  PROVE  IInv'
<1>1. UNCHANGED <<owner, status, conns, pid, peers, known, end, calls, got>>
  BY DEF ServerRead, steamVars, clientVars
<1> QED BY <1>1, SameEnds DEF IInv, Types

\* Closing and crashing both leave the server with nothing.
LEMMA GoneCases == ServerClose \/ ServerCrash => ServerGone
  BY DEF ServerClose, ServerCrash

LEMMA Step == IInv /\ [Next]_vars => IInv'
<1> SUFFICES ASSUME IInv, [Next]_vars PROVE IInv'
  OBVIOUS
<1>1. ASSUME NEW p \in Insts, ServerKick(p)
      PROVE  IInv'
  <2>1. DisconnectPeer(p, {}) /\ UNCHANGED <<owner, status, pid, got, calls>>
    BY <1>1 DEF ServerKick, clientVars
  <2>2. calls' \in Seq(Callbacks) /\ \A i \in 1 .. Len(calls') : status[calls'[i].k] # "new"
    BY <2>1 DEF IInv, Types, Made
  <2> QED BY <2>1, <2>2, DisconnectKeeps
<1>2. CASE UNCHANGED vars
  BY <1>2, SameEnds DEF vars, steamVars, clientVars, serverVars, IInv, Types
<1> QED
  BY <1>1, <1>2, ServerCallbackKeeps, ServerPollKeeps, ServerReadKeeps, ServerGoneKeeps, GoneCases, CreateKeeps, ClientCallbackKeeps,
     ClientPollKeeps, SendsKeep, ClientKickKeeps, ClientCloseKeeps, SteamKeeps DEF Next

THEOREM Invariant == Spec => []IInv
  BY Initially, Step, PTL DEF Spec

\* The two maps of the server and the signals it has emitted agree, whatever
\* clients connect, are kicked, crash and come back (add_connection,
\* set_steam_id_peer, _disconnect_peer).
THEOREM MapsAlwaysAgree == Spec => []MapsAgree
  BY Invariant, PTL DEF IInv

------------------------------------------------------------------------------
(* Nothing is read under the id of another peer, or of one not announced. *)

\* A packet that waits to be read was received from the peer whose connection the
\* entry of its Steam id still is, unless there is no entry any more: a new entry
\* is made in a callback, before which every packet has been read.
Entries == [from : Users \cup Insts \cup {Nobody}, peer : Insts]
Sound(p) ==
  /\ p \in Entries
  /\ owner[p.peer] = p.from /\ pid[p.peer] = p.peer /\ status[p.peer] # "new"
  /\ p.from \in DOMAIN conns => conns[p.from] = p.peer
BoxInv == inbox \in Seq(Entries) /\ \A p \in Range(inbox) : Sound(p)

\* A step that makes no entry and leaves the ids of those who sent packets.
LEMMA SoundKeeps ==
  ASSUME BoxInv, inbox' = inbox,
         \A x \in DOMAIN conns' : x \in DOMAIN conns /\ conns'[x] = conns[x],
         \A k \in Insts : status[k] # "new" => owner'[k] = owner[k] /\ status'[k] # "new",
         \A k \in Insts : pid[k] = k => pid'[k] = k
  PROVE  BoxInv'
<1>1. ASSUME NEW p \in Range(inbox)
      PROVE  Sound(p)'
  <2>1. Sound(p)
    BY DEF BoxInv
  <2> QED BY <2>1 DEF Sound, Entries
<1>2. Range(inbox') = Range(inbox)
  OBVIOUS
<1> QED BY <1>1, <1>2 DEF BoxInv

\* A step that leaves no packet waiting.
LEMMA SoundEmpty == inbox' = <<>> => BoxInv'
  BY DEF BoxInv, Range

\* The packets that wait behind the first, and those with one more.
LEMMA InboxTail ==
  ASSUME NEW q \in Seq(Entries), q # <<>>
  PROVE  Tail(q) \in Seq(Entries) /\ Range(Tail(q)) \subseteq Range(q)
<1>1. \A i \in 1 .. Len(Tail(q)) : i + 1 \in 1 .. Len(q) /\ Tail(q)[i] = q[i + 1]
  OBVIOUS
<1>2. DOMAIN Tail(q) = 1 .. Len(Tail(q)) /\ DOMAIN q = 1 .. Len(q) /\ Tail(q) \in Seq(Entries)
  OBVIOUS
<1> QED BY <1>1, <1>2 DEF Range

LEMMA InboxAppend ==
  ASSUME NEW q \in Seq(Entries), NEW p \in Entries
  PROVE  Append(q, p) \in Seq(Entries) /\ Range(Append(q, p)) \subseteq Range(q) \cup {p}
<1>1. \A i \in 1 .. Len(Append(q, p)) :
        (i \in 1 .. Len(q) /\ Append(q, p)[i] = q[i]) \/ Append(q, p)[i] = p
  OBVIOUS
<1>2. DOMAIN Append(q, p) = 1 .. Len(Append(q, p)) /\ DOMAIN q = 1 .. Len(q) /\ Append(q, p) \in Seq(Entries)
  OBVIOUS
<1> QED BY <1>1, <1>2 DEF Range

LEMMA ServerPollBox ==
  ASSUME IInv, BoxInv, ServerPoll
  PROVE  BoxInv'
<1>1. PICK x \in DOMAIN conns : \E m \in Waiting(conns[x], Up) :
        ServerMessage(conns[x], conns[owner[conns[x]]], m) \/ ServerPing(conns[x], conns[owner[conns[x]]], m)
  BY DEF ServerPoll
<1> DEFINE k == conns[x]
<1>2. /\ k \in Insts /\ owner[k] = x /\ conns[x] = k /\ status[k] # "new"
      /\ UNCHANGED <<owner, status, conns>>
  BY DEF IInv, Owned, Made, ServerPoll, clientVars
<1>3. PICK m : ServerMessage(k, k, m) \/ ServerPing(k, k, m)
  BY <1>1, <1>2
<1> HIDE DEF k
<1>4. CASE ServerPing(k, k, m)
  <2>1. inbox' = inbox /\ (UNCHANGED pid \/ pid' = [pid EXCEPT ![k] = k])
    BY <1>4 DEF ServerPing
  <2>2. \A j \in Insts : pid[j] = j => pid'[j] = j
    BY <1>2, <2>1 DEF IInv, Types
  <2> QED BY <1>2, <2>1, <2>2, SoundKeeps
<1>5. CASE ServerMessage(k, k, m)
  <2>1. inbox' = Append(inbox, [from |-> owner[k], peer |-> pid[k]]) /\ UNCHANGED pid /\ pid[k] = k
    BY <1>2, <1>5 DEF ServerMessage, IInv, OwnId
  <2>2. owner[k] \in Users \cup Insts \cup {Nobody}
    BY <1>2 DEF IInv, Types
  <2>3. PICK q : q = [from |-> owner[k], peer |-> k]
    OBVIOUS
  <2>4. q \in Entries /\ q.from = x /\ q.peer = k
    BY <1>2, <2>2, <2>3 DEF Entries
  <2>5. Sound(q)'
    BY <1>2, <2>1, <2>4 DEF Sound
  <2>6. ASSUME NEW p \in Range(inbox)
        PROVE  Sound(p)'
    <3>1. Sound(p)
      BY DEF BoxInv
    <3> QED BY <1>2, <2>1, <3>1 DEF Sound
  <2>7. inbox' \in Seq(Entries) /\ Range(inbox') \subseteq Range(inbox) \cup {q}
    BY <2>1, <2>3, <2>4, InboxAppend DEF BoxInv
  <2> QED BY <2>5, <2>6, <2>7 DEF BoxInv
<1> QED BY <1>3, <1>4, <1>5

LEMMA ServerReadBox ==
  ASSUME BoxInv, ServerRead
  PROVE  BoxInv'
<1>1. /\ inbox # <<>> /\ inbox' = Tail(inbox) /\ inbox \in Seq(Entries)
      /\ UNCHANGED <<owner, status, conns, pid>>
  BY DEF BoxInv, ServerRead, HasSender, clientVars
<1>2. inbox' \in Seq(Entries) /\ Range(inbox') \subseteq Range(inbox)
  BY <1>1, InboxTail
<1>3. ASSUME NEW p \in Range(inbox)
      PROVE  Sound(p)'
  <2>1. Sound(p)
    BY DEF BoxInv
  <2> QED BY <1>1, <2>1 DEF Sound
<1> QED BY <1>2, <1>3 DEF BoxInv

\* A client that is made is none that a packet has come from.
LEMMA CreateBox ==
  ASSUME IInv, BoxInv, NEW k \in Insts, CreateLoopbackClient(k) \/ \E u \in Users : CreateClient(k, u)
  PROVE  BoxInv'
<1>1. /\ status[k] = "new" /\ UNCHANGED <<pid, inbox>>
      /\ \A j \in Insts \ {k} : owner'[j] = owner[j] /\ status'[j] = status[j]
  BY DEF CreateLoopbackClient, CreateClient, serverVars, IInv, Types
<1>2. \A x \in DOMAIN conns' : x # k => x \in DOMAIN conns /\ conns'[x] = conns[x]
  BY DEF CreateLoopbackClient, CreateClient, serverVars, With
<1>3. ASSUME NEW p \in Range(inbox)
      PROVE  Sound(p)'
  <2>1. Sound(p)
    BY DEF BoxInv
  <2>2. p.peer \in Insts \ {k} /\ p.from # k
    BY <1>1, <2>1, UsersApart DEF Sound, Entries, IInv, Owned
  <2> QED BY <1>1, <1>2, <2>1, <2>2 DEF Sound
<1>4. Range(inbox') = Range(inbox)
  BY <1>1
<1> QED BY <1>1, <1>3, <1>4 DEF BoxInv

LEMMA BoxStep ==
  ASSUME IInv, BoxInv, [Next]_vars
  PROVE  BoxInv'
<1>0. \A k \in Insts : status[k] # "new" => status[k] \in {"connecting", "connected", "disconnected", "gone"}
  BY DEF IInv, Types
<1>1. CASE ServerCallback
  BY <1>1, SoundEmpty DEF ServerCallback
<1>2. CASE ServerGone
  BY <1>2, SoundEmpty DEF ServerGone
<1>3. ASSUME NEW p, ServerKick(p) PROVE BoxInv'
  <2>1. UNCHANGED <<owner, status, pid, inbox>> /\ DisconnectPeer(p, {})
    BY <1>3 DEF ServerKick, clientVars
  <2> QED BY <2>1, DisconnectIs, SoundKeeps
<1>4. CASE \/ UNCHANGED vars
           \/ \E p \in Insts : \E packet : ServerSend(p, packet) \/ ClientSend(p, packet)
           \/ \E k \in Insts, d \in Dirs : Loses(k, d)
           \/ \E k \in Insts : Arrives(k) \/ \E e \in Ends : Connects(k, e) \/ Breaks(k, e)
  <2>1. UNCHANGED <<owner, status, conns, pid, inbox>>
    BY <1>4 DEF vars, clientVars, serverVars, ServerSend, ClientSend, Loses, Arrives, Connects, Breaks, steamUnchanged
  <2> QED BY <2>1, SoundKeeps
<1>5. ASSUME NEW k \in Insts, ClientCallback(k) \/ ClientPoll(k) \/ ClientKick(k) \/ ClientCrash(k) \/ ClientClose(k)
      PROVE  BoxInv'
  <2>1. UNCHANGED <<owner, pid, inbox>>
    BY <1>5 DEF ClientCallback, ClientPoll, ClientKick, ClientCrash, ClientClose, serverVars
  <2>2. \/ UNCHANGED status
        \/ \E st \in {"connected", "disconnected", "gone"} : status' = [status EXCEPT ![k] = st]
    BY <1>5 DEF ClientCallback, ClientConnected, ClientEnded, ClientPoll, ClientKick, ClientCrash, ClientClose
  <2>3. UNCHANGED conns \/ conns' = Without(conns, owner[k])
    BY <1>5 DEF ClientCallback, ClientPoll, ClientKick, ClientCrash, ClientClose, serverVars
  <2>4. \A x \in DOMAIN conns' : x \in DOMAIN conns /\ conns'[x] = conns[x]
    <3>1. CASE conns' = Without(conns, owner[k])
      <4>1. DOMAIN conns' = DOMAIN conns \ {owner[k]} /\ \A y \in DOMAIN conns \ {owner[k]} : conns'[y] = conns[y]
        BY <3>1, WithoutIs
      <4> QED BY <4>1
    <3> QED BY <2>3, <3>1
  <2>5. \A j \in Insts : status[j] # "new" => status'[j] # "new"
    BY <2>2 DEF IInv, Types
  <2> QED BY <2>1, <2>4, <2>5, SoundKeeps
<1> QED BY <1>1, <1>2, <1>3, <1>4, <1>5, GoneCases, ServerPollBox, ServerReadBox, CreateBox DEF Next

LEMMA OnlyFromAnnouncedStep ==
  ASSUME IInv, BoxInv, ServerRead
  PROVE  PeerIdOf(Head(inbox).from) \in known /\ PeerIdOf(Head(inbox).from) = Head(inbox).peer
<1> DEFINE p == Head(inbox)
<1>1. inbox # <<>> /\ p.from \in DOMAIN conns
  BY DEF ServerRead, HasSender
<1>2. p \in Range(inbox)
  BY <1>1 DEF BoxInv, Range
<1>3. Sound(p)
  BY <1>2 DEF BoxInv
<1> HIDE DEF p
<1>4. conns[p.from] = p.peer /\ pid[p.peer] = p.peer /\ p.peer \in Insts
  BY <1>1, <1>3 DEF Sound, Entries
<1>5. p.peer \in known
  BY <1>1, <1>4, UsersApart DEF IInv, MapsAgree
<1> QED BY <1>1, <1>4, <1>5 DEF PeerIdOf, p

\* A packet that is read comes from the peer it was received from, which is
\* announced, whoever is kicked, crashes, closes or comes back between the two
\* (_process_message, _get_packet_peer, _disconnect_peer).
THEOREM PacketsOnlyFromAnnounced == Spec => OnlyFromAnnounced
<1>1. Init => BoxInv
  BY DEF Init, BoxInv, Range
<1>2. IInv /\ BoxInv /\ [Next]_vars => BoxInv'
  BY BoxStep
<1>3. IInv /\ BoxInv =>
        [ServerRead => LET p == PeerIdOf(Head(inbox).from) IN p \in known /\ p = Head(inbox).peer]_vars
  BY OnlyFromAnnouncedStep
<1> QED BY <1>1, <1>2, <1>3, Invariant, PTL DEF Spec, OnlyFromAnnounced

------------------------------------------------------------------------------
(* No connection is left open with nothing to close it. *)

\* A loopback client has no callback of a connection that is up, and a server
\* that is closed has no open connection.
Quiet ==
  /\ \A i \in 1 .. Len(calls) : calls[i].ev = "connected" => calls[i].k \notin Loops
  /\ ~host => \A k \in Insts : end[k][Server] \in {"none", "closed"}

Pending(k) == \E i \in 1 .. Len(calls) : calls[i].k = k /\ calls[i].ev = "connected"
Held == Range(conns) \cup Range(peers)

KInv == NoOrphan /\ Quiet

LEMMA NoOrphanIs ==
  ASSUME Types
  PROVE  NoOrphan <=> \A k \in Insts : end[k][Server] = "connected" => k \in Held \/ Pending(k)
<1>1. DOMAIN calls = 1 .. Len(calls)
  BY DEF Types
<1> QED BY <1>1 DEF NoOrphan, Held, Pending

\* Steps that keep what holds a connection and open none.
LEMMA HeldKeeps ==
  ASSUME Types, Types', KInv, Held \subseteq Held',
         \A k \in Insts : Pending(k) => Pending(k)',
         \A k \in Insts : end'[k][Server] = "connected" =>
            end[k][Server] = "connected" \/ k \in Held' \/ Pending(k)'
  PROVE  NoOrphan'
<1>1. \A k \in Insts : end'[k][Server] = "connected" => k \in Held' \/ Pending(k)'
  BY NoOrphanIs DEF KInv
<1>2. DOMAIN calls' = 1 .. Len(calls')
  BY DEF Types
<1> QED BY <1>1, <1>2 DEF NoOrphan, Held, Pending

\* What is closed when a connection leaves the maps is all that they held.
LEMMA ReleasedCloses ==
  ASSUME IInv, Types', KInv, NEW S, CloseServer(S),
         (Held \ Held') \subseteq S,
         \A k \in Insts : Pending(k) => Pending(k)' \/ k \in Held'
  PROVE  NoOrphan'
<1>1. \A k \in Insts : end'[k][Server] = "connected" => end[k][Server] = "connected" /\ k \notin S
  BY CloseIs DEF IInv
<1>2. \A k \in Insts : end[k][Server] = "connected" => k \in Held \/ Pending(k)
  BY NoOrphanIs DEF KInv, IInv
<1>3. \A k \in Insts : end'[k][Server] = "connected" => k \in Held' \/ Pending(k)'
  BY <1>1, <1>2
<1> QED BY <1>3 DEF NoOrphan, Held, Pending, Types

LEMMA DisconnectHolds ==
  ASSUME IInv, Types', KInv, NEW p, NEW extra, DisconnectPeer(p, extra),
         \A k \in Insts : Pending(k) => Pending(k)'
  PROVE  NoOrphan'
<1>1. CASE p \in DOMAIN peers /\ end[peers[p]][Server] # "closed"
  <2> DEFINE conns1 == Without(conns, owner[peers[p]])
             peers1 == Without(peers, p)
             S == {peers[p]} \cup extra \cup Released(conns1, peers1)
  <2>1. conns' = conns1 /\ peers' = peers1 /\ CloseServer(S)
    BY <1>1 DEF DisconnectPeer
  <2>2. (Held \ Held') \subseteq S
    BY <2>1 DEF Released, Held
  <2> HIDE DEF S
  <2> QED BY <2>1, <2>2, ReleasedCloses
<1>2. CASE ~(p \in DOMAIN peers /\ end[peers[p]][Server] # "closed")
  <2>1. UNCHANGED <<conns, peers>> /\ CloseServer(extra)
    BY <1>2 DEF DisconnectPeer
  <2>2. Held' = Held
    BY <2>1 DEF Held
  <2> QED BY <2>1, <2>2, ReleasedCloses
<1> QED BY <1>1, <1>2

\* Running a callback takes one that is pending away only if it is the first.
LEMMA PendingTail ==
  ASSUME Types, calls # <<>>, calls' = Tail(calls)
  PROVE  \A k \in Insts : Pending(k) => Pending(k)' \/ (Head(calls).k = k /\ Head(calls).ev = "connected")
<1> SUFFICES ASSUME NEW k \in Insts, Pending(k), ~(Head(calls).k = k /\ Head(calls).ev = "connected")
             PROVE  Pending(k)'
  OBVIOUS
<1>0. PICK i \in 1 .. Len(calls) : calls[i].k = k /\ calls[i].ev = "connected"
  BY DEF Pending
<1>1. calls \in Seq(Callbacks) /\ Head(calls) = calls[1] /\ i # 1 /\ Len(calls) \in Nat
  BY <1>0 DEF Types
<1>2. i - 1 \in 1 .. Len(Tail(calls)) /\ Tail(calls)[i - 1] = calls[i]
  BY <1>1
<1> QED BY <1>0, <1>2 DEF Pending

LEMMA ServerCallbackHolds ==
  ASSUME IInv, IInv', KInv, ServerCallback
  PROVE  NoOrphan'
<1> DEFINE c == Head(calls)
<1>0. /\ c \in Callbacks /\ c.k \in Insts /\ Types /\ Types'
      /\ \A k \in Insts : Pending(k) => Pending(k)' \/ (c.k = k /\ c.ev = "connected")
  BY TailIs, PendingTail DEF ServerCallback, IInv, Callbacks
<1> HIDE DEF c
<1>1. CASE ServerArrived(c)
  <2>1. c.ev = "arrived" /\ Held' = Held
        /\ end' = [end EXCEPT ![c.k][Server] = IF @ = "connecting" THEN "finding" ELSE "closed"]
    BY <1>1 DEF ServerArrived, Held
  <2>2. \A k \in Insts : end'[k][Server] = "connected" => end[k][Server] = "connected"
    BY <1>0, <2>1 DEF Types, Ends, Server
  <2>3. \A k \in Insts : Pending(k) => Pending(k)'
    BY <1>0, <2>1
  <2> QED BY <1>0, <2>1, <2>2, <2>3, HeldKeeps
<1>2. CASE ServerConnected(c)
  <2> DEFINE conns1 == With(conns, owner[c.k], c.k)
  <2>1. conns' = conns1 /\ peers' = peers /\ CloseServer(Released(conns1, peers))
    BY <1>2 DEF ServerConnected
  <2>2. (Held \ Held') \subseteq Released(conns1, peers)
    BY <2>1 DEF Released, Held
  <2>3. c.k \in Held'
    <3>1. owner[c.k] \in DOMAIN conns1 /\ conns1[owner[c.k]] = c.k
      BY DEF With
    <3> QED BY <2>1, <3>1 DEF Held, Range
  <2> HIDE DEF conns1
  <2> QED BY <1>0, <2>1, <2>2, <2>3, ReleasedCloses
<1>3. CASE ServerEnded(c)
  <2>1. c.ev = "ended" /\ \E p, extra : DisconnectPeer(p, extra)
    BY <1>3 DEF ServerEnded
  <2>2. PICK p, extra : DisconnectPeer(p, extra)
    BY <2>1
  <2>3. \A k \in Insts : Pending(k) => Pending(k)'
    BY <1>0, <2>1
  <2> QED BY <1>0, <2>2, <2>3, DisconnectHolds
<1>4. CASE ServerIgnores(c) /\ UNCHANGED <<end, air, pend, conns, pid, peers, known>>
  <2>1. c.ev # "connected"
    <3>1. calls # <<>> /\ c = calls[1] /\ 1 \in 1 .. Len(calls)
      BY DEF ServerCallback, IInv, Types, c
    <3>2. CASE c.k \in Loops
      BY <3>1, <3>2 DEF KInv, Quiet
    <3> QED BY <1>4, <3>2 DEF ServerIgnores
  <2>2. \A k \in Insts : Pending(k) => Pending(k)'
    BY <1>0, <2>1
  <2>3. Held' = Held
    BY <1>4 DEF Held
  <2> QED BY <1>0, <1>4, <2>2, <2>3, HeldKeeps
<1> QED BY <1>1, <1>2, <1>3, <1>4 DEF ServerCallback, c

LEMMA ServerPollHolds ==
  ASSUME IInv, IInv', KInv, ServerPoll
  PROVE  NoOrphan'
<1>1. UNCHANGED <<end, calls, conns>> /\ (UNCHANGED peers \/ \E k \in Insts : peers' = With(peers, k, k))
  <2>1. PICK x \in DOMAIN conns : \E m \in Waiting(conns[x], Up) :
          ServerMessage(conns[x], conns[owner[conns[x]]], m) \/ ServerPing(conns[x], conns[owner[conns[x]]], m)
    BY DEF ServerPoll
  <2>2. conns[x] \in Insts /\ conns[owner[conns[x]]] = conns[x]
    BY DEF IInv, Owned
  <2> QED BY <2>1, <2>2 DEF ServerPoll, ServerMessage, ServerPing
<1>2. Range(peers) \subseteq Range(peers')
  <2>1. ASSUME NEW k \in Insts, peers' = With(peers, k, k)
        PROVE  Range(peers) \subseteq Range(peers')
    <3>1. \A q \in DOMAIN peers : q \in DOMAIN peers' /\ peers'[q] = peers[q]
      BY <2>1 DEF With, IInv, OwnId
    <3> QED BY <3>1 DEF Range
  <2> QED BY <1>1, <2>1
<1>3. Held \subseteq Held'
  BY <1>1, <1>2 DEF Held
<1>4. \A k \in Insts : Pending(k) => Pending(k)'
  BY <1>1 DEF Pending
<1> QED BY <1>1, <1>3, <1>4, HeldKeeps DEF IInv

\* Steps that leave the maps, the callbacks and the server's ends alone.
LEMMA AsideHolds ==
  ASSUME IInv, IInv', KInv, UNCHANGED <<conns, peers, calls>>,
         \A k \in Insts : end'[k][Server] = "connected" => end[k][Server] = "connected"
  PROVE  NoOrphan'
<1>1. Held' = Held
  BY DEF Held
<1>2. \A k \in Insts : Pending(k) => Pending(k)'
  BY DEF Pending
<1> QED BY <1>1, <1>2, HeldKeeps DEF IInv

LEMMA CreateHolds ==
  ASSUME IInv, IInv', KInv, NEW k \in Insts, CreateLoopbackClient(k)
  PROVE  NoOrphan'
<1>1. /\ status[k] = "new" /\ conns' = With(conns, k, k) /\ UNCHANGED <<peers, calls>>
      /\ end' = [end EXCEPT ![k] = [e \in Ends |-> "connected"]]
  BY DEF CreateLoopbackClient
<1>2. k \notin DOMAIN conns
  <2>1. SUFFICES ASSUME k \in DOMAIN conns PROVE FALSE
    OBVIOUS
  <2>2. conns[k] \in Insts /\ owner[conns[k]] = k /\ status[conns[k]] # "new"
    BY <2>1 DEF IInv, Owned, Made
  <2>3. conns[k] = k
    BY <2>2, UsersApart DEF IInv, Owned
  <2> QED BY <1>1, <2>2, <2>3
<1>3. \A x \in DOMAIN conns : x \in DOMAIN conns' /\ conns'[x] = conns[x]
  BY <1>1, <1>2 DEF With
<1>4. k \in DOMAIN conns' /\ conns'[k] = k
  BY <1>1 DEF With
<1>5. Held \subseteq Held' /\ k \in Held'
  BY <1>1, <1>3, <1>4 DEF Held, Range
<1>6. \A j \in Insts \ {k} : end'[j] = end[j]
  BY <1>1 DEF IInv, Types
<1>7. \A j \in Insts : Pending(j) => Pending(j)'
  BY <1>1 DEF Pending
<1> QED BY <1>5, <1>6, <1>7, HeldKeeps DEF IInv

LEMMA ClientCloseHolds ==
  ASSUME IInv, IInv', KInv, NEW k \in Insts, ClientClose(k)
  PROVE  NoOrphan'
<1> DEFINE hosted == k \in Loops /\ status[k] = "connected" /\ k \in DOMAIN peers
<1>1. CASE hosted
  <2>1. /\ end' = [end EXCEPT ![k] = [e \in Ends |-> "closed"]] /\ UNCHANGED calls
        /\ conns' = Without(conns, k) /\ peers' = Without(peers, k)
    BY <1>1 DEF ClientClose, Loops
  <2>2. end'[k][Server] = "closed" /\ \A j \in Insts \ {k} : end'[j] = end[j]
    BY <2>1 DEF IInv, Types, Ends
  <2>3. ASSUME NEW j \in Insts \ {k}, j \in Held
        PROVE  j \in Held'
    <3>1. CASE j \in Range(conns)
      <4>1. PICK x \in DOMAIN conns : conns[x] = j
        BY <3>1 DEF Range
      <4>2. x = owner[j] /\ owner[j] # k
        BY <4>1, UsersApart DEF IInv, Owned
      <4>3. x \in DOMAIN conns' /\ conns'[x] = j
        BY <2>1, <4>1, <4>2 DEF Without, Restrict
      <4> QED BY <4>3 DEF Held, Range
    <3>2. CASE j \in Range(peers)
      <4>1. j \in DOMAIN peers /\ peers[j] = j
        BY <3>2 DEF Range, IInv, OwnId
      <4>2. j \in DOMAIN peers' /\ peers'[j] = j
        BY <2>1, <2>3, <4>1 DEF Without, Restrict
      <4> QED BY <4>2 DEF Held, Range
    <3> QED BY <2>3, <3>1, <3>2 DEF Held
  <2>4. \A j \in Insts : Pending(j) <=> Pending(j)'
    BY <2>1 DEF Pending
  <2>5. \A j \in Insts : end'[j][Server] = "connected" => j \in Held' \/ Pending(j)'
    <3>1. \A j \in Insts : end[j][Server] = "connected" => j \in Held \/ Pending(j)
      BY NoOrphanIs DEF KInv, IInv
    <3> QED BY <2>2, <2>3, <2>4, <3>1
  <2> QED BY <2>5 DEF NoOrphan, Held, Pending, IInv, Types
<1>2. CASE ~hosted
  <2>1. UNCHANGED <<conns, peers, calls>> /\ (UNCHANGED end \/ CloseClient(k))
    BY <1>2 DEF ClientClose
  <2>2. \A j \in Insts : end'[j][Server] = end[j][Server]
    BY <2>1, CloseClientIs
  <2> QED BY <2>1, <2>2, AsideHolds
<1> QED BY <1>1, <1>2

\* A callback that is posted joins the others.
LEMMA PostAdds ==
  ASSUME Types, NEW k \in Insts, NEW e \in Ends, NEW ev, Post(k, e, ev)
  PROVE  /\ \A j \in Insts : Pending(j) => Pending(j)'
         /\ e = Server /\ host /\ ev = "connected" => Pending(k)'
         /\ \A i \in 1 .. Len(calls') : \/ (i \in 1 .. Len(calls) /\ calls'[i] = calls[i])
                                      \/ (calls'[i].k = k /\ calls'[i].ev = ev)
<1>1. CASE calls' = calls /\ ~(e = Server /\ host)
  <2>1. \A j \in Insts : Pending(j) => Pending(j)'
    BY <1>1 DEF Pending
  <2>2. \A i \in 1 .. Len(calls') : i \in 1 .. Len(calls) /\ calls'[i] = calls[i]
    BY <1>1
  <2>3. ~(e = Server /\ host /\ ev = "connected")
    BY <1>1
  <2> QED BY <2>1, <2>2, <2>3
<1>2. CASE calls' = Append(calls, [k |-> k, ev |-> ev, old |-> end[k][Server]])
  <2> DEFINE new == [k |-> k, ev |-> ev, old |-> end[k][Server]]
  <2>1. new.k = k /\ new.ev = ev /\ calls \in Seq(Callbacks) /\ calls' = Append(calls, new)
    BY <1>2 DEF Types
  <2> HIDE DEF new
  <2>2. /\ Len(calls) \in Nat /\ Len(calls') = Len(calls) + 1 /\ calls'[Len(calls) + 1] = new
        /\ \A i \in 1 .. Len(calls) : calls'[i] = calls[i]
    BY <2>1
  <2>3. Len(calls) + 1 \in 1 .. Len(calls') /\ 1 .. Len(calls) \subseteq 1 .. Len(calls')
    BY <2>2
  <2>4. \A i \in 1 .. Len(calls') : i \in 1 .. Len(calls) \/ i = Len(calls) + 1
    BY <2>2
  <2>5. \A j \in Insts : Pending(j) => Pending(j)'
    BY <2>2, <2>3 DEF Pending
  <2>6. ev = "connected" => Pending(k)'
    BY <2>1, <2>2, <2>3 DEF Pending
  <2>7. \A i \in 1 .. Len(calls') : \/ (i \in 1 .. Len(calls) /\ calls'[i] = calls[i])
                                    \/ (calls'[i].k = k /\ calls'[i].ev = ev)
    BY <2>1, <2>2, <2>4
  <2> QED BY <2>5, <2>6, <2>7
<1> QED BY <1>1, <1>2 DEF Post

LEMMA SteamHolds ==
  ASSUME IInv, IInv', KInv, NEW k \in Insts,
         Arrives(k) \/ \E e \in Ends : Connects(k, e) \/ Breaks(k, e)
  PROVE  NoOrphan'
<1>1. UNCHANGED <<conns, peers>>
  BY DEF Arrives, Connects, Breaks, steamUnchanged, serverVars
<1>2. Held' = Held
  BY <1>1 DEF Held
<1>3. CASE Arrives(k) \/ \E e \in Ends : Breaks(k, e)
  <2>0. PICK e \in Ends, st \in {"connecting", "broken"} :
          \E ev : end' = [end EXCEPT ![k][e] = st] /\ Post(k, e, ev)
    BY <1>3 DEF Arrives, Breaks, Ends
  <2>1. PICK ev : end' = [end EXCEPT ![k][e] = st] /\ Post(k, e, ev)
    BY <2>0
  <2>2. \A j \in Insts : end'[j][Server] = "connected" => end[j][Server] = "connected"
    BY <2>1 DEF IInv, Types, Ends, Server
  <2> QED BY <1>2, <2>1, <2>2, PostAdds, HeldKeeps DEF IInv
<1>4. ASSUME NEW e \in Ends, Connects(k, e)
      PROVE  NoOrphan'
  <2>1. /\ end' = [end EXCEPT ![k][e] = "connected"] /\ Post(k, e, "connected")
        /\ end[k][Server] \in {"finding", "connected"}
    BY <1>4 DEF Connects
  <2>2. host
    BY <2>1 DEF KInv, Quiet
  <2>3. \A j \in Insts : end'[j][Server] = "connected" =>
          end[j][Server] = "connected" \/ (j = k /\ e = Server)
    BY <2>1 DEF IInv, Types, Ends, Server, Client
  <2> QED BY <1>2, <2>1, <2>2, <2>3, PostAdds, HeldKeeps DEF IInv
<1> QED BY <1>3, <1>4

LEMMA NoOrphanStep ==
  ASSUME IInv, IInv', KInv, [Next]_vars
  PROVE  NoOrphan'
<1>1. CASE ServerGone
  <2>1. CloseServer(Insts)
    BY <1>1 DEF ServerGone
  <2>2. \A k \in Insts : end'[k][Server] # "connected"
    BY <2>1, CloseIs DEF IInv
  <2> QED BY <2>2 DEF NoOrphan
<1>2. ASSUME NEW p \in Insts, ServerKick(p)
      PROVE  NoOrphan'
  <2>1. DisconnectPeer(p, {}) /\ UNCHANGED calls
    BY <1>2 DEF ServerKick
  <2>2. \A k \in Insts : Pending(k) => Pending(k)'
    BY <2>1 DEF Pending
  <2> QED BY <2>1, <2>2, DisconnectHolds DEF IInv
<1>3. ASSUME NEW k \in Insts, \E u \in Users : CreateClient(k, u)
      PROVE  NoOrphan'
  <2>1. /\ UNCHANGED <<conns, peers, calls>> /\ end' = [end EXCEPT ![k][Client] = "connecting"]
    BY <1>3 DEF CreateClient, serverVars
  <2>2. \A j \in Insts : end'[j][Server] = end[j][Server]
    BY <2>1 DEF IInv, Types, Ends, Client, Server
  <2> QED BY <2>1, <2>2, AsideHolds
<1>4. ASSUME NEW k \in Insts, ClientCallback(k) \/ ClientPoll(k) \/ ClientKick(k) \/ ClientCrash(k)
      PROVE  NoOrphan'
  <2>1. /\ UNCHANGED <<conns, peers, calls>> /\ (UNCHANGED end \/ CloseClient(k))
    BY <1>4 DEF ClientCallback, ClientConnected, ClientEnded, ClientPoll, ClientKick, ClientCrash, serverVars
  <2>2. \A j \in Insts : end'[j][Server] = end[j][Server]
    BY <2>1, CloseClientIs
  <2> QED BY <2>1, <2>2, AsideHolds
<1>5. CASE \/ UNCHANGED vars \/ ServerRead
           \/ \E p \in Insts : \E packet : ServerSend(p, packet) \/ ClientSend(p, packet)
           \/ \E k \in Insts, d \in Dirs : Loses(k, d)
  <2>1. UNCHANGED <<conns, peers, calls, end>>
    BY <1>5 DEF vars, steamVars, serverVars, ServerRead, ServerSend, ClientSend, Loses, steamUnchanged
  <2> QED BY <2>1, AsideHolds
<1> QED
  BY <1>1, <1>2, <1>3, <1>4, <1>5, GoneCases, ServerCallbackHolds, ServerPollHolds, CreateHolds, ClientCloseHolds,
     SteamHolds DEF Next

LEMMA QuietStep ==
  ASSUME IInv, KInv, [Next]_vars
  PROVE  Quiet'
<1>1. \A i \in 1 .. Len(calls) : calls[i].k \in Insts /\ status[calls[i].k] # "new"
  BY CallsOfInsts DEF IInv, Made
<1>2. CASE ServerGone
  <2>1. CloseServer(Insts) /\ calls' = <<>>
    BY <1>2 DEF ServerGone
  <2>2. \A k \in Insts : end'[k][Server] \in {"none", "closed"}
    BY <2>1, CloseIs DEF IInv
  <2> QED BY <2>1, <2>2 DEF Quiet
<1>3. CASE ServerCallback
  <2>1. host /\ host' /\ calls # <<>> /\ calls' = Tail(calls) /\ UNCHANGED owner /\ calls \in Seq(Callbacks)
    BY <1>3 DEF ServerCallback, clientVars, IInv, Types
  <2>2. \A i \in 1 .. Len(calls') : i + 1 \in 1 .. Len(calls) /\ calls'[i] = calls[i + 1]
    BY <2>1
  <2> QED BY <2>1, <2>2 DEF KInv, Quiet, Loops
<1>4. CASE ServerPoll \/ \E p \in Insts : ServerKick(p) \/ CreateLoopbackClient(p)
  <2>1. host /\ host' /\ UNCHANGED calls
    BY <1>4 DEF ServerPoll, ServerKick, CreateLoopbackClient, clientVars
  <2>2. UNCHANGED owner \/ \E k \in Insts : status[k] = "new" /\ owner' = [owner EXCEPT ![k] = k]
    BY <1>4 DEF ServerPoll, ServerKick, CreateLoopbackClient, clientVars
  <2>3. \A i \in 1 .. Len(calls) : owner'[calls[i].k] = owner[calls[i].k]
    BY <1>1, <2>2 DEF IInv, Types
  <2> QED BY <1>1, <2>1, <2>3 DEF KInv, Quiet, Loops
<1>5. ASSUME NEW k \in Insts, Arrives(k) \/ \E e \in Ends : Connects(k, e) \/ Breaks(k, e)
      PROVE  Quiet'
  <2>1. UNCHANGED <<host, owner>>
    BY <1>5 DEF Arrives, Connects, Breaks, steamUnchanged, clientVars, serverVars
  <2>0. PICK e \in Ends, st \in EndStates : \E ev :
          /\ end' = [end EXCEPT ![k][e] = st] /\ Post(k, e, ev)
          /\ host \/ end[k][Server] \notin {"none", "closed"} \/ e # Server
          /\ ev = "connected" => k \notin Loops
    <3>1. CASE Arrives(k)
      BY <3>1 DEF Arrives, Ends, EndStates
    <3>2. ASSUME NEW e \in Ends, Connects(k, e)
          PROVE  k \notin Loops
      BY <3>2 DEF Connects, Live, IInv, Owned, Ends
    <3>3. CASE \E e \in Ends : Connects(k, e)
      BY <3>2, <3>3 DEF Connects, EndStates
    <3>4. CASE \E e \in Ends : Breaks(k, e)
      <4>1. PICK e \in Ends : Breaks(k, e)
        BY <3>4
      <4>2. /\ end' = [end EXCEPT ![k][e] = "broken"] /\ Post(k, e, "ended")
            /\ end[k][e] \notin {"none", "closed"}
        BY <4>1 DEF Breaks, Live
      <4>3. /\ "broken" \in EndStates /\ ("ended" = "connected" => k \notin Loops)
            /\ end[k][Server] \notin {"none", "closed"} \/ e # Server
        BY <4>2 DEF EndStates
      <4>4. host \/ end[k][Server] \notin {"none", "closed"} \/ e # Server
        BY <4>3
      <4> QED BY <4>2, <4>3, <4>4, Zenon
    <3> QED BY <1>5, <3>1, <3>3, <3>4
  <2>2. PICK ev :
          /\ end' = [end EXCEPT ![k][e] = st] /\ Post(k, e, ev)
          /\ host \/ end[k][Server] \notin {"none", "closed"} \/ e # Server
          /\ ev = "connected" => k \notin Loops
    BY <2>0
  <2>3. \A i \in 1 .. Len(calls') : calls'[i].ev = "connected" => calls'[i].k \notin Loops'
    <3>1. \A i \in 1 .. Len(calls') : \/ (i \in 1 .. Len(calls) /\ calls'[i] = calls[i])
                                       \/ (calls'[i].k = k /\ calls'[i].ev = ev)
      BY <2>2, PostAdds DEF IInv
    <3> QED BY <2>1, <2>2, <3>1 DEF KInv, Quiet, Loops
  <2>4. ~host' => \A j \in Insts : end'[j][Server] \in {"none", "closed"}
    BY <2>1, <2>2 DEF KInv, Quiet, IInv, Types
  <2> QED BY <2>3, <2>4 DEF Quiet
<1>6. ASSUME NEW k \in Insts,
             \/ ClientCallback(k) \/ ClientPoll(k) \/ ClientKick(k) \/ ClientCrash(k) \/ ClientClose(k)
             \/ \E u \in Users : CreateClient(k, u)
      PROVE  Quiet'
  <2>1. UNCHANGED <<host, calls>>
    BY <1>6 DEF ClientCallback, ClientPoll, ClientKick, ClientCrash, ClientClose, CreateClient, serverVars
  <2>2. \A j \in Insts : end'[j][Server] = end[j][Server] \/ end'[j][Server] = "closed"
    <3>1. \/ UNCHANGED end \/ CloseClient(k) \/ end' = [end EXCEPT ![k][Client] = "connecting"]
          \/ end' = [end EXCEPT ![k] = [e \in Ends |-> "closed"]]
      BY <1>6 DEF ClientCallback, ClientConnected, ClientEnded, ClientPoll, ClientKick, ClientCrash,
                  ClientClose, CreateClient
    <3>2. CASE end' = [end EXCEPT ![k][Client] = "connecting"]
      BY <3>2 DEF IInv, Types, Ends, Client, Server
    <3>3. CASE end' = [end EXCEPT ![k] = [e \in Ends |-> "closed"]]
      BY <3>3 DEF IInv, Types, Ends, Client, Server
    <3> QED BY <3>1, <3>2, <3>3, CloseClientIs
  <2>3. \A i \in 1 .. Len(calls) : calls[i].k \in Loops' => calls[i].k \in Loops
    <3>1. UNCHANGED owner \/ (status[k] = "new" /\ \E u \in Users : owner' = [owner EXCEPT ![k] = u])
      BY <1>6 DEF ClientCallback, ClientPoll, ClientKick, ClientCrash, ClientClose, CreateClient
    <3> QED BY <1>1, <3>1 DEF Loops, IInv, Types
  <2> QED BY <2>1, <2>2, <2>3 DEF KInv, Quiet
<1>7. CASE \/ UNCHANGED vars \/ ServerRead
           \/ \E p \in Insts : \E packet : ServerSend(p, packet) \/ ClientSend(p, packet)
           \/ \E k \in Insts, d \in Dirs : Loses(k, d)
  <2>1. UNCHANGED <<host, owner, calls, end>>
    BY <1>7 DEF vars, steamVars, clientVars, serverVars, ServerRead, ServerSend, ClientSend, Loses, steamUnchanged
  <2> QED BY <2>1 DEF KInv, Quiet, Loops
<1> QED BY <1>2, <1>3, <1>4, <1>5, <1>6, <1>7, GoneCases DEF Next

\* No connection stays open at the server with no SteamConnection that will
\* close it: what holds it when an entry is replaced, a peer is disconnected or
\* a loopback client closes is its destructor or a callback still to come
\* (add_connection, _disconnect_peer, ~SteamConnection).
THEOREM NoConnectionIsOrphaned == Spec => []NoOrphan
<1>1. Init => KInv
  BY DEF Init, KInv, NoOrphan, Quiet, Ends, Server
<1>2. IInv /\ IInv' /\ KInv /\ [Next]_vars => KInv'
  BY NoOrphanStep, QuietStep DEF KInv
<1> QED BY <1>1, <1>2, Invariant, PTL DEF Spec, KInv


------------------------------------------------------------------------------
(* Reliable, a recursive function: what it is, for every sequence of packets.  *)

\* A set of natural numbers has a least one.
LEMMA Least ==
  ASSUME NEW S \in SUBSET Nat, S # {}
  PROVE  \E m \in S : \A k \in S : m <= k
<1> DEFINE R == {ss \in Nat \X Nat : ss[1] < ss[2]}
<1>1. IsWellFoundedOn(R, Nat)
  BY NatLessThanWellFounded DEF OpToRel
<1>2. PICK x \in S : \A y \in S : <<y, x>> \notin R
  <2> HIDE DEF R
  <2> QED BY <1>1, WFMin
<1>3. ASSUME NEW y \in S PROVE x <= y
  <2>1. x \in Nat /\ y \in Nat /\ <<y, x>> \in Nat \X Nat /\ ~(y < x)
    BY <1>2
  <2> QED BY <2>1
<1> QED BY <1>3

\* Induction: what holds of 0, and of i + 1 if it holds of i, holds up to n.
LEMMA UpTo ==
  ASSUME NEW n \in Nat, NEW S, 0 \in S, \A i \in 0 .. n : i < n /\ i \in S => i + 1 \in S
  PROVE  \A i \in 0 .. n : i \in S
<1> DEFINE Bad == {i \in 0 .. n : i \notin S}
<1>1. Bad \in SUBSET Nat
  OBVIOUS
<1>2. ASSUME Bad # {} PROVE FALSE
  <2>1. PICK m \in Bad : \A k \in Bad : m <= k
    <3> HIDE DEF Bad
    <3> QED BY <1>1, <1>2, Least
  <2>2. m \in 0 .. n /\ m \notin S /\ m # 0 /\ m - 1 \in 0 .. n /\ m - 1 < n
    BY <2>1
  <2>3. m - 1 \in S
    BY <2>1, <2>2
  <2>4. (m - 1) + 1 \in S /\ (m - 1) + 1 = m
    BY <2>2, <2>3
  <2> QED BY <2>2, <2>4
<1> QED BY <1>2

\* f holds the numbers of the reliable packets among the first 0 .. n of q.
Grown(f, q, i) == IF q[i].rel THEN Append(f[i - 1], q[i].n) ELSE f[i - 1]
Grows(f, q, n) ==
  /\ f = [i \in 0 .. n |-> f[i]]
  /\ f[0] = <<>>
  /\ \A i \in 1 .. n : f[i] = Grown(f, q, i)

LEMMA GrowsOne ==
  ASSUME NEW q, NEW n \in Nat, NEW f, Grows(f, q, n)
  PROVE  \E g : Grows(g, q, n + 1)
<1> DEFINE g == [i \in 0 .. n + 1 |-> IF i = n + 1 THEN Grown(f, q, n + 1) ELSE f[i]]
<1>1. g = [i \in 0 .. n + 1 |-> g[i]] /\ g[n + 1] = Grown(f, q, n + 1) /\ \A i \in 0 .. n : g[i] = f[i]
  OBVIOUS
<1> HIDE DEF g
<1>2. ASSUME NEW i \in 1 .. n + 1 PROVE g[i] = Grown(g, q, i)
  <2>0. i - 1 \in 0 .. n
    OBVIOUS
  <2>1. g[i - 1] = f[i - 1]
    BY <1>1, <2>0
  <2>2. CASE i = n + 1
    BY <1>1, <2>1, <2>2 DEF Grown
  <2>3. CASE i # n + 1
    <3>1. i \in 1 .. n /\ i \in 0 .. n
      BY <2>3
    <3>2. g[i] = f[i] /\ f[i] = Grown(f, q, i)
      BY <1>1, <3>1 DEF Grows
    <3> QED BY <2>1, <3>2 DEF Grown
  <2> QED BY <2>2, <2>3
<1>3. 0 \in 0 .. n
  OBVIOUS
<1>4. Grows(g, q, n + 1)
  BY <1>1, <1>2, <1>3 DEF Grows
<1> QED BY <1>4

LEMMA GrowsExists ==
  ASSUME NEW q, NEW n \in Nat
  PROVE  \E f : Grows(f, q, n)
<1> DEFINE S == {m \in Nat : \E f : Grows(f, q, m)}
<1>1. 0 \in S
  <2> DEFINE g == [i \in 0 .. 0 |-> <<>>]
  <2>1. Grows(g, q, 0)
    BY DEF Grows
  <2> QED BY <2>1
<1>2. \A i \in 0 .. n : i < n /\ i \in S => i + 1 \in S
  BY GrowsOne
<1>3. n \in 0 .. n
  OBVIOUS
<1>4. n \in S
  <2> HIDE DEF S
  <2> QED BY <1>1, <1>2, <1>3, UpTo
<1> QED BY <1>4

\* It depends on those packets alone.
LEMMA GrowsAlike ==
  ASSUME NEW q, NEW r, NEW n \in Nat, NEW m \in 0 .. n, \A i \in 1 .. m : q[i] = r[i],
         NEW f, NEW g, Grows(f, q, m), Grows(g, r, n)
  PROVE  f[m] = g[m]
<1> DEFINE S == {i \in Nat : f[i] = g[i]}
<1>1. 0 \in S
  BY DEF Grows
<1>2. ASSUME NEW i \in 0 .. m, i < m, i \in S PROVE i + 1 \in S
  <2>1. i + 1 \in 1 .. m /\ i + 1 \in 1 .. n /\ (i + 1) - 1 = i
    BY <1>2
  <2>2. f[i + 1] = Grown(f, q, i + 1) /\ g[i + 1] = Grown(g, r, i + 1) /\ f[i] = g[i]
    BY <1>2, <2>1 DEF Grows
  <2> QED BY <2>1, <2>2 DEF Grown
<1>3. m \in 0 .. m /\ m \in Nat
  OBVIOUS
<1>4. m \in S
  <2> HIDE DEF S
  <2> QED BY <1>1, <1>2, <1>3, UpTo
<1> QED BY <1>4

LEMMA ReliableGrows ==
  ASSUME NEW q, Len(q) \in Nat
  PROVE  \E f : Grows(f, q, Len(q)) /\ Reliable(q) = f[Len(q)]
<1> DEFINE Body(f) == [i \in 0 .. Len(q) |->
              IF i = 0 THEN <<>> ELSE IF q[i].rel THEN Append(f[i - 1], q[i].n) ELSE f[i - 1]]
           f == CHOOSE f : f = Body(f)
<1>1. \E g : g = Body(g)
  <2>1. PICK g : Grows(g, q, Len(q))
    BY GrowsExists
  <2>2. \A i \in 0 .. Len(q) : g[i] = Body(g)[i]
    <3>1. \A i \in 0 .. Len(q) : i # 0 => i \in 1 .. Len(q)
       OBVIOUS
    <3> QED BY <2>1, <3>1 DEF Grows, Grown
  <2>3. g = Body(g)
    BY <2>1, <2>2 DEF Grows
  <2> QED BY <2>3
<1>2. f = Body(f)
  <2> HIDE DEF Body
  <2> QED BY <1>1
<1>3. Reliable(q) = f[Len(q)]
  BY DEF Reliable
<1>4. Grows(f, q, Len(q))
  <2> HIDE DEF f
  <2>1. \A i \in 0 .. Len(q) : f[i] = Body(f)[i]
    BY <1>2
  <2>2. f = [i \in 0 .. Len(q) |-> f[i]]
    BY <1>2
  <2>3. f[0] = <<>>
    BY <2>1
  <2>4. ASSUME NEW i \in 1 .. Len(q) PROVE f[i] = Grown(f, q, i)
    <3>1. i \in 0 .. Len(q) /\ i # 0
      OBVIOUS
    <3> QED BY <2>1, <3>1 DEF Grown
  <2> QED BY <2>2, <2>3, <2>4 DEF Grows
<1> QED BY <1>3, <1>4

LEMMA ReliableOfNone == Reliable(<<>>) = <<>>
<1>1. PICK f : Grows(f, <<>>, 0) /\ Reliable(<<>>) = f[0]
  BY ReliableGrows, Len(<<>>) = 0
<1> QED BY <1>1 DEF Grows

LEMMA ReliableAppends ==
  ASSUME NEW S, NEW q \in Seq(S), NEW p \in S
  PROVE  Reliable(Append(q, p)) = IF p.rel THEN Append(Reliable(q), p.n) ELSE Reliable(q)
<1> DEFINE r == Append(q, p)
           n == Len(q)
<1>1. n \in Nat /\ Len(r) = n + 1 /\ n \in 0 .. n + 1 /\ n + 1 \in 1 .. n + 1 /\ r[n + 1] = p
      /\ \A i \in 1 .. n : q[i] = r[i]
  OBVIOUS
<1>2. PICK f : Grows(f, q, n) /\ Reliable(q) = f[n]
  BY <1>1, ReliableGrows
<1> HIDE DEF r
<1>3. PICK g : Grows(g, r, n + 1) /\ Reliable(r) = g[n + 1]
  <2>1. Len(r) \in Nat
    BY <1>1
  <2> QED BY <1>1, <2>1, ReliableGrows
<1> HIDE DEF n
<1>4. f[n] = g[n]
  BY <1>1, <1>2, <1>3, GrowsAlike
<1>5. g[n + 1] = Grown(g, r, n + 1) /\ (n + 1) - 1 = n
  BY <1>1, <1>3 DEF Grows
<1>6. Reliable(r) = IF p.rel THEN Append(Reliable(q), p.n) ELSE Reliable(q)
  BY <1>1, <1>2, <1>3, <1>4, <1>5 DEF Grown
<1> QED BY <1>6 DEF r

\* A packet, as the lists hold them.
Packet == {Setup, Unreliable} \cup {Data(n) : n \in Nat \ {0}}

LEMMA PacketIs ==
  ASSUME NEW p \in Packet
  PROVE  p.rel => p.n \in Nat /\ p = Data(p.n)
<1>1. CASE p \in {Setup, Unreliable}
  BY <1>1 DEF Setup, Unreliable
<1>2. CASE \E n \in Nat \ {0} : p = Data(n)
  BY <1>2 DEF Data
<1> QED BY <1>1, <1>2 DEF Packet

\* The numbers of the reliable packets of q from place a on to place b.
Part(q, a, b) == Reliable(SubSeq(q, a, b))

LEMMA PartGrows ==
  ASSUME NEW q \in Seq(Packet), NEW a \in 1 .. Len(q) + 1, NEW b \in a .. Len(q)
  PROVE  Part(q, a, b) = IF q[b].rel THEN Append(Part(q, a, b - 1), q[b].n) ELSE Part(q, a, b - 1)
<1> DEFINE r == SubSeq(q, a, b - 1)
<1>1. SubSeq(q, a, b) = Append(r, q[b]) /\ r \in Seq(Packet) /\ q[b] \in Packet
  OBVIOUS
<1>2. Part(q, a, b) = Reliable(Append(r, q[b])) /\ Part(q, a, b - 1) = Reliable(r)
  BY <1>1 DEF Part
<1> HIDE DEF r
<1> QED BY <1>1, <1>2, ReliableAppends

LEMMA PartOfNone ==
  ASSUME NEW q \in Seq(Packet), NEW a \in 1 .. Len(q) + 1
  PROVE  Part(q, a, a - 1) = <<>>
<1>1. SubSeq(q, a, a - 1) = <<>>
  OBVIOUS
<1> QED BY <1>1, ReliableOfNone DEF Part

LEMMA PartIsSeq ==
  ASSUME NEW q \in Seq(Packet), NEW a \in 1 .. Len(q) + 1, NEW b \in a - 1 .. Len(q)
  PROVE  Part(q, a, b) \in Seq(Nat)
<1> DEFINE S == {i \in Nat : Part(q, a, a - 1 + i) \in Seq(Nat)}
           n == Len(q) - (a - 1)
<1>1. n \in Nat /\ a - 1 + 0 = a - 1 /\ b - (a - 1) \in 0 .. n /\ a - 1 + (b - (a - 1)) = b
  OBVIOUS
<1>2. 0 \in S
  <2>1. Part(q, a, a - 1 + 0) = <<>>
    BY <1>1, PartOfNone
  <2>2. <<>> \in Seq(Nat) /\ 0 \in Nat
    OBVIOUS
  <2> QED BY <2>1, <2>2
<1>3. ASSUME NEW i \in 0 .. n, i < n, i \in S PROVE i + 1 \in S
  <2> DEFINE c == a - 1 + (i + 1)
  <2>1. c \in a .. Len(q) /\ c \in 1 .. Len(q) /\ c - 1 = a - 1 + i /\ i + 1 \in Nat /\ i \in Nat
    BY <1>1, <1>3
  <2> HIDE DEF c
  <2>2. q[c] \in Packet /\ Part(q, a, c - 1) \in Seq(Nat)
    BY <1>3, <2>1
  <2>3. Part(q, a, c) = IF q[c].rel THEN Append(Part(q, a, c - 1), q[c].n) ELSE Part(q, a, c - 1)
    BY <2>1, PartGrows
  <2>4. q[c].rel => q[c].n \in Nat
    BY <2>2, PacketIs
  <2>5. Part(q, a, c) \in Seq(Nat)
    BY <2>2, <2>3, <2>4
  <2> QED BY <2>1, <2>5 DEF c
<1>4. b - (a - 1) \in S
  <2> HIDE DEF S, n
  <2> QED BY <1>1, <1>2, <1>3, UpTo
<1> QED BY <1>1, <1>4

LEMMA AppendLast ==
  ASSUME NEW s \in Seq(Nat), NEW t \in Seq(Nat), NEW x \in Nat
  PROVE  s \o Append(t, x) = Append(s \o t, x)
  OBVIOUS

LEMMA ReliableSplits ==
  ASSUME NEW q \in Seq(Packet), NEW a \in 1 .. Len(q) + 1
  PROVE  Part(q, 1, Len(q)) = Part(q, 1, a - 1) \o Part(q, a, Len(q))
<1> DEFINE S == {i \in Nat : Part(q, 1, a - 1 + i) = Part(q, 1, a - 1) \o Part(q, a, a - 1 + i)}
           n == Len(q) - (a - 1)
<1>1. n \in Nat /\ a - 1 + 0 = a - 1 /\ n \in 0 .. n /\ a - 1 + n = Len(q)
      /\ a - 1 \in 1 - 1 .. Len(q) /\ a - 1 \in a - 1 .. Len(q) /\ 1 \in 1 .. Len(q) + 1
  OBVIOUS
<1>2. 0 \in S
  <2>1. Part(q, a, a - 1) = <<>> /\ Part(q, 1, a - 1) \in Seq(Nat)
    BY <1>1, PartOfNone, PartIsSeq
  <2>2. Part(q, 1, a - 1) \o <<>> = Part(q, 1, a - 1)
    BY <2>1
  <2> QED BY <1>1, <2>1, <2>2
<1>3. ASSUME NEW i \in 0 .. n, i < n, i \in S PROVE i + 1 \in S
  <2> DEFINE c == a - 1 + (i + 1)
  <2>1. /\ c \in a .. Len(q) /\ c \in 1 .. Len(q) /\ c - 1 = a - 1 + i /\ i + 1 \in Nat /\ i \in Nat
        /\ c - 1 \in a - 1 .. Len(q)
    BY <1>1, <1>3
  <2> HIDE DEF c
  <2>2. q[c] \in Packet /\ Part(q, 1, c - 1) = Part(q, 1, a - 1) \o Part(q, a, c - 1)
    BY <1>3, <2>1
  <2>3. Part(q, 1, a - 1) \in Seq(Nat) /\ Part(q, a, c - 1) \in Seq(Nat)
    BY <1>1, <2>1, PartIsSeq
  <2>4. /\ Part(q, a, c) = IF q[c].rel THEN Append(Part(q, a, c - 1), q[c].n) ELSE Part(q, a, c - 1)
        /\ Part(q, 1, c) = IF q[c].rel THEN Append(Part(q, 1, c - 1), q[c].n) ELSE Part(q, 1, c - 1)
    BY <1>1, <2>1, PartGrows
  <2>5. Part(q, 1, c) = Part(q, 1, a - 1) \o Part(q, a, c)
    <3>1. CASE q[c].rel
      <4>1. q[c].n \in Nat
        BY <2>2, <3>1, PacketIs
      <4>2. Part(q, 1, a - 1) \o Append(Part(q, a, c - 1), q[c].n) = Append(Part(q, 1, a - 1) \o Part(q, a, c - 1), q[c].n)
        BY <2>3, <4>1, AppendLast
      <4> QED BY <2>2, <2>4, <3>1, <4>2
    <3>2. CASE ~ q[c].rel
      BY <2>2, <2>4, <3>2
    <3> QED BY <3>1, <3>2
  <2> QED BY <2>1, <2>5 DEF c
<1>4. n \in S
  <2> HIDE DEF S, n
  <2> QED BY <1>1, <1>2, <1>3, UpTo
<1> QED BY <1>1, <1>4

\* What is handed over and what is kept are the reliable packets, in order.
LEMMA ReliableIsSplit ==
  ASSUME NEW q \in Seq(Packet), NEW a \in 1 .. Len(q) + 1
  PROVE  /\ Reliable(q) \in Seq(Nat) /\ Reliable(SubSeq(q, 1, a - 1)) \in Seq(Nat)
         /\ Reliable(SubSeq(q, a, Len(q))) \in Seq(Nat)
         /\ Reliable(q) = Reliable(SubSeq(q, 1, a - 1)) \o Reliable(SubSeq(q, a, Len(q)))
<1>1. SubSeq(q, 1, Len(q)) = q
  OBVIOUS
<1>2. /\ 1 \in 1 .. Len(q) + 1 /\ Len(q) \in 1 - 1 .. Len(q) /\ Len(q) \in a - 1 .. Len(q)
      /\ a - 1 \in 1 - 1 .. Len(q)
  OBVIOUS
<1>3. Part(q, 1, Len(q)) \in Seq(Nat) /\ Part(q, 1, a - 1) \in Seq(Nat) /\ Part(q, a, Len(q)) \in Seq(Nat)
  BY <1>2, PartIsSeq
<1> QED BY <1>1, <1>3, ReliableSplits DEF Part

------------------------------------------------------------------------------
(* What is on its way, and the invariant that puts it in order. *)

\* What is on its way in direction d of connection k: the reliable packets that
\* Steam has and those that wait.
OnWay(k, d) == air[k][d].data \o Reliable(pend[k][d])

SetupAhead(k, d) == air[k][d].setup \/ \E i \in 1 .. Len(pend[k][d]) : pend[k][d][i] = Setup

Shapes ==
  /\ air \in [Insts -> [Dirs -> [data : Seq(Nat), setup : BOOLEAN]]]
  /\ pend \in [Insts -> [Dirs -> Seq(Packet)]]
  /\ sent \in [Insts -> [Dirs -> Nat]]
  /\ knows \in [Insts -> {"nothing", "entry", "peer"}]
  /\ got \in [Insts -> [Dirs -> Seq([k : Insts, n : Nat])]]

\* Who has heard of a peer id is a connection that has one, and a client that has
\* one, or is about to tell it, is up.
PingedAt(k) ==
  /\ knows[k] = "peer" \/ SetupAhead(k, Down) \/ k \in DOMAIN peers => pid[k] # Nobody
  /\ pid[k] # Nobody \/ SetupAhead(k, Up) \/ knows[k] # "nothing" => status[k] \notin {"new", "connecting"}

\* No reliable packet goes either way before.
UntoldAt(k) ==
  pid[k] = Nobody => \A d \in Dirs : sent[k][d] = 0 /\ OnWay(k, d) = <<>> /\ got[k][d] = <<>>

\* Up to the server: what it has heard, and on its way all that follows.
UpAt(k) ==
  /\ \A i \in 1 .. Len(got[k][Up]) : got[k][Up][i] = [k |-> k, n |-> i]
  /\ end[k][Server] # "closed" =>
       /\ \A i \in 1 .. Len(OnWay(k, Up)) : OnWay(k, Up)[i] = Len(got[k][Up]) + i
       /\ knows[k] # "nothing" => Len(got[k][Up]) + Len(OnWay(k, Up)) = sent[k][Up]

\* Down to the client: after the m first packets.
Follow(k, m) ==
  /\ \A i \in 1 .. Len(OnWay(k, Down)) : OnWay(k, Down)[i] = m + i
  /\ k \in DOMAIN peers => m + Len(OnWay(k, Down)) = sent[k][Down]
  /\ got[k][Down] # <<>> => got[k][Down][Len(got[k][Down])].n = m
DownAt(k) ==
  /\ \A i \in 1 .. Len(got[k][Down]) - 1 : got[k][Down][i + 1].n = got[k][Down][i].n + 1
  /\ knows[k] = "entry" => got[k][Down] = <<>>
  /\ knows[k] # "nothing" => \E m \in Nat : Follow(k, m)

Pinged == \A k \in Insts : PingedAt(k)
Untold == \A k \in Insts : UntoldAt(k)
UpOrder == \A k \in Insts : UpAt(k)
DownOrder == \A k \in Insts : DownAt(k)

HInv == Shapes /\ Pinged /\ Untold /\ UpOrder /\ DownOrder

LEMMA HInvImplies == HInv => HeardInOrder
<1> SUFFICES ASSUME HInv PROVE HeardInOrder
  OBVIOUS
<1>1. ASSUME NEW p \in Insts
      PROVE  got[p][Up] = [i \in 1 .. Len(got[p][Up]) |-> [k |-> p, n |-> i]]
  <2>1. got[p][Up] \in Seq([k : Insts, n : Nat])
    BY DEF HInv, Shapes, Dirs
  <2>2. \A i \in 1 .. Len(got[p][Up]) : got[p][Up][i] = [k |-> p, n |-> i]
    BY DEF HInv, UpOrder, UpAt
  <2> DEFINE g == got[p][Up]
  <2>3. g = [i \in 1 .. Len(g) |-> g[i]]
    <3> HIDE DEF g
    <3>1. g \in Seq([k : Insts, n : Nat])
      BY <2>1 DEF g
    <3> QED BY <3>1
  <2>4. [i \in 1 .. Len(g) |-> g[i]] = [i \in 1 .. Len(g) |-> [k |-> p, n |-> i]]
    BY <2>2
  <2> QED BY <2>3, <2>4
<1> QED BY <1>1 DEF HeardInOrder, ServerHearsInOrder, ClientHearsInOrder, HInv, DownOrder, DownAt

LEMMA HInitially == Init => HInv
<1> SUFFICES ASSUME Init PROVE HInv
  OBVIOUS
<1>1. Shapes
  <2>1. <<>> \in Seq(Nat) /\ <<>> \in Seq(Packet) /\ <<>> \in Seq([k : Insts, n : Nat])
    OBVIOUS
  <2> QED BY <2>1 DEF Init, Shapes, NoAir
<1>2. \A k \in Insts, d \in Dirs : OnWay(k, d) = <<>> /\ ~ SetupAhead(k, d)
  <2>1. \A k \in Insts, d \in Dirs : air[k][d] = NoAir /\ pend[k][d] = <<>>
    BY DEF Init
  <2> QED BY <2>1, ReliableOfNone DEF OnWay, SetupAhead, NoAir
<1>3. /\ \A k \in Insts : pid[k] = Nobody /\ knows[k] = "nothing" /\ status[k] = "new"
      /\ \A k \in Insts, d \in Dirs : sent[k][d] = 0 /\ got[k][d] = <<>>
      /\ DOMAIN peers = {}
  BY DEF Init
<1>4. Pinged
  BY <1>2, <1>3 DEF Pinged, PingedAt, Dirs
<1>5. Untold
  BY <1>2, <1>3 DEF Untold, UntoldAt
<1>6. UpOrder
  BY <1>2, <1>3 DEF UpOrder, UpAt, Dirs
<1>7. DownOrder
  BY <1>2, <1>3 DEF DownOrder, DownAt, Dirs
<1> QED BY <1>1, <1>4, <1>5, <1>6, <1>7 DEF HInv

\* What a step does to the packets on their way when it takes nothing from the
\* head: it leaves them, or an end is closed with what it still held.
ClosesOrLeaves ==
  /\ UNCHANGED <<sent, got, pid>>
  /\ air' \in [Insts -> [Dirs -> [data : Seq(Nat), setup : BOOLEAN]]]
  /\ pend' \in [Insts -> [Dirs -> Seq(Packet)]]
  /\ knows' \in [Insts -> {"nothing", "entry", "peer"}]
  /\ DOMAIN peers' \subseteq DOMAIN peers
  /\ \A k \in Insts :
       /\ knows'[k] \in {knows[k], "nothing"}
       /\ status[k] \notin {"new", "connecting"} => status'[k] \notin {"new", "connecting"}
       /\ end[k][Server] = "closed" => end'[k][Server] = "closed"
       /\ \A d \in Dirs : air'[k][d].setup => air[k][d].setup
       /\ \/ air'[k][Up].data = air[k][Up].data
          \/ end'[k][Server] = "closed"
       /\ \/ air'[k][Down].data = air[k][Down].data
          \/ knows'[k] = "nothing"
       /\ \A d \in Dirs : air'[k][d].data \in {air[k][d].data, <<>>}
       /\ \A d \in Dirs : pend'[k][d] \in {pend[k][d], <<>>}
       /\ pend'[k][Up] = pend[k][Up] \/ knows'[k] = "nothing"
       /\ pend'[k][Down] = pend[k][Down] \/ k \notin DOMAIN peers'

\* Both parts of what is on its way are sequences of numbers.
LEMMA OnWayIs ==
  ASSUME Shapes, NEW k \in Insts, NEW d \in Dirs
  PROVE  /\ air[k][d].data \in Seq(Nat) /\ Reliable(pend[k][d]) \in Seq(Nat) /\ OnWay(k, d) \in Seq(Nat)
         /\ pend[k][d] \in Seq(Packet)
<1>1. air[k][d].data \in Seq(Nat) /\ pend[k][d] \in Seq(Packet)
  BY DEF Shapes
<1>2. 1 \in 1 .. Len(pend[k][d]) + 1
  BY <1>1
<1>3. Reliable(pend[k][d]) \in Seq(Nat)
  BY <1>1, <1>2, ReliableIsSplit
<1>4. air[k][d].data \o Reliable(pend[k][d]) \in Seq(Nat)
  BY <1>1, <1>3
<1> QED BY <1>1, <1>3, <1>4 DEF OnWay

LEMMA ShorterIsPrefix ==
  ASSUME NEW a \in Seq(Nat), NEW r \in Seq(Nat)
  PROVE  /\ a \o <<>> = a /\ <<>> \o <<>> = <<>>
         /\ Len(a \o r) = Len(a) + Len(r) /\ Len(a) <= Len(a \o r)
         /\ \A i \in 1 .. Len(a) : a[i] = (a \o r)[i] /\ i \in 1 .. Len(a \o r)
         /\ a \o r = <<>> => a = <<>> /\ r = <<>>
  OBVIOUS

LEMMA LeavesOrder ==
  ASSUME HInv, ClosesOrLeaves
  PROVE  HInv'
<1>0. Shapes /\ Pinged /\ Untold /\ UpOrder /\ DownOrder /\ UNCHANGED <<sent, got, pid>>
  BY DEF HInv, ClosesOrLeaves
<1>1. Shapes'
  BY <1>0 DEF Shapes, ClosesOrLeaves
<1>2. ASSUME NEW k \in Insts, NEW d \in Dirs
      PROVE  SetupAhead(k, d)' => SetupAhead(k, d)
  <2>1. air'[k][d].setup => air[k][d].setup
    BY DEF ClosesOrLeaves
  <2>2. pend'[k][d] = pend[k][d] \/ pend'[k][d] = <<>>
    BY DEF ClosesOrLeaves
  <2>3. CASE pend'[k][d] = <<>>
    BY <2>1, <2>3 DEF SetupAhead
  <2> QED BY <2>1, <2>2, <2>3 DEF SetupAhead
<1>3. ASSUME NEW k \in Insts, NEW d \in Dirs, air'[k][d].data = air[k][d].data
      PROVE  \/ OnWay(k, d)' = OnWay(k, d)
             \/ /\ pend'[k][d] = <<>> /\ Len(OnWay(k, d)') <= Len(OnWay(k, d))
                /\ \A i \in 1 .. Len(OnWay(k, d)') : i \in 1 .. Len(OnWay(k, d)) /\ OnWay(k, d)'[i] = OnWay(k, d)[i]
  <2>1. pend'[k][d] = pend[k][d] \/ pend'[k][d] = <<>>
    BY DEF ClosesOrLeaves
  <2>2. CASE pend'[k][d] = pend[k][d]
    BY <1>3, <2>2 DEF OnWay
  <2>3. CASE pend'[k][d] = <<>>
    <3> DEFINE a == air[k][d].data
               r == Reliable(pend[k][d])
    <3>1. a \in Seq(Nat) /\ r \in Seq(Nat)
      BY <1>0, OnWayIs
    <3>2. OnWay(k, d)' = a \o <<>> /\ OnWay(k, d) = a \o r
      BY <1>3, <2>3, ReliableOfNone DEF OnWay
    <3> HIDE DEF a, r
    <3>3. OnWay(k, d)' = a
      BY <3>1, <3>2, ShorterIsPrefix
    <3> QED BY <2>3, <3>1, <3>2, <3>3, ShorterIsPrefix
  <2> QED BY <2>1, <2>2, <2>3
<1>4. Pinged'
  BY <1>0, <1>2 DEF Pinged, PingedAt, ClosesOrLeaves, Dirs
<1>5. Untold'
  <2> SUFFICES ASSUME NEW k \in Insts, pid[k] = Nobody, NEW d \in Dirs
               PROVE  OnWay(k, d)' = <<>>
    BY <1>0 DEF Untold, UntoldAt
  <2>1. OnWay(k, d) = <<>>
    BY <1>0 DEF Untold, UntoldAt
  <2>2. air[k][d].data = <<>> /\ Reliable(pend[k][d]) = <<>>
    BY <1>0, <2>1, OnWayIs, ShorterIsPrefix DEF OnWay
  <2>3. air'[k][d].data = <<>>
    BY <2>2 DEF ClosesOrLeaves
  <2>4. Reliable(pend'[k][d]) = <<>>
    BY <2>2, ReliableOfNone DEF ClosesOrLeaves
  <2> QED BY <2>3, <2>4, <2>1, <2>2 DEF OnWay
<1>6. UpOrder'
  <2> SUFFICES ASSUME NEW k \in Insts
               PROVE  /\ \A i \in 1 .. Len(got[k][Up]) : got[k][Up][i] = [k |-> k, n |-> i]
                      /\ end'[k][Server] # "closed" =>
                         /\ \A i \in 1 .. Len(OnWay(k, Up)') : OnWay(k, Up)'[i] = Len(got[k][Up]) + i
                         /\ knows'[k] # "nothing" => Len(got[k][Up]) + Len(OnWay(k, Up)') = sent[k][Up]
    BY <1>0 DEF UpOrder, UpAt
  <2>1. \A i \in 1 .. Len(got[k][Up]) : got[k][Up][i] = [k |-> k, n |-> i]
    BY <1>0 DEF UpOrder, UpAt
  <2>2. ASSUME end'[k][Server] # "closed"
        PROVE  /\ \A i \in 1 .. Len(OnWay(k, Up)') : OnWay(k, Up)'[i] = Len(got[k][Up]) + i
               /\ knows'[k] # "nothing" => Len(got[k][Up]) + Len(OnWay(k, Up)') = sent[k][Up]
    <3>1. Up \in Dirs /\ end[k][Server] # "closed" /\ air'[k][Up].data = air[k][Up].data
      BY <2>2 DEF ClosesOrLeaves, Dirs
    <3>2. /\ \A i \in 1 .. Len(OnWay(k, Up)) : OnWay(k, Up)[i] = Len(got[k][Up]) + i
          /\ knows[k] # "nothing" => Len(got[k][Up]) + Len(OnWay(k, Up)) = sent[k][Up]
      BY <1>0, <3>1 DEF UpOrder, UpAt
    <3>3. CASE OnWay(k, Up)' = OnWay(k, Up)
      BY <3>2, <3>3 DEF ClosesOrLeaves
    <3>4. CASE OnWay(k, Up)' # OnWay(k, Up)
      <4>1. pend'[k][Up] # pend[k][Up]
        BY <3>1, <3>4 DEF OnWay
      <4>2. knows'[k] = "nothing"
        BY <4>1 DEF ClosesOrLeaves
      <4>3. \A i \in 1 .. Len(OnWay(k, Up)') : i \in 1 .. Len(OnWay(k, Up)) /\ OnWay(k, Up)'[i] = OnWay(k, Up)[i]
        BY <1>3, <3>1, <3>4
      <4> QED BY <3>2, <4>2, <4>3
    <3> QED BY <3>3, <3>4
  <2> QED BY <2>1, <2>2
<1>7. DownOrder'
  <2> SUFFICES ASSUME NEW k \in Insts
               PROVE  /\ \A i \in 1 .. Len(got[k][Down]) - 1 : got[k][Down][i + 1].n = got[k][Down][i].n + 1
                      /\ knows'[k] = "entry" => got[k][Down] = <<>>
                      /\ knows'[k] # "nothing" => \E m \in Nat : Follow(k, m)'
    BY <1>0 DEF DownOrder, DownAt
  <2>1. /\ \A i \in 1 .. Len(got[k][Down]) - 1 : got[k][Down][i + 1].n = got[k][Down][i].n + 1
        /\ knows[k] = "entry" => got[k][Down] = <<>>
        /\ knows[k] # "nothing" => \E m \in Nat : Follow(k, m)
    BY <1>0 DEF DownOrder, DownAt
  <2>2. ASSUME knows'[k] # "nothing" PROVE \E m \in Nat : Follow(k, m)'
    <3>1. Down \in Dirs /\ knows[k] # "nothing" /\ air'[k][Down].data = air[k][Down].data
      BY <2>2 DEF ClosesOrLeaves, Dirs
    <3>2. PICK m \in Nat : Follow(k, m)
      BY <2>1, <3>1
    <3>3. CASE OnWay(k, Down)' = OnWay(k, Down)
      <4>1. k \in DOMAIN peers' => k \in DOMAIN peers
        BY DEF ClosesOrLeaves
      <4>2. Follow(k, m)'
        BY <1>0, <3>2, <3>3, <4>1 DEF Follow
      <4> QED BY <4>2
    <3>4. CASE OnWay(k, Down)' # OnWay(k, Down)
      <4>1. pend'[k][Down] # pend[k][Down]
        BY <3>1, <3>4 DEF OnWay
      <4>2. k \notin DOMAIN peers'
        BY <4>1 DEF ClosesOrLeaves
      <4>3. \A i \in 1 .. Len(OnWay(k, Down)') : i \in 1 .. Len(OnWay(k, Down)) /\ OnWay(k, Down)'[i] = OnWay(k, Down)[i]
        BY <1>3, <3>1, <3>4
      <4>4. Follow(k, m)'
        BY <1>0, <3>2, <4>2, <4>3 DEF Follow
      <4> QED BY <4>4
    <3> QED BY <3>3, <3>4
  <2>3. knows'[k] \in {knows[k], "nothing"}
    BY DEF ClosesOrLeaves
  <2> QED BY <2>1, <2>2, <2>3
<1> QED BY <1>1, <1>4, <1>5, <1>6, <1>7 DEF HInv

------------------------------------------------------------------------------
(* A connection is added once by each side. *)

WasUp == {"connected", "broken", "closed"}

\* A connection of the map, or one that has a peer id.
Added(k) == k \in Range(conns) \/ pid[k] # Nobody
OnlyOnce ==
  \A i, j \in 1 .. Len(calls) :
    calls[i].ev = "connected" /\ calls[j].ev = "connected" /\ calls[i].k = calls[j].k => i = j

\* The server runs one callback per connection that says it is up, and adds the
\* connection then: nothing takes a peer id back.
Once ==
  /\ \A k \in Insts : Added(k) => ~ Pending(k) /\ end[k][Server] \in WasUp
  /\ \A k \in Insts : Pending(k) => end[k][Server] \in WasUp
  /\ OnlyOnce

\* And so does a client, which tells its peer id then: callbacks cc wait for one
\* that has status st and end e.
WaitsFor(cc, st, e) ==
  /\ cc \in Seq([ev : {"connected", "ended"}, old : EndStates])
  /\ e \in {"connecting", "finding"} => st \in {"connecting", "gone"}
  /\ \A i \in 1 .. Len(cc) : cc[i].ev = "connected" => st = "connecting" /\ e \in WasUp
  /\ \A i, j \in 1 .. Len(cc) : cc[i].ev = "connected" /\ cc[j].ev = "connected" => i = j
ClientOnce ==
  /\ DOMAIN ccalls = Insts
  /\ \A k \in Insts : WaitsFor(ccalls[k], status[k], end[k][Client])

\* What the callbacks that wait may become.
LEMMA FewerCalls ==
  ASSUME Types, Once, calls' = calls \/ calls' = <<>> \/ (calls # <<>> /\ calls' = Tail(calls))
  PROVE  OnlyOnce' /\ \A k \in Insts : Pending(k)' => Pending(k)
<1>1. CASE calls' = calls
  BY <1>1 DEF Once, OnlyOnce, Pending
<1>2. CASE calls' = <<>>
  BY <1>2 DEF Once, OnlyOnce, Pending
<1>3. CASE calls # <<>> /\ calls' = Tail(calls)
  <2>1. calls \in Seq(Callbacks)
    BY DEF Types
  <2>2. Len(calls') \in Nat /\ \A i \in 1 .. Len(calls') : i + 1 \in 1 .. Len(calls) /\ calls'[i] = calls[i + 1]
    BY <1>3, <2>1
  <2>3. OnlyOnce'
    <3> SUFFICES ASSUME NEW i \in 1 .. Len(calls'), NEW j \in 1 .. Len(calls'), calls'[i].ev = "connected",
                        calls'[j].ev = "connected", calls'[i].k = calls'[j].k
                 PROVE  i = j
      BY DEF OnlyOnce
    <3>1. i + 1 = j + 1
      BY <2>2 DEF Once, OnlyOnce
    <3> QED BY <2>2, <3>1
  <2> QED BY <2>2, <2>3 DEF Pending
<1> QED BY <1>1, <1>2, <1>3

\* The first one is the only one of its connection.
LEMMA FirstCall ==
  ASSUME Types, Once, calls # <<>>, calls' = Tail(calls), Head(calls).ev = "connected",
         NEW k, k = Head(calls).k
  PROVE  ~ Pending(k)' /\ Pending(k)
<1>1. calls \in Seq(Callbacks)
  BY DEF Types
<1>2. /\ Len(calls') \in Nat /\ \A i \in 1 .. Len(calls') : i + 1 \in 1 .. Len(calls) /\ calls'[i] = calls[i + 1]
      /\ 1 \in 1 .. Len(calls) /\ calls[1] = Head(calls)
  BY <1>1
<1>3. ASSUME NEW i \in 1 .. Len(calls'), calls'[i].k = Head(calls).k, calls'[i].ev = "connected"
      PROVE  FALSE
  <2>1. i + 1 = 1
    BY <1>2, <1>3 DEF Once, OnlyOnce
  <2> QED BY <2>1
<1>4. calls[1].k = k /\ calls[1].ev = "connected"
  BY <1>2
<1>5. \A i \in 1 .. Len(calls') : ~ (calls'[i].k = k /\ calls'[i].ev = "connected")
  BY <1>3
<1> QED BY <1>2, <1>4, <1>5 DEF Pending

LEMMA PostedCalls ==
  ASSUME Types, Once, NEW k \in Insts, NEW e \in Ends, NEW ev, Post(k, e, ev),
         ev = "connected" /\ e = Server => ~ Pending(k)
  PROVE  /\ OnlyOnce'
         /\ \A j \in Insts : Pending(j)' => Pending(j) \/ (j = k /\ ev = "connected" /\ e = Server)
<1>1. CASE calls' = calls
  BY <1>1, FewerCalls
<1>2. CASE e = Server /\ calls' = Append(calls, [k |-> k, ev |-> ev, old |-> end[k][Server]])
  <2> DEFINE new == [k |-> k, ev |-> ev, old |-> end[k][Server]]
  <2>1. new.k = k /\ new.ev = ev /\ calls \in Seq(Callbacks) /\ calls' = Append(calls, new)
    BY <1>2 DEF Types
  <2> HIDE DEF new
  <2>2. /\ Len(calls) \in Nat /\ Len(calls') = Len(calls) + 1 /\ calls'[Len(calls) + 1] = new
        /\ \A i \in 1 .. Len(calls) : calls'[i] = calls[i]
    BY <2>1
  <2>3. \A i \in 1 .. Len(calls') : i \in 1 .. Len(calls) \/ i = Len(calls) + 1
    BY <2>2
  <2>4. ASSUME ev = "connected" PROVE \A i \in 1 .. Len(calls) : ~ (calls[i].k = k /\ calls[i].ev = "connected")
    BY <1>2, <2>4 DEF Pending
  <2>5. OnlyOnce'
    BY <2>1, <2>2, <2>3, <2>4 DEF Once, OnlyOnce
  <2>6. \A j \in Insts : Pending(j)' => Pending(j) \/ (j = k /\ ev = "connected")
    BY <2>1, <2>2, <2>3 DEF Pending
  <2> QED BY <1>2, <2>5, <2>6
<1> QED BY <1>1, <1>2 DEF Post

\* An end that was up was up for good, and one that is closed stays closed.
EndStays ==
  \A k \in Insts :
    /\ end[k][Server] \in WasUp => end'[k][Server] \in WasUp
    /\ end[k][Server] = "closed" => end'[k][Server] = "closed"

LEMMA EndStep ==
  ASSUME IInv, [Next]_vars
  PROVE  EndStays
<1>0. end \in [Insts -> [Ends -> EndStates]] /\ Client \in Ends /\ Server \in Ends /\ Client # Server
  BY DEF IInv, Types, Ends, Client, Server
<1>1. ASSUME NEW S, CloseServer(S) PROVE EndStays
  BY <1>1, CloseIs DEF IInv, WasUp, EndStays
<1>2. CASE UNCHANGED end
  BY <1>2 DEF EndStays
<1>3. ASSUME NEW p, NEW extra, DisconnectPeer(p, extra) PROVE EndStays
  <2>1. \E S : CloseServer(S)
    BY <1>3 DEF DisconnectPeer
  <2> QED BY <1>1, <2>1
<1>4. CASE ServerCallback
  <2> DEFINE c == Head(calls)
  <2>1. CASE ServerArrived(c)
    <3>1. end' = [end EXCEPT ![c.k][Server] = IF @ = "connecting" THEN "finding" ELSE "closed"]
      BY <2>1 DEF ServerArrived
    <3> HIDE DEF c
    <3> QED BY <1>0, <3>1 DEF WasUp, EndStays
  <2>2. CASE ServerConnected(c)
    BY <1>1, <2>2 DEF ServerConnected
  <2>3. CASE ServerEnded(c)
    BY <1>3, <2>3 DEF ServerEnded
  <2> QED BY <1>2, <1>4, <2>1, <2>2, <2>3 DEF ServerCallback
<1>5. ASSUME NEW p, NEW packet, ServerSend(p, packet) \/ ClientSend(p, packet) PROVE EndStays
  BY <1>2, <1>5 DEF ServerSend, ClientSend, EndStays
<1>6. ASSUME NEW p, ServerKick(p) PROVE EndStays
  BY <1>3, <1>6 DEF ServerKick
<1>7. ASSUME NEW j \in Insts, CloseClient(j) \/ \E st : end' = [end EXCEPT ![j][Client] = st]
      PROVE  EndStays
  BY <1>0, <1>7 DEF CloseClient, EndStays
<1>8. ASSUME NEW j \in Insts, CreateLoopbackClient(j) PROVE EndStays
  <2>1. end' = [end EXCEPT ![j] = [e \in Ends |-> "connected"]] /\ end[j][Server] # "closed"
    BY <1>0, <1>8 DEF CreateLoopbackClient, IInv, Made
  <2> QED BY <1>0, <2>1 DEF WasUp, EndStays
<1>9. ASSUME NEW j \in Insts, ClientClose(j) PROVE EndStays
  <2>1. UNCHANGED end \/ CloseClient(j) \/ end' = [end EXCEPT ![j] = [e \in Ends |-> "closed"]]
    BY <1>9 DEF ClientClose
  <2>2. CASE end' = [end EXCEPT ![j] = [e \in Ends |-> "closed"]]
    BY <1>0, <2>2 DEF WasUp, EndStays
  <2> QED BY <1>2, <1>7, <2>1, <2>2
<1>10. ASSUME NEW j \in Insts,
              \/ ClientCallback(j) \/ ClientPoll(j) \/ ClientKick(j) \/ ClientCrash(j)
              \/ \E u \in Users : CreateClient(j, u)
       PROVE  EndStays
  <2>1. UNCHANGED end \/ CloseClient(j) \/ end' = [end EXCEPT ![j][Client] = "connecting"]
    BY <1>10 DEF ClientCallback, ClientConnected, ClientEnded, ClientPoll, ClientKick, ClientCrash, CreateClient
  <2> QED BY <1>2, <1>7, <2>1
<1>11. ASSUME NEW j \in Insts, Arrives(j) \/ \E e \in Ends : Connects(j, e) \/ Breaks(j, e)
       PROVE  EndStays
  <2>1. CASE Arrives(j)
    BY <1>0, <2>1 DEF Arrives, WasUp, EndStays
  <2>2. CASE \E e \in Ends : Connects(j, e)
    BY <1>0, <2>2 DEF Connects, WasUp, EndStays
  <2>3. CASE \E e \in Ends : Breaks(j, e)
    BY <1>0, <2>3 DEF Breaks, Live, WasUp, EndStays
  <2> QED BY <1>11, <2>1, <2>2, <2>3
<1>12. ASSUME NEW j, NEW d, Loses(j, d) PROVE EndStays
  BY <1>2, <1>12 DEF Loses, EndStays
<1>14. CASE ServerPoll \/ ServerRead \/ UNCHANGED vars
  BY <1>2, <1>14 DEF vars, steamVars, ServerPoll, ServerRead, EndStays
<1>15. CASE ServerGone
  BY <1>1, <1>15 DEF ServerGone
<1> QED
  BY <1>4, <1>5, <1>6, <1>8, <1>9, <1>10, <1>11, <1>12, <1>14, <1>15, GoneCases DEF Next

LEMMA OnceKeeps ==
  ASSUME IInv, [Next]_vars, Once, OnlyOnce',
         \A k \in Insts : Pending(k)' => Pending(k), \A k \in Insts : Added(k)' => Added(k)
  PROVE  Once'
  BY EndStep DEF Once, EndStays

LEMMA OnceStep ==
  ASSUME IInv, IInv', [Next]_vars, Once
  PROVE  Once'
<1>0. Types /\ Server \in Ends
  BY DEF IInv, Ends
<1>1. CASE UNCHANGED <<conns, pid, calls>>
  <2>1. OnlyOnce' /\ \A k \in Insts : Pending(k)' => Pending(k)
    BY <1>0, <1>1, FewerCalls
  <2>2. \A k \in Insts : Added(k)' => Added(k)
    BY <1>1 DEF Added
  <2> QED BY <2>1, <2>2, OnceKeeps
<1>2. ASSUME \A x \in DOMAIN conns' : x \in DOMAIN conns /\ conns'[x] = conns[x], UNCHANGED pid
      PROVE  \A k \in Insts : Added(k)' => Added(k)
  BY <1>2 DEF Added, Range
<1>3. CASE ServerCallback
  <2> DEFINE c == Head(calls)
  <2>0. calls # <<>> /\ calls' = Tail(calls) /\ UNCHANGED <<owner, status>>
    BY <1>3 DEF ServerCallback, clientVars
  <2>1. OnlyOnce' /\ \A k \in Insts : Pending(k)' => Pending(k)
    BY <1>0, <2>0, FewerCalls
  <2>2. CASE UNCHANGED <<conns, pid>>
    BY <2>1, <2>2, OnceKeeps DEF Added
  <2>3. CASE ServerConnected(c)
    <3>1. c.ev = "connected" /\ conns' = With(conns, owner[c.k], c.k) /\ pid' = [pid EXCEPT ![c.k] = Nobody]
      BY <2>3 DEF ServerConnected
    <3>0. c.k \in Insts
      BY <1>0, <2>0, TailIs DEF Callbacks, IInv
    <3> PICK j \in Insts : j = c.k
      BY <3>0
    <3>2. ~ Pending(j)' /\ Pending(j)
      BY <1>0, <2>0, <3>1, FirstCall
    <3> HIDE DEF c
    <3>3. \A k \in Insts : Added(k)' => Added(k) \/ k = j
      BY <1>0, <3>1, <3>2 DEF Added, Range, With, Types
    <3>4. \A k \in Insts : end[k][Server] \in WasUp => end'[k][Server] \in WasUp
      BY EndStep DEF EndStays
    <3>5. \A k \in Insts : Added(k)' => ~ Pending(k)' /\ end'[k][Server] \in WasUp
      BY <2>1, <3>2, <3>3, <3>4 DEF Once
    <3>6. \A k \in Insts : Pending(k)' => end'[k][Server] \in WasUp
      BY <2>1, <3>4 DEF Once
    <3> QED BY <2>1, <3>5, <3>6 DEF Once
  <2>4. CASE ServerEnded(c)
    <3>1. UNCHANGED pid /\ \E p, extra : DisconnectPeer(p, extra)
      BY <2>4 DEF ServerEnded
    <3>2. \A x \in DOMAIN conns' : x \in DOMAIN conns /\ conns'[x] = conns[x]
      BY <2>0, <3>1, DisconnectIs
    <3> QED BY <1>2, <2>1, <3>1, <3>2, OnceKeeps
  <2> QED BY <1>3, <2>2, <2>3, <2>4 DEF ServerCallback, ServerArrived
<1>4. CASE ServerPoll
  <2>1. PICK x \in DOMAIN conns : \E m \in Waiting(conns[x], Up) :
          ServerMessage(conns[x], conns[owner[conns[x]]], m) \/ ServerPing(conns[x], conns[owner[conns[x]]], m)
    BY <1>4 DEF ServerPoll
  <2>2. conns[x] \in Insts /\ conns[owner[conns[x]]] = conns[x] /\ UNCHANGED <<conns, calls>>
    BY <1>4 DEF IInv, Owned, ServerPoll
  <2>3. UNCHANGED pid \/ pid' = [pid EXCEPT ![conns[x]] = conns[x]]
    BY <2>1, <2>2 DEF ServerMessage, ServerPing
  <2>4. \A k \in Insts : Added(k)' => Added(k)
    BY <1>0, <2>1, <2>2, <2>3 DEF Added, Range, Types
  <2>5. OnlyOnce' /\ \A k \in Insts : Pending(k)' => Pending(k)
    BY <1>0, <2>2, FewerCalls
  <2> QED BY <2>4, <2>5, OnceKeeps
<1>5. CASE ServerGone
  <2>1. calls' = <<>> /\ DOMAIN conns' = {} /\ UNCHANGED pid
    BY <1>5 DEF ServerGone
  <2> QED BY <1>0, <1>2, <2>1, FewerCalls, OnceKeeps
<1>6. ASSUME NEW p \in Insts, ServerKick(p) PROVE Once'
  <2>1. UNCHANGED <<pid, calls, owner, status>> /\ DisconnectPeer(p, {})
    BY <1>6 DEF ServerKick, clientVars
  <2>2. \A x \in DOMAIN conns' : x \in DOMAIN conns /\ conns'[x] = conns[x]
    BY <2>1, DisconnectIs
  <2> QED BY <1>0, <1>2, <2>1, <2>2, FewerCalls, OnceKeeps
<1>7. ASSUME NEW k \in Insts, CreateLoopbackClient(k) PROVE Once'
  <2>1. /\ status[k] = "new" /\ conns' = With(conns, k, k) /\ UNCHANGED <<pid, calls>>
        /\ end' = [end EXCEPT ![k] = [e \in Ends |-> "connected"]]
    BY <1>7 DEF CreateLoopbackClient
  <2>2. ~ Pending(k) /\ end'[k][Server] \in WasUp
    BY <1>0, <2>1 DEF Pending, IInv, Made, Types, WasUp
  <2>3. \A j \in Insts : Added(j)' => Added(j) \/ j = k
    BY <2>1 DEF Added, Range, With
  <2>4. OnlyOnce' /\ \A j \in Insts : Pending(j)' => Pending(j)
    BY <1>0, <2>1, FewerCalls
  <2> QED BY <2>2, <2>3, <2>4, EndStep DEF Once, EndStays
<1>8. ASSUME NEW k \in Insts, ClientClose(k) PROVE Once'
  <2>1. UNCHANGED <<pid, calls>> /\ (UNCHANGED conns \/ conns' = Without(conns, owner[k]))
    BY <1>8 DEF ClientClose
  <2>2. \A x \in DOMAIN conns' : x \in DOMAIN conns /\ conns'[x] = conns[x]
    <3>1. CASE conns' = Without(conns, owner[k])
      <4>1. DOMAIN conns' = DOMAIN conns \ {owner[k]} /\ \A y \in DOMAIN conns \ {owner[k]} : conns'[y] = conns[y]
        BY <3>1, WithoutIs
      <4> QED BY <4>1
    <3> QED BY <2>1, <3>1
  <2> QED BY <1>0, <1>2, <2>1, <2>2, FewerCalls, OnceKeeps
<1>9. ASSUME NEW k \in Insts, Arrives(k) \/ \E e \in Ends : Connects(k, e) \/ Breaks(k, e)
      PROVE  Once'
  <2>1. UNCHANGED <<conns, pid>>
    BY <1>9 DEF Arrives, Connects, Breaks, steamUnchanged, serverVars
  <2>2. \A j \in Insts : Added(j)' => Added(j)
    BY <2>1 DEF Added
  <2>3. CASE Arrives(k) \/ \E e \in Ends : Breaks(k, e)
    <3>1. \E e \in Ends, ev \in {"arrived", "ended"} : Post(k, e, ev)
      BY <1>0, <2>3 DEF Arrives, Breaks
    <3>2. OnlyOnce' /\ \A j \in Insts : Pending(j)' => Pending(j)
      BY <1>0, <3>1, PostedCalls
    <3> QED BY <2>2, <3>2, OnceKeeps
  <2>4. ASSUME NEW e \in Ends, Connects(k, e) PROVE Once'
    <3>1. /\ Post(k, e, "connected") /\ end' = [end EXCEPT ![k][e] = "connected"]
          /\ e = Server => end[k][Server] = "finding"
      BY <2>4 DEF Connects
    <3>2. e = Server => ~ Pending(k) /\ ~ Added(k) /\ end'[k][Server] \in WasUp
      BY <1>0, <3>1 DEF Once, WasUp, Types
    <3>3. /\ OnlyOnce'
          /\ \A j \in Insts : Pending(j)' => Pending(j) \/ (j = k /\ e = Server)
      BY <1>0, <3>1, <3>2, PostedCalls
    <3> QED BY <2>2, <3>2, <3>3, EndStep DEF Once, EndStays
  <2> QED BY <1>9, <2>3, <2>4
<1> QED
  BY <1>1, <1>3, <1>4, <1>5, <1>6, <1>7, <1>8, <1>9, GoneCases
  DEF Next, vars, steamVars, serverVars, ServerRead, ServerSend, ClientSend, ClientCallback, ClientPoll, ClientKick, ClientCrash,
      CreateClient, Loses, steamUnchanged

LEMMA TailWaits ==
  ASSUME NEW cc, NEW st, NEW e, WaitsFor(cc, st, e), cc # <<>>
  PROVE  /\ WaitsFor(Tail(cc), st, e)
         /\ Head(cc).ev = "connected" => st = "connecting" /\ e \in WasUp /\ WaitsFor(Tail(cc), "connected", e)
<1>1. cc \in Seq([ev : {"connected", "ended"}, old : EndStates])
  BY DEF WaitsFor
<1>2. /\ Tail(cc) \in Seq([ev : {"connected", "ended"}, old : EndStates])
      /\ \A i \in 1 .. Len(Tail(cc)) : i + 1 \in 1 .. Len(cc) /\ Tail(cc)[i] = cc[i + 1] /\ i + 1 # 1
      /\ 1 \in 1 .. Len(cc) /\ Head(cc) = cc[1]
  BY <1>1
<1>3. \A i, j \in 1 .. Len(Tail(cc)) : i + 1 = j + 1 => i = j
  BY <1>2
<1>4. ASSUME NEW i \in 1 .. Len(Tail(cc)), NEW j \in 1 .. Len(Tail(cc)), Tail(cc)[i].ev = "connected",
             Tail(cc)[j].ev = "connected"
      PROVE  i = j
  <2>1. i + 1 = j + 1
    BY <1>2, <1>4 DEF WaitsFor
  <2> QED BY <1>3, <2>1
<1>5. WaitsFor(Tail(cc), st, e)
  BY <1>2, <1>4 DEF WaitsFor
<1>6. ASSUME Head(cc).ev = "connected" PROVE WaitsFor(Tail(cc), "connected", e)
  <2>1. \A i \in 1 .. Len(Tail(cc)) : Tail(cc)[i].ev # "connected"
    BY <1>2, <1>6 DEF WaitsFor
  <2>2. e \in WasUp
    BY <1>2, <1>6 DEF WaitsFor
  <2> QED BY <1>2, <2>1, <2>2 DEF WaitsFor, WasUp
<1> QED BY <1>2, <1>5, <1>6 DEF WaitsFor

LEMMA AppendWaits ==
  ASSUME NEW cc, NEW st, NEW e, WaitsFor(cc, st, e), NEW c \in [ev : {"connected", "ended"}, old : EndStates],
         NEW f \in WasUp, c.ev = "connected" => st = "connecting" /\ e \notin WasUp
  PROVE  WaitsFor(Append(cc, c), st, f) /\ WaitsFor(cc, st, f)
<1>1. cc \in Seq([ev : {"connected", "ended"}, old : EndStates])
  BY DEF WaitsFor
<1>2. /\ Append(cc, c) \in Seq([ev : {"connected", "ended"}, old : EndStates])
      /\ \A i \in 1 .. Len(Append(cc, c)) :
           (i \in 1 .. Len(cc) /\ Append(cc, c)[i] = cc[i]) \/ (i = Len(cc) + 1 /\ Append(cc, c)[i] = c)
  BY <1>1
<1>3. c.ev = "connected" => \A i \in 1 .. Len(cc) : cc[i].ev # "connected"
  BY DEF WaitsFor
<1>4. WaitsFor(cc, st, f)
  BY DEF WaitsFor, WasUp
<1> HIDE DEF WasUp
<1>5. WaitsFor(Append(cc, c), st, f)
  BY <1>2, <1>3, <1>4 DEF WaitsFor
<1> QED BY <1>4, <1>5

LEMMA ClientOnceStep ==
  ASSUME IInv, IInv', [Next]_vars, ClientOnce
  PROVE  ClientOnce'
<1>0. /\ end \in [Insts -> [Ends -> EndStates]] /\ Client \in Ends /\ Server \in Ends /\ Client # Server
      /\ DOMAIN status = Insts /\ DOMAIN ccalls = Insts
      /\ \A k \in Insts : WaitsFor(ccalls[k], status[k], end[k][Client])
  BY DEF IInv, Types, Ends, Client, Server, ClientOnce
<1>1. ASSUME UNCHANGED <<ccalls, status>>, \A k \in Insts : end'[k][Client] = end[k][Client]
      PROVE  ClientOnce'
  BY <1>0, <1>1 DEF ClientOnce
<1>2. ASSUME UNCHANGED <<ccalls, status>>, NEW S, CloseServer(S)
      PROVE  ClientOnce'
  BY <1>1, <1>2, CloseIs DEF IInv
<1>3. ASSUME UNCHANGED <<ccalls, status>>, NEW p, NEW extra, DisconnectPeer(p, extra)
      PROVE  ClientOnce'
  <2>1. \E S : CloseServer(S)
    BY <1>3 DEF DisconnectPeer
  <2> QED BY <1>2, <1>3, <2>1
<1>4. CASE ServerCallback
  <2> DEFINE c == Head(calls)
  <2>0. UNCHANGED <<ccalls, status>>
    BY <1>4 DEF ServerCallback, clientVars
  <2>1. CASE ServerArrived(c)
    <3>1. end' = [end EXCEPT ![c.k][Server] = IF @ = "connecting" THEN "finding" ELSE "closed"]
      BY <2>1 DEF ServerArrived
    <3> HIDE DEF c
    <3> QED BY <1>0, <1>1, <2>0, <3>1
  <2>2. CASE ServerConnected(c)
    BY <1>2, <2>0, <2>2 DEF ServerConnected
  <2>3. CASE ServerEnded(c)
    BY <1>3, <2>0, <2>3 DEF ServerEnded
  <2> QED BY <1>1, <1>4, <2>0, <2>1, <2>2, <2>3 DEF ServerCallback
<1>5. ASSUME NEW p, NEW packet, ServerSend(p, packet) \/ ClientSend(p, packet) PROVE ClientOnce'
  BY <1>1, <1>5 DEF ServerSend, ClientSend, clientVars
<1>6. ASSUME NEW p, ServerKick(p) PROVE ClientOnce'
  BY <1>3, <1>6 DEF ServerKick, clientVars
<1>7. CASE ServerPoll \/ ServerRead \/ UNCHANGED vars \/ ServerGone
  BY <1>1, <1>2, <1>7 DEF vars, steamVars, ServerPoll, ServerRead, clientVars, ServerGone
<1>8. ASSUME NEW k \in Insts, \A j \in Insts \ {k} : ccalls'[j] = ccalls[j] /\ status'[j] = status[j] /\ end'[j] = end[j],
             DOMAIN ccalls' = Insts, WaitsFor(ccalls'[k], status'[k], end'[k][Client])
      PROVE  ClientOnce'
  BY <1>0, <1>8 DEF ClientOnce
<1>9. ASSUME NEW k \in Insts, NEW u \in Users, CreateClient(k, u) PROVE ClientOnce'
  <2>1. /\ status[k] = "new" /\ status' = [status EXCEPT ![k] = "connecting"] /\ UNCHANGED ccalls
        /\ end' = [end EXCEPT ![k][Client] = "connecting"]
    BY <1>9 DEF CreateClient
  <2>2. WaitsFor(ccalls[k], "connecting", "connecting")
    BY <1>0, <2>1 DEF WaitsFor
  <2> QED BY <1>0, <1>8, <2>1, <2>2
<1>10. ASSUME NEW k \in Insts, CreateLoopbackClient(k) PROVE ClientOnce'
  <2>1. /\ status[k] = "new" /\ status' = [status EXCEPT ![k] = "connected"] /\ UNCHANGED ccalls
        /\ end' = [end EXCEPT ![k] = [e \in Ends |-> "connected"]]
    BY <1>10 DEF CreateLoopbackClient
  <2>2. WaitsFor(ccalls[k], "connected", "connected")
    BY <1>0, <2>1 DEF WaitsFor
  <2> QED BY <1>0, <1>8, <2>1, <2>2
<1>11. ASSUME NEW k \in Insts, ClientCallback(k) PROVE ClientOnce'
  <2> DEFINE c == Head(ccalls[k])
             cc == Tail(ccalls[k])
  <2>0. ccalls[k] # <<>> /\ ccalls' = [ccalls EXCEPT ![k] = Tail(@)] /\ ccalls'[k] = cc
    BY <1>0, <1>11 DEF ClientCallback
  <2>1. /\ WaitsFor(cc, status[k], end[k][Client])
        /\ c.ev = "connected" => WaitsFor(cc, "connected", end[k][Client])
    BY <1>0, <2>0, TailWaits
  <2>2. CASE ClientConnected(k, c)
    <3>1. c.ev = "connected" /\ status' = [status EXCEPT ![k] = "connected"] /\ UNCHANGED end
      BY <2>2 DEF ClientConnected
    <3> HIDE DEF c, cc
    <3> QED BY <1>0, <1>8, <2>0, <2>1, <3>1
  <2>3. CASE ClientEnded(k, c)
    <3>1. status[k] = "connected" /\ status' = [status EXCEPT ![k] = "disconnected"] /\ CloseClient(k)
      BY <2>3 DEF ClientEnded
    <3>2. end' = [end EXCEPT ![k][Client] = "closed"]
      BY <3>1 DEF CloseClient
    <3> HIDE DEF c, cc
    <3>3. WaitsFor(cc, "disconnected", "closed")
      BY <2>1, <3>1 DEF WaitsFor
    <3> QED BY <1>0, <1>8, <2>0, <3>1, <3>2, <3>3
  <2>4. CASE UNCHANGED <<status, end>>
    <3> HIDE DEF c, cc
    <3> QED BY <1>0, <1>8, <2>0, <2>1, <2>4
  <2> QED BY <1>11, <2>2, <2>3, <2>4 DEF ClientCallback
<1>12. ASSUME NEW k \in Insts, ClientPoll(k) PROVE ClientOnce'
  BY <1>1, <1>12 DEF ClientPoll
<1>13. ASSUME NEW k \in Insts, ClientKick(k) PROVE ClientOnce'
  <2>1. /\ status[k] = "connected" /\ UNCHANGED <<status, ccalls>>
        /\ end' = [end EXCEPT ![k][Client] = "closed"]
    BY <1>13 DEF ClientKick, CloseClient
  <2>2. WaitsFor(ccalls[k], "connected", "closed")
    BY <1>0, <2>1 DEF WaitsFor
  <2> QED BY <1>0, <1>8, <2>1, <2>2
<1>14. ASSUME NEW k \in Insts, ClientClose(k) \/ ClientCrash(k) PROVE ClientOnce'
  <2>1. /\ status' = [status EXCEPT ![k] = "gone"] /\ ccalls' = [ccalls EXCEPT ![k] = <<>>]
        /\ \A j \in Insts \ {k} : end'[j] = end[j]
    BY <1>0, <1>14 DEF ClientClose, ClientCrash, CloseClient
  <2>2. \A e : WaitsFor(<<>>, "gone", e)
    BY DEF WaitsFor
  <2> QED BY <1>0, <1>8, <2>1, <2>2
<1>15. ASSUME NEW k \in Insts, Arrives(k) PROVE ClientOnce'
  <2>1. end' = [end EXCEPT ![k][Server] = "connecting"] /\ UNCHANGED <<ccalls, status>>
    BY <1>0, <1>15 DEF Arrives, Post, steamUnchanged, clientVars
  <2> QED BY <1>0, <1>1, <2>1
<1>16. ASSUME NEW k \in Insts, NEW e \in Ends, Connects(k, e) \/ Breaks(k, e) PROVE ClientOnce'
  <2>1. PICK ev \in {"connected", "ended"}, st \in {"connected", "broken"} :
          /\ end' = [end EXCEPT ![k][e] = st] /\ Post(k, e, ev) /\ UNCHANGED status
          /\ end[k][e] \in {"connecting", "finding", "connected"} \/ e = Server
          /\ ev = "connected" => end[k][e] # "connected"
    BY <1>0, <1>16 DEF Connects, Breaks, Live, steamUnchanged, clientVars, Ends
  <2>2. CASE e = Server
    <3>1. UNCHANGED ccalls
      BY <1>0, <2>1, <2>2 DEF Post
    <3> QED BY <1>0, <1>1, <2>1, <2>2, <3>1
  <2>3. CASE e = Client
    <3> DEFINE c == [ev |-> ev, old |-> end[k][Client]]
    <3>1. /\ ev = "connected" => status[k] \in {"connecting", "gone"} /\ end[k][Client] \notin WasUp
          /\ WaitsFor(ccalls[k], status[k], end[k][Client])
      BY <1>0, <2>1, <2>3 DEF WaitsFor, WasUp
    <3>2. c \in [ev : {"connected", "ended"}, old : EndStates] /\ st \in WasUp /\ c.ev = ev
      BY <1>0 DEF WasUp
    <3> HIDE DEF c
    <3>3. CASE status[k] = "gone"
      <4>1. UNCHANGED ccalls
        BY <1>0, <2>1, <2>3, <3>3 DEF Post
      <4>2. "ended" \in {"connected", "ended"} /\ [ev |-> "ended", old |-> "none"] \in [ev : {"connected", "ended"}, old : EndStates]
        BY DEF EndStates
      <4>3. WaitsFor(ccalls[k], status[k], st)
        BY <3>1, <3>2, <4>2, AppendWaits
      <4> QED BY <1>0, <1>8, <2>1, <2>3, <4>1, <4>3
    <3>4. CASE status[k] # "gone"
      <4>1. ccalls' = [ccalls EXCEPT ![k] = Append(@, c)]
        BY <2>1, <2>3, <3>4 DEF Post, c
      <4>2. WaitsFor(Append(ccalls[k], c), status[k], st)
        BY <3>1, <3>2, <3>4, AppendWaits
      <4> QED BY <1>0, <1>8, <2>1, <2>3, <4>1, <4>2
    <3> QED BY <3>3, <3>4
  <2> QED BY <2>2, <2>3 DEF Ends
<1>17. ASSUME NEW k, NEW d, Loses(k, d) PROVE ClientOnce'
  BY <1>1, <1>17 DEF Loses, steamUnchanged, clientVars
<1> QED
  BY <1>4, <1>5, <1>6, <1>7, <1>9, <1>10, <1>11, <1>12, <1>13, <1>14, <1>15, <1>16, <1>17, GoneCases DEF Next

------------------------------------------------------------------------------
(* Steps that take nothing from the head of a way. *)

Air == [data : Seq(Nat), setup : BOOLEAN]
Airs == [Insts -> [Dirs -> Air]]
Pends == [Insts -> [Dirs -> Seq(Packet)]]

\* Closing the server's ends drops what comes up to them.
LEMMA CloseServerLeaves ==
  ASSUME IInv, air \in Airs, NEW S, CloseServer(S)
  PROVE  /\ air' \in Airs
         /\ \A k \in Insts : /\ air'[k][Down] = air[k][Down]
                             /\ air'[k][Up] = air[k][Up] \/ (air'[k][Up] = NoAir /\ end'[k][Server] = "closed")
<1>1. NoAir \in [data : Seq(Nat), setup : BOOLEAN] /\ Up \in Dirs /\ Down \in Dirs /\ Up # Down
  BY DEF NoAir, Dirs, Up, Down
<1>2. air' = [k \in Insts |-> IF k \in S /\ end[k][Server] # "none" THEN [air[k] EXCEPT ![Up] = NoAir] ELSE air[k]]
  BY DEF CloseServer
<1>3. air' \in Airs
  BY <1>1, <1>2 DEF Airs, Air
<1>4. ASSUME NEW k \in Insts
      PROVE  /\ air'[k][Down] = air[k][Down]
             /\ air'[k][Up] = air[k][Up] \/ (air'[k][Up] = NoAir /\ end'[k][Server] = "closed")
  <2>1. CASE k \in S /\ end[k][Server] # "none"
    <3>1. end'[k][Server] = "closed"
      BY <2>1, CloseIs DEF IInv
    <3> QED BY <1>1, <1>2, <2>1, <3>1 DEF Airs, Air
  <2>2. CASE ~ (k \in S /\ end[k][Server] # "none")
    BY <1>2, <2>2
  <2> QED BY <2>1, <2>2
<1> QED BY <1>3, <1>4

\* Destroying SteamConnections of the server drops what waits in them.
LEMMA DestroyLeaves ==
  ASSUME pend \in Pends, NEW S, Destroy(S)
  PROVE  /\ pend' \in Pends
         /\ \A k \in Insts : /\ pend'[k][Up] = pend[k][Up]
                             /\ pend'[k][Down] = pend[k][Down] \/ (pend'[k][Down] = <<>> /\ k \in S)
<1>1. <<>> \in Seq(Packet) /\ Up \in Dirs /\ Down \in Dirs /\ Up # Down
  BY DEF Dirs, Up, Down
<1> QED BY <1>1 DEF Destroy, Pends

\* Steps of the server that close and destroy.
LEMMA ServerLeaves ==
  ASSUME IInv, Shapes, EndStays, UNCHANGED <<sent, got, pid, knows, status>>, DOMAIN peers' \subseteq DOMAIN peers,
         NEW S, CloseServer(S),
         UNCHANGED pend \/ \E R : Destroy(R) /\ \A k \in R : k \notin DOMAIN peers'
  PROVE  ClosesOrLeaves
<1>1. air \in Airs /\ pend \in Pends /\ knows \in [Insts -> {"nothing", "entry", "peer"}]
  BY DEF Shapes, Airs, Air, Pends
<1>2. /\ air' \in Airs
      /\ \A k \in Insts : /\ air'[k][Down] = air[k][Down]
                          /\ air'[k][Up] = air[k][Up] \/ (air'[k][Up] = NoAir /\ end'[k][Server] = "closed")
  BY <1>1, CloseServerLeaves
<1>3. /\ pend' \in Pends
      /\ \A k \in Insts : /\ pend'[k][Up] = pend[k][Up]
                          /\ pend'[k][Down] = pend[k][Down] \/ (pend'[k][Down] = <<>> /\ k \notin DOMAIN peers')
  BY <1>1, DestroyLeaves
<1>4. NoAir.data = <<>> /\ NoAir.setup = FALSE
  BY DEF NoAir
<1>5. air' \in [Insts -> [Dirs -> [data : Seq(Nat), setup : BOOLEAN]]] /\ pend' \in [Insts -> [Dirs -> Seq(Packet)]]
  BY <1>2, <1>3 DEF Airs, Air, Pends
<1>6. ASSUME NEW k \in Insts, NEW d \in Dirs
      PROVE  /\ air'[k][d] = air[k][d] \/ (air'[k][d] = NoAir /\ d = Up /\ end'[k][Server] = "closed")
             /\ pend'[k][d] = pend[k][d] \/ (pend'[k][d] = <<>> /\ d = Down /\ k \notin DOMAIN peers')
  BY <1>2, <1>3 DEF Dirs
<1>7. \A k \in Insts : /\ air'[k][Up].data = air[k][Up].data \/ end'[k][Server] = "closed"
                       /\ air'[k][Down].data = air[k][Down].data
                       /\ pend'[k][Up] = pend[k][Up]
                       /\ pend'[k][Down] = pend[k][Down] \/ k \notin DOMAIN peers'
  BY <1>2, <1>3
<1>8. \A k \in Insts, d \in Dirs : /\ air'[k][d].setup => air[k][d].setup
                                   /\ air'[k][d].data \in {air[k][d].data, <<>>}
                                   /\ pend'[k][d] \in {pend[k][d], <<>>}
  BY <1>4, <1>6
<1>9. \A k \in Insts : end[k][Server] = "closed" => end'[k][Server] = "closed"
  BY DEF EndStays
<1> QED BY <1>1, <1>5, <1>7, <1>8, <1>9 DEF ClosesOrLeaves

\* Closing a client's end drops what comes down to it and what waits in it.
LEMMA CloseClientLeaves ==
  ASSUME IInv, Shapes, EndStays, UNCHANGED <<sent, got, pid>>, DOMAIN peers' \subseteq DOMAIN peers,
         NEW k \in Insts, CloseClient(k),
         \A j \in Insts : status[j] \notin {"new", "connecting"} => status'[j] \notin {"new", "connecting"}
  PROVE  ClosesOrLeaves
<1>1. air \in Airs /\ pend \in Pends /\ knows \in [Insts -> {"nothing", "entry", "peer"}]
  BY DEF Shapes, Airs, Air, Pends
<1>2. /\ air' = [air EXCEPT ![k][Down] = NoAir] /\ pend' = [pend EXCEPT ![k][Up] = <<>>]
      /\ knows' = [knows EXCEPT ![k] = "nothing"]
  BY DEF CloseClient
<1>3. /\ NoAir \in [data : Seq(Nat), setup : BOOLEAN] /\ NoAir.data = <<>> /\ NoAir.setup = FALSE
      /\ Up \in Dirs /\ Down \in Dirs /\ Up # Down /\ <<>> \in Seq(Packet)
  BY DEF NoAir, Dirs, Up, Down
<1>4. /\ air' \in Airs /\ air'[k][Down] = NoAir /\ air'[k][Up] = air[k][Up]
      /\ \A j \in Insts \ {k} : air'[j] = air[j]
  BY <1>1, <1>2, <1>3 DEF Airs, Air
<1>5. /\ pend' \in Pends /\ pend'[k][Up] = <<>> /\ pend'[k][Down] = pend[k][Down]
      /\ \A j \in Insts \ {k} : pend'[j] = pend[j]
  BY <1>1, <1>2, <1>3 DEF Pends
<1>6. /\ knows' \in [Insts -> {"nothing", "entry", "peer"}] /\ knows'[k] = "nothing"
      /\ \A j \in Insts \ {k} : knows'[j] = knows[j]
  BY <1>1, <1>2
<1> QED BY <1>3, <1>4, <1>5, <1>6 DEF ClosesOrLeaves, Airs, Air, Pends, Dirs, EndStays

\* Steps that move no packet.
LEMMA StillLeaves ==
  ASSUME IInv, Shapes, EndStays, UNCHANGED <<air, pend, sent, got, pid, knows>>, DOMAIN peers' \subseteq DOMAIN peers,
         \A j \in Insts : status[j] \notin {"new", "connecting"} => status'[j] \notin {"new", "connecting"}
  PROVE  ClosesOrLeaves
  BY DEF ClosesOrLeaves, Shapes, EndStays

LEMMA DisconnectLeaves ==
  ASSUME IInv, IInv', Shapes, EndStays, UNCHANGED <<sent, got, pid, knows, status>>,
         NEW p, NEW extra, DisconnectPeer(p, extra)
  PROVE  ClosesOrLeaves
<1>1. CASE p \in DOMAIN peers /\ end[peers[p]][Server] # "closed"
  <2> DEFINE conns1 == Without(conns, owner[peers[p]])
             peers1 == Without(peers, p)
             R == Released(conns1, peers1)
             S == {peers[p]} \cup extra \cup R
  <2>1. conns' = conns1 /\ peers' = peers1 /\ CloseServer(S) /\ Destroy(R)
    BY <1>1 DEF DisconnectPeer
  <2>2. \A k \in R : k \notin DOMAIN peers'
    BY <2>1 DEF Released, Range, IInv, OwnId
  <2>3. DOMAIN peers' \subseteq DOMAIN peers
    BY <2>1, WithoutIs
  <2> HIDE DEF S, R
  <2> QED BY <2>1, <2>2, <2>3, ServerLeaves
<1>2. CASE ~(p \in DOMAIN peers /\ end[peers[p]][Server] # "closed")
  <2>1. UNCHANGED <<pend, peers>> /\ CloseServer(extra)
    BY <1>2 DEF DisconnectPeer
  <2> QED BY <2>1, ServerLeaves
<1> QED BY <1>1, <1>2

LEMMA ServerCallbackLeaves ==
  ASSUME IInv, IInv', Shapes, EndStays, Once, ServerCallback
  PROVE  ClosesOrLeaves
<1> DEFINE c == Head(calls)
<1>0. /\ UNCHANGED <<sent, got, knows, status>> /\ calls # <<>> /\ calls' = Tail(calls) /\ Types
      /\ c.k \in Insts
  BY TailIs DEF ServerCallback, clientVars, IInv, Callbacks
<1>1. CASE ServerArrived(c)
  BY <1>0, <1>1, StillLeaves DEF ServerArrived
<1>2. CASE ServerConnected(c)
  <2> DEFINE R == Released(With(conns, owner[c.k], c.k), peers)
  <2>1. /\ conns' = With(conns, owner[c.k], c.k) /\ UNCHANGED peers /\ CloseServer(R) /\ Destroy(R)
        /\ pid' = [pid EXCEPT ![c.k] = Nobody] /\ c.ev = "connected"
    BY <1>2 DEF ServerConnected
  <2>2. \A k \in R : k \notin DOMAIN peers'
    BY <2>1 DEF Released, Range, IInv, OwnId
  <2>3. PICK k \in Insts : k = c.k
    BY <1>0
  <2> HIDE DEF c, R
  <2>4. Pending(k)
    BY <1>0, <2>1, <2>3, FirstCall DEF c
  <2>5. pid[k] = Nobody
    BY <2>4 DEF Once, Added
  <2>6. UNCHANGED pid
    BY <1>0, <2>1, <2>3, <2>5 DEF Types
  <2> QED BY <1>0, <2>1, <2>2, <2>6, ServerLeaves
<1>3. CASE ServerEnded(c)
  BY <1>0, <1>3, DisconnectLeaves DEF ServerEnded
<1>4. CASE UNCHANGED <<end, air, pend, conns, pid, peers, known>>
  BY <1>0, <1>4, StillLeaves
<1> QED BY <1>1, <1>2, <1>3, <1>4 DEF ServerCallback

LEMMA SetupOff ==
  ASSUME NEW r \in Air
  PROVE  /\ [r EXCEPT !.setup = FALSE] \in Air
         /\ [r EXCEPT !.setup = FALSE].data = r.data
         /\ [r EXCEPT !.setup = FALSE].setup = FALSE
  BY DEF Air

\* The steps that take no packet from its way and send none.
LEMMA OtherLeaves ==
  ASSUME IInv, IInv', Shapes, EndStays, Once,
         \/ ServerCallback \/ ServerRead \/ ServerGone \/ UNCHANGED vars
         \/ \E p \in Insts : ServerKick(p)
         \/ \E k \in Insts :
              \/ \E u \in Users : CreateClient(k, u)
              \/ ClientKick(k) \/ ClientClose(k) \/ ClientCrash(k) \/ Arrives(k)
              \/ \E e \in Ends : Connects(k, e) \/ Breaks(k, e)
              \/ \E d \in Dirs : Loses(k, d)
  PROVE  ClosesOrLeaves
<1>0. DOMAIN status = Insts
  BY DEF IInv, Types
<1>1. CASE ServerGone
  <2>1. /\ CloseServer(Insts) /\ Destroy(Insts) /\ DOMAIN peers' = {}
        /\ UNCHANGED <<sent, got, pid, knows, status>>
    BY <1>1 DEF ServerGone, clientVars
  <2> QED BY <2>1, ServerLeaves
<1>2. ASSUME NEW p \in Insts, ServerKick(p) PROVE ClosesOrLeaves
  <2>1. DisconnectPeer(p, {}) /\ UNCHANGED <<sent, got, pid, knows, status>>
    BY <1>2 DEF ServerKick, clientVars
  <2> QED BY <2>1, DisconnectLeaves
<1>3. ASSUME NEW k \in Insts, NEW u \in Users, CreateClient(k, u) PROVE ClosesOrLeaves
  <2>1. /\ UNCHANGED <<air, pend, sent, got, pid, knows, peers>> /\ status[k] = "new"
        /\ status' = [status EXCEPT ![k] = "connecting"]
    BY <1>3 DEF CreateClient, serverVars
  <2> QED BY <1>0, <2>1, StillLeaves
<1>4. ASSUME NEW k \in Insts, ClientKick(k) \/ ClientCrash(k) PROVE ClosesOrLeaves
  <2>1. /\ CloseClient(k) /\ UNCHANGED <<sent, got, pid, peers>>
        /\ status' = status \/ status' = [status EXCEPT ![k] = "gone"]
    BY <1>4 DEF ClientKick, ClientCrash, serverVars
  <2> QED BY <1>0, <2>1, CloseClientLeaves
<1>5. ASSUME NEW k \in Insts, ClientClose(k) PROVE ClosesOrLeaves
  <2>0. status' = [status EXCEPT ![k] = "gone"] /\ UNCHANGED <<sent, got, pid>>
    BY <1>5 DEF ClientClose
  <2>1. DOMAIN peers' \subseteq DOMAIN peers
    BY <1>5, WithoutIs DEF ClientClose
  <2>2. CASE UNCHANGED <<air, pend, knows>>
    BY <1>0, <2>0, <2>1, <2>2, StillLeaves
  <2>3. CASE CloseClient(k)
    BY <1>0, <2>0, <2>1, <2>3, CloseClientLeaves
  <2>4. CASE /\ k \in Loops /\ status[k] = "connected" /\ k \in DOMAIN peers
             /\ end' = [end EXCEPT ![k] = [e \in Ends |-> "closed"]]
             /\ air' = [air EXCEPT ![k] = [d \in Dirs |-> NoAir]]
             /\ pend' = [pend EXCEPT ![k] = [d \in Dirs |-> <<>>]]
             /\ knows' = [knows EXCEPT ![k] = "nothing"]
    <3>1. /\ air \in Airs /\ pend \in Pends /\ knows \in [Insts -> {"nothing", "entry", "peer"}]
          /\ end \in [Insts -> [Ends -> EndStates]] /\ Server \in Ends
      BY DEF Shapes, Airs, Air, Pends, IInv, Types, Ends
    <3>2. /\ NoAir \in [data : Seq(Nat), setup : BOOLEAN] /\ NoAir.data = <<>> /\ NoAir.setup = FALSE
          /\ Up \in Dirs /\ Down \in Dirs /\ <<>> \in Seq(Packet)
      BY DEF NoAir, Dirs
    <3>3. /\ air' \in Airs /\ \A d \in Dirs : air'[k][d] = NoAir
          /\ \A j \in Insts \ {k} : air'[j] = air[j]
      BY <2>4, <3>1, <3>2 DEF Airs, Air
    <3>4. /\ pend' \in Pends /\ \A d \in Dirs : pend'[k][d] = <<>>
          /\ \A j \in Insts \ {k} : pend'[j] = pend[j]
      BY <2>4, <3>1, <3>2 DEF Pends
    <3>5. /\ knows' \in [Insts -> {"nothing", "entry", "peer"}] /\ knows'[k] = "nothing"
          /\ \A j \in Insts \ {k} : knows'[j] = knows[j]
      BY <2>4, <3>1
    <3>6. end'[k][Server] = "closed"
      BY <2>4, <3>1
    <3>7. ASSUME NEW j \in Insts
          PROVE  /\ knows'[j] \in {knows[j], "nothing"}
                 /\ status[j] \notin {"new", "connecting"} => status'[j] \notin {"new", "connecting"}
                 /\ end[j][Server] = "closed" => end'[j][Server] = "closed"
                 /\ \A d \in Dirs : air'[j][d].setup => air[j][d].setup
                 /\ air'[j][Up].data = air[j][Up].data \/ end'[j][Server] = "closed"
                 /\ air'[j][Down].data = air[j][Down].data \/ knows'[j] = "nothing"
                 /\ \A d \in Dirs : air'[j][d].data \in {air[j][d].data, <<>>}
                 /\ \A d \in Dirs : pend'[j][d] \in {pend[j][d], <<>>}
                 /\ pend'[j][Up] = pend[j][Up] \/ knows'[j] = "nothing"
                 /\ pend'[j][Down] = pend[j][Down] \/ j \notin DOMAIN peers'
      <4>1. CASE j = k
        <5>1. k \notin DOMAIN peers'
          <6>1. peers' = Without(peers, k)
            BY <1>5, <2>4 DEF ClientClose
          <6> QED BY <6>1, WithoutIs
        <5> QED BY <1>0, <2>0, <3>2, <3>3, <3>4, <3>5, <3>6, <4>1, <5>1
      <4>2. CASE j # k
        BY <1>0, <2>0, <3>3, <3>4, <3>5, <4>2 DEF EndStays
      <4> QED BY <4>1, <4>2
    <3> QED BY <2>0, <2>1, <3>3, <3>4, <3>5, <3>7 DEF ClosesOrLeaves, Airs, Air, Pends
  <2> QED BY <1>5, <2>2, <2>3, <2>4 DEF ClientClose
<1>6. ASSUME NEW k \in Insts, Arrives(k) \/ \E e \in Ends : Connects(k, e) \/ Breaks(k, e)
      PROVE  ClosesOrLeaves
  <2>1. UNCHANGED <<air, pend, sent, got, pid, knows, peers, status>>
    BY <1>6 DEF Arrives, Connects, Breaks, steamUnchanged, clientVars, serverVars
  <2> QED BY <2>1, StillLeaves
<1>7. ASSUME NEW k \in Insts, NEW d \in Dirs, Loses(k, d) PROVE ClosesOrLeaves
  <2>1. /\ UNCHANGED <<pend, sent, got, pid, knows, peers, status>>
        /\ air' = [air EXCEPT ![k][d].setup = FALSE]
    BY <1>7 DEF Loses, steamUnchanged, clientVars, serverVars
  <2>2. air \in Airs /\ pend \in Pends /\ knows \in [Insts -> {"nothing", "entry", "peer"}]
    BY DEF Shapes, Airs, Air, Pends
  <2>3. /\ air' \in Airs
        /\ \A j \in Insts, b \in Dirs : air'[j][b].data = air[j][b].data /\ (air'[j][b].setup => air[j][b].setup)
    <3> DEFINE r == [air[k][d] EXCEPT !.setup = FALSE]
    <3>1. /\ air' = [air EXCEPT ![k] = [air[k] EXCEPT ![d] = r]]
          /\ air[k][d] \in Air
      BY <2>1, <2>2, Zenon DEF Airs
    <3>2. r \in Air /\ r.data = air[k][d].data /\ r.setup = FALSE
      BY <3>1, SetupOff
    <3> HIDE DEF r
    <3> QED BY <2>2, <3>1, <3>2 DEF Airs
  <2> QED BY <2>1, <2>2, <2>3 DEF ClosesOrLeaves, Airs, Air, Pends, Dirs, EndStays
<1>8. CASE UNCHANGED vars \/ ServerRead
  BY <1>8, StillLeaves DEF vars, steamVars, clientVars, serverVars, ServerRead
<1> QED BY <1>1, <1>2, <1>3, <1>4, <1>5, <1>6, <1>7, <1>8, ServerCallbackLeaves

------------------------------------------------------------------------------
(* Sending a packet and taking one. *)

\* _send_pending stops at a place of the list or behind it.
LEMMA StopIs ==
  ASSUME NEW q \in Seq(Packet), NEW ok
  PROVE  Stop(q, ok) \in 1 .. Len(q) + 1
<1> DEFINE refused == {i \in DOMAIN q : q[i].rel /\ ~ok[i]}
<1>1. DOMAIN q = 1 .. Len(q) /\ Len(q) \in Nat
  OBVIOUS
<1>2. CASE refused = {}
  BY <1>1, <1>2 DEF Stop
<1>3. CASE refused # {}
  <2>1. refused \in SUBSET Nat /\ refused \subseteq 1 .. Len(q)
    BY <1>1
  <2>2. Stop(q, ok) = Min(refused)
    BY <1>3 DEF Stop
  <2> HIDE DEF refused
  <2>3. \E m \in refused : \A i \in refused : m <= i
    BY <1>3, <2>1, Least
  <2>4. Min(refused) \in refused
    BY <2>3 DEF Min
  <2>5. Stop(q, ok) \in 1 .. Len(q)
    BY <2>1, <2>2, <2>4, Zenon
  <2> QED BY <1>1, <2>5
<1> QED BY <1>2, <1>3

LEMMA ThreeParts ==
  ASSUME NEW a \in Seq(Nat), NEW b \in Seq(Nat), NEW c \in Seq(Nat)
  PROVE  (a \o b) \o c = a \o (b \o c) /\ a \o b \in Seq(Nat)
  OBVIOUS

\* What send does: the packet joins those on their way, in order.
Joined(k, d, packet, air1) ==
  /\ air' \in Airs /\ pend' \in Pends
  /\ \A j \in Insts, b \in Dirs : (j = k /\ b = d) \/ (air'[j][b] = air1[j][b] /\ pend'[j][b] = pend[j][b])
  /\ air'[k][d].data \o Reliable(pend'[k][d]) = air1[k][d].data \o Reliable(Append(pend[k][d], packet))
  /\ air'[k][d].setup \/ (\E i \in 1 .. Len(pend'[k][d]) : pend'[k][d][i] = Setup) =>
       air1[k][d].setup \/ (\E i \in 1 .. Len(pend[k][d]) : pend[k][d][i] = Setup) \/ packet = Setup

LEMMA SendIs ==
  ASSUME pend \in Pends, NEW k \in Insts, NEW d \in Dirs, NEW packet \in Packet, NEW air1, air1 \in Airs,
         Send(k, d, packet, air1)
  PROVE  Joined(k, d, packet, air1)
<1> DEFINE q == Append(pend[k][d], packet)
           p == pend[k][d]
<1>1. /\ p \in Seq(Packet) /\ q \in Seq(Packet) /\ Len(p) \in Nat /\ Len(q) = Len(p) + 1
      /\ \A i \in 1 .. Len(q) : q[i] = IF i \in 1 .. Len(p) THEN p[i] ELSE packet
  <2>1. p \in Seq(Packet)
    BY DEF Pends
  <2> HIDE DEF p
  <2>2. q = Append(p, packet)
    BY DEF p
  <2> HIDE DEF q
  <2> QED BY <2>1, <2>2
<1>2. PICK ok : /\ pend' = [pend EXCEPT ![k][d] = Kept(q, ok)]
                /\ air' = [air1 EXCEPT ![k][d] = [data |-> @.data \o Handed(q, ok),
                                                  setup |-> @.setup \/ Tries(q, ok, Setup, TRUE)]]
  BY DEF Send
<1> DEFINE a == Stop(q, ok)
           r == [data |-> air1[k][d].data \o Handed(q, ok), setup |-> air1[k][d].setup \/ Tries(q, ok, Setup, TRUE)]
           left == Kept(q, ok)
<1>3. a \in 1 .. Len(q) + 1
  BY <1>1, StopIs
<1>4. /\ Handed(q, ok) = Reliable(SubSeq(q, 1, a - 1)) /\ left = SubSeq(q, a, Len(q))
      /\ Tries(q, ok, Setup, TRUE) => \E i \in 1 .. Len(q) : q[i] = Setup
      /\ Tries(q, ok, Setup, TRUE) \in BOOLEAN
  <2>1. DOMAIN q = 1 .. Len(q)
    BY <1>1
  <2> QED BY <2>1 DEF Handed, Kept, Tries
<1> HIDE DEF q, p, a, r, left
<1>5. /\ Handed(q, ok) \in Seq(Nat) /\ Reliable(left) \in Seq(Nat) /\ Reliable(q) = Handed(q, ok) \o Reliable(left)
      /\ left \in Seq(Packet)
  <2>1. \A i \in a .. Len(q) : q[i] \in Packet
    BY <1>1, <1>3
  <2>2. left \in Seq(Packet)
    BY <1>1, <1>3, <1>4
  <2>3. /\ Reliable(q) \in Seq(Nat) /\ Reliable(SubSeq(q, 1, a - 1)) \in Seq(Nat)
        /\ Reliable(SubSeq(q, a, Len(q))) \in Seq(Nat)
        /\ Reliable(q) = Reliable(SubSeq(q, 1, a - 1)) \o Reliable(SubSeq(q, a, Len(q)))
    BY <1>1, <1>3, ReliableIsSplit
  <2> QED BY <1>4, <2>2, <2>3, Zenon
<1>6. air1[k][d] \in Air /\ air1[k][d].data \in Seq(Nat) /\ air1[k][d].setup \in BOOLEAN
  BY DEF Airs, Air
<1>7. r \in Air /\ r.data = air1[k][d].data \o Handed(q, ok)
      /\ (r.setup => air1[k][d].setup \/ \E i \in 1 .. Len(q) : q[i] = Setup)
  <2>1. r.data \in Seq(Nat) /\ r.setup \in BOOLEAN
    BY <1>4, <1>5, <1>6 DEF r
  <2> QED BY <1>4, <2>1 DEF Air, r
<1>8. air' = [air1 EXCEPT ![k][d] = r] /\ pend' = [pend EXCEPT ![k][d] = left]
  BY <1>2 DEF r, left
<1>9. air' \in Airs /\ pend' \in Pends /\ air'[k][d] = r /\ pend'[k][d] = left
  BY <1>5, <1>7, <1>8 DEF Airs, Pends
<1>10. \A j \in Insts, b \in Dirs : (j = k /\ b = d) \/ (air'[j][b] = air1[j][b] /\ pend'[j][b] = pend[j][b])
  BY <1>8 DEF Airs, Pends
<1>11. air'[k][d].data \o Reliable(pend'[k][d]) = air1[k][d].data \o Reliable(q)
  <2>1. (air1[k][d].data \o Handed(q, ok)) \o Reliable(left) = air1[k][d].data \o (Handed(q, ok) \o Reliable(left))
    BY <1>5, <1>6, ThreeParts
  <2> QED BY <1>5, <1>7, <1>9, <2>1
<1>12. (\E i \in 1 .. Len(left) : left[i] = Setup) => \E i \in 1 .. Len(q) : q[i] = Setup
  <2>1. \A i \in 1 .. Len(left) : a - 1 + i \in 1 .. Len(q) /\ left[i] = q[a - 1 + i]
    BY <1>1, <1>3, <1>4
  <2> QED BY <2>1
<1>13. (\E i \in 1 .. Len(q) : q[i] = Setup) => packet = Setup \/ \E i \in 1 .. Len(p) : p[i] = Setup
  BY <1>1
<1>14. air'[k][d].setup \/ (\E i \in 1 .. Len(pend'[k][d]) : pend'[k][d][i] = Setup) =>
         air1[k][d].setup \/ (\E i \in 1 .. Len(p) : p[i] = Setup) \/ packet = Setup
  BY <1>7, <1>9, <1>12, <1>13
<1> QED BY <1>9, <1>10, <1>11, <1>14 DEF p, q, Joined

\* What taking a packet from its way does.
LEMMA TakenIs ==
  ASSUME air \in Airs, NEW k \in Insts, NEW d \in Dirs, NEW m \in Waiting(k, d)
  PROVE  /\ Taken(k, d, m) \in Airs
         /\ \A j \in Insts, b \in Dirs : (j = k /\ b = d) \/ Taken(k, d, m)[j][b] = air[j][b]
         /\ Taken(k, d, m)[k][d].setup => air[k][d].setup
         /\ m = Setup => air[k][d].setup /\ Taken(k, d, m)[k][d].data = air[k][d].data
         /\ m # Setup => /\ m = Data(Head(air[k][d].data)) /\ air[k][d].data # <<>>
                         /\ Taken(k, d, m)[k][d].data = Tail(air[k][d].data)
<1>1. air[k][d] \in Air
  BY DEF Airs
<1>2. (m = Setup /\ air[k][d].setup) \/ (m = Data(Head(air[k][d].data)) /\ air[k][d].data # <<>>)
  BY DEF Waiting
<1>3. \A n : Data(n) # Setup
  BY DEF Data, Setup
<1>4. CASE m = Setup
  <2> DEFINE r == [data |-> air[k][d].data, setup |-> FALSE]
  <2>1. Taken(k, d, m) = [air EXCEPT ![k][d] = r]
    BY <1>4 DEF Taken
  <2>2. r \in Air /\ r.data = air[k][d].data /\ r.setup = FALSE
    BY <1>1 DEF Air
  <2> HIDE DEF r
  <2> QED BY <1>2, <1>3, <1>4, <2>1, <2>2 DEF Airs
<1>5. CASE m # Setup
  <2> DEFINE r == [data |-> Tail(air[k][d].data), setup |-> air[k][d].setup]
  <2>1. Taken(k, d, m) = [air EXCEPT ![k][d] = r]
    BY <1>5 DEF Taken
  <2>2. r \in Air /\ r.data = Tail(air[k][d].data) /\ r.setup = air[k][d].setup
    BY <1>1, <1>2, <1>5 DEF Air
  <2> HIDE DEF r
  <2> QED BY <1>2, <1>5, <2>1, <2>2 DEF Airs
<1> QED BY <1>4, <1>5

------------------------------------------------------------------------------
(* One connection at a time. *)

\* A way on which nothing has changed.
LEMMA Stays ==
  ASSUME NEW j \in Insts, NEW b \in Dirs, air'[j][b] = air[j][b], pend'[j][b] = pend[j][b]
  PROVE  OnWay(j, b)' = OnWay(j, b) /\ (SetupAhead(j, b)' <=> SetupAhead(j, b))
  BY DEF OnWay, SetupAhead

\* A packet that is sent joins the end of its way.
LEMMA Joins ==
  ASSUME Shapes, NEW k \in Insts, NEW d \in Dirs, NEW packet \in Packet, NEW air1, air1 \in Airs,
         air1[k][d] = air[k][d], Send(k, d, packet, air1)
  PROVE  /\ air' \in Airs /\ pend' \in Pends
         /\ \A j \in Insts, b \in Dirs : (j = k /\ b = d) \/ (air'[j][b] = air1[j][b] /\ pend'[j][b] = pend[j][b])
         /\ OnWay(k, d)' = IF packet.rel THEN Append(OnWay(k, d), packet.n) ELSE OnWay(k, d)
         /\ SetupAhead(k, d)' => SetupAhead(k, d) \/ packet = Setup
<1>1. pend \in Pends /\ pend[k][d] \in Seq(Packet) /\ air[k][d].data \in Seq(Nat) /\ Reliable(pend[k][d]) \in Seq(Nat)
  BY OnWayIs DEF Shapes, Pends
<1>2. /\ air' \in Airs /\ pend' \in Pends
      /\ \A j \in Insts, b \in Dirs : (j = k /\ b = d) \/ (air'[j][b] = air1[j][b] /\ pend'[j][b] = pend[j][b])
      /\ air'[k][d].data \o Reliable(pend'[k][d]) = air[k][d].data \o Reliable(Append(pend[k][d], packet))
      /\ air'[k][d].setup \/ (\E i \in 1 .. Len(pend'[k][d]) : pend'[k][d][i] = Setup) =>
           air[k][d].setup \/ (\E i \in 1 .. Len(pend[k][d]) : pend[k][d][i] = Setup) \/ packet = Setup
  <2>1. Joined(k, d, packet, air1)
    BY <1>1, SendIs, Zenon
  <2> QED BY <2>1, Zenon DEF Joined
<1>3. Reliable(Append(pend[k][d], packet)) =
        IF packet.rel THEN Append(Reliable(pend[k][d]), packet.n) ELSE Reliable(pend[k][d])
  BY <1>1, ReliableAppends
<1>4. packet.rel => packet.n \in Nat
  BY PacketIs
<1>5. packet.rel => air[k][d].data \o Append(Reliable(pend[k][d]), packet.n) = Append(OnWay(k, d), packet.n)
  BY <1>1, <1>4, AppendLast DEF OnWay
<1>6. OnWay(k, d)' = IF packet.rel THEN Append(OnWay(k, d), packet.n) ELSE OnWay(k, d)
  BY <1>2, <1>3, <1>5 DEF OnWay
<1>7. SetupAhead(k, d)' => SetupAhead(k, d) \/ packet = Setup
  BY <1>2 DEF SetupAhead
<1> QED BY <1>2, <1>6, <1>7

LEMMA AppendFollows ==
  ASSUME NEW w \in Seq(Nat), NEW m \in Nat, NEW n \in Nat, \A i \in 1 .. Len(w) : w[i] = m + i, m + Len(w) + 1 = n
  PROVE  /\ \A i \in 1 .. Len(Append(w, n)) : Append(w, n)[i] = m + i
         /\ Len(Append(w, n)) = Len(w) + 1 /\ m + Len(Append(w, n)) = n
<1>1. /\ Len(w) \in Nat /\ Len(Append(w, n)) = Len(w) + 1 /\ Append(w, n)[Len(w) + 1] = n
      /\ \A i \in 1 .. Len(w) : Append(w, n)[i] = w[i]
  OBVIOUS
<1>2. \A i \in 1 .. Len(w) + 1 : i \in 1 .. Len(w) \/ i = Len(w) + 1
  BY <1>1
<1>3. \A i \in 1 .. Len(w) + 1 : Append(w, n)[i] = m + i
  BY <1>1, <1>2
<1> QED BY <1>1, <1>3

LEMMA TailOfBoth ==
  ASSUME NEW a \in Seq(Nat), NEW r \in Seq(Nat), a # <<>>
  PROVE  /\ Tail(a) \o r = Tail(a \o r) /\ a \o r # <<>> /\ Head(a) = (a \o r)[1]
         /\ Len(Tail(a \o r)) = Len(a \o r) - 1 /\ Len(a \o r) \in Nat \ {0}
         /\ \A i \in 1 .. Len(Tail(a \o r)) : i + 1 \in 1 .. Len(a \o r) /\ Tail(a \o r)[i] = (a \o r)[i + 1]
<1>1. a \o r \in Seq(Nat) /\ a \o r # <<>> /\ Head(a) = (a \o r)[1]
  OBVIOUS
<1>2. Tail(a) \o r = Tail(a \o r)
  OBVIOUS
<1> DEFINE w == a \o r
<1>3. w \in Seq(Nat) /\ w # <<>>
  BY <1>1
<1> HIDE DEF w
<1>4. /\ Len(Tail(w)) = Len(w) - 1 /\ Len(w) \in Nat \ {0}
      /\ \A i \in 1 .. Len(Tail(w)) : i + 1 \in 1 .. Len(w) /\ Tail(w)[i] = w[i + 1]
  BY <1>3
<1> QED BY <1>1, <1>2, <1>4 DEF w

\* A packet that is taken leaves the head of its way.
LEMMA Leaves ==
  ASSUME Shapes, NEW k \in Insts, NEW d \in Dirs, NEW m \in Waiting(k, d), air' = Taken(k, d, m), UNCHANGED pend
  PROVE  /\ air' \in Airs /\ pend' \in Pends
         /\ \A j \in Insts, b \in Dirs : (j = k /\ b = d) \/ (air'[j][b] = air[j][b] /\ pend'[j][b] = pend[j][b])
         /\ SetupAhead(k, d)' => SetupAhead(k, d)
         /\ m = Setup => SetupAhead(k, d) /\ OnWay(k, d)' = OnWay(k, d)
         /\ m # Setup => /\ OnWay(k, d) # <<>> /\ m = Data(OnWay(k, d)[1]) /\ Len(OnWay(k, d)) \in Nat \ {0}
                         /\ Len(OnWay(k, d)') = Len(OnWay(k, d)) - 1
                         /\ \A i \in 1 .. Len(OnWay(k, d)') :
                              i + 1 \in 1 .. Len(OnWay(k, d)) /\ OnWay(k, d)'[i] = OnWay(k, d)[i + 1]
<1>1. /\ air \in Airs /\ pend \in Pends
      /\ air[k][d].data \in Seq(Nat) /\ Reliable(pend[k][d]) \in Seq(Nat)
  BY OnWayIs DEF Shapes, Airs, Air, Pends
<1>2. /\ air' \in Airs
      /\ \A j \in Insts, b \in Dirs : (j = k /\ b = d) \/ air'[j][b] = air[j][b]
      /\ air'[k][d].setup => air[k][d].setup
      /\ m = Setup => air[k][d].setup /\ air'[k][d].data = air[k][d].data
      /\ m # Setup => /\ m = Data(Head(air[k][d].data)) /\ air[k][d].data # <<>>
                      /\ air'[k][d].data = Tail(air[k][d].data)
  BY <1>1, TakenIs
<1>3. SetupAhead(k, d)' => SetupAhead(k, d)
  BY <1>2 DEF SetupAhead
<1>4. m = Setup => SetupAhead(k, d) /\ OnWay(k, d)' = OnWay(k, d)
  BY <1>2 DEF SetupAhead, OnWay
<1>5. ASSUME m # Setup
      PROVE  /\ OnWay(k, d) # <<>> /\ m = Data(OnWay(k, d)[1]) /\ Len(OnWay(k, d)) \in Nat \ {0}
             /\ Len(OnWay(k, d)') = Len(OnWay(k, d)) - 1
             /\ \A i \in 1 .. Len(OnWay(k, d)') :
                  i + 1 \in 1 .. Len(OnWay(k, d)) /\ OnWay(k, d)'[i] = OnWay(k, d)[i + 1]
  <2> DEFINE a == air[k][d].data
             r == Reliable(pend[k][d])
  <2>1. OnWay(k, d) = a \o r /\ OnWay(k, d)' = Tail(a) \o r /\ a # <<>> /\ m = Data(Head(a))
    BY <1>2, <1>5 DEF OnWay
  <2>2. a \in Seq(Nat) /\ r \in Seq(Nat)
    BY <1>1
  <2> HIDE DEF a, r
  <2> QED BY <2>1, <2>2, TailOfBoth
<1> QED BY <1>1, <1>2, <1>3, <1>4, <1>5

OrderAt(k) == PingedAt(k) /\ UntoldAt(k) /\ UpAt(k) /\ DownAt(k)

\* A connection at which nothing of this has changed.
Same(j) ==
  /\ \A b \in Dirs : OnWay(j, b)' = OnWay(j, b) /\ (SetupAhead(j, b)' => SetupAhead(j, b))
  /\ \A b \in Dirs : sent'[j][b] = sent[j][b] /\ got'[j][b] = got[j][b]
  /\ pid'[j] = pid[j] /\ knows'[j] = knows[j] /\ status'[j] = status[j]
  /\ j \in DOMAIN peers' => j \in DOMAIN peers

LEMMA SameFollows ==
  ASSUME NEW j \in Insts, Same(j), NEW m \in Nat, Follow(j, m)
  PROVE  Follow(j, m)'
<1>1. OnWay(j, Down)' = OnWay(j, Down) /\ got'[j][Down] = got[j][Down] /\ sent'[j][Down] = sent[j][Down]
      /\ (j \in DOMAIN peers' => j \in DOMAIN peers)
  BY DEF Same, Dirs
<1> QED BY <1>1 DEF Follow

LEMMA SameKeeps ==
  ASSUME NEW j \in Insts, OrderAt(j), Same(j), EndStays
  PROVE  OrderAt(j)'
<1>1. PingedAt(j)'
  BY DEF OrderAt, PingedAt, Same, Dirs
<1>2. UntoldAt(j)'
  BY DEF OrderAt, UntoldAt, Same
<1>3. UpAt(j)'
  BY DEF OrderAt, UpAt, Same, Dirs, EndStays
<1>4. DownAt(j)'
  <2>1. got'[j][Down] = got[j][Down] /\ knows'[j] = knows[j]
    BY DEF Same, Dirs
  <2>2. ASSUME knows[j] # "nothing" PROVE \E m \in Nat : Follow(j, m)'
    <3>1. PICK m \in Nat : Follow(j, m)
      BY <2>2 DEF OrderAt, DownAt
    <3>2. Follow(j, m)'
      BY <3>1, SameFollows
    <3> QED BY <3>2
  <2> QED BY <2>1, <2>2 DEF OrderAt, DownAt
<1> QED BY <1>1, <1>2, <1>3, <1>4 DEF OrderAt

LEMMA AtIs == HInv <=> Shapes /\ \A k \in Insts : OrderAt(k)
  BY DEF HInv, OrderAt, Pinged, Untold, UpOrder, DownOrder

\* What a step that concerns one connection has to show.
LEMMA AtOnly ==
  ASSUME HInv, EndStays, Shapes', NEW k \in Insts, OrderAt(k)', \A j \in Insts \ {k} : Same(j)
  PROVE  HInv'
<1>1. \A j \in Insts \ {k} : OrderAt(j)'
  BY AtIs, SameKeeps
<1>2. \A j \in Insts : OrderAt(j)'
  BY <1>1
<1> QED BY <1>2 DEF HInv, OrderAt, Pinged, Untold, UpOrder, DownOrder

\* The facts a step starts from.
LEMMA AtHand ==
  ASSUME HInv
  PROVE  /\ air \in Airs /\ pend \in Pends /\ sent \in [Insts -> [Dirs -> Nat]]
         /\ knows \in [Insts -> {"nothing", "entry", "peer"}]
         /\ got \in [Insts -> [Dirs -> Seq([k : Insts, n : Nat])]]
         /\ Up \in Dirs /\ Down \in Dirs /\ Up # Down /\ Dirs = {Up, Down}
         /\ \A k \in Insts : PingedAt(k) /\ UntoldAt(k) /\ UpAt(k) /\ DownAt(k)
         /\ \A k \in Insts, d \in Dirs : OnWay(k, d) \in Seq(Nat) /\ Len(OnWay(k, d)) \in Nat
<1>1. Shapes
  BY DEF HInv
<1>2. \A k \in Insts, d \in Dirs : OnWay(k, d) \in Seq(Nat) /\ Len(OnWay(k, d)) \in Nat
  BY <1>1, OnWayIs
<1> QED BY <1>1, <1>2 DEF HInv, Shapes, Airs, Air, Pends, Dirs, Up, Down, Pinged, Untold, UpOrder, DownOrder

\* A packet an application may put: it is no setup packet, and a reliable one
\* has the number after the last.
LEMMA PutIs ==
  ASSUME NEW s \in Nat, NEW packet, packet = Unreliable \/ packet = Data(s + 1)
  PROVE  packet \in Packet /\ packet # Setup /\ (packet.rel => packet.n = s + 1)
  BY DEF Packet, Unreliable, Data, Setup

LEMMA ServerSendOrder ==
  ASSUME IInv, IInv', HInv, EndStays, NEW p \in Insts, NEW packet,
         packet = Unreliable \/ packet = Data(sent[p][Down] + 1), ServerSend(p, packet)
  PROVE  HInv'
<1>0. Shapes
  BY DEF HInv
<1>1. /\ p \in DOMAIN peers /\ Send(p, Down, packet, air)
      /\ sent' = IF packet.rel THEN [sent EXCEPT ![p][Down] = @ + 1] ELSE sent
      /\ UNCHANGED <<end, status, knows, pid, peers, got>>
  BY DEF ServerSend, IInv, OwnId, clientVars, serverVars
<1>2. packet \in Packet /\ packet # Setup /\ (packet.rel => packet.n = sent[p][Down] + 1)
  BY AtHand, PutIs
<1> DEFINE w == OnWay(p, Down)
           n == sent[p][Down]
<1>3. /\ air' \in Airs /\ pend' \in Pends
      /\ \A j \in Insts, b \in Dirs : (j = p /\ b = Down) \/ (air'[j][b] = air[j][b] /\ pend'[j][b] = pend[j][b])
      /\ OnWay(p, Down)' = IF packet.rel THEN Append(w, n + 1) ELSE w
      /\ SetupAhead(p, Down)' => SetupAhead(p, Down)
  <2>1. air \in Airs /\ Down \in Dirs
    BY AtHand
  <2> QED BY <1>0, <1>1, <1>2, <2>1, Joins
<1>4. /\ sent' \in [Insts -> [Dirs -> Nat]] /\ sent'[p][Up] = sent[p][Up]
      /\ sent'[p][Down] = IF packet.rel THEN n + 1 ELSE n
      /\ \A j \in Insts \ {p} : sent'[j] = sent[j]
  BY <1>1, AtHand
<1>5. Shapes'
  BY <1>1, <1>3, <1>4, AtHand DEF Shapes, Airs, Air, Pends
<1>6. \A j \in Insts \ {p} : Same(j)
  <2> SUFFICES ASSUME NEW j \in Insts \ {p} PROVE Same(j)
    OBVIOUS
  <2>1. \A b \in Dirs : OnWay(j, b)' = OnWay(j, b) /\ (SetupAhead(j, b)' <=> SetupAhead(j, b))
    BY <1>3, Stays
  <2> QED BY <1>1, <1>4, <2>1 DEF Same
<1>7. OnWay(p, Up)' = OnWay(p, Up) /\ (SetupAhead(p, Up)' <=> SetupAhead(p, Up))
  BY <1>3, Stays, AtHand
<1>8. PingedAt(p)'
  BY <1>1, <1>3, <1>7, AtHand DEF PingedAt
<1>9. UntoldAt(p)'
  BY <1>1, AtHand DEF UntoldAt, PingedAt
<1>10. UpAt(p)'
  <2>1. UNCHANGED <<end, knows, got>> /\ sent'[p][Up] = sent[p][Up] /\ OnWay(p, Up)' = OnWay(p, Up)
    BY <1>1, <1>4, <1>7
  <2>2. UpAt(p)
    BY AtHand
  <2> QED BY <2>1, <2>2 DEF UpAt
<1>11. DownAt(p)'
  <2>1. ASSUME knows[p] # "nothing" PROVE \E m \in Nat : Follow(p, m)'
    <3>1. PICK m \in Nat : Follow(p, m)
      BY <2>1, AtHand DEF DownAt
    <3>2. w \in Seq(Nat) /\ n \in Nat
      BY AtHand
    <3>3. (\A i \in 1 .. Len(w) : w[i] = m + i) /\ m + Len(w) = n
      BY <1>1, <3>1 DEF Follow
    <3>4. got[p][Down] # <<>> => got[p][Down][Len(got[p][Down])].n = m
      BY <3>1 DEF Follow
    <3> HIDE DEF w, n
    <3>5. (\A i \in 1 .. Len(OnWay(p, Down)') : OnWay(p, Down)'[i] = m + i) /\ m + Len(OnWay(p, Down)') = sent'[p][Down]
      <4>1. CASE packet.rel
        <5>0. m + Len(w) + 1 = n + 1 /\ n + 1 \in Nat
          BY <3>2, <3>3
        <5>1. /\ \A i \in 1 .. Len(Append(w, n + 1)) : Append(w, n + 1)[i] = m + i
              /\ m + Len(Append(w, n + 1)) = n + 1
          BY <3>2, <3>3, <5>0, AppendFollows
        <5> QED BY <1>3, <1>4, <4>1, <5>1
      <4>2. CASE ~ packet.rel
        BY <1>3, <1>4, <3>3, <4>2
      <4> QED BY <4>1, <4>2
    <3>6. Follow(p, m)'
      BY <1>1, <3>4, <3>5 DEF Follow
    <3> QED BY <3>6
  <2> QED BY <1>1, <2>1, AtHand DEF DownAt
<1> QED BY <1>5, <1>6, <1>8, <1>9, <1>10, <1>11, AtOnly DEF OrderAt

LEMMA ClientSendOrder ==
  ASSUME IInv, IInv', HInv, EndStays, NEW k \in Insts, NEW packet,
         packet = Unreliable \/ packet = Data(sent[k][Up] + 1), ClientSend(k, packet)
  PROVE  HInv'
<1>0. Shapes
  BY DEF HInv
<1>1. /\ knows[k] = "peer" /\ Send(k, Up, packet, air)
      /\ sent' = IF packet.rel THEN [sent EXCEPT ![k][Up] = @ + 1] ELSE sent
      /\ UNCHANGED <<end, status, knows, pid, peers, got>>
  BY DEF ClientSend, clientVars, serverVars
<1>2. packet \in Packet /\ packet # Setup /\ (packet.rel => packet.n = sent[k][Up] + 1)
  BY AtHand, PutIs
<1> DEFINE w == OnWay(k, Up)
           n == sent[k][Up]
           g == Len(got[k][Up])
<1>3. /\ air' \in Airs /\ pend' \in Pends
      /\ \A j \in Insts, b \in Dirs : (j = k /\ b = Up) \/ (air'[j][b] = air[j][b] /\ pend'[j][b] = pend[j][b])
      /\ OnWay(k, Up)' = IF packet.rel THEN Append(w, n + 1) ELSE w
      /\ SetupAhead(k, Up)' => SetupAhead(k, Up)
  <2>1. air \in Airs /\ Up \in Dirs
    BY AtHand
  <2> QED BY <1>0, <1>1, <1>2, <2>1, Joins
<1>4. /\ sent' \in [Insts -> [Dirs -> Nat]] /\ sent'[k][Down] = sent[k][Down]
      /\ sent'[k][Up] = IF packet.rel THEN n + 1 ELSE n
      /\ \A j \in Insts \ {k} : sent'[j] = sent[j]
  BY <1>1, AtHand
<1>5. Shapes'
  BY <1>1, <1>3, <1>4, AtHand DEF Shapes, Airs, Air, Pends
<1>6. \A j \in Insts \ {k} : Same(j)
  <2> SUFFICES ASSUME NEW j \in Insts \ {k} PROVE Same(j)
    OBVIOUS
  <2>1. \A b \in Dirs : OnWay(j, b)' = OnWay(j, b) /\ (SetupAhead(j, b)' <=> SetupAhead(j, b))
    BY <1>3, Stays
  <2> QED BY <1>1, <1>4, <2>1 DEF Same
<1>7. OnWay(k, Down)' = OnWay(k, Down) /\ (SetupAhead(k, Down)' <=> SetupAhead(k, Down))
  BY <1>3, Stays, AtHand
<1>8. PingedAt(k)'
  BY <1>1, <1>3, <1>7, AtHand DEF PingedAt
<1>9. UntoldAt(k)'
  BY <1>1, AtHand DEF UntoldAt, PingedAt
<1>10. UpAt(k)'
  <2>1. \A i \in 1 .. Len(got[k][Up]) : got[k][Up][i] = [k |-> k, n |-> i]
    BY AtHand DEF UpAt
  <2>2. ASSUME end[k][Server] # "closed"
        PROVE  /\ \A i \in 1 .. Len(OnWay(k, Up)') : OnWay(k, Up)'[i] = g + i
               /\ g + Len(OnWay(k, Up)') = sent'[k][Up]
    <3>2. w \in Seq(Nat) /\ n \in Nat /\ g \in Nat
      BY AtHand
    <3>3. (\A i \in 1 .. Len(w) : w[i] = g + i) /\ g + Len(w) = n
      BY <1>1, <2>2, AtHand DEF UpAt
    <3> HIDE DEF w, n, g
    <3>4. CASE packet.rel
      <4>0. g + Len(w) + 1 = n + 1 /\ n + 1 \in Nat
        BY <3>2, <3>3
      <4>1. /\ \A i \in 1 .. Len(Append(w, n + 1)) : Append(w, n + 1)[i] = g + i
            /\ g + Len(Append(w, n + 1)) = n + 1
        BY <3>2, <3>3, <4>0, AppendFollows
      <4> QED BY <1>3, <1>4, <3>4, <4>1
    <3>5. CASE ~ packet.rel
      BY <1>3, <1>4, <3>3, <3>5
    <3> QED BY <3>4, <3>5
  <2> QED BY <1>1, <2>1, <2>2 DEF UpAt
<1>11. DownAt(k)'
  <2>1. \A m \in Nat : Follow(k, m) => Follow(k, m)'
    BY <1>1, <1>4, <1>7 DEF Follow
  <2> QED BY <1>1, <2>1, AtHand DEF DownAt
<1> QED BY <1>5, <1>6, <1>8, <1>9, <1>10, <1>11, AtOnly DEF OrderAt

LEMMA AppendGot ==
  ASSUME NEW g \in Seq([k : Insts, n : Nat]), NEW r \in [k : Insts, n : Nat]
  PROVE  /\ Append(g, r) \in Seq([k : Insts, n : Nat]) /\ Len(g) \in Nat /\ Len(Append(g, r)) = Len(g) + 1
         /\ Append(g, r)[Len(g) + 1] = r /\ \A i \in 1 .. Len(g) : Append(g, r)[i] = g[i]
         /\ \A i \in 1 .. Len(g) + 1 : i \in 1 .. Len(g) \/ i = Len(g) + 1
<1>1. /\ Append(g, r) \in Seq([k : Insts, n : Nat]) /\ Len(g) \in Nat /\ Len(Append(g, r)) = Len(g) + 1
      /\ Append(g, r)[Len(g) + 1] = r /\ \A i \in 1 .. Len(g) : Append(g, r)[i] = g[i]
  OBVIOUS
<1>2. \A i \in 1 .. Len(g) + 1 : i \in 1 .. Len(g) \/ i = Len(g) + 1
  BY <1>1
<1> QED BY <1>1, <1>2

\* What handing over a packet does: a setup packet is none of the application's.
LEMMA DeliverIs ==
  ASSUME HInv, NEW k \in Insts, NEW d \in Dirs, NEW m \in Waiting(k, d), air' = Taken(k, d, m), UNCHANGED pend,
         got' = Deliver(k, d, k, m)
  PROVE  /\ got' \in [Insts -> [Dirs -> Seq([k : Insts, n : Nat])]]
         /\ \A j \in Insts, b \in Dirs : (j = k /\ b = d) \/ got'[j][b] = got[j][b]
         /\ m = Setup => got'[k][d] = got[k][d]
         /\ m # Setup => OnWay(k, d)[1] \in Nat /\ got'[k][d] = Append(got[k][d], [k |-> k, n |-> OnWay(k, d)[1]])
<1>1. /\ m # Setup => OnWay(k, d) # <<>> /\ m = Data(OnWay(k, d)[1]) /\ Len(OnWay(k, d)) \in Nat \ {0}
      /\ OnWay(k, d) \in Seq(Nat) /\ got \in [Insts -> [Dirs -> Seq([k : Insts, n : Nat])]]
  <2>1. Shapes
    BY DEF HInv
  <2>2. m # Setup => OnWay(k, d) # <<>> /\ m = Data(OnWay(k, d)[1]) /\ Len(OnWay(k, d)) \in Nat \ {0}
    BY <2>1, Leaves
  <2>3. OnWay(k, d) \in Seq(Nat) /\ got \in [Insts -> [Dirs -> Seq([k : Insts, n : Nat])]]
    BY AtHand
  <2> QED BY <2>2, <2>3
<1>2. CASE m = Setup
  BY <1>1, <1>2 DEF Deliver, Setup
<1>3. CASE m # Setup
  <2> DEFINE h == OnWay(k, d)[1]
             r == [k |-> k, n |-> h]
             g == Append(got[k][d], r)
  <2>1. h \in Nat /\ m = Data(h)
    <3> DEFINE w == OnWay(k, d)
    <3>1. w \in Seq(Nat) /\ Len(w) \in Nat \ {0}
      BY <1>1, <1>3
    <3> HIDE DEF w
    <3>2. w[1] \in Nat
      BY <3>1
    <3> QED BY <1>1, <1>3, <3>2 DEF w
  <2> HIDE DEF h
  <2>2. m.rel /\ m.n = h
    BY <2>1 DEF Data
  <2>3. got' = [got EXCEPT ![k][d] = g]
    BY <2>2 DEF Deliver
  <2>4. g \in Seq([k : Insts, n : Nat])
    BY <1>1, <2>1, AppendGot
  <2> HIDE DEF g, r
  <2>5. /\ got' \in [Insts -> [Dirs -> Seq([k : Insts, n : Nat])]]
        /\ \A j \in Insts, b \in Dirs : (j = k /\ b = d) \/ got'[j][b] = got[j][b]
        /\ got'[k][d] = g
    BY <1>1, <2>3, <2>4
  <2> QED BY <1>3, <2>1, <2>5 DEF g, r, h
<1> QED BY <1>2, <1>3

\* The server hands over what a client that has told its id sends.
LEMMA ServerMessageOrder ==
  ASSUME HInv, EndStays, NEW k \in Insts, pid[k] = k, k # Nobody, end[k][Server] # "closed", NEW m \in Waiting(k, Up),
         ServerMessage(k, k, m), UNCHANGED <<end, status, knows, sent>>
  PROVE  HInv'
<1>0. Shapes
  BY DEF HInv
<1>1. got' = Deliver(k, Up, k, m) /\ air' = Taken(k, Up, m) /\ UNCHANGED <<pid, peers, pend>>
  BY DEF ServerMessage
<1> DEFINE w == OnWay(k, Up)
           g == got[k][Up]
<1>2. /\ air' \in Airs /\ pend' \in Pends
      /\ \A j \in Insts, b \in Dirs : (j = k /\ b = Up) \/ (air'[j][b] = air[j][b] /\ pend'[j][b] = pend[j][b])
      /\ SetupAhead(k, Up)' => SetupAhead(k, Up)
      /\ m = Setup => OnWay(k, Up)' = w
      /\ m # Setup => /\ w # <<>> /\ Len(w) \in Nat \ {0} /\ Len(OnWay(k, Up)') = Len(w) - 1
                      /\ \A i \in 1 .. Len(OnWay(k, Up)') : i + 1 \in 1 .. Len(w) /\ OnWay(k, Up)'[i] = w[i + 1]
  BY <1>0, <1>1, Leaves, AtHand
<1>3. /\ got' \in [Insts -> [Dirs -> Seq([k : Insts, n : Nat])]]
      /\ \A j \in Insts, b \in Dirs : (j = k /\ b = Up) \/ got'[j][b] = got[j][b]
      /\ m = Setup => got'[k][Up] = g
      /\ m # Setup => w[1] \in Nat /\ got'[k][Up] = Append(g, [k |-> k, n |-> w[1]])
  BY <1>1, DeliverIs, AtHand
<1>5. Shapes'
  BY <1>2, <1>3, AtHand DEF Shapes, Airs, Air, Pends
<1>6. \A j \in Insts \ {k} : Same(j)
  <2> SUFFICES ASSUME NEW j \in Insts \ {k} PROVE Same(j)
    OBVIOUS
  <2>1. \A b \in Dirs : OnWay(j, b)' = OnWay(j, b) /\ (SetupAhead(j, b)' <=> SetupAhead(j, b))
    BY <1>2, Stays
  <2> QED BY <1>1, <1>3, <2>1 DEF Same
<1>7. OnWay(k, Down)' = OnWay(k, Down) /\ (SetupAhead(k, Down)' <=> SetupAhead(k, Down)) /\ got'[k][Down] = got[k][Down]
  BY <1>2, <1>3, Stays, AtHand
<1>8. PingedAt(k)'
  BY <1>1, <1>2, <1>7, AtHand DEF PingedAt
<1>9. UntoldAt(k)'
  BY <1>1, AtHand DEF UntoldAt
<1>10. UpAt(k)'
  <2>0. UpAt(k)
    BY AtHand
  <2>1. CASE m = Setup
    <3>1. UNCHANGED <<end, knows, sent>> /\ OnWay(k, Up)' = w /\ got'[k][Up] = g
      BY <1>2, <1>3, <2>1
    <3> QED BY <2>0, <3>1 DEF UpAt
  <2>2. CASE m # Setup
    <3>1. /\ \A i \in 1 .. Len(g) : g[i] = [k |-> k, n |-> i]
          /\ \A i \in 1 .. Len(w) : w[i] = Len(g) + i
          /\ knows[k] # "nothing" => Len(g) + Len(w) = sent[k][Up]
      BY <2>0 DEF UpAt
    <3>0. g \in Seq([k : Insts, n : Nat]) /\ sent[k][Up] \in Nat
      BY AtHand
    <3> DEFINE h == w[1]
               v == OnWay(k, Up)'
               g1 == got'[k][Up]
    <3>2. /\ Len(w) \in Nat \ {0} /\ Len(v) = Len(w) - 1
          /\ \A i \in 1 .. Len(v) : i + 1 \in 1 .. Len(w) /\ v[i] = w[i + 1]
          /\ h \in Nat /\ g1 = Append(g, [k |-> k, n |-> h])
      BY <1>2, <1>3, <2>2
    <3>3. h = Len(g) + 1
      <4>1. 1 \in 1 .. Len(w)
        BY <3>2
      <4> QED BY <3>1, <4>1
    <3> HIDE DEF w, g, h, v, g1
    <3>4. /\ Len(g1) = Len(g) + 1
          /\ \A i \in 1 .. Len(g) + 1 : i \in 1 .. Len(g) \/ i = Len(g) + 1
          /\ \A i \in 1 .. Len(g) : g1[i] = g[i]
          /\ g1[Len(g) + 1] = [k |-> k, n |-> h] /\ Len(g) \in Nat
      BY <3>0, <3>2, AppendGot
    <3>5. \A i \in 1 .. Len(g1) : g1[i] = [k |-> k, n |-> i]
      BY <3>1, <3>3, <3>4
    <3>6. \A i \in 1 .. Len(v) : v[i] = Len(g1) + i
      <4> SUFFICES ASSUME NEW i \in 1 .. Len(v) PROVE v[i] = Len(g1) + i
        OBVIOUS
      <4>1. i + 1 \in 1 .. Len(w) /\ v[i] = w[i + 1]
        BY <3>2
      <4>2. w[i + 1] = Len(g) + (i + 1)
        BY <3>1, <4>1
      <4>3. i \in Nat
        BY <3>2
      <4> QED BY <3>1, <3>4, <4>1, <4>2, <4>3
    <3>7. knows[k] # "nothing" => Len(g1) + Len(v) = sent[k][Up]
      BY <3>0, <3>1, <3>2, <3>4
    <3> QED BY <1>1, <3>5, <3>6, <3>7 DEF UpAt, g1, v
  <2> QED BY <2>1, <2>2
<1>11. DownAt(k)'
  <2>1. \A j \in Nat : Follow(k, j) => Follow(k, j)'
    BY <1>1, <1>7 DEF Follow
  <2> QED BY <1>7, <2>1, AtHand DEF DownAt
<1> QED BY <1>5, <1>6, <1>8, <1>9, <1>10, <1>11, AtOnly DEF OrderAt

\* The server hears the peer id: nothing else is on its way yet, and its answer
\* is no reliable packet.
LEMMA ServerPingOrder ==
  ASSUME HInv, EndStays, IInv, IInv', NEW k \in Insts, pid[k] = Nobody, NEW m \in Waiting(k, Up),
         ServerPing(k, k, m), UNCHANGED <<end, status, knows, sent>>
  PROVE  HInv'
<1>0. Shapes /\ air \in Airs /\ Up \in Dirs /\ Down \in Dirs /\ Up # Down /\ Dirs = {Up, Down}
  BY AtHand DEF HInv
<1>1. \A d \in Dirs : sent[k][d] = 0 /\ OnWay(k, d) = <<>> /\ got[k][d] = <<>>
  BY AtHand DEF UntoldAt
<1> DEFINE air1 == Taken(k, Up, m)
<1>2. /\ air1 \in Airs
      /\ \A j \in Insts, b \in Dirs : (j = k /\ b = Up) \/ air1[j][b] = air[j][b]
      /\ air1[k][Up].setup => air[k][Up].setup
      /\ m = Setup => air[k][Up].setup /\ air1[k][Up].data = air[k][Up].data
      /\ m # Setup => air[k][Up].data # <<>>
  BY <1>0, TakenIs
<1>3. m = Setup
  <2>1. air[k][Up].data \o Reliable(pend[k][Up]) = <<>>
    BY <1>0, <1>1 DEF OnWay
  <2>2. air[k][Up].data \in Seq(Nat) /\ Reliable(pend[k][Up]) \in Seq(Nat)
    BY <1>0, OnWayIs
  <2> QED BY <1>2, <2>1, <2>2, ShorterIsPrefix
<1> HIDE DEF air1
<1>4. /\ pid' = [pid EXCEPT ![k] = k] /\ peers' = With(peers, k, k) /\ Send(k, Down, Setup, air1) /\ UNCHANGED got
  BY <1>3 DEF ServerPing, Setup, air1
<1>5. /\ air' \in Airs /\ pend' \in Pends
      /\ \A j \in Insts, b \in Dirs : (j = k /\ b = Down) \/ (air'[j][b] = air1[j][b] /\ pend'[j][b] = pend[j][b])
      /\ OnWay(k, Down)' = OnWay(k, Down)
  <2>1. Setup \in Packet /\ Setup.rel = FALSE
    BY DEF Packet, Setup
  <2>2. air1[k][Down] = air[k][Down]
    BY <1>0, <1>2
  <2>3. /\ air' \in Airs /\ pend' \in Pends
        /\ \A j \in Insts, b \in Dirs : (j = k /\ b = Down) \/ (air'[j][b] = air1[j][b] /\ pend'[j][b] = pend[j][b])
        /\ OnWay(k, Down)' = IF Setup.rel THEN Append(OnWay(k, Down), Setup.n) ELSE OnWay(k, Down)
    BY <1>0, <1>2, <1>4, <2>1, <2>2, Joins
  <2> QED BY <2>1, <2>3
<1>6. OnWay(k, Up)' = OnWay(k, Up)
  <2>1. pend'[k][Up] = pend[k][Up] /\ air'[k][Up].data = air[k][Up].data
    BY <1>0, <1>2, <1>3, <1>5
  <2> QED BY <2>1 DEF OnWay
<1>7. SetupAhead(k, Up)
  BY <1>2, <1>3 DEF SetupAhead
<1>8. /\ pid'[k] = k /\ k # Nobody /\ \A j \in Insts \ {k} : pid'[j] = pid[j]
      /\ \A j \in Insts \ {k} : j \in DOMAIN peers' => j \in DOMAIN peers
  BY <1>4, UsersApart DEF IInv, Types, With
<1>9. Shapes'
  BY <1>4, <1>5, AtHand DEF Shapes, Airs, Air, Pends
<1>10. \A j \in Insts \ {k} : Same(j)
  <2> SUFFICES ASSUME NEW j \in Insts \ {k} PROVE Same(j)
    OBVIOUS
  <2>1. \A b \in Dirs : air'[j][b] = air[j][b] /\ pend'[j][b] = pend[j][b]
    BY <1>2, <1>5
  <2>2. \A b \in Dirs : OnWay(j, b)' = OnWay(j, b) /\ (SetupAhead(j, b)' <=> SetupAhead(j, b))
    BY <2>1, Stays
  <2> QED BY <1>4, <1>8, <2>2 DEF Same
<1>11. PingedAt(k)'
  <2>1. status[k] \notin {"new", "connecting"}
    BY <1>7, AtHand DEF PingedAt
  <2> QED BY <1>8, <2>1 DEF PingedAt
<1>12. UntoldAt(k)'
  BY <1>8 DEF UntoldAt
<1>13. UpAt(k)'
  <2>1. UpAt(k)
    BY AtHand
  <2> QED BY <1>4, <1>6, <2>1 DEF UpAt
<1>14. DownAt(k)'
  <2>1. got'[k][Down] = <<>> /\ OnWay(k, Down)' = <<>> /\ sent'[k][Down] = 0
    BY <1>0, <1>1, <1>4, <1>5
  <2>2. Follow(k, 0)'
    BY <2>1 DEF Follow
  <2> QED BY <2>1, <2>2 DEF DownAt
<1> QED BY <1>9, <1>10, <1>11, <1>12, <1>13, <1>14, AtOnly DEF OrderAt

\* What is taken is the next of those that follow.
LEMMA TakesNext ==
  ASSUME NEW w, NEW v, NEW s \in Nat, NEW j \in Nat, Len(w) \in Nat \ {0}, Len(v) = Len(w) - 1,
         \A i \in 1 .. Len(v) : i + 1 \in 1 .. Len(w) /\ v[i] = w[i + 1],
         \A i \in 1 .. Len(w) : w[i] = j + i
  PROVE  w[1] = j + 1 /\ (\A i \in 1 .. Len(v) : v[i] = (j + 1) + i) /\ (j + 1) + Len(v) = j + Len(w)
<1>1. 1 \in 1 .. Len(w)
  OBVIOUS
<1>2. ASSUME NEW i \in 1 .. Len(v) PROVE v[i] = (j + 1) + i
  <2>1. i + 1 \in 1 .. Len(w) /\ v[i] = w[i + 1] /\ i \in Nat
    OBVIOUS
  <2>2. w[i + 1] = j + (i + 1)
    BY <2>1
  <2> QED BY <2>1, <2>2
<1> QED BY <1>1, <1>2

LEMMA ClientPollOrder ==
  ASSUME HInv, EndStays, NEW k \in Insts, ClientPoll(k)
  PROVE  HInv'
<1>0. Shapes /\ Up \in Dirs /\ Down \in Dirs /\ Up # Down /\ Dirs = {Up, Down}
  BY AtHand DEF HInv
<1>1. PICK m \in Waiting(k, Down) :
        /\ air' = Taken(k, Down, m)
        /\ got' = IF knows[k] = "peer" THEN Deliver(k, Down, k, m) ELSE got
        /\ knows' = IF knows[k] = "entry" /\ m.type = "setup" THEN [knows EXCEPT ![k] = "peer"] ELSE knows
  BY DEF ClientPoll
<1>2. knows[k] # "nothing" /\ UNCHANGED <<end, status, pid, peers, pend, sent>>
  BY DEF ClientPoll, serverVars
<1> DEFINE w == OnWay(k, Down)
           v == OnWay(k, Down)'
           g == got[k][Down]
           g1 == got'[k][Down]
<1>3. /\ air' \in Airs /\ pend' \in Pends
      /\ \A j \in Insts, b \in Dirs : (j = k /\ b = Down) \/ (air'[j][b] = air[j][b] /\ pend'[j][b] = pend[j][b])
      /\ SetupAhead(k, Down)' => SetupAhead(k, Down)
      /\ m = Setup => SetupAhead(k, Down) /\ v = w
      /\ m # Setup => /\ w # <<>> /\ Len(w) \in Nat \ {0} /\ Len(v) = Len(w) - 1 /\ m = Data(w[1])
                      /\ \A i \in 1 .. Len(v) : i + 1 \in 1 .. Len(w) /\ v[i] = w[i + 1]
  BY <1>0, <1>1, <1>2, Leaves
<1>4. /\ got' \in [Insts -> [Dirs -> Seq([k : Insts, n : Nat])]]
      /\ \A j \in Insts, b \in Dirs : (j = k /\ b = Down) \/ got'[j][b] = got[j][b]
      /\ m = Setup \/ knows[k] # "peer" => g1 = g
      /\ m # Setup /\ knows[k] = "peer" => w[1] \in Nat /\ g1 = Append(g, [k |-> k, n |-> w[1]])
  <2>1. CASE knows[k] = "peer"
    <3>1. got' = Deliver(k, Down, k, m)
      BY <1>1, <2>1
    <3> QED BY <1>0, <1>1, <1>2, <2>1, <3>1, DeliverIs
  <2>2. CASE knows[k] # "peer"
    BY <1>1, <2>2, AtHand
  <2> QED BY <2>1, <2>2
<1>5. /\ knows' \in [Insts -> {"nothing", "entry", "peer"}] /\ \A j \in Insts \ {k} : knows'[j] = knows[j]
      /\ m = Setup => knows'[k] = "peer"
      /\ m # Setup => knows'[k] = knows[k]
  <2>1. m # Setup => m.type # "setup"
    BY <1>3 DEF Data
  <2>2. m = Setup => m.type = "setup"
    BY DEF Setup
  <2>3. knows \in [Insts -> {"nothing", "entry", "peer"}]
    BY AtHand
  <2> QED BY <1>1, <1>2, <2>1, <2>2, <2>3
<1>6. Shapes'
  BY <1>2, <1>3, <1>4, <1>5, AtHand DEF Shapes, Airs, Air, Pends
<1>7. \A j \in Insts \ {k} : Same(j)
  <2> SUFFICES ASSUME NEW j \in Insts \ {k} PROVE Same(j)
    OBVIOUS
  <2>1. \A b \in Dirs : OnWay(j, b)' = OnWay(j, b) /\ (SetupAhead(j, b)' <=> SetupAhead(j, b))
    BY <1>3, Stays
  <2> QED BY <1>2, <1>4, <1>5, <2>1 DEF Same
<1>8. OnWay(k, Up)' = OnWay(k, Up) /\ (SetupAhead(k, Up)' <=> SetupAhead(k, Up)) /\ got'[k][Up] = got[k][Up]
  BY <1>0, <1>3, <1>4, Stays
<1>9. PingedAt(k) /\ UntoldAt(k) /\ UpAt(k) /\ DownAt(k)
  BY AtHand
<1>10. pid[k] # Nobody
  <2>1. m = Setup => pid[k] # Nobody
    BY <1>3, <1>9 DEF PingedAt
  <2>2. m # Setup => pid[k] # Nobody
    BY <1>0, <1>3, <1>9 DEF UntoldAt
  <2> QED BY <2>1, <2>2
<1>11. PingedAt(k)'
  BY <1>2, <1>9, <1>10 DEF PingedAt
<1>12. UntoldAt(k)'
  BY <1>2, <1>10 DEF UntoldAt
<1>13. UpAt(k)'
  <2>1. knows'[k] # "nothing" => knows[k] # "nothing"
    BY <1>2
  <2> QED BY <1>2, <1>8, <1>9, <2>1 DEF UpAt
<1>14. DownAt(k)'
  <2>1. PICK j \in Nat : Follow(k, j)
    BY <1>2, <1>9 DEF DownAt
  <2>2. /\ \A i \in 1 .. Len(w) : w[i] = j + i
        /\ k \in DOMAIN peers => j + Len(w) = sent[k][Down]
        /\ g # <<>> => g[Len(g)].n = j
    BY <2>1 DEF Follow
  <2>3. /\ \A i \in 1 .. Len(g) - 1 : g[i + 1].n = g[i].n + 1
        /\ knows[k] = "entry" => g = <<>>
    BY <1>9 DEF DownAt
  <2>4. g \in Seq([k : Insts, n : Nat])
    BY AtHand
  <2>5. CASE m = Setup
    <3>1. g1 = g /\ v = w /\ knows'[k] = "peer"
      BY <1>3, <1>4, <1>5, <2>5
    <3>2. Follow(k, j)'
      BY <1>2, <2>2, <3>1 DEF Follow
    <3> QED BY <2>3, <3>1, <3>2 DEF DownAt
  <2>6. CASE m # Setup
    <3>0. /\ Len(w) \in Nat \ {0} /\ Len(v) = Len(w) - 1
          /\ \A i \in 1 .. Len(v) : i + 1 \in 1 .. Len(w) /\ v[i] = w[i + 1]
      BY <1>3, <2>6
    <3> HIDE DEF w, v
    <3>1. w[1] = j + 1 /\ (\A i \in 1 .. Len(v) : v[i] = (j + 1) + i) /\ (j + 1) + Len(v) = j + Len(w)
      BY <2>2, <3>0, TakesNext
    <3>2. knows'[k] = knows[k] /\ knows[k] \in {"entry", "peer"}
      BY <1>2, <1>5, <2>6, AtHand
    <3> HIDE DEF g, g1
    <3>3. CASE knows[k] = "entry"
      <4>1. g1 = <<>> /\ Len(g1) = 0
        BY <1>4, <2>3, <3>3
      <4>2. Follow(k, j + 1)'
        BY <1>2, <2>2, <3>1, <4>1 DEF Follow, g1, v
      <4> QED BY <4>1, <4>2 DEF DownAt, g1
    <3>4. CASE knows[k] = "peer"
      <4> DEFINE r == [k |-> k, n |-> w[1]]
      <4>1. r \in [k : Insts, n : Nat] /\ r.n = j + 1 /\ g1 = Append(g, r)
        BY <1>4, <2>6, <3>1, <3>4
      <4> HIDE DEF r
      <4>2. /\ Len(g) \in Nat /\ Len(g1) = Len(g) + 1 /\ g1[Len(g) + 1] = r
            /\ \A i \in 1 .. Len(g) : g1[i] = g[i]
        BY <2>4, <4>1, AppendGot
      <4>3. g1[Len(g1)].n = j + 1
        BY <4>1, <4>2
      <4>4. Follow(k, j + 1)'
        BY <1>2, <2>2, <3>1, <4>3 DEF Follow, g1, v
      <4>5. ASSUME NEW i \in 1 .. Len(g1) - 1 PROVE g1[i + 1].n = g1[i].n + 1
        <5>1. i \in 1 .. Len(g) /\ g1[i] = g[i]
          BY <4>2
        <5>2. CASE i = Len(g)
          <6>1. g # <<>>
            BY <5>1
          <6> QED BY <2>2, <4>1, <4>2, <5>1, <5>2, <6>1
        <5>3. CASE i # Len(g)
          <6>1. i \in 1 .. Len(g) - 1 /\ i + 1 \in 1 .. Len(g)
            BY <4>2, <5>1, <5>3
          <6> QED BY <2>3, <4>2, <5>1, <6>1
        <5> QED BY <5>2, <5>3
      <4> QED BY <3>2, <3>4, <4>4, <4>5 DEF DownAt, g1
    <3> QED BY <3>2, <3>3, <3>4
  <2> QED BY <2>5, <2>6
<1> QED BY <1>6, <1>7, <1>11, <1>12, <1>13, <1>14, AtOnly DEF OrderAt

\* A client that is up and is about to tell its peer id.
LEMMA BeginsOrder ==
  ASSUME HInv, EndStays, NEW k \in Insts, pid[k] = Nobody, status'[k] = "connected",
         knows' = [knows EXCEPT ![k] = "entry"], \A j \in Insts \ {k} : status'[j] = status[j],
         air' \in Airs, pend' \in Pends, UNCHANGED <<sent, got, pid, peers>>,
         \A j \in Insts, b \in Dirs : (j = k /\ b = Up) \/ (air'[j][b] = air[j][b] /\ pend'[j][b] = pend[j][b]),
         OnWay(k, Up)' = OnWay(k, Up)
  PROVE  HInv'
<1>0. Shapes /\ Up \in Dirs /\ Down \in Dirs /\ Up # Down /\ Dirs = {Up, Down}
  BY AtHand DEF HInv
<1>1. \A d \in Dirs : sent[k][d] = 0 /\ OnWay(k, d) = <<>> /\ got[k][d] = <<>>
  BY AtHand DEF UntoldAt
<1>2. OnWay(k, Down)' = OnWay(k, Down) /\ (SetupAhead(k, Down)' <=> SetupAhead(k, Down))
  BY <1>0, Stays
<1>3. /\ knows' \in [Insts -> {"nothing", "entry", "peer"}] /\ knows'[k] = "entry"
      /\ \A j \in Insts \ {k} : knows'[j] = knows[j]
  BY AtHand
<1>4. Shapes'
  BY <1>3, AtHand DEF Shapes, Airs, Air, Pends
<1>5. \A j \in Insts \ {k} : Same(j)
  <2> SUFFICES ASSUME NEW j \in Insts \ {k} PROVE Same(j)
    OBVIOUS
  <2>1. \A b \in Dirs : OnWay(j, b)' = OnWay(j, b) /\ (SetupAhead(j, b)' <=> SetupAhead(j, b))
    BY Stays
  <2> QED BY <1>3, <2>1 DEF Same
<1>6. PingedAt(k)'
  <2>1. PingedAt(k)
    BY AtHand
  <2> QED BY <1>2, <1>3, <2>1 DEF PingedAt
<1>7. UntoldAt(k)'
  <2>1. \A d \in Dirs : OnWay(k, d)' = <<>>
    BY <1>0, <1>1, <1>2
  <2> QED BY <1>1, <2>1 DEF UntoldAt
<1>8. got'[k][Up] = <<>> /\ got'[k][Down] = <<>> /\ OnWay(k, Up)' = <<>> /\ OnWay(k, Down)' = <<>>
      /\ sent'[k][Up] = 0 /\ sent'[k][Down] = 0
  BY <1>0, <1>1, <1>2
<1>9. UpAt(k)'
  BY <1>8 DEF UpAt
<1>10. DownAt(k)'
  <2>1. Follow(k, 0)'
    BY <1>8 DEF Follow
  <2> QED BY <1>8, <2>1 DEF DownAt
<1> QED BY <1>4, <1>5, <1>6, <1>7, <1>9, <1>10, AtOnly DEF OrderAt

LEMMA SetupOn ==
  ASSUME NEW r \in Air
  PROVE  [r EXCEPT !.setup = TRUE] \in Air /\ [r EXCEPT !.setup = TRUE].data = r.data
  BY DEF Air

LEMMA LoopbackOrder ==
  ASSUME IInv, HInv, EndStays, NEW k \in Insts, CreateLoopbackClient(k)
  PROVE  HInv'
<1>0. Up \in Dirs /\ air \in Airs /\ pend \in Pends
  BY AtHand
<1>1. /\ status[k] = "new" /\ status' = [status EXCEPT ![k] = "connected"] /\ knows' = [knows EXCEPT ![k] = "entry"]
      /\ air' = [air EXCEPT ![k][Up].setup = TRUE] /\ UNCHANGED <<pend, sent, got, pid, peers>>
  BY DEF CreateLoopbackClient
<1>2. /\ pid[k] = Nobody /\ status'[k] = "connected" /\ \A j \in Insts \ {k} : status'[j] = status[j]
  BY <1>1 DEF IInv, Made, Types
<1>3. /\ air' \in Airs /\ air'[k][Up].data = air[k][Up].data
      /\ \A j \in Insts, b \in Dirs : (j = k /\ b = Up) \/ air'[j][b] = air[j][b]
  <2> DEFINE r == [air[k][Up] EXCEPT !.setup = TRUE]
  <2>1. air' = [air EXCEPT ![k] = [air[k] EXCEPT ![Up] = r]] /\ air[k][Up] \in Air
    BY <1>0, <1>1, Zenon DEF Airs
  <2>2. r \in Air /\ r.data = air[k][Up].data
    BY <2>1, SetupOn
  <2> HIDE DEF r
  <2> QED BY <1>0, <2>1, <2>2 DEF Airs
<1>4. OnWay(k, Up)' = OnWay(k, Up)
  BY <1>1, <1>3 DEF OnWay
<1> QED BY <1>0, <1>1, <1>2, <1>3, <1>4, BeginsOrder

LEMMA ClientCallbackOrder ==
  ASSUME IInv, IInv', HInv, ClientOnce, EndStays, NEW k \in Insts, ClientCallback(k)
  PROVE  HInv'
<1> DEFINE c == Head(ccalls[k])
<1>0. ccalls[k] # <<>> /\ UNCHANGED <<pid, peers, sent, got>> /\ Shapes /\ DOMAIN status = Insts
  BY DEF ClientCallback, serverVars, HInv, IInv, Types
<1>1. CASE ClientConnected(k, c)
  <2>1. /\ c.ev = "connected" /\ status' = [status EXCEPT ![k] = "connected"]
        /\ knows' = [knows EXCEPT ![k] = "entry"] /\ Send(k, Up, Setup, air)
    BY <1>1 DEF ClientConnected
  <2>2. ccalls[k] \in Seq([ev : {"connected", "ended"}, old : EndStates])
        /\ (\A i \in 1 .. Len(ccalls[k]) : ccalls[k][i].ev = "connected" => status[k] = "connecting")
    BY DEF ClientOnce, WaitsFor
  <2>3. 1 \in 1 .. Len(ccalls[k]) /\ ccalls[k][1] = c
    BY <1>0, <2>2
  <2>4. status[k] = "connecting"
    BY <2>1, <2>2, <2>3
  <2>5. pid[k] = Nobody
    BY <2>4, AtHand DEF PingedAt
  <2>6. /\ air' \in Airs /\ pend' \in Pends
        /\ \A j \in Insts, b \in Dirs : (j = k /\ b = Up) \/ (air'[j][b] = air[j][b] /\ pend'[j][b] = pend[j][b])
        /\ OnWay(k, Up)' = OnWay(k, Up)
    <3>1. Setup \in Packet /\ Setup.rel = FALSE
      BY DEF Packet, Setup
    <3>2. air \in Airs /\ Up \in Dirs
      BY AtHand
    <3>3. /\ air' \in Airs /\ pend' \in Pends
          /\ \A j \in Insts, b \in Dirs : (j = k /\ b = Up) \/ (air'[j][b] = air[j][b] /\ pend'[j][b] = pend[j][b])
          /\ OnWay(k, Up)' = IF Setup.rel THEN Append(OnWay(k, Up), Setup.n) ELSE OnWay(k, Up)
      BY <1>0, <2>1, <3>1, <3>2, Joins
    <3> QED BY <3>1, <3>3
  <2>7. status'[k] = "connected" /\ \A j \in Insts \ {k} : status'[j] = status[j]
    BY <1>0, <2>1
  <2> QED BY <1>0, <2>1, <2>5, <2>6, <2>7, BeginsOrder
<1>2. CASE ClientEnded(k, c)
  <2>1. status' = [status EXCEPT ![k] = "disconnected"] /\ CloseClient(k)
    BY <1>2 DEF ClientEnded
  <2>2. ClosesOrLeaves
    BY <1>0, <2>1, CloseClientLeaves
  <2> QED BY <2>2, LeavesOrder
<1>3. CASE UNCHANGED <<status, knows, end, air, pend, lost>>
  <2>1. ClosesOrLeaves
    BY <1>0, <1>3, StillLeaves
  <2> QED BY <2>1, LeavesOrder
<1> QED BY <1>1, <1>2, <1>3 DEF ClientCallback

LEMMA ServerPollOrder ==
  ASSUME IInv, IInv', HInv, EndStays, ServerPoll
  PROVE  HInv'
<1>1. PICK x \in DOMAIN conns :
        /\ Readable(end[conns[x]][Server])
        /\ \E m \in Waiting(conns[x], Up) :
             ServerMessage(conns[x], conns[owner[conns[x]]], m) \/ ServerPing(conns[x], conns[owner[conns[x]]], m)
  BY DEF ServerPoll
<1>2. UNCHANGED <<end, status, knows, sent>>
  BY DEF ServerPoll, clientVars
<1>3. PICK k \in Insts : k = conns[x] /\ conns[owner[k]] = k
  BY DEF IInv, Owned
<1>4. PICK m \in Waiting(k, Up) : ServerMessage(k, k, m) \/ ServerPing(k, k, m)
  BY <1>1, <1>3
<1>5. end[k][Server] # "closed" /\ pid[k] \in {Nobody, k} /\ k # Nobody
  BY <1>1, <1>3, UsersApart DEF Readable, IInv, OwnId
<1>6. CASE ServerMessage(k, k, m)
  <2>1. pid[k] = k
    BY <1>5, <1>6 DEF ServerMessage
  <2> QED BY <1>2, <1>5, <1>6, <2>1, ServerMessageOrder
<1>7. CASE ServerPing(k, k, m)
  <2>1. pid[k] = Nobody
    BY <1>7 DEF ServerPing
  <2> QED BY <1>2, <1>7, <2>1, ServerPingOrder
<1> QED BY <1>4, <1>6, <1>7

LEMMA OrderStep ==
  ASSUME IInv, IInv', Once, ClientOnce, HInv, [Next]_vars
  PROVE  HInv'
<1>0. EndStays /\ Shapes
  BY EndStep DEF HInv
<1>1. CASE ServerPoll
  BY <1>0, <1>1, ServerPollOrder
<1>2. ASSUME NEW p \in Insts, ServerSend(p, Unreliable) \/ ServerSend(p, Data(sent[p][Down] + 1)) PROVE HInv'
  <2>1. PICK packet : ServerSend(p, packet) /\ (packet = Unreliable \/ packet = Data(sent[p][Down] + 1))
    BY <1>2
  <2> QED BY <1>0, <2>1, ServerSendOrder
<1>3. ASSUME NEW k \in Insts, ClientSend(k, Unreliable) \/ ClientSend(k, Data(sent[k][Up] + 1)) PROVE HInv'
  <2>1. PICK packet : ClientSend(k, packet) /\ (packet = Unreliable \/ packet = Data(sent[k][Up] + 1))
    BY <1>3
  <2> QED BY <1>0, <2>1, ClientSendOrder
<1>4. ASSUME NEW k \in Insts, CreateLoopbackClient(k) PROVE HInv'
  BY <1>0, <1>4, LoopbackOrder
<1>5. ASSUME NEW k \in Insts, ClientCallback(k) PROVE HInv'
  BY <1>0, <1>5, ClientCallbackOrder
<1>6. ASSUME NEW k \in Insts, ClientPoll(k) PROVE HInv'
  BY <1>0, <1>6, ClientPollOrder
<1>7. ASSUME \/ ServerCallback \/ ServerRead \/ ServerGone \/ UNCHANGED vars
             \/ \E p \in Insts : ServerKick(p)
             \/ \E k \in Insts :
                  \/ \E u \in Users : CreateClient(k, u)
                  \/ ClientKick(k) \/ ClientClose(k) \/ ClientCrash(k) \/ Arrives(k)
                  \/ \E e \in Ends : Connects(k, e) \/ Breaks(k, e)
                  \/ \E d \in Dirs : Loses(k, d)
      PROVE  HInv'
  <2>1. ClosesOrLeaves
    BY <1>0, <1>7, OtherLeaves
  <2> QED BY <2>1, LeavesOrder
<1> QED BY <1>1, <1>2, <1>3, <1>4, <1>5, <1>6, <1>7, GoneCases DEF Next

LEMMA OnceInitially == Init => Once /\ ClientOnce
<1> SUFFICES ASSUME Init PROVE Once /\ ClientOnce
  OBVIOUS
<1>1. calls = <<>> /\ Range(conns) = {} /\ Len(calls) = 0 /\ \A k \in Insts : pid[k] = Nobody
  BY DEF Init, Range
<1>2. Once
  BY <1>1 DEF Once, OnlyOnce, Added, Pending
<1>3. /\ DOMAIN ccalls = Insts
      /\ \A k \in Insts : ccalls[k] = <<>> /\ end[k][Client] = "none"
  BY DEF Init, Ends
<1>4. <<>> \in Seq([ev : {"connected", "ended"}, old : EndStates])
  OBVIOUS
<1>5. ClientOnce
  <2>1. ASSUME NEW st PROVE WaitsFor(<<>>, st, "none")
    <3>1. Len(<<>>) = 0
      OBVIOUS
    <3> QED BY <1>4, <3>1 DEF WaitsFor
  <2> QED BY <1>3, <2>1 DEF ClientOnce
<1> QED BY <1>2, <1>5

\* Both ends hear reliable packets in the order in which they were sent: the
\* server a prefix of what the instance with this id has sent, a client what
\* follows the first it hears, with none left out, whatever Steam refuses, whoever
\* crashes, is kicked or comes back (_send_pending, _process_message, _process_ping).
THEOREM AlwaysHeardInOrder == Spec => []HeardInOrder
<1>1. Init => Once /\ ClientOnce /\ HInv
  BY OnceInitially, HInitially
<1>2. IInv /\ IInv' /\ [Next]_vars /\ (Once /\ ClientOnce /\ HInv) => (Once /\ ClientOnce /\ HInv)'
  BY OnceStep, ClientOnceStep, OrderStep
<1>3. Spec => [](Once /\ ClientOnce /\ HInv)
  BY <1>1, <1>2, Invariant, PTL DEF Spec
<1> QED BY <1>3, HInvImplies, PTL
==============================================================================
