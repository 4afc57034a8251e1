------------------------------ MODULE RpcProofs ------------------------------
(***************************************************************************)
(* Proofs about Rpc, for any clients, owner, configurations and number of  *)
(* calls, where handlers make no calls of a call_local method and clients  *)
(* no calls to all but one peer.                                           *)
(***************************************************************************)
EXTENDS Rpc, SequenceTheorems, TLAPS

\* The programs the theorems are about (see README.md for the others).
Program == Nesting = FALSE /\ ClientTargets \subseteq Peer \cup {0}

Entry  == [call : Nat, from : Peer]
Frame  == [call : Nat, from : Peer, remote : BOOLEAN]
Record == [from : Peer, to : Targets, seen : SUBSET Client]

Types ==
  /\ config \in Configs /\ observers \in SUBSET Client
  /\ calls \in Seq(Record) /\ Len(calls) <= MaxCalls
  /\ up \in [Client -> Seq(Nat)]
  /\ down \in [Client -> Seq(Entry)]
  /\ stack \in [Peer -> Seq(Frame)]
  /\ remote_sender \in [Peer -> Peer \cup {0}]
  /\ got \in [1 .. MaxCalls -> [Peer -> Nat]]

\* Where a call can be before everybody has run it: on its way to the server,
\* in the server's handler, on its way to a client.
Has(q, k)     == \E i \in 1 .. Len(q) : q[i] = k
HasCall(q, k) == \E i \in 1 .. Len(q) : q[i].call = k
InUp(k)       == \E c \in Client : Has(up[c], k)
Running(k)    == \E i \in 1 .. Len(stack[1]) : stack[1][i].call = k /\ stack[1][i].remote
InDown(k, c)  == c \in Client /\ HasCall(down[c], k)

Once(q)     == \A i, j \in 1 .. Len(q) : q[i] = q[j] => i = j
OnceCall(q) == \A i, j \in 1 .. Len(q) : q[i].call = q[j].call => i = j

Made == 1 .. Len(calls)

\* What a client has sent and the server has not handled is its own.
UpIsOwn ==
  \A c \in Client :
    /\ Once(up[c])
    /\ \A k \in Nat : Has(up[c], k) => k \in Made /\ calls[k].from = c /\ calls[k].to # c

\* A process is in one handler at most, under the name of who made the call.
Shallow ==
  \A p \in Peer :
    /\ Len(stack[p]) <= 1
    /\ Len(stack[p]) = 1 =>
         /\ stack[p][1].call \in Made
         /\ remote_sender[p] = calls[stack[p][1].call].from

\* The server's handler of a client's call runs it for itself, or for all.
RunningIsForServer ==
  \A k \in Nat : Running(k) =>
    k \in Made /\ calls[k].from # 1 /\ calls[k].to \in {0, 1} /\ CanRecv(1) /\ ~ InUp(k)

\* What is on its way to a client is meant for it, and nowhere else any more.
DownIsMeant ==
  \A c \in Client :
    /\ OnceCall(down[c])
    /\ \A i \in 1 .. Len(down[c]) : down[c][i].call \in Made /\ down[c][i].from = calls[down[c][i].call].from
    /\ \A k \in Nat : HasCall(down[c], k) =>
         ~ InUp(k) /\ ~ Running(k) /\ c \in Intended(k) /\ c # calls[k].from

\* Only the server calls all but one.
Positive == \A k \in Made : calls[k].from # 1 => calls[k].to \in Peer \cup {0}

\* Peer p has run call k.
Ran(k, p) ==
  IF p = calls[k].from THEN config.call_local
  ELSE /\ p \in Intended(k) /\ ~ InUp(k)
       /\ p # 1 => ~ Running(k) /\ ~ InDown(k, p)

Counted ==
  \A k \in 1 .. MaxCalls, p \in Peer : got[k][p] = IF k \in Made /\ Ran(k, p) THEN 1 ELSE 0

IInv == Types /\ UpIsOwn /\ Shallow /\ RunningIsForServer /\ DownIsMeant /\ Positive /\ Counted

------------------------------------------------------------------------------
\* The queues: what an element at the end, or the first one taken, changes.
LEMMA Appended ==
  ASSUME NEW q \in Seq(Nat), NEW e \in Nat
  PROVE  /\ \A k \in Nat : Has(Append(q, e), k) <=> Has(q, k) \/ k = e
         /\ Once(q) /\ ~ Has(q, e) => Once(Append(q, e))
<1> DEFINE r == Append(q, e)
           n == Len(q)
<1>1. n \in Nat /\ Len(r) = n + 1 /\ r[n + 1] = e /\ \A i \in 1 .. n : r[i] = q[i]
  OBVIOUS
<1> HIDE DEF r
<1>2. ASSUME NEW k \in Nat
      PROVE  Has(r, k) <=> Has(q, k) \/ k = e
  <2>1. ASSUME NEW i \in 1 .. n + 1, r[i] = k
        PROVE  Has(q, k) \/ k = e
    <3>1. CASE i = n + 1
      BY <1>1, <2>1, <3>1
    <3>2. CASE i # n + 1
      <4>1. i \in 1 .. n /\ r[i] = q[i]
        BY <1>1, <3>2
      <4> QED BY <2>1, <4>1 DEF Has
    <3> QED BY <3>1, <3>2
  <2>2. ASSUME NEW i \in 1 .. n, q[i] = k
        PROVE  Has(r, k)
    <3>1. i \in 1 .. n + 1 /\ r[i] = q[i]
      BY <1>1
    <3> QED BY <1>1, <2>2, <3>1 DEF Has
  <2>3. ASSUME k = e PROVE Has(r, k)
    <3>1. n + 1 \in 1 .. n + 1
      BY <1>1
    <3> QED BY <1>1, <2>3, <3>1 DEF Has
  <2> QED BY <1>1, <2>1, <2>2, <2>3 DEF Has
<1>3. ASSUME Once(q), ~ Has(q, e)
      PROVE  Once(r)
  <2>1. \A i \in 1 .. n : q[i] # e
    BY <1>3 DEF Has
  <2>2. ASSUME NEW i \in 1 .. n + 1, NEW j \in 1 .. n + 1, r[i] = r[j]
        PROVE  i = j
    <3>1. \A l \in 1 .. n + 1 : l = n + 1 \/ l \in 1 .. n
      BY <1>1
    <3> QED BY <1>1, <1>3, <2>1, <2>2, <3>1 DEF Once
  <2> QED BY <1>1, <2>2 DEF Once
<1> QED BY <1>2, <1>3 DEF r

LEMMA AppendedCall ==
  ASSUME NEW q \in Seq(Entry), NEW e \in Entry
  PROVE  /\ \A k \in Nat : HasCall(Append(q, e), k) <=> HasCall(q, k) \/ k = e.call
         /\ OnceCall(q) /\ ~ HasCall(q, e.call) => OnceCall(Append(q, e))
<1> DEFINE r == Append(q, e)
           n == Len(q)
<1>1. n \in Nat /\ Len(r) = n + 1 /\ r[n + 1] = e /\ \A i \in 1 .. n : r[i] = q[i]
  OBVIOUS
<1> HIDE DEF r
<1>2. ASSUME NEW k \in Nat
      PROVE  HasCall(r, k) <=> HasCall(q, k) \/ k = e.call
  <2>1. ASSUME NEW i \in 1 .. n + 1, r[i].call = k
        PROVE  HasCall(q, k) \/ k = e.call
    <3>1. CASE i = n + 1
      BY <1>1, <2>1, <3>1
    <3>2. CASE i # n + 1
      <4>1. i \in 1 .. n /\ r[i] = q[i]
        BY <1>1, <3>2
      <4> QED BY <2>1, <4>1 DEF HasCall
    <3> QED BY <3>1, <3>2
  <2>2. ASSUME NEW i \in 1 .. n, q[i].call = k
        PROVE  HasCall(r, k)
    <3>1. i \in 1 .. n + 1 /\ r[i] = q[i]
      BY <1>1
    <3> QED BY <1>1, <2>2, <3>1 DEF HasCall
  <2>3. ASSUME k = e.call PROVE HasCall(r, k)
    <3>1. n + 1 \in 1 .. n + 1
      BY <1>1
    <3> QED BY <1>1, <2>3, <3>1 DEF HasCall
  <2> QED BY <1>1, <2>1, <2>2, <2>3 DEF HasCall
<1>3. ASSUME OnceCall(q), ~ HasCall(q, e.call)
      PROVE  OnceCall(r)
  <2>1. \A i \in 1 .. n : q[i].call # e.call
    BY <1>3 DEF HasCall
  <2>2. ASSUME NEW i \in 1 .. n + 1, NEW j \in 1 .. n + 1, r[i].call = r[j].call
        PROVE  i = j
    <3>1. \A l \in 1 .. n + 1 : l = n + 1 \/ l \in 1 .. n
      BY <1>1
    <3> QED BY <1>1, <1>3, <2>1, <2>2, <3>1 DEF OnceCall
  <2> QED BY <1>1, <2>2 DEF OnceCall
<1> QED BY <1>2, <1>3 DEF r

LEMMA Taken ==
  ASSUME NEW q \in Seq(Nat), q # << >>, Once(q)
  PROVE  /\ Head(q) \in Nat /\ Has(q, Head(q)) /\ Once(Tail(q))
         /\ \A k \in Nat : Has(Tail(q), k) <=> Has(q, k) /\ k # Head(q)
<1>1. /\ Len(q) \in Nat \ {0} /\ Head(q) = q[1] /\ Len(Tail(q)) = Len(q) - 1
      /\ \A i \in 1 .. Len(q) - 1 : Tail(q)[i] = q[i + 1]
  OBVIOUS
<1>2. Once(Tail(q))
  <2>1. ASSUME NEW i \in 1 .. Len(q) - 1, NEW j \in 1 .. Len(q) - 1, q[i + 1] = q[j + 1]
        PROVE  i = j
    <3>1. i + 1 \in 1 .. Len(q) /\ j + 1 \in 1 .. Len(q)
      BY <1>1
    <3>2. i + 1 = j + 1
      BY <2>1, <3>1 DEF Once
    <3> QED BY <3>2
  <2> QED BY <1>1, <2>1 DEF Once
<1>3. ASSUME NEW k \in Nat, Has(Tail(q), k)
      PROVE  Has(q, k) /\ k # Head(q)
  <2>1. PICK i \in 1 .. Len(q) - 1 : q[i + 1] = k
    BY <1>1, <1>3 DEF Has
  <2>2. i + 1 \in 1 .. Len(q) /\ 1 \in 1 .. Len(q) /\ i + 1 # 1
    BY <1>1
  <2> QED BY <1>1, <2>1, <2>2 DEF Has, Once
<1>4. ASSUME NEW k \in Nat, Has(q, k), k # Head(q)
      PROVE  Has(Tail(q), k)
  <2>1. PICK i \in 1 .. Len(q) : q[i] = k
    BY <1>4 DEF Has
  <2>2. i # 1 /\ i - 1 \in 1 .. Len(q) - 1 /\ (i - 1) + 1 = i
    BY <1>1, <1>4, <2>1
  <2> QED BY <1>1, <2>1, <2>2 DEF Has
<1>5. Head(q) \in Nat /\ Has(q, Head(q))
  BY <1>1 DEF Has
<1> QED BY <1>2, <1>3, <1>4, <1>5

LEMMA TakenCall ==
  ASSUME NEW q \in Seq(Entry), q # << >>, OnceCall(q)
  PROVE  /\ Head(q) \in Entry /\ HasCall(q, Head(q).call) /\ OnceCall(Tail(q))
         /\ \A k \in Nat : HasCall(Tail(q), k) <=> HasCall(q, k) /\ k # Head(q).call
<1>1. /\ Len(q) \in Nat \ {0} /\ Head(q) = q[1] /\ Len(Tail(q)) = Len(q) - 1
      /\ \A i \in 1 .. Len(q) - 1 : Tail(q)[i] = q[i + 1]
  OBVIOUS
<1>2. OnceCall(Tail(q))
  <2>1. ASSUME NEW i \in 1 .. Len(q) - 1, NEW j \in 1 .. Len(q) - 1, q[i + 1].call = q[j + 1].call
        PROVE  i = j
    <3>1. i + 1 \in 1 .. Len(q) /\ j + 1 \in 1 .. Len(q)
      BY <1>1
    <3>2. i + 1 = j + 1
      BY <2>1, <3>1 DEF OnceCall
    <3> QED BY <3>2
  <2> QED BY <1>1, <2>1 DEF OnceCall
<1>3. ASSUME NEW k \in Nat, HasCall(Tail(q), k)
      PROVE  HasCall(q, k) /\ k # Head(q).call
  <2>1. PICK i \in 1 .. Len(q) - 1 : q[i + 1].call = k
    BY <1>1, <1>3 DEF HasCall
  <2>2. i + 1 \in 1 .. Len(q) /\ 1 \in 1 .. Len(q) /\ i + 1 # 1
    BY <1>1
  <2> QED BY <1>1, <2>1, <2>2 DEF HasCall, OnceCall
<1>4. ASSUME NEW k \in Nat, HasCall(q, k), k # Head(q).call
      PROVE  HasCall(Tail(q), k)
  <2>1. PICK i \in 1 .. Len(q) : q[i].call = k
    BY <1>4 DEF HasCall
  <2>2. i # 1 /\ i - 1 \in 1 .. Len(q) - 1 /\ (i - 1) + 1 = i
    BY <1>1, <1>4, <2>1
  <2> QED BY <1>1, <2>1, <2>2 DEF HasCall
<1>5. Head(q) \in Entry /\ HasCall(q, Head(q).call)
  BY <1>1 DEF HasCall
<1> QED BY <1>2, <1>3, <1>4, <1>5

------------------------------------------------------------------------------
\* What the queues to the clients hold once a call that none of them has is sent.
LEMMA SentAdds ==
  ASSUME IInv, NEW k \in Nat, NEW from \in Peer, NEW to,
         \A c \in Client : ~ HasCall(down[c], k)
  PROVE  /\ Sent(k, from, to) \in [Client -> Seq(Entry)]
         /\ \A c \in Client :
              /\ OnceCall(Sent(k, from, to)[c])
              /\ \A j \in Nat : HasCall(Sent(k, from, to)[c], j) <=>
                                  HasCall(down[c], j) \/ (j = k /\ c \in Recipients(from, to))
              /\ \A i \in 1 .. Len(Sent(k, from, to)[c]) :
                   \/ Sent(k, from, to)[c][i] = [call |-> k, from |-> from]
                   \/ \E l \in 1 .. Len(down[c]) : Sent(k, from, to)[c][i] = down[c][l]
<1> DEFINE S == Sent(k, from, to)
           e == [call |-> k, from |-> from]
<1>1. e \in Entry /\ e.call = k
  BY DEF Entry
<1>2. \A c \in Client : down[c] \in Seq(Entry) /\ OnceCall(down[c])
  BY DEF IInv, Types, DownIsMeant
<1>3. S = [c \in Client |-> IF c \in Recipients(from, to) THEN Append(down[c], e) ELSE down[c]]
  BY DEF Sent
<1> HIDE DEF S, e
<1>4. ASSUME NEW c \in Client
      PROVE  /\ S[c] \in Seq(Entry) /\ OnceCall(S[c])
             /\ \A j \in Nat : HasCall(S[c], j) <=>
                                 HasCall(down[c], j) \/ (j = k /\ c \in Recipients(from, to))
             /\ \A i \in 1 .. Len(S[c]) :
                  S[c][i] = e \/ \E l \in 1 .. Len(down[c]) : S[c][i] = down[c][l]
  <2>1. CASE c \notin Recipients(from, to)
    BY <1>2, <1>3, <2>1
  <2>2. CASE c \in Recipients(from, to)
    <3>1. S[c] = Append(down[c], e)
      BY <1>3, <2>2
    <3>2. \A i \in 1 .. Len(Append(down[c], e)) :
            Append(down[c], e)[i] = e \/ (i \in 1 .. Len(down[c]) /\ Append(down[c], e)[i] = down[c][i])
      BY <1>1, <1>2
    <3>3. Append(down[c], e) \in Seq(Entry)
      BY <1>1, <1>2
    <3> QED BY <1>1, <1>2, <2>2, <3>1, <3>2, <3>3, AppendedCall
  <2> QED BY <2>1, <2>2
<1> QED BY <1>3, <1>4 DEF S, e

\* A call that stays as it is stays meant for the same peers.
LEMMA IntendedSame ==
  ASSUME config' = config, NEW j, calls'[j] = calls[j]
  PROVE  Intended(j)' = Intended(j)
BY DEF Intended, CanRecv, RoleOf

LEMMA SeenSet ==
  ASSUME Types, NEW x \in Made
  PROVE  LET C == [calls EXCEPT ![x].seen = observers]
         IN /\ C \in Seq(Record) /\ Len(C) = Len(calls)
            /\ \A j \in Made : /\ C[j].from = calls[j].from /\ C[j].to = calls[j].to
                             /\ j # x => C[j] = calls[j]
                             /\ C[j].seen = IF j = x THEN observers ELSE calls[j].seen
<1> DEFINE e == [calls[x] EXCEPT !.seen = observers]
           C == [calls EXCEPT ![x] = e]
<1>1. calls \in Seq(Record) /\ x \in 1 .. Len(calls) /\ calls[x] \in Record
  BY DEF Types, Made
<1>2. e \in Record /\ e.from = calls[x].from /\ e.to = calls[x].to /\ e.seen = observers
  BY <1>1 DEF Types, Record
<1> HIDE DEF e
<1>3. C \in Seq(Record) /\ Len(C) = Len(calls) /\ \A j \in Made : C[j] = IF j = x THEN e ELSE calls[j]
  BY <1>1, <1>2, ExceptSeq DEF Made
<1> QED BY <1>2, <1>3 DEF e

LEMMA InitHolds ==
  ASSUME Init
  PROVE  IInv
<1>1. Types
  BY BoundAssumption DEF Init, Types, Entry, Frame, Record, Peer
<1>2. Made = {} /\ \A k : ~ InUp(k) /\ ~ Running(k)
  BY DEF Init, Made, InUp, Has, Running, Peer
<1>3. \A c \in Client : \A k : ~ Has(up[c], k) /\ ~ HasCall(down[c], k) /\ Once(up[c]) /\ OnceCall(down[c])
  BY DEF Init, Has, HasCall, Once, OnceCall
<1>4. UpIsOwn /\ RunningIsForServer /\ Positive
  BY <1>2, <1>3 DEF UpIsOwn, RunningIsForServer, Positive
<1>5. DownIsMeant
  BY <1>3 DEF DownIsMeant, Init
<1>6. Shallow /\ Counted
  BY <1>2 DEF Init, Shallow, Counted
<1> QED BY <1>1, <1>4, <1>5, <1>6 DEF IInv

LEMMA SameKeeps ==
  ASSUME IInv, UNCHANGED <<config, calls, up, down, stack, remote_sender, got>>,
         observers' \in SUBSET Client
  PROVE  IInv'
<1>1. /\ Made' = Made /\ \A k : /\ Intended(k)' = Intended(k) /\ InUp(k)' = InUp(k)
                               /\ Running(k)' = Running(k) /\ \A p : InDown(k, p)' = InDown(k, p)
  BY IntendedSame DEF Made, InUp, Running, InDown
<1>2. \A k, p : Ran(k, p)' = Ran(k, p)
  BY <1>1 DEF Ran
<1>3. Types'
  BY DEF IInv, Types
<1>4. UpIsOwn'
  BY <1>1 DEF IInv, UpIsOwn
<1>5. Shallow'
  BY <1>1 DEF IInv, Shallow
<1>6. RunningIsForServer'
  BY <1>1 DEF IInv, RunningIsForServer, CanRecv, RoleOf
<1>7. DownIsMeant'
  BY <1>1 DEF IInv, DownIsMeant
<1>8. Positive'
  BY <1>1 DEF IInv, Positive
<1>9. Counted'
  BY <1>1, <1>2 DEF IInv, Counted
<1> QED BY <1>3, <1>4, <1>5, <1>6, <1>7, <1>8, <1>9 DEF IInv

LEMMA ObserveKeeps ==
  ASSUME IInv, NEW c \in Client, Observe(c)
  PROVE  IInv'
<1>1. UNCHANGED <<config, calls, up, down, stack, remote_sender, got>> /\ observers' \in SUBSET Client
  BY DEF Observe, IInv, Types
<1> QED BY <1>1, SameKeeps

\* A handler begins in a process that is in none.
LEMMA BegunIs ==
  ASSUME IInv, NEW p \in Peer, NEW k \in 1 .. MaxCalls, NEW from \in Peer, NEW remote \in BOOLEAN,
         stack[p] = << >>, Begun(p, k, from, remote)
  PROVE  /\ stack' \in [Peer -> Seq(Frame)] /\ remote_sender' \in [Peer -> Peer \cup {0}]
         /\ got' \in [1 .. MaxCalls -> [Peer -> Nat]]
         /\ stack'[p] = <<[call |-> k, from |-> from, remote |-> remote]>> /\ remote_sender'[p] = from
         /\ \A q \in Peer \ {p} : stack'[q] = stack[q] /\ remote_sender'[q] = remote_sender[q]
         /\ \A j \in 1 .. MaxCalls, q \in Peer :
              got'[j][q] = IF j = k /\ q = p THEN got[j][q] + 1 ELSE got[j][q]
<1> DEFINE f == [call |-> k, from |-> from, remote |-> remote]
<1>1. f \in Frame
  BY BoundAssumption DEF Frame
<1>2. stack' = [stack EXCEPT ![p] = <<f>>]
  BY DEF Begun
<1>3. <<f>> \in Seq(Frame)
  BY <1>1
<1> HIDE DEF f
<1>4. stack' \in [Peer -> Seq(Frame)] /\ stack'[p] = <<f>> /\ \A q \in Peer \ {p} : stack'[q] = stack[q]
  BY <1>2, <1>3 DEF IInv, Types
<1>5. /\ remote_sender' \in [Peer -> Peer \cup {0}] /\ remote_sender'[p] = from
      /\ \A q \in Peer \ {p} : remote_sender'[q] = remote_sender[q]
  BY DEF Begun, IInv, Types
<1>6. /\ got' \in [1 .. MaxCalls -> [Peer -> Nat]]
      /\ \A j \in 1 .. MaxCalls, q \in Peer :
           got'[j][q] = IF j = k /\ q = p THEN got[j][q] + 1 ELSE got[j][q]
  <2>1. got \in [1 .. MaxCalls -> [Peer -> Nat]] /\ got' = [got EXCEPT ![k][p] = @ + 1]
    BY DEF Begun, IInv, Types
  <2>2. got[k] \in [Peer -> Nat] /\ got[k][p] + 1 \in Nat
    BY <2>1
  <2>3. [got[k] EXCEPT ![p] = @ + 1] \in [Peer -> Nat]
    BY <2>2
  <2> QED BY <2>1, <2>2, <2>3
<1> QED BY <1>4, <1>5, <1>6 DEF f

LEMMA InboundClientKeeps ==
  ASSUME IInv, NEW c \in Client, InboundClient(c)
  PROVE  IInv'
<1> DEFINE h == Head(down[c])
           k == h.call
<1>1. c \in Peer /\ c # 1 /\ 1 \in Peer
  BY PeerAssumption DEF Peer
<1>2. /\ down[c] \in Seq(Entry) /\ down[c] # << >> /\ OnceCall(down[c])
      /\ down' = [down EXCEPT ![c] = Tail(@)] /\ stack[c] = << >>
      /\ UNCHANGED <<config, observers, calls, up>>
      /\ Begun(c, k, h.from, TRUE)
  BY DEF InboundClient, IInv, Types, DownIsMeant
<1>3. /\ h \in Entry /\ HasCall(down[c], k) /\ OnceCall(Tail(down[c]))
      /\ \A j \in Nat : HasCall(Tail(down[c]), j) <=> HasCall(down[c], j) /\ j # k
  BY <1>2, TakenCall
<1>4. /\ h = down[c][1] /\ Len(down[c]) \in Nat \ {0} /\ Tail(down[c]) \in Seq(Entry)
      /\ Len(Tail(down[c])) = Len(down[c]) - 1
      /\ \A i \in 1 .. Len(down[c]) - 1 : Tail(down[c])[i] = down[c][i + 1]
  BY <1>2
<1>5. /\ k \in Made /\ h.from = calls[k].from /\ k \in Nat /\ h.from \in Peer
      /\ ~ InUp(k) /\ ~ Running(k) /\ c \in Intended(k) /\ c # calls[k].from
  <2>1. 1 \in 1 .. Len(down[c]) /\ k \in Nat /\ h.from \in Peer
    BY <1>3, <1>4 DEF Entry
  <2> QED BY <1>3, <1>4, <2>1 DEF IInv, DownIsMeant
<1>6. k \in 1 .. MaxCalls
  BY <1>5, BoundAssumption DEF IInv, Types, Made
<1> HIDE DEF h, k
<1>7. /\ stack' \in [Peer -> Seq(Frame)] /\ remote_sender' \in [Peer -> Peer \cup {0}]
      /\ got' \in [1 .. MaxCalls -> [Peer -> Nat]]
      /\ stack'[c] = <<[call |-> k, from |-> h.from, remote |-> TRUE]>> /\ remote_sender'[c] = h.from
      /\ \A q \in Peer \ {c} : stack'[q] = stack[q] /\ remote_sender'[q] = remote_sender[q]
      /\ \A j \in 1 .. MaxCalls, q \in Peer :
           got'[j][q] = IF j = k /\ q = c THEN got[j][q] + 1 ELSE got[j][q]
  BY <1>1, <1>2, <1>5, <1>6, BegunIs
<1>8. /\ down' \in [Client -> Seq(Entry)] /\ down'[c] = Tail(down[c])
      /\ \A d \in Client \ {c} : down'[d] = down[d]
  BY <1>2, <1>4 DEF IInv, Types
<1>9. /\ Made' = Made /\ \A j : Intended(j)' = Intended(j) /\ InUp(j)' = InUp(j) /\ Running(j)' = Running(j)
  BY <1>1, <1>2, <1>7, IntendedSame DEF Made, InUp, Running
<1>10. \A j \in Nat, d \in Client : HasCall(down'[d], j) <=> HasCall(down[d], j) /\ ~(j = k /\ d = c)
  BY <1>3, <1>8
<1>11. Types'
  BY <1>2, <1>7, <1>8 DEF IInv, Types
<1>12. UpIsOwn' /\ RunningIsForServer' /\ Positive'
  BY <1>2, <1>9 DEF IInv, UpIsOwn, RunningIsForServer, Positive, CanRecv, RoleOf
<1>13. Shallow'
  <2>1. Len(stack'[c]) = 1 /\ stack'[c][1].call = k
    BY <1>7
  <2>2. remote_sender'[c] = calls[stack'[c][1].call].from
    BY <1>5, <1>7, <2>1
  <2>3. \A p \in Peer \ {c} :
          /\ Len(stack'[p]) <= 1
          /\ Len(stack'[p]) = 1 =>
               stack'[p][1].call \in Made /\ remote_sender'[p] = calls[stack'[p][1].call].from
    BY <1>7 DEF IInv, Shallow
  <2>4. calls' = calls /\ Made' = Made /\ stack'[c][1].call \in Made /\ Len(stack'[c]) <= 1
    BY <1>2, <1>5, <1>9, <2>1
  <2>5. \A p \in Peer : p = c \/ p \in Peer \ {c}
    OBVIOUS
  <2> QED BY <2>2, <2>3, <2>4, <2>5, Zenon DEF Shallow
<1>14. DownIsMeant'
  <2>1. ASSUME NEW d \in Client
        PROVE  /\ OnceCall(down'[d])
               /\ \A i \in 1 .. Len(down'[d]) :
                    down'[d][i].call \in Made /\ down'[d][i].from = calls[down'[d][i].call].from
    <3>1. CASE d = c
      <4>1. \A i \in 1 .. Len(Tail(down[c])) :
              i + 1 \in 1 .. Len(down[c]) /\ Tail(down[c])[i] = down[c][i + 1]
        BY <1>4
      <4>2. \A i \in 1 .. Len(down[c]) :
              down[c][i].call \in Made /\ down[c][i].from = calls[down[c][i].call].from
        BY DEF IInv, DownIsMeant
      <4>3. \A i \in 1 .. Len(Tail(down[c])) :
              /\ Tail(down[c])[i].call \in Made
              /\ Tail(down[c])[i].from = calls[Tail(down[c])[i].call].from
        BY <4>1, <4>2
      <4> QED BY <1>3, <1>8, <3>1, <4>3
    <3>2. CASE d # c
      BY <1>8, <3>2 DEF IInv, DownIsMeant
    <3> QED BY <3>1, <3>2
  <2> QED BY <1>2, <1>9, <1>10, <2>1 DEF IInv, DownIsMeant
<1>15. Counted'
  <2>1. ASSUME NEW j \in 1 .. MaxCalls, NEW p \in Peer
        PROVE  got'[j][p] = IF j \in Made /\ Ran(j, p)' THEN 1 ELSE 0
    <3>1. j \in Nat /\ got[j][p] = IF j \in Made /\ Ran(j, p) THEN 1 ELSE 0
      BY BoundAssumption DEF IInv, Counted
    <3>2. CASE j = k /\ p = c
      <4>1. ~ Ran(j, p)
        BY <1>1, <1>3, <1>5, <3>2 DEF Ran, InDown
      <4>2. Ran(j, p)'
        BY <1>1, <1>2, <1>5, <1>9, <1>10, <3>1, <3>2 DEF Ran, InDown
      <4> QED BY <1>5, <1>7, <3>1, <3>2, <4>1, <4>2
    <3>3. CASE ~(j = k /\ p = c)
      <4>1. Ran(j, p)' = Ran(j, p)
        BY <1>2, <1>9, <1>10, <3>1, <3>3 DEF Ran, InDown
      <4> QED BY <1>7, <3>1, <3>3, <4>1
    <3> QED BY <3>2, <3>3
  <2> QED BY <1>9, <2>1 DEF Counted
<1> QED BY <1>11, <1>12, <1>13, <1>14, <1>15 DEF IInv

\* A handler's return empties the stack of its process.
LEMMA ReturnIs ==
  ASSUME IInv, NEW p \in Peer, Return(p)
  PROVE  /\ Len(stack[p]) = 1 /\ Last(stack[p]) = stack[p][1] /\ stack[p][1] \in Frame
         /\ stack' \in [Peer -> Seq(Frame)] /\ stack'[p] = << >>
         /\ remote_sender' \in [Peer -> Peer \cup {0}]
         /\ \A q \in Peer \ {p} : stack'[q] = stack[q] /\ remote_sender'[q] = remote_sender[q]
<1>1. stack \in [Peer -> Seq(Frame)] /\ stack[p] \in Seq(Frame) /\ stack[p] # << >> /\ Len(stack[p]) <= 1
  BY DEF Return, IInv, Types, Shallow
<1>2. Len(stack[p]) = 1
  <2> DEFINE n == Len(stack[p])
  <2>1. n \in Nat \ {0} /\ n <= 1
    BY <1>1, EmptySeq
  <2> HIDE DEF n
  <2>2. n = 1
    BY <2>1
  <2> QED BY <2>2 DEF n
<1>3. Front(stack[p]) = << >> /\ Last(stack[p]) = stack[p][1] /\ stack[p][1] \in Frame
  BY <1>1, <1>2 DEF Front, Last
<1>4. stack' = [stack EXCEPT ![p] = << >>] /\ remote_sender' = [remote_sender EXCEPT ![p] = 0]
  BY <1>3 DEF Return
<1> QED BY <1>1, <1>2, <1>3, <1>4 DEF IInv, Types

\* A handler that was called locally, or at a client, returns.
LEMMA ReturnsOnly ==
  ASSUME IInv, NEW p \in Peer, Return(p), ~ (p = 1 /\ Last(stack[p]).remote)
  PROVE  IInv'
<1>1. UNCHANGED <<config, observers, calls, up, down, got>>
  BY DEF Return
<1>2. /\ Len(stack[p]) = 1 /\ stack' \in [Peer -> Seq(Frame)] /\ stack'[p] = << >>
      /\ remote_sender' \in [Peer -> Peer \cup {0}] /\ Last(stack[p]) = stack[p][1]
      /\ \A q \in Peer \ {p} : stack'[q] = stack[q] /\ remote_sender'[q] = remote_sender[q]
  BY ReturnIs
<1>3. \A j : Running(j)' <=> Running(j)
  <2>1. CASE p = 1
    <3>1. Len(stack'[1]) = 0 /\ ~ stack[1][1].remote /\ Len(stack[1]) = 1
      BY <1>2, <2>1
    <3> QED BY <3>1 DEF Running
  <2>2. CASE p # 1
    BY <1>2, <2>2 DEF Running, Peer
  <2> QED BY <2>1, <2>2
<1>4. Made' = Made /\ \A j : Intended(j)' = Intended(j) /\ InUp(j)' = InUp(j) /\ \A q : InDown(j, q)' = InDown(j, q)
  BY <1>1, IntendedSame DEF Made, InUp, InDown
<1>5. Types' /\ UpIsOwn' /\ RunningIsForServer' /\ Positive'
  BY <1>1, <1>2, <1>3, <1>4 DEF IInv, Types, UpIsOwn, RunningIsForServer, Positive, CanRecv, RoleOf
<1>6. Shallow'
  <2>1. Len(stack'[p]) = 0
    BY <1>2
  <2>2. \A q \in Peer : q = p \/ (stack'[q] = stack[q] /\ remote_sender'[q] = remote_sender[q])
    BY <1>2
  <2> QED BY <1>1, <1>4, <2>1, <2>2 DEF IInv, Shallow
<1>7. DownIsMeant'
  BY <1>1, <1>3, <1>4 DEF IInv, DownIsMeant
<1>8. \A j, q : Ran(j, q)' <=> Ran(j, q)
  BY <1>1, <1>3, <1>4 DEF Ran
<1>9. Counted'
  BY <1>1, <1>4, <1>8 DEF IInv, Counted
<1> QED BY <1>5, <1>6, <1>7, <1>9 DEF IInv

LEMMA PeersAreNumbers == 1 \in Peer /\ \A t \in Peer \cup {0} : t \in Nat
BY PeerAssumption DEF Peer

\* The targets of clients keep their meaning on the wire.
LEMMA WiredIs ==
  ASSUME NEW to \in Peer \cup {0}
  PROVE  Wired(to) = to
<1>1. to \in Nat /\ Wrap \in Nat /\ to < Wrap
  <2>1. 1 \in Peer /\ 2 * 1 < Wrap /\ Wrap \in Nat
    BY WrapAssumption DEF Peer
  <2>2. CASE to \in Peer
    <3>1. to \in Nat /\ 2 * to < Wrap
      BY <2>2, WrapAssumption, PeerAssumption DEF Peer
    <3> QED BY <2>1, <3>1
  <2> QED BY <2>1, <2>2
<1> QED BY <1>1 DEF Wired

\* Whom a call is for, from its record, and whom a client's is for.
For(r, p) ==
  IF p = r.from THEN config.call_local
  ELSE /\ r.to = 0 \/ r.to = p \/ (r.to < 0 /\ r.to # -p)
       /\ CanRecv(p) /\ (p = 1 \/ p \in r.seen)
       /\ r.to > 1 => r.from = 1 \/ r.from \in r.seen

LEMMA IntendedIs ==
  ASSUME NEW k, NEW p \in Peer, calls[k].from \in Peer
  PROVE  p \in Intended(k) <=> For(calls[k], p)
BY DEF Intended, For

LEMMA IntendedNext ==
  ASSUME NEW k, NEW p \in Peer, calls'[k].from \in Peer, config' = config
  PROVE  p \in Intended(k)' <=> For(calls'[k], p)
<1>1. \A q : CanRecv(q)' <=> CanRecv(q)
  BY DEF CanRecv, RoleOf
<1> QED BY <1>1 DEF Intended, For

LEMMA ForOthers ==
  ASSUME NEW r, NEW p \in Peer, p # r.from, r.from # 1, r.to \in Peer \cup {0}
  PROVE  For(r, p) <=> /\ r.to = 0 \/ r.to = p
                       /\ CanRecv(p) /\ (p = 1 \/ p \in r.seen)
                       /\ r.to > 1 => r.from \in r.seen
<1>1. r.to \in Nat
  BY PeersAreNumbers
<1> QED BY <1>1 DEF For

\* Who is sent a client's call by the server.
Others(k) ==
  {c \in Client : /\ c # calls[k].from
                  /\ calls[k].to = 0 \/ calls[k].to = c
                  /\ CanRecv(c) /\ c \in observers}

LEMMA ForwardedIs ==
  ASSUME IInv, NEW k \in Made, calls[k].from # 1, \A c \in Client : ~ HasCall(down[c], k)
  PROVE  /\ Forwarded(k) \in [Client -> Seq(Entry)]
         /\ \A c \in Client :
              /\ OnceCall(Forwarded(k)[c])
              /\ \A j \in Nat : HasCall(Forwarded(k)[c], j) <=>
                                  HasCall(down[c], j) \/ (j = k /\ c \in Others(k))
              /\ \A i \in 1 .. Len(Forwarded(k)[c]) :
                   \/ Forwarded(k)[c][i] = [call |-> k, from |-> calls[k].from]
                   \/ \E l \in 1 .. Len(down[c]) : Forwarded(k)[c][i] = down[c][l]
<1>1. /\ calls[k].to \in Peer \cup {0} /\ calls[k].from \in Peer /\ calls[k].to \in Nat
      /\ Wired(calls[k].to) = calls[k].to /\ k \in Nat
  <2>1. calls[k].to \in Peer \cup {0} /\ k \in Nat /\ calls[k] \in Record
    BY DEF IInv, Positive, Made, Types
  <2>2. calls[k].from \in Peer
    BY <2>1 DEF Record
  <2>3. calls[k].to \in Nat
    BY <2>1, PeersAreNumbers
  <2>4. Wired(calls[k].to) = calls[k].to
    BY <2>1, WiredIs
  <2> QED BY <2>1, <2>2, <2>3, <2>4
<1>2. CASE calls[k].to = 1
  <2>1. Forwarded(k) = down
    BY <1>1, <1>2 DEF Forwarded
  <2>2. Others(k) = {}
    BY <1>2, PeerAssumption DEF Others
  <2> QED BY <2>1, <2>2 DEF IInv, Types, DownIsMeant
<1>3. CASE calls[k].to # 1
  <2>1. Forwarded(k) = Sent(k, calls[k].from, calls[k].to)
    BY <1>1, <1>3 DEF Forwarded
  <2>2. Recipients(calls[k].from, calls[k].to) = Others(k)
    BY <1>1 DEF Recipients, Others
  <2> QED BY <1>1, <2>1, <2>2, SentAdds
<1> QED BY <1>2, <1>3

\* The server's handler of a client's call returns: the call is sent on to the
\* others it is for.
LEMMA ReturnSends ==
  ASSUME IInv, Return(1), Last(stack[1]).remote,
         NEW k, k = stack[1][1].call, NEW f, f = calls[k].from
  PROVE  IInv'
<1>1. /\ Len(stack[1]) = 1 /\ stack' \in [Peer -> Seq(Frame)] /\ stack'[1] = << >>
      /\ remote_sender' \in [Peer -> Peer \cup {0}] /\ Last(stack[1]) = stack[1][1]
      /\ \A q \in Peer \ {1} : stack'[q] = stack[q] /\ remote_sender'[q] = remote_sender[q]
      /\ stack[1][1] \in Frame
  BY ReturnIs, PeersAreNumbers
<1>2. /\ UNCHANGED <<config, observers, up, got>> /\ down' = Forwarded(k)
      /\ calls' = [calls EXCEPT ![k].seen = observers]
  BY <1>1 DEF Return
<1>3. /\ k \in Nat /\ k \in Made /\ f # 1 /\ calls[k].to \in {0, 1} /\ CanRecv(1) /\ ~ InUp(k) /\ Running(k)
      /\ \A j : Running(j) <=> j = k
  <2>1. \A j : Running(j) <=> j = k
    BY <1>1 DEF Running
  <2>2. k \in Nat
    BY <1>1 DEF Frame
  <2> QED BY <2>1, <2>2 DEF IInv, RunningIsForServer
<1>4. \A c \in Client : ~ HasCall(down[c], k)
  BY <1>3 DEF IInv, DownIsMeant
<1>5. /\ down' \in [Client -> Seq(Entry)]
      /\ \A c \in Client :
              /\ OnceCall(down'[c])
              /\ \A j \in Nat : HasCall(down'[c], j) <=> HasCall(down[c], j) \/ (j = k /\ c \in Others(k))
              /\ \A i \in 1 .. Len(down'[c]) :
                   \/ down'[c][i] = [call |-> k, from |-> f]
                   \/ \E l \in 1 .. Len(down[c]) : down'[c][i] = down[c][l]
  BY <1>2, <1>3, <1>4, ForwardedIs
<1>6. /\ calls' \in Seq(Record) /\ Len(calls') = Len(calls) /\ Made' = Made
      /\ \A j \in Made : /\ calls'[j].from = calls[j].from /\ calls'[j].to = calls[j].to
                         /\ j # k => calls'[j] = calls[j]
                         /\ calls'[j].seen = IF j = k THEN observers ELSE calls[j].seen
  BY <1>2, <1>3, SeenSet DEF IInv, Made
<1>7. \A j : (~ Running(j))' /\ InUp(j)' = InUp(j)
  BY <1>1, <1>2 DEF Running, InUp
<1>8. \A j \in Made \ {k} : Intended(j)' = Intended(j)
  BY <1>2, <1>6, IntendedSame
<1>9. /\ \A c \in Client \ {f} : c \in Intended(k)' <=> c \in Others(k)
      /\ 1 \in Intended(k) /\ 1 \in Intended(k)'
  <2>1. /\ calls'[k].from = f /\ calls'[k].to \in {0, 1} /\ calls'[k].to = calls[k].to /\ calls'[k].seen = observers
        /\ f \in Peer
    <3>1. calls[k] \in Record
      BY <1>3 DEF IInv, Types, Made
    <3>2. f \in Peer
      BY <3>1 DEF Record
    <3> QED BY <1>3, <1>6, <3>2
  <2>2. calls'[k].to \in Peer \cup {0} /\ ~ calls'[k].to > 1
    BY <2>1, PeersAreNumbers
  <2>3. \A c \in Client : c \in Peer /\ c # 1
    BY PeerAssumption DEF Peer
  <2>4. \A p \in Peer \ {f} : For(calls'[k], p) <=>
          (calls'[k].to = 0 \/ calls'[k].to = p) /\ CanRecv(p) /\ (p = 1 \/ p \in observers)
    BY <1>3, <2>1, <2>2, ForOthers
  <2>5. \A p \in Peer : p \in Intended(k)' <=> For(calls'[k], p)
    BY <1>2, <2>1, IntendedNext
  <2>6. 1 \in Intended(k)
    BY <1>3, <2>1, <2>2, PeersAreNumbers, ForOthers, IntendedIs
  <2> QED BY <1>3, <2>1, <2>3, <2>4, <2>5, <2>6, PeersAreNumbers DEF Others
<1>11. Types'
  BY <1>1, <1>2, <1>5, <1>6 DEF IInv, Types
<1>12. UpIsOwn'
  BY <1>2, <1>6 DEF IInv, UpIsOwn
<1>13. RunningIsForServer'
  BY <1>7 DEF RunningIsForServer
<1>14. Positive'
  BY <1>6 DEF IInv, Positive
<1>15. Shallow'
  <2>1. Len(stack'[1]) = 0
    BY <1>1
  <2>2. \A q \in Peer : q = 1 \/ (stack'[q] = stack[q] /\ remote_sender'[q] = remote_sender[q])
    BY <1>1
  <2> QED BY <1>6, <2>1, <2>2 DEF IInv, Shallow
<1>16. DownIsMeant'
  <2>1. ASSUME NEW c \in Client, NEW i \in 1 .. Len(down'[c])
        PROVE  down'[c][i].call \in Made /\ down'[c][i].from = calls'[down'[c][i].call].from
    <3>1. CASE down'[c][i] = [call |-> k, from |-> f]
      BY <1>3, <1>6, <3>1
    <3>2. ASSUME NEW l \in 1 .. Len(down[c]), down'[c][i] = down[c][l]
          PROVE  down'[c][i].call \in Made /\ down'[c][i].from = calls'[down'[c][i].call].from
      BY <1>6, <3>2 DEF IInv, DownIsMeant
    <3> QED BY <1>5, <3>1, <3>2
  <2>2. ASSUME NEW c \in Client, NEW j \in Nat, HasCall(down'[c], j)
        PROVE  ~ InUp(j)' /\ ~ Running(j)' /\ c \in Intended(j)' /\ c # calls'[j].from
    <3>1. CASE j = k
      <4>1. c \in Others(k) /\ c \in Client \ {f}
        BY <1>4, <1>5, <2>2, <3>1 DEF Others
      <4> QED BY <1>3, <1>6, <1>7, <1>9, <3>1, <4>1
    <3>2. CASE j # k
      <4>1. HasCall(down[c], j)
        BY <1>5, <2>2, <3>2
      <4>2. j \in Made
        BY <4>1 DEF IInv, DownIsMeant, HasCall
      <4> QED BY <1>6, <1>7, <1>8, <3>2, <4>1, <4>2 DEF IInv, DownIsMeant
    <3> QED BY <3>1, <3>2
  <2> QED BY <1>5, <1>6, <2>1, <2>2 DEF DownIsMeant
<1>17. Counted'
  <2>1. ASSUME NEW j \in Made, NEW p \in Peer
        PROVE  Ran(j, p)' <=> Ran(j, p)
    <3>1. j \in Nat /\ (p # 1 => p \in Client) /\ calls'[j].from = calls[j].from
      BY <1>6 DEF Made, Peer
    <3>2. CASE p = calls[j].from
      BY <1>2, <3>1, <3>2 DEF Ran
    <3>3. CASE p # calls[j].from /\ j # k
      <4>1. ~ Running(j) /\ ~ Running(j)' /\ Intended(j)' = Intended(j) /\ InUp(j)' = InUp(j)
        BY <1>3, <1>7, <1>8, <3>3
      <4>2. p # 1 => InDown(j, p)' = InDown(j, p)
        BY <1>5, <3>1, <3>3 DEF InDown
      <4> QED BY <3>1, <3>3, <4>1, <4>2 DEF Ran
    <3>4. CASE p # f /\ j = k /\ p = 1
      BY <1>3, <1>7, <1>9, <3>1, <3>4 DEF Ran
    <3>5. CASE p # f /\ j = k /\ p # 1
      <4>1. InDown(k, p)' <=> p \in Others(k)
        BY <1>3, <1>4, <1>5, <3>1, <3>5 DEF InDown
      <4>2. p \in Intended(k)' <=> p \in Others(k)
        BY <1>9, <3>1, <3>5
      <4> QED BY <1>3, <3>1, <3>5, <4>1, <4>2 DEF Ran
    <3> QED BY <3>2, <3>3, <3>4, <3>5
  <2> QED BY <1>2, <1>6, <2>1 DEF IInv, Counted
<1> QED BY <1>11, <1>12, <1>13, <1>14, <1>15, <1>16, <1>17 DEF IInv

\* The server takes a client's call from its queue: what all three ways have in
\* common.
LEMMA ReceivedIs ==
  ASSUME IInv, NEW c \in Client, Received(c), NEW k, k = Head(up[c])
  PROVE  /\ k \in Nat /\ k \in Made /\ calls[k].from = c /\ calls[k].to # c /\ InUp(k) /\ ~ Running(k)
         /\ calls[k].to \in Peer \cup {0} /\ Wired(calls[k].to) = calls[k].to
         /\ c \in Peer /\ c # 1 /\ \A d \in Client : ~ HasCall(down[d], k)
         /\ up' \in [Client -> Seq(Nat)] /\ calls' \in Seq(Record) /\ Len(calls') = Len(calls) /\ Made' = Made
         /\ \A j \in Made : /\ calls'[j].from = calls[j].from /\ calls'[j].to = calls[j].to
                            /\ j # k => calls'[j] = calls[j] /\ Intended(j)' = Intended(j)
                            /\ calls'[j].seen = IF j = k THEN observers ELSE calls[j].seen
         /\ \A j \in Nat : InUp(j)' <=> InUp(j) /\ j # k
         /\ UpIsOwn' /\ Positive'
         /\ \A p \in Peer \ {c} :
              p \in Intended(k)' <=> /\ calls[k].to = 0 \/ calls[k].to = p
                                     /\ CanRecv(p) /\ (p = 1 \/ p \in observers)
                                     /\ calls[k].to > 1 => c \in observers
<1>1. /\ up[c] \in Seq(Nat) /\ up[c] # << >> /\ Once(up[c])
      /\ up' = [up EXCEPT ![c] = Tail(@)] /\ calls' = [calls EXCEPT ![k].seen = observers]
      /\ UNCHANGED <<config, observers>>
  BY DEF Received, IInv, Types, UpIsOwn
<1>2. /\ k \in Nat /\ Has(up[c], k) /\ Once(Tail(up[c])) /\ Tail(up[c]) \in Seq(Nat)
      /\ \A j \in Nat : Has(Tail(up[c]), j) <=> Has(up[c], j) /\ j # k
  BY <1>1, Taken
<1>3. k \in Made /\ calls[k].from = c /\ calls[k].to # c /\ InUp(k) /\ ~ Running(k)
  BY <1>2 DEF IInv, UpIsOwn, InUp, RunningIsForServer
<1>4. c \in Peer /\ c # 1
  BY PeerAssumption DEF Peer
<1>5. calls[k].to \in Peer \cup {0} /\ Wired(calls[k].to) = calls[k].to
  BY <1>3, <1>4, WiredIs DEF IInv, Positive
<1>6. \A d \in Client : ~ HasCall(down[d], k)
  BY <1>2, <1>3 DEF IInv, DownIsMeant
<1>7. /\ up' \in [Client -> Seq(Nat)] /\ up'[c] = Tail(up[c])
      /\ \A d \in Client \ {c} : up'[d] = up[d]
  BY <1>1, <1>2 DEF IInv, Types
<1>8. /\ calls' \in Seq(Record) /\ Len(calls') = Len(calls) /\ Made' = Made
      /\ \A j \in Made : /\ calls'[j].from = calls[j].from /\ calls'[j].to = calls[j].to
                         /\ j # k => calls'[j] = calls[j]
                         /\ calls'[j].seen = IF j = k THEN observers ELSE calls[j].seen
  BY <1>1, <1>3, SeenSet DEF IInv, Made
<1>9. \A j \in Made : j # k => Intended(j)' = Intended(j)
  BY <1>1, <1>8, IntendedSame
<1>10. \A d \in Client, j \in Nat : Has(up'[d], j) <=> Has(up[d], j) /\ j # k
  <2>1. \A d \in Client \ {c} : ~ Has(up[d], k)
    BY <1>2, <1>3 DEF IInv, UpIsOwn
  <2> QED BY <1>2, <1>7, <2>1
<1>11. \A j \in Nat : InUp(j)' <=> InUp(j) /\ j # k
  BY <1>10 DEF InUp
<1>12. UpIsOwn'
  <2>1. \A d \in Client : Once(up'[d])
    BY <1>2, <1>7 DEF IInv, UpIsOwn
  <2> QED BY <1>8, <1>10, <2>1 DEF IInv, UpIsOwn
<1>13. Positive'
  BY <1>8 DEF IInv, Positive
<1>14. \A p \in Peer \ {c} :
         p \in Intended(k)' <=> /\ calls[k].to = 0 \/ calls[k].to = p
                                /\ CanRecv(p) /\ (p = 1 \/ p \in observers)
                                /\ calls[k].to > 1 => c \in observers
  <2>1. calls'[k].from = c /\ calls'[k].to = calls[k].to /\ calls'[k].seen = observers
    BY <1>3, <1>8
  <2>2. \A p \in Peer : p \in Intended(k)' <=> For(calls'[k], p)
    BY <1>1, <1>4, <2>1, IntendedNext
  <2> QED BY <1>4, <1>5, <2>1, <2>2, ForOthers
<1> QED BY <1>2, <1>3, <1>4, <1>5, <1>6, <1>7, <1>8, <1>9, <1>11, <1>12, <1>13, <1>14

\* _rpc_filter drops a call: it is for nobody.
LEMMA FilteredKeeps ==
  ASSUME IInv, NEW c \in Client, InboundFiltered(c), NEW k, k = Head(up[c])
  PROVE  IInv'
<1>1. Received(c) /\ UNCHANGED <<config, observers, down, stack, remote_sender, got>>
  BY DEF InboundFiltered, Received
<1>2. /\ k \in Nat /\ k \in Made /\ calls[k].from = c /\ InUp(k) /\ ~ Running(k)
      /\ calls[k].to \in Peer \cup {0} /\ Wired(calls[k].to) = calls[k].to
      /\ up' \in [Client -> Seq(Nat)] /\ calls' \in Seq(Record) /\ Len(calls') = Len(calls) /\ Made' = Made
      /\ \A j \in Made : /\ calls'[j].from = calls[j].from
                         /\ j # k => Intended(j)' = Intended(j)
      /\ \A j \in Nat : InUp(j)' <=> InUp(j) /\ j # k
      /\ UpIsOwn' /\ Positive' /\ \A d \in Client : ~ HasCall(down[d], k)
  BY <1>1, ReceivedIs
<1>3. \A p \in Peer \ {c} : p \notin Intended(k)'
  <2>1. calls[k].to > 1 /\ (c \notin observers \/ calls[k].to \notin observers)
    BY <1>2 DEF InboundFiltered, Filtered
  <2>2. \A p \in Peer \ {c} :
              p \in Intended(k)' <=> /\ calls[k].to = 0 \/ calls[k].to = p
                                     /\ CanRecv(p) /\ (p = 1 \/ p \in observers)
                                     /\ calls[k].to > 1 => c \in observers
    BY <1>1, ReceivedIs
  <2> QED BY <2>1, <2>2
<1>4. \A j : Running(j)' = Running(j) /\ \A p : InDown(j, p)' = InDown(j, p)
  BY <1>1 DEF Running, InDown
<1>5. Types' /\ Shallow'
  BY <1>1, <1>2 DEF IInv, Types, Shallow
<1>6. RunningIsForServer'
  <2>1. \A j \in Made : calls'[j].from = calls[j].from /\ calls'[j].to = calls[j].to
    BY <1>1, ReceivedIs
  <2> QED BY <1>1, <1>2, <1>4, <2>1 DEF IInv, RunningIsForServer, CanRecv, RoleOf
<1>7. DownIsMeant'
  <2>1. ASSUME NEW d \in Client, NEW i \in 1 .. Len(down[d])
        PROVE  down[d][i].call \in Made /\ down[d][i].from = calls'[down[d][i].call].from
    BY <1>2 DEF IInv, DownIsMeant
  <2>2. ASSUME NEW d \in Client, NEW j \in Nat, HasCall(down[d], j)
        PROVE  ~ InUp(j)' /\ ~ Running(j)' /\ d \in Intended(j)' /\ d # calls'[j].from
    <3>1. j \in Made /\ j # k
      BY <1>2, <2>2 DEF IInv, DownIsMeant, HasCall
    <3>2. ~ InUp(j) /\ ~ Running(j) /\ d \in Intended(j) /\ d # calls[j].from
      BY <2>2 DEF IInv, DownIsMeant
    <3>3. Intended(j)' = Intended(j) /\ calls'[j].from = calls[j].from
      BY <1>2, <3>1
    <3> QED BY <1>2, <1>4, <3>1, <3>2, <3>3
  <2> QED BY <1>1, <1>2, <2>1, <2>2 DEF IInv, DownIsMeant
<1>8. ASSUME NEW j \in Made, NEW p \in Peer
      PROVE  Ran(j, p)' <=> Ran(j, p)
  <2>1. j \in Nat
    BY DEF Made
  <2> QED BY <1>1, <1>2, <1>3, <1>4, <2>1 DEF Ran
<1>9. Counted'
  BY <1>1, <1>2, <1>8 DEF IInv, Counted
<1> QED BY <1>2, <1>5, <1>6, <1>7, <1>9 DEF IInv

\* The server runs a client's call, which is for the server, or for all.
LEMMA RunKeeps ==
  ASSUME IInv, NEW c \in Client, InboundRun(c), NEW k, k = Head(up[c])
  PROVE  IInv'
<1>1. /\ Received(c) /\ UNCHANGED <<config, observers, down>> /\ stack[1] = << >>
      /\ Wired(calls[k].to) \in {0, 1} /\ CanRecv(1) /\ Begun(1, k, c, TRUE)
  BY DEF InboundRun, Received
<1>2. /\ k \in Nat /\ k \in Made /\ calls[k].from = c /\ InUp(k) /\ ~ Running(k) /\ c \in Peer /\ c # 1
      /\ calls[k].to \in {0, 1} /\ \A d \in Client : ~ HasCall(down[d], k)
      /\ up' \in [Client -> Seq(Nat)] /\ calls' \in Seq(Record) /\ Len(calls') = Len(calls) /\ Made' = Made
      /\ \A j \in Made : /\ calls'[j].from = calls[j].from /\ calls'[j].to = calls[j].to
                         /\ j # k => Intended(j)' = Intended(j)
      /\ \A j \in Nat : InUp(j)' <=> InUp(j) /\ j # k
      /\ UpIsOwn' /\ Positive'
  BY <1>1, ReceivedIs
<1>3. 1 \in Peer /\ c \in Peer /\ k \in 1 .. MaxCalls
  BY <1>2, BoundAssumption, PeersAreNumbers DEF IInv, Types, Made
<1>4. /\ stack' \in [Peer -> Seq(Frame)] /\ remote_sender' \in [Peer -> Peer \cup {0}]
      /\ got' \in [1 .. MaxCalls -> [Peer -> Nat]]
      /\ stack'[1] = <<[call |-> k, from |-> c, remote |-> TRUE]>> /\ remote_sender'[1] = c
      /\ \A q \in Peer \ {1} : stack'[q] = stack[q] /\ remote_sender'[q] = remote_sender[q]
      /\ \A j \in 1 .. MaxCalls, q \in Peer :
           got'[j][q] = IF j = k /\ q = 1 THEN got[j][q] + 1 ELSE got[j][q]
  BY <1>1, <1>3, BegunIs
<1>5. \A j : Running(j)' <=> j = k
  <2>1. Len(stack'[1]) = 1 /\ stack'[1][1].call = k /\ stack'[1][1].remote
    BY <1>4
  <2> QED BY <2>1 DEF Running
<1>6. \A j : ~ Running(j)
  BY <1>1 DEF Running
<1>7. \A j, p : InDown(j, p)' = InDown(j, p)
  BY <1>1 DEF InDown
<1>8. 1 \in Intended(k)'
  <2>1. 1 \in Peer \ {c} /\ ~ calls[k].to > 1
    BY <1>2, <1>3
  <2>2. 1 \in Intended(k)' <=> /\ calls[k].to = 0 \/ calls[k].to = 1
                               /\ CanRecv(1) /\ (1 = 1 \/ 1 \in observers)
                               /\ calls[k].to > 1 => c \in observers
    BY <1>1, <2>1, ReceivedIs
  <2> QED BY <1>1, <1>2, <2>1, <2>2
<1>9. Types'
  BY <1>1, <1>2, <1>4 DEF IInv, Types
<1>10. Shallow'
  <2>1. /\ Len(stack'[1]) = 1 /\ stack'[1][1].call \in Made' /\ Len(stack'[1]) <= 1
        /\ remote_sender'[1] = calls'[stack'[1][1].call].from
    BY <1>2, <1>4
  <2>2. \A p \in Peer \ {1} :
          /\ Len(stack'[p]) <= 1
          /\ Len(stack'[p]) = 1 =>
               stack'[p][1].call \in Made' /\ remote_sender'[p] = calls'[stack'[p][1].call].from
    <3>1. \A p \in Peer \ {1} :
            /\ Len(stack'[p]) <= 1
            /\ Len(stack'[p]) = 1 =>
                 stack'[p][1].call \in Made /\ remote_sender'[p] = calls[stack'[p][1].call].from
      BY <1>4 DEF IInv, Shallow
    <3> QED BY <1>2, <3>1
  <2>3. \A p \in Peer : p = 1 \/ p \in Peer \ {1}
    OBVIOUS
  <2> QED BY <2>1, <2>2, <2>3, Zenon DEF Shallow
<1>11. RunningIsForServer'
  <2>1. CanRecv(1)'
    BY <1>1 DEF CanRecv, RoleOf
  <2> QED BY <1>2, <1>5, <2>1 DEF RunningIsForServer
<1>12. DownIsMeant'
  <2>1. ASSUME NEW d \in Client, NEW i \in 1 .. Len(down[d])
        PROVE  down[d][i].call \in Made /\ down[d][i].from = calls'[down[d][i].call].from
    BY <1>2 DEF IInv, DownIsMeant
  <2>2. ASSUME NEW d \in Client, NEW j \in Nat, HasCall(down[d], j)
        PROVE  ~ InUp(j)' /\ ~ Running(j)' /\ d \in Intended(j)' /\ d # calls'[j].from
    <3>1. j \in Made /\ j # k
      BY <1>2, <2>2 DEF IInv, DownIsMeant, HasCall
    <3>2. ~ InUp(j) /\ ~ Running(j) /\ d \in Intended(j) /\ d # calls[j].from
      BY <2>2 DEF IInv, DownIsMeant
    <3>3. Intended(j)' = Intended(j) /\ calls'[j].from = calls[j].from
      BY <1>2, <3>1
    <3> QED BY <1>2, <1>5, <3>1, <3>2, <3>3
  <2> QED BY <1>1, <1>2, <2>1, <2>2 DEF IInv, DownIsMeant
<1>13. ASSUME NEW j \in 1 .. MaxCalls, NEW p \in Peer
       PROVE  got'[j][p] = IF j \in Made' /\ Ran(j, p)' THEN 1 ELSE 0
  <2>1. j \in Nat /\ got[j][p] = IF j \in Made /\ Ran(j, p) THEN 1 ELSE 0
    BY BoundAssumption DEF IInv, Counted
  <2>2. CASE j = k /\ p = 1
    <3>1. ~ Ran(j, p) /\ Ran(j, p)'
      BY <1>1, <1>2, <1>5, <1>8, <2>1, <2>2 DEF Ran
    <3> QED BY <1>2, <1>4, <2>1, <2>2, <3>1
  <2>3. CASE j = k /\ p # 1
    <3>1. Ran(j, p)' <=> Ran(j, p)
      BY <1>1, <1>2, <1>5, <2>1, <2>3 DEF Ran
    <3> QED BY <1>2, <1>4, <2>1, <2>3, <3>1
  <2>4. CASE j # k
    <3>1. j \in Made => (Ran(j, p)' <=> Ran(j, p))
      BY <1>1, <1>2, <1>5, <1>6, <1>7, <2>1, <2>4 DEF Ran
    <3> QED BY <1>2, <1>4, <2>1, <2>4, <3>1
  <2> QED BY <2>2, <2>3, <2>4
<1>14. Counted'
  BY <1>13 DEF Counted
<1> QED BY <1>2, <1>9, <1>10, <1>11, <1>12, <1>14 DEF IInv

\* The server sends a client's call on, and has nothing to run itself.
LEMMA ForwardKeeps ==
  ASSUME IInv, NEW c \in Client, InboundForward(c), NEW k, k = Head(up[c])
  PROVE  IInv'
<1>1. /\ Received(c) /\ UNCHANGED <<config, observers, stack, remote_sender, got>>
      /\ down' = Forwarded(k) /\ ~ Filtered(c, Wired(calls[k].to))
      /\ Wired(calls[k].to) \in {0, 1} => ~ CanRecv(1)
  BY DEF InboundForward, Received
<1>2. /\ k \in Nat /\ k \in Made /\ calls[k].from = c /\ InUp(k) /\ ~ Running(k) /\ c \in Peer /\ c # 1
      /\ calls[k].to \in Peer \cup {0} /\ Wired(calls[k].to) = calls[k].to
      /\ \A d \in Client : ~ HasCall(down[d], k)
      /\ up' \in [Client -> Seq(Nat)] /\ calls' \in Seq(Record) /\ Len(calls') = Len(calls) /\ Made' = Made
      /\ \A j \in Made : /\ calls'[j].from = calls[j].from /\ calls'[j].to = calls[j].to
                         /\ j # k => Intended(j)' = Intended(j)
      /\ \A j \in Nat : InUp(j)' <=> InUp(j) /\ j # k
      /\ UpIsOwn' /\ Positive'
  BY <1>1, ReceivedIs
<1>3. /\ down' \in [Client -> Seq(Entry)]
      /\ \A d \in Client :
           /\ OnceCall(down'[d])
           /\ \A j \in Nat : HasCall(down'[d], j) <=> HasCall(down[d], j) \/ (j = k /\ d \in Others(k))
           /\ \A i \in 1 .. Len(down'[d]) :
                \/ down'[d][i] = [call |-> k, from |-> c]
                \/ \E l \in 1 .. Len(down[d]) : down'[d][i] = down[d][l]
  BY <1>1, <1>2, ForwardedIs, SMTT(30)
<1>4. \A p \in Peer \ {c} :
        p \in Intended(k)' <=> /\ calls[k].to = 0 \/ calls[k].to = p
                               /\ CanRecv(p) /\ (p = 1 \/ p \in observers)
                               /\ calls[k].to > 1 => c \in observers
  BY <1>1, ReceivedIs
<1>5. 1 \in Peer /\ \A d \in Client : d \in Peer /\ d # 1
  BY PeerAssumption DEF Peer
<1>6. 1 \notin Intended(k)'
  <2>1. calls[k].to \in {0, 1} => ~ CanRecv(1)
    BY <1>1, <1>2
  <2> QED BY <1>2, <1>4, <1>5, <2>1
<1>7. \A d \in Client \ {c} : d \in Intended(k)' <=> d \in Others(k)
  <2>1. calls[k].to > 1 => c \in observers
    BY <1>1, <1>2 DEF Filtered
  <2> QED BY <1>2, <1>4, <1>5, <2>1 DEF Others
<1>8. \A j : Running(j)' = Running(j)
  BY <1>1 DEF Running
<1>9. Types' /\ Shallow'
  <2>1. Types'
    BY <1>1, <1>2, <1>3 DEF IInv, Types
  <2>2. \A p \in Peer :
          /\ Len(stack[p]) <= 1
          /\ Len(stack[p]) = 1 =>
               stack[p][1].call \in Made /\ remote_sender[p] = calls'[stack[p][1].call].from
    BY <1>2 DEF IInv, Shallow
  <2>3. Shallow'
    BY <1>1, <1>2, <2>2 DEF Shallow
  <2> QED BY <2>1, <2>3
<1>10. RunningIsForServer'
  BY <1>1, <1>2, <1>8 DEF IInv, RunningIsForServer, CanRecv, RoleOf
<1>11. DownIsMeant'
  <2>1. ASSUME NEW d \in Client, NEW i \in 1 .. Len(down'[d])
        PROVE  down'[d][i].call \in Made /\ down'[d][i].from = calls'[down'[d][i].call].from
    <3>1. CASE down'[d][i] = [call |-> k, from |-> c]
      BY <1>2, <3>1
    <3>2. ASSUME NEW l \in 1 .. Len(down[d]), down'[d][i] = down[d][l]
          PROVE  down'[d][i].call \in Made /\ down'[d][i].from = calls'[down'[d][i].call].from
      <4>1. down[d][l].call \in Made /\ down[d][l].from = calls[down[d][l].call].from
        BY DEF IInv, DownIsMeant
      <4> QED BY <1>2, <3>2, <4>1
    <3> QED BY <1>3, <3>1, <3>2
  <2>2. ASSUME NEW d \in Client, NEW j \in Nat, HasCall(down'[d], j)
        PROVE  ~ InUp(j)' /\ ~ Running(j)' /\ d \in Intended(j)' /\ d # calls'[j].from
    <3>1. CASE j = k
      <4>1. d \in Others(k) /\ d \in Client \ {c}
        BY <1>2, <1>3, <2>2, <3>1 DEF Others
      <4> QED BY <1>2, <1>7, <1>8, <3>1, <4>1
    <3>2. CASE j # k
      <4>1. HasCall(down[d], j)
        BY <1>3, <2>2, <3>2
      <4>2. /\ j \in Made /\ ~ InUp(j) /\ ~ Running(j) /\ d \in Intended(j) /\ d # calls[j].from
        BY <4>1 DEF IInv, DownIsMeant, HasCall
      <4>3. Intended(j)' = Intended(j) /\ calls'[j].from = calls[j].from
        BY <1>2, <3>2, <4>2
      <4> QED BY <1>2, <1>8, <4>2, <4>3
    <3> QED BY <3>1, <3>2
  <2> QED BY <1>2, <1>3, <2>1, <2>2 DEF DownIsMeant
<1>12. ASSUME NEW j \in Made, NEW p \in Peer
       PROVE  Ran(j, p)' <=> Ran(j, p)
  <2>1. j \in Nat /\ (p # 1 => p \in Client) /\ calls'[j].from = calls[j].from
    <3>1. j \in Nat
      BY DEF Made
    <3>2. p # 1 => p \in Client
      BY DEF Peer
    <3>3. calls'[j].from = calls[j].from
      BY <1>2
    <3> QED BY <3>1, <3>2, <3>3
  <2>2. CASE p = calls[j].from
    BY <1>1, <2>1, <2>2 DEF Ran
  <2>3. CASE p # calls[j].from /\ j # k
    <3>1. Running(j)' = Running(j) /\ Intended(j)' = Intended(j) /\ (InUp(j)' <=> InUp(j))
      BY <1>2, <1>8, <2>1, <2>3
    <3>2. p # 1 => InDown(j, p)' = InDown(j, p)
      BY <1>3, <2>1, <2>3 DEF InDown
    <3> QED BY <2>1, <2>3, <3>1, <3>2 DEF Ran
  <2>4. CASE p # calls[j].from /\ j = k /\ p = 1
    BY <1>2, <1>6, <2>1, <2>4 DEF Ran
  <2>5. CASE p # calls[j].from /\ j = k /\ p # 1
    <3>1. InDown(k, p)' <=> p \in Others(k)
      BY <1>2, <1>3, <2>1, <2>5 DEF InDown
    <3>2. p \in Intended(k)' <=> p \in Others(k)
      BY <1>2, <1>7, <2>1, <2>5
    <3> QED BY <1>2, <2>1, <2>5, <3>1, <3>2 DEF Ran
  <2> QED BY <2>2, <2>3, <2>4, <2>5
<1>13. Counted'
  BY <1>1, <1>2, <1>12 DEF IInv, Counted
<1> QED BY <1>2, <1>9, <1>10, <1>11, <1>13 DEF IInv

\* A call is made at p: sent if anybody else may be meant, and run there at once
\* if it is call_local.
LEMMA OutboundKeeps ==
  ASSUME IInv, Program, NEW p \in Peer, NEW to \in Targets, p # 1 => to \in Peer \cup {0},
         OutboundRpc(p, to), NEW k, k = Len(calls) + 1
  PROVE  IInv'
<1> DEFINE r == [from |-> p, to |-> to, seen |-> observers]
<1>1. /\ k <= MaxCalls /\ calls' = Append(calls, r) /\ UNCHANGED <<config, observers>>
      /\ p = 1 => down' = Sent(k, 1, to) /\ up' = up
      /\ p # 1 => down' = down /\ up' = [up EXCEPT ![p] = IF to = p THEN @ ELSE Append(@, k)]
      /\ config.call_local => Begun(p, k, p, FALSE)
      /\ ~ config.call_local => UNCHANGED <<stack, remote_sender, got>>
      /\ stack[p] = << >> \/ ~ config.call_local
  BY DEF OutboundRpc, Program
<1>2. /\ calls \in Seq(Record) /\ r \in Record /\ Len(calls) \in Nat /\ k \in Nat
      /\ r.from = p /\ r.to = to /\ r.seen = observers
  BY DEF IInv, Types, Record
<1> HIDE DEF r
<1>3. /\ calls' \in Seq(Record) /\ Len(calls') = k /\ calls'[k] = r
      /\ \A j \in Made : calls'[j] = calls[j]
      /\ Made' = Made \cup {k} /\ k \notin Made /\ k \in 1 .. MaxCalls
  BY <1>1, <1>2 DEF Made
<1>4. /\ ~ InUp(k) /\ ~ Running(k) /\ \A c \in Client : ~ Has(up[c], k) /\ ~ HasCall(down[c], k)
  BY <1>2, <1>3 DEF IInv, UpIsOwn, RunningIsForServer, DownIsMeant, InUp, HasCall
<1>5. \A j \in Made : Intended(j)' = Intended(j)
  BY <1>1, <1>3, IntendedSame
<1>6. \A q \in Peer \ {p} : q \in Intended(k)' <=> For(r, q)
  BY <1>1, <1>2, <1>3, IntendedNext
<1>7. \A c \in Client : c \in Peer /\ c # 1
  BY PeerAssumption DEF Peer
<1>8. /\ up' \in [Client -> Seq(Nat)]
      /\ \A c \in Client : /\ Once(up'[c])
                           /\ \A j \in Nat : Has(up'[c], j) <=>
                                 Has(up[c], j) \/ (j = k /\ c = p /\ to # p)
  <2>1. \A c \in Client : up[c] \in Seq(Nat) /\ Once(up[c])
    BY DEF IInv, Types, UpIsOwn
  <2>2. CASE p = 1 \/ to = p
    <3>1. up' = up
      BY <1>1, <2>2 DEF IInv, Types
    <3> QED BY <1>7, <2>1, <2>2, <3>1 DEF IInv, Types
  <2>3. CASE p # 1 /\ to # p
    <3>1. p \in Client /\ up' = [up EXCEPT ![p] = Append(up[p], k)]
      BY <1>1, <2>3 DEF Peer
    <3>2. /\ Append(up[p], k) \in Seq(Nat) /\ Once(Append(up[p], k))
          /\ \A j \in Nat : Has(Append(up[p], k), j) <=> Has(up[p], j) \/ j = k
      BY <1>2, <1>4, <2>1, <3>1, Appended
    <3>3. up'[p] = Append(up[p], k) /\ \A c \in Client \ {p} : up'[c] = up[c]
      BY <3>1 DEF IInv, Types
    <3>4. up' \in [Client -> Seq(Nat)]
      BY <3>1, <3>2 DEF IInv, Types
    <3> QED BY <2>1, <2>3, <3>2, <3>3, <3>4
  <2> QED BY <2>2, <2>3
<1>9. /\ down' \in [Client -> Seq(Entry)]
      /\ \A c \in Client :
           /\ OnceCall(down'[c])
           /\ \A j \in Nat : HasCall(down'[c], j) <=>
                HasCall(down[c], j) \/ (j = k /\ p = 1 /\ c \in Recipients(1, to))
           /\ \A i \in 1 .. Len(down'[c]) :
                \/ down'[c][i] = [call |-> k, from |-> p]
                \/ \E l \in 1 .. Len(down[c]) : down'[c][i] = down[c][l]
  <2>1. CASE p = 1
    BY <1>1, <1>2, <1>4, <2>1, SentAdds
  <2>2. CASE p # 1
    BY <1>1, <2>2 DEF IInv, Types, DownIsMeant
  <2> QED BY <2>1, <2>2
<1>10. \A j \in Nat : InUp(j)' <=> InUp(j) \/ (j = k /\ p # 1 /\ to # p)
  <2>1. p # 1 => p \in Client
    BY DEF Peer
  <2> QED BY <1>7, <1>8, <2>1 DEF InUp
<1>11. /\ stack' \in [Peer -> Seq(Frame)] /\ remote_sender' \in [Peer -> Peer \cup {0}]
       /\ got' \in [1 .. MaxCalls -> [Peer -> Nat]]
       /\ \A q \in Peer \ {p} : stack'[q] = stack[q] /\ remote_sender'[q] = remote_sender[q]
       /\ \A j \in 1 .. MaxCalls, q \in Peer :
            got'[j][q] = IF j = k /\ q = p /\ config.call_local THEN got[j][q] + 1 ELSE got[j][q]
       /\ IF config.call_local
            THEN stack[p] = << >> /\ stack'[p] = <<[call |-> k, from |-> p, remote |-> FALSE]>>
                 /\ remote_sender'[p] = p
            ELSE stack'[p] = stack[p] /\ remote_sender'[p] = remote_sender[p]
  <2>1. CASE config.call_local
    <3>1. stack[p] = << >> /\ Begun(p, k, p, FALSE) /\ k \in 1 .. MaxCalls
      BY <1>1, <1>3, <2>1
    <3>2. /\ stack' \in [Peer -> Seq(Frame)] /\ remote_sender' \in [Peer -> Peer \cup {0}]
          /\ got' \in [1 .. MaxCalls -> [Peer -> Nat]]
          /\ stack'[p] = <<[call |-> k, from |-> p, remote |-> FALSE]>> /\ remote_sender'[p] = p
          /\ \A q \in Peer \ {p} : stack'[q] = stack[q] /\ remote_sender'[q] = remote_sender[q]
          /\ \A j \in 1 .. MaxCalls, q \in Peer :
               got'[j][q] = IF j = k /\ q = p THEN got[j][q] + 1 ELSE got[j][q]
      BY <3>1, BegunIs
    <3> QED BY <2>1, <3>1, <3>2
  <2>2. CASE ~ config.call_local
    BY <1>1, <2>2 DEF IInv, Types
  <2> QED BY <2>1, <2>2
<1>12. \A j : Running(j)' <=> Running(j)
  <2>1. CASE p = 1 /\ config.call_local
    <3>1. stack[1] = << >> /\ stack'[1] = <<[call |-> k, from |-> p, remote |-> FALSE]>>
      BY <1>11, <2>1
    <3>2. 1 .. Len(stack[1]) = {} /\ \A i \in 1 .. Len(stack'[1]) : ~ stack'[1][i].remote
      BY <3>1
    <3> QED BY <3>2 DEF Running
  <2>2. CASE ~ (p = 1 /\ config.call_local)
    <3>1. stack'[1] = stack[1]
      BY <1>11, <2>2, PeersAreNumbers
    <3> QED BY <3>1 DEF Running
  <2> QED BY <2>1, <2>2
<1>13. Types'
  BY <1>1, <1>3, <1>8, <1>9, <1>11 DEF IInv, Types
<1>14. UpIsOwn'
  <2>1. ASSUME NEW c \in Client, NEW j \in Nat, Has(up'[c], j)
        PROVE  j \in Made' /\ calls'[j].from = c /\ calls'[j].to # c
    <3>1. CASE Has(up[c], j)
      <4>1. j \in Made /\ calls[j].from = c /\ calls[j].to # c
        BY <3>1 DEF IInv, UpIsOwn
      <4> QED BY <1>3, <4>1
    <3>2. CASE j = k /\ c = p /\ to # p
      BY <1>2, <1>3, <3>2
    <3> QED BY <1>8, <2>1, <3>1, <3>2
  <2> QED BY <1>8, <2>1 DEF UpIsOwn
<1>15. RunningIsForServer'
  <2>1. ASSUME NEW j \in Nat, Running(j)
        PROVE  j \in Made' /\ calls'[j].from # 1 /\ calls'[j].to \in {0, 1} /\ CanRecv(1) /\ ~ InUp(j)'
    <3>1. j \in Made /\ calls[j].from # 1 /\ calls[j].to \in {0, 1} /\ CanRecv(1) /\ ~ InUp(j)
      BY <2>1 DEF IInv, RunningIsForServer
    <3> QED BY <1>3, <1>10, <3>1
  <2>2. CanRecv(1)' <=> CanRecv(1)
    BY <1>1 DEF CanRecv, RoleOf
  <2> QED BY <1>12, <2>1, <2>2 DEF RunningIsForServer
<1>16. Positive'
  BY <1>2, <1>3 DEF IInv, Positive
<1>17. Shallow'
  <2>1. /\ Len(stack'[p]) <= 1
        /\ Len(stack'[p]) = 1 =>
             stack'[p][1].call \in Made' /\ remote_sender'[p] = calls'[stack'[p][1].call].from
    <3>1. CASE config.call_local
      <4>1. stack'[p] = <<[call |-> k, from |-> p, remote |-> FALSE]>>
        BY <1>11, <3>1
      <4>2. Len(stack'[p]) = 1 /\ stack'[p][1].call = k
        BY <4>1
      <4>3. k \in Made' /\ remote_sender'[p] = calls'[k].from
        BY <1>2, <1>3, <1>11, <3>1
      <4> QED BY <4>2, <4>3
    <3>2. CASE ~ config.call_local
      <4>1. /\ Len(stack[p]) <= 1
            /\ Len(stack[p]) = 1 =>
                 stack[p][1].call \in Made /\ remote_sender[p] = calls[stack[p][1].call].from
        BY DEF IInv, Shallow
      <4> QED BY <1>3, <1>11, <3>2, <4>1
    <3> QED BY <3>1, <3>2
  <2>2. ASSUME NEW q \in Peer \ {p}
        PROVE  /\ Len(stack'[q]) <= 1
               /\ Len(stack'[q]) = 1 =>
                    stack'[q][1].call \in Made' /\ remote_sender'[q] = calls'[stack'[q][1].call].from
    <3>1. /\ Len(stack[q]) <= 1
          /\ Len(stack[q]) = 1 =>
               stack[q][1].call \in Made /\ remote_sender[q] = calls[stack[q][1].call].from
      BY DEF IInv, Shallow
    <3> QED BY <1>3, <1>11, <3>1
  <2>3. \A q \in Peer : q = p \/ q \in Peer \ {p}
    OBVIOUS
  <2> QED BY <2>1, <2>2, <2>3, Zenon DEF Shallow
<1>18. \A q \in Peer \ {p} :
         IF p = 1 THEN q \in Intended(k)' <=> q \in Recipients(1, to)
         ELSE to = p => q \notin Intended(k)'
  <2>1. CASE p = 1
    <3>1. \A q \in Peer \ {p} : q \in Client
      BY <2>1 DEF Peer
    <3>2. \A q \in Peer \ {p} : For(r, q) <=> q \in Recipients(1, to)
      BY <1>2, <1>7, <2>1, <3>1 DEF For, Recipients
    <3> QED BY <1>6, <2>1, <3>2
  <2>2. CASE p # 1
    <3>1. ASSUME to = p, NEW q \in Peer \ {p}
          PROVE  ~ For(r, q)
      <4>1. p \in Nat \ {0}
        BY PeerAssumption DEF Peer
      <4> QED BY <1>2, <3>1, <4>1 DEF For
    <3> QED BY <1>6, <2>2, <3>1
  <2> QED BY <2>1, <2>2
<1>19. DownIsMeant'
  <2>1. ASSUME NEW c \in Client, NEW i \in 1 .. Len(down'[c])
        PROVE  down'[c][i].call \in Made' /\ down'[c][i].from = calls'[down'[c][i].call].from
    <3>1. CASE down'[c][i] = [call |-> k, from |-> p]
      BY <1>2, <1>3, <3>1
    <3>2. ASSUME NEW l \in 1 .. Len(down[c]), down'[c][i] = down[c][l]
          PROVE  down'[c][i].call \in Made' /\ down'[c][i].from = calls'[down'[c][i].call].from
      <4>1. down[c][l].call \in Made /\ down[c][l].from = calls[down[c][l].call].from
        BY DEF IInv, DownIsMeant
      <4> QED BY <1>3, <3>2, <4>1
    <3> QED BY <1>9, <3>1, <3>2
  <2>2. ASSUME NEW c \in Client, NEW j \in Nat, HasCall(down'[c], j)
        PROVE  ~ InUp(j)' /\ ~ Running(j)' /\ c \in Intended(j)' /\ c # calls'[j].from
    <3>1. CASE HasCall(down[c], j)
      <4>1. j \in Made /\ ~ InUp(j) /\ ~ Running(j) /\ c \in Intended(j) /\ c # calls[j].from
        BY <3>1 DEF IInv, DownIsMeant, HasCall
      <4>2. Intended(j)' = Intended(j) /\ calls'[j].from = calls[j].from /\ j # k
        BY <1>3, <1>5, <4>1
      <4> QED BY <1>10, <1>12, <4>1, <4>2
    <3>2. CASE j = k /\ p = 1 /\ c \in Recipients(1, to)
      <4>1. c \in Intended(k)' /\ c # calls'[k].from
        BY <1>2, <1>3, <1>7, <1>18, <3>2
      <4> QED BY <1>4, <1>10, <1>12, <3>2, <4>1
    <3> QED BY <1>9, <2>2, <3>1, <3>2
  <2> QED BY <1>9, <2>1, <2>2 DEF DownIsMeant
<1>20. ASSUME NEW j \in 1 .. MaxCalls, NEW q \in Peer
       PROVE  got'[j][q] = IF j \in Made' /\ Ran(j, q)' THEN 1 ELSE 0
  <2>1. j \in Nat /\ got[j][q] = (IF j \in Made /\ Ran(j, q) THEN 1 ELSE 0) /\ (q # 1 => q \in Client)
    BY BoundAssumption DEF IInv, Counted, Peer
  <2>2. CASE j # k
    <3>1. got'[j][q] = got[j][q] /\ (j \in Made' <=> j \in Made)
      BY <1>3, <1>11, <2>2
    <3>2. ASSUME j \in Made PROVE Ran(j, q)' <=> Ran(j, q)
      <4>1. /\ calls'[j].from = calls[j].from /\ Intended(j)' = Intended(j)
            /\ (InUp(j)' <=> InUp(j)) /\ (Running(j)' <=> Running(j))
        BY <1>3, <1>5, <1>10, <1>12, <2>1, <2>2, <3>2
      <4>2. q # 1 => (InDown(j, q)' <=> InDown(j, q))
        BY <1>9, <2>1, <2>2 DEF InDown
      <4> QED BY <1>1, <4>1, <4>2 DEF Ran
    <3> QED BY <2>1, <3>1, <3>2
  <2>3. CASE j = k /\ q = p
    <3>1. Ran(k, p)' <=> config.call_local
      BY <1>1, <1>2, <1>3 DEF Ran
    <3> QED BY <1>3, <1>11, <2>1, <2>3, <3>1
  <2>4. CASE j = k /\ q # p
    <3>1. got'[j][q] = 0
      BY <1>3, <1>11, <2>1, <2>4
    <3>2. ~ Ran(k, q)'
      <4>1. CASE p = 1
        <5>1. InDown(k, q)' <=> q \in Recipients(1, to)
          BY <1>4, <1>9, <1>2, <2>1, <2>4, <4>1 DEF InDown
        <5> QED BY <1>2, <1>3, <1>18, <2>4, <4>1, <5>1 DEF Ran
      <4>2. CASE p # 1 /\ to = p
        BY <1>2, <1>3, <1>18, <2>4, <4>2 DEF Ran
      <4>3. CASE p # 1 /\ to # p
        BY <1>2, <1>3, <1>10, <2>4, <4>3 DEF Ran
      <4> QED BY <4>1, <4>2, <4>3
    <3> QED BY <2>4, <3>1, <3>2
  <2> QED BY <2>2, <2>3, <2>4
<1>21. Counted'
  BY <1>20 DEF Counted
<1> QED BY <1>13, <1>14, <1>15, <1>16, <1>17, <1>19, <1>21 DEF IInv

------------------------------------------------------------------------------
LEMMA StutterKeeps ==
  ASSUME IInv, UNCHANGED vars
  PROVE  IInv'
<1>1. UNCHANGED <<config, calls, up, down, stack, remote_sender, got>> /\ observers' \in SUBSET Client
  BY DEF vars, IInv, Types
<1> QED BY <1>1, SameKeeps

LEMMA NextKeeps ==
  ASSUME IInv, Program, [Next]_vars
  PROVE  IInv'
<1>1. ASSUME NEW to \in Targets, OutboundRpc(1, to)
      PROVE  IInv'
  BY <1>1, OutboundKeeps, PeersAreNumbers
<1>2. ASSUME NEW c \in Client, NEW to \in ClientTargets, OutboundRpc(c, to)
      PROVE  IInv'
  <2>1. c \in Peer /\ to \in Targets /\ to \in Peer \cup {0}
    BY TargetAssumption DEF Program, Peer
  <2> QED BY <1>2, <2>1, OutboundKeeps
<1>3. ASSUME NEW c \in Client,
             InboundFiltered(c) \/ InboundRun(c) \/ InboundForward(c) \/ InboundClient(c) \/ Observe(c)
      PROVE  IInv'
  BY <1>3, FilteredKeeps, RunKeeps, ForwardKeeps, InboundClientKeeps, ObserveKeeps
<1>4. ASSUME NEW p \in Peer, Return(p)
      PROVE  IInv'
  BY <1>4, ReturnsOnly, ReturnSends
<1>5. CASE UNCHANGED vars
  BY <1>5, StutterKeeps
<1> QED BY <1>1, <1>2, <1>3, <1>4, <1>5 DEF Next

\* The invariant holds of every program the theorems are about.
THEOREM Invariant == Program => (Spec => []IInv)
<1>1. Init => IInv
  BY InitHolds
<1>2. CASE Program
  <2>1. IInv /\ [Next]_vars => IInv'
    BY <1>2, NextKeeps
  <2> QED BY <1>1, <2>1, PTL DEF Spec
<1> QED BY <1>2

\* Whoever handles a call finds its caller in remote_sender, over the server
\* too, for any clients and configurations.
THEOREM SendersAreCallers == Program => (Spec => []SenderIsCaller)
<1>1. IInv => SenderIsCaller
  <2>1. SUFFICES ASSUME IInv, NEW p \in Peer, stack[p] # << >>
                 PROVE  remote_sender[p] = calls[Last(stack[p]).call].from
    BY DEF SenderIsCaller
  <2>2. stack[p] \in Seq(Frame) /\ Len(stack[p]) <= 1
    BY <2>1 DEF IInv, Types, Shallow
  <2> DEFINE n == Len(stack[p])
  <2>3. n \in Nat \ {0} /\ n <= 1
    BY <2>1, <2>2, EmptySeq
  <2> HIDE DEF n
  <2>4. n = 1
    BY <2>3
  <2>5. Last(stack[p]) = stack[p][1]
    BY <2>4 DEF n, Last
  <2> QED BY <2>1, <2>4, <2>5 DEF n, IInv, Shallow
<1> QED BY <1>1, Invariant, PTL

\* Every call runs once at each peer that is meant and allowed to run it, and
\* nowhere else, whatever else is called, shown and hidden meanwhile.
THEOREM CallsRunOnce == Program => (Spec => []CallsReachTheirTargets)
<1>1. IInv => CallsReachTheirTargets
  <2>1. SUFFICES ASSUME IInv, \A c \in Client : up[c] = << >> /\ down[c] = << >>,
                        \A p \in Peer : stack[p] = << >>,
                        NEW k \in 1 .. Len(calls), NEW p \in Peer
                 PROVE  got[k][p] = IF p \in Intended(k) THEN 1 ELSE 0
    BY DEF CallsReachTheirTargets
  <2>2. k \in Made /\ k \in 1 .. MaxCalls /\ calls[k] \in Record
    BY <2>1, BoundAssumption DEF IInv, Types, Made
  <2>3. ~ InUp(k) /\ ~ Running(k) /\ ~ InDown(k, p)
    BY <2>1, PeersAreNumbers DEF InUp, Has, Running, InDown, HasCall
  <2>4. Ran(k, p) <=> p \in Intended(k)
    <3>1. calls[k].from \in Peer
      BY <2>2 DEF Record
    <3> QED BY <2>3, <3>1, IntendedIs DEF Ran, For
  <2> QED BY <2>1, <2>2, <2>4 DEF IInv, Counted
<1> QED BY <1>1, Invariant, PTL
==============================================================================
