----------------------------- MODULE RateLimiter -----------------------------
(* The limit on how often a peer is served: of count requests within duration, *)
(* no more. rpc.gd keeps one of these with count 1 for each call of each peer. *)
EXTENDS Naturals, Sequences, FiniteSets, FiniteSetsExt

CONSTANTS
  Peers,
  count, duration,
  MaxTime       \* bound: when the clock stops

VARIABLES
  now,      \* Time.get_ticks_msec
  ids,      \* the times of the requests of each peer that still count
  log       \* the times of all that were let through since the peer came, which
            \* nothing reads

vars == <<now, ids, log>>

Times(p) == DOMAIN log[p]

\* Fault: the first one is thrown out whatever its age.
FreshOne(s) == IF s = <<>> THEN s ELSE Tail(s)

\* The loop of check: those in front that are too old are thrown out.
Fresh(s) ==
  LET stops == {n \in 0 .. Len(s) : n < Len(s) => s[n + 1] + duration >= now}
  IN SubSeq(s, Min(stops) + 1, Len(s))

Init ==
  /\ now = 0
  /\ ids = [p \in Peers |-> <<>>]
  /\ log = [p \in Peers |-> <<>>]

Tick ==
  /\ now < MaxTime
  /\ now' = now + 1
  /\ UNCHANGED <<ids, log>>

check(p) ==
  LET s == Fresh(ids[p])
      accepted == Len(s) < count
  IN /\ ids' = [ids EXCEPT ![p] = IF accepted THEN Append(s, now) ELSE s]
     /\ log' = [log EXCEPT ![p] = IF accepted THEN Append(@, now) ELSE @]
     /\ UNCHANGED now

\* _on_peer_disconnected
disconnect(p) ==
  /\ ids' = [ids EXCEPT ![p] = <<>>]
  /\ log' = [log EXCEPT ![p] = <<>>]
  /\ UNCHANGED now

Next == Tick \/ \E p \in Peers : check(p) \/ disconnect(p)

Spec == Init /\ [][Next]_vars

------------------------------------------------------------------------------
(* Properties. *)

\* However the requests come, more than count of them take longer than duration
\* (check).
NeverTooMany ==
  \A p \in Peers : \A i \in Times(p) :
    i + count \in Times(p) => log[p][i + count] > log[p][i] + duration

\* What check compares with count are the requests let through within the last
\* duration, those at its very edge among them, and no others.
Lately(p) == {i \in Times(p) : log[p][i] + duration >= now}
WindowIsExact == \A p \in Peers : Len(Fresh(ids[p])) = Cardinality(Lately(p))
==============================================================================
