------------------------------ MODULE MCServices ------------------------------
(* One of some small parts at a time: while it moves the variables of the      *)
(* others stand still. There are more objects than identifiers in the          *)
(* repository. DatabaseService tracks objects one after the other under one    *)
(* key, as those of a player who comes back, or under keys of their own. The   *)
(* server may wait for some of the clients, all or none, and one it does not   *)
(* wait for may answer too. The keys of the map collide, and go on through its *)
(* first resizes.                                                              *)
EXTENDS Services, Containers, TLC

CONSTANTS
  Parts,                \* which of them
  ka, kb, kc, kd, ke    \* the keys of the map

VARIABLE which

database == <<setup, phase, tracked, locked, value, store, requests>>
barrier == <<awaiting_peers, timer, emitting, connected, coming, round,
             asked, clean, said, heard, elapsed, completed, dropped>>
limiter == <<now, ids, log>>
hash == <<map, iter, due>>

OneKey  == [o \in Saved |-> CHOOSE k \in Key : TRUE]
OwnKeys == [o \in Saved |-> o]
SomeSetups == [key : {OneKey, OwnKeys}, async : BOOLEAN]

\* ka and kb collide in every table (0 is not a hash: it becomes 1), kc is next to
\* their home in the tables of 5 and 23, kd before it.
Hashes == (ka :> 0) @@ (kb :> 1) @@ (kc :> 117) @@ (kd :> 460) @@ (ke :> 2)
TwoValues == [k \in {ka, kb, kc, kd, ke} |-> IF k = ka THEN {0, 1} ELSE {0}]
AssignedMaps == {<<[key |-> kb, value |-> 0], [key |-> ka, value |-> 1]>>}
AssignedLists == {<<2, 1>>}

\* What is not chosen starts in one way only.
MCInit ==
  /\ which \in Parts
  /\ Init /\ D!Init /\ B!Init /\ L!Init /\ LI!Init /\ HM!Init
  /\ which # "DatabaseService" => setup = [key |-> OneKey, async |-> FALSE]
  /\ which # "HashMap" => map = HM!Made(HM!MIN_CAPACITY_INDEX)

MCNext ==
  /\ UNCHANGED which
  /\ \/ which = "Repository" /\ Next /\ UNCHANGED <<database, barrier, limiter, l, hash>>
     \/ which = "DatabaseService" /\ D!Next /\ UNCHANGED <<vars, barrier, limiter, l, hash>>
     \/ which = "NetBarrier" /\ B!Next /\ UNCHANGED <<vars, database, limiter, l, hash>>
     \/ which = "RateLimiter" /\ L!Next /\ UNCHANGED <<vars, database, barrier, l, hash>>
     \/ which = "List" /\ LI!Next /\ UNCHANGED <<vars, database, barrier, limiter, hash>>
     \/ which = "HashMap" /\ HM!Next /\ UNCHANGED <<vars, database, barrier, limiter, l>>

MCSpec == MCInit /\ [][MCNext]_<<vars, database, barrier, limiter, l, hash, which>>
MCFairSpec == MCSpec /\ B!Fairness /\ D!Fairness
==============================================================================
