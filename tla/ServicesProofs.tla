---------------------------- MODULE ServicesProofs ----------------------------
(* Proofs about the small services, for every value of their constants: the    *)
(* repository of identifiers, NetBarrier, RateLimiter and DatabaseService.     *)
EXTENDS Services, Sequences, FiniteSetTheorems, WellFoundedInduction, TLAPS

------------------------------------------------------------------------------
(* The repository, for any number of objects and identifiers. *)

\* Only finitely many objects are registered at a time: cardinalities count.
RepositoryInv == TypeOK /\ IdentifiersHaveOwners /\ IsFiniteSet(Replicated(repo))

\* A new entry of both dictionaries, for an object that is in neither, leaves every
\* identifier with its owner: one that stood for another object changes hands.
LEMMA RegisteredKeeps ==
  ASSUME RepositoryInv, NEW o \in live \ Replicated(repo), NEW i \in Id, NEW c \in Id,
         repo' = [Registered(repo, o, i) EXCEPT !.current_id = c], live' = live
  PROVE  RepositoryInv'
<1>1. o \in Object /\ i \in Id /\ o # None /\ i # -1
  BY NoneAssumption DEF RepositoryInv, TypeOK, Id
<1>2. /\ \A x \in Object : repo'.object_to_id[x] = IF x = o THEN i ELSE repo.object_to_id[x]
      /\ \A j \in Id : repo'.id_to_object[j] = IF j = i THEN o ELSE repo.id_to_object[j]
  BY <1>1 DEF RepositoryInv, TypeOK, Registered
<1>3. TypeOK'
  BY <1>1 DEF RepositoryInv, TypeOK, Registered
<1>4. Replicated(repo)' = Replicated(repo) \cup {o}
  BY <1>1, <1>2 DEF Replicated
<1>5. IdentifiersHaveOwners'
  <2> SUFFICES ASSUME NEW j \in InUse(repo)'
               PROVE  repo'.object_to_id[repo'.id_to_object[j]] = j
    BY DEF IdentifiersHaveOwners
  <2>1. CASE j = i
    BY <1>1, <1>2, <2>1
  <2>2. CASE j # i
    <3>1. j \in InUse(repo) /\ j \in Id /\ repo'.id_to_object[j] = repo.id_to_object[j]
      BY <1>2, <2>2 DEF InUse
    <3>2. repo.id_to_object[j] \in Object /\ repo.object_to_id[repo.id_to_object[j]] = j
      BY <3>1 DEF RepositoryInv, TypeOK, IdentifiersHaveOwners, InUse
    <3>3. repo.id_to_object[j] # o
      BY <1>1, <3>1, <3>2 DEF Replicated, Id
    <3> QED BY <1>2, <3>1, <3>2, <3>3
  <2> QED BY <2>1, <2>2
<1>6. IsFiniteSet(Replicated(repo))'
  BY <1>4, FS_AddElement DEF RepositoryInv
<1> QED BY <1>3, <1>5, <1>6 DEF RepositoryInv

\* Taking an object out of the one dictionary and its identifier out of the other
\* does so too, whatever that identifier stands for by now.
LEMMA RemovedKeeps ==
  ASSUME RepositoryInv, NEW o \in Object, NEW i \in Id,
         repo.object_to_id[o] = i,
         repo' = [repo EXCEPT !.id_to_object[i] = None, !.object_to_id[o] = -1,
                              !.object_awaits = @ \ {o}],
         live' = live
  PROVE  RepositoryInv'
<1>1. /\ \A x \in Object : repo'.object_to_id[x] = IF x = o THEN -1 ELSE repo.object_to_id[x]
      /\ \A j \in Id : repo'.id_to_object[j] = IF j = i THEN None ELSE repo.id_to_object[j]
  BY DEF RepositoryInv, TypeOK
<1>2. TypeOK'
  BY DEF RepositoryInv, TypeOK
<1>3. IdentifiersHaveOwners'
  <2> SUFFICES ASSUME NEW j \in InUse(repo)'
               PROVE  repo'.object_to_id[repo'.id_to_object[j]] = j
    BY DEF IdentifiersHaveOwners
  <2>1. j \in Id /\ j # i /\ j \in InUse(repo) /\ repo'.id_to_object[j] = repo.id_to_object[j]
    BY <1>1 DEF InUse
  <2>2. repo.id_to_object[j] \in Object /\ repo.object_to_id[repo.id_to_object[j]] = j
    BY <2>1 DEF RepositoryInv, TypeOK, IdentifiersHaveOwners, InUse
  <2> QED BY <1>1, <2>1, <2>2
<1>4. Replicated(repo)' \subseteq Replicated(repo)
  BY <1>1 DEF Replicated
<1>5. IsFiniteSet(Replicated(repo))'
  BY <1>4, FS_Subset DEF RepositoryInv
<1> QED BY <1>2, <1>3, <1>5 DEF RepositoryInv

LEMMA RepositoryInit == Init => RepositoryInv
<1> SUFFICES ASSUME Init PROVE RepositoryInv
  OBVIOUS
<1>1. TypeOK
  BY IdAssumption DEF Init, TypeOK, EmptyRepository, Id
<1>2. InUse(repo) = {} /\ Replicated(repo) = {}
  BY DEF Init, EmptyRepository, InUse, Replicated
<1> QED BY <1>1, <1>2, FS_EmptySet DEF RepositoryInv, IdentifiersHaveOwners

LEMMA RepositoryStep == RepositoryInv /\ [Next]_vars => RepositoryInv'
<1> SUFFICES ASSUME RepositoryInv, [Next]_vars PROVE RepositoryInv'
  OBVIOUS
<1>1. ASSUME NEW o \in Object, AddObject(o) PROVE RepositoryInv'
  <2>1. PICK i \in NextIds(repo) : repo' = [Registered(repo, o, i) EXCEPT !.current_id = i]
    BY <1>1 DEF AddObject
  <2>2. i \in Id
    BY DEF NextIds
  <2> QED BY <1>1, <2>1, <2>2, RegisteredKeeps DEF AddObject
<1>2. ASSUME NEW o \in Object, NEW i \in Id, AddObjectWithId(o, i) PROVE RepositoryInv'
  <2>1. repo.current_id \in Id /\ repo' = [Registered(repo, o, i) EXCEPT !.current_id = repo.current_id]
    BY <1>2 DEF AddObjectWithId, Registered, RepositoryInv, TypeOK
  <2> QED BY <1>2, <2>1, RegisteredKeeps DEF AddObjectWithId
<1>3. ASSUME NEW o \in Object, RemoveObject(o) PROVE RepositoryInv'
  <2>1. repo.object_to_id[o] \in Id
    BY <1>3 DEF RemoveObject, RepositoryInv, TypeOK, Replicated
  <2> QED BY <1>3, <2>1, RemovedKeeps DEF RemoveObject, Removed
<1>4. ASSUME NEW i \in Id, RemoveObjectId(i) PROVE RepositoryInv'
  <2> DEFINE o == repo.id_to_object[i]
  <2>1. o \in Object /\ repo.object_to_id[o] = i
    BY <1>4 DEF RemoveObjectId, RepositoryInv, TypeOK, IdentifiersHaveOwners, InUse
  <2>2. repo' = [repo EXCEPT !.id_to_object[i] = None, !.object_to_id[o] = -1,
                             !.object_awaits = @ \ {o}]
    BY <1>4 DEF RemoveObjectId, RepositoryInv, TypeOK
  <2> QED BY <1>4, <2>1, <2>2, RemovedKeeps DEF RemoveObjectId
<1>5. ASSUME NEW i \in Id, GetObject(i) PROVE RepositoryInv'
  <2>1. repo'.object_to_id = repo.object_to_id
        /\ \A j \in Id : repo'.id_to_object[j] = IF j = i THEN Found(repo, i, live) ELSE repo.id_to_object[j]
    BY <1>5 DEF GetObject, Looked, RepositoryInv, TypeOK
  <2>2. TypeOK'
    BY <1>5 DEF GetObject, Looked, Found, RepositoryInv, TypeOK
  <2>3. Replicated(repo)' = Replicated(repo)
    BY <2>1 DEF Replicated
  <2>4. IdentifiersHaveOwners'
    BY <1>5, <2>1, <2>3 DEF GetObject, Found, RepositoryInv, TypeOK, IdentifiersHaveOwners, InUse, Replicated
  <2> QED BY <2>2, <2>3, <2>4 DEF RepositoryInv
<1>6. ASSUME NEW o \in Object, AddObjectIdAwait(o) PROVE RepositoryInv'
  <2>1. repo'.object_to_id = repo.object_to_id /\ repo'.id_to_object = repo.id_to_object /\ live' = live
    BY <1>6 DEF AddObjectIdAwait, RepositoryInv, TypeOK
  <2>2. TypeOK'
    BY <1>6 DEF AddObjectIdAwait, RepositoryInv, TypeOK
  <2> QED BY <2>1, <2>2 DEF RepositoryInv, IdentifiersHaveOwners, InUse, Replicated
<1>7. ASSUME NEW o \in Object, Freed(o) PROVE RepositoryInv'
  BY <1>7 DEF Freed, RepositoryInv, TypeOK, IdentifiersHaveOwners, InUse, Replicated
<1>8. CASE UNCHANGED vars
  BY <1>8 DEF vars, RepositoryInv, TypeOK, IdentifiersHaveOwners, InUse, Replicated
<1> QED BY <1>1, <1>2, <1>3, <1>4, <1>5, <1>6, <1>7, <1>8 DEF Next

\* The strengthened invariant holds in every reachable state.
THEOREM RepositoryInvariant == Spec => []RepositoryInv
<1>1. Init => RepositoryInv
  BY RepositoryInit
<1>2. RepositoryInv /\ [Next]_vars => RepositoryInv'
  BY RepositoryStep
<1> QED BY <1>1, <1>2, PTL DEF Spec

\* An identifier leads to an object that carries it, whatever is added (under an
\* identifier in use, too), removed, looked up or freed, for any number of objects
\* and identifiers.
THEOREM IdentifiersLeadBack == Spec => []IdentifiersHaveOwners
<1>1. RepositoryInv => IdentifiersHaveOwners
  BY DEF RepositoryInv
<1> QED BY <1>1, RepositoryInvariant, PTL

\* A new entry under an identifier that nobody has hides no object.
LEMMA RegisteredFinds ==
  ASSUME RepositoryInv, ObjectsAreFound,
         NEW o \in live \ Replicated(repo), NEW i \in Id \ InUse(repo), NEW c \in Id,
         repo' = [Registered(repo, o, i) EXCEPT !.current_id = c], live' = live
  PROVE  ObjectsAreFound'
<1>1. o \in Object /\ i \in Id /\ o # None /\ i # -1
  BY NoneAssumption DEF RepositoryInv, TypeOK, Id
<1>2. /\ \A x \in Object : repo'.object_to_id[x] = IF x = o THEN i ELSE repo.object_to_id[x]
      /\ \A j \in Id : repo'.id_to_object[j] = IF j = i THEN o ELSE repo.id_to_object[j]
  BY <1>1 DEF RepositoryInv, TypeOK, Registered
<1> SUFFICES ASSUME NEW x \in live \cap Replicated(repo)'
             PROVE  repo'.id_to_object[repo'.object_to_id[x]] = x
  BY DEF ObjectsAreFound
<1>3. CASE x = o
  BY <1>1, <1>2, <1>3
<1>4. CASE x # o
  <2>1. x \in live \cap Replicated(repo) /\ x \in Object /\ repo'.object_to_id[x] = repo.object_to_id[x]
    BY <1>2, <1>4 DEF Replicated
  <2>2. repo.id_to_object[repo.object_to_id[x]] = x /\ repo.object_to_id[x] \in Id
    BY <2>1 DEF RepositoryInv, TypeOK, ObjectsAreFound, Replicated
  <2>3. repo.object_to_id[x] # i
    BY <2>1, <2>2, NoneAssumption DEF InUse
  <2> QED BY <1>2, <2>1, <2>2, <2>3
<1> QED BY <1>3, <1>4

\* An object that is found and its identifier go together.
LEMMA RemovedFinds ==
  ASSUME RepositoryInv, ObjectsAreFound, NEW o \in Object, NEW i \in Id,
         repo.object_to_id[o] = i, repo.id_to_object[i] = o,
         repo' = [repo EXCEPT !.id_to_object[i] = None, !.object_to_id[o] = -1,
                              !.object_awaits = @ \ {o}],
         live' = live
  PROVE  ObjectsAreFound'
<1>1. /\ \A x \in Object : repo'.object_to_id[x] = IF x = o THEN -1 ELSE repo.object_to_id[x]
      /\ \A j \in Id : repo'.id_to_object[j] = IF j = i THEN None ELSE repo.id_to_object[j]
  BY DEF RepositoryInv, TypeOK
<1> SUFFICES ASSUME NEW x \in live \cap Replicated(repo)'
             PROVE  repo'.id_to_object[repo'.object_to_id[x]] = x
  BY DEF ObjectsAreFound
<1>2. x \in live \cap Replicated(repo) /\ x # o /\ x \in Object
  BY <1>1 DEF Replicated
<1>3. repo.id_to_object[repo.object_to_id[x]] = x /\ repo.object_to_id[x] \in Id
  BY <1>2 DEF RepositoryInv, TypeOK, ObjectsAreFound, Replicated
<1> QED BY <1>1, <1>2, <1>3

LEMMA ObjectsFoundStep ==
  RepositoryInv /\ ObjectsAreFound /\ [Next]_vars => ObjectsAreFound' \/ Stomps
<1> SUFFICES ASSUME RepositoryInv, ObjectsAreFound, [Next]_vars, ~ Stomps
             PROVE  ObjectsAreFound'
  OBVIOUS
<1>1. ASSUME NEW o \in Object, AddObject(o) PROVE ObjectsAreFound'
  <2>1. PICK i \in NextIds(repo) : repo' = [Registered(repo, o, i) EXCEPT !.current_id = i]
    BY <1>1 DEF AddObject
  <2>2. i \in Id \ InUse(repo)
    BY DEF NextIds
  <2> QED BY <1>1, <2>1, <2>2, RegisteredFinds DEF AddObject
<1>2. ASSUME NEW o \in Object, NEW i \in Id, AddObjectWithId(o, i) PROVE ObjectsAreFound'
  <2>1. repo.current_id \in Id /\ repo' = [Registered(repo, o, i) EXCEPT !.current_id = repo.current_id]
    BY <1>2 DEF AddObjectWithId, Registered, RepositoryInv, TypeOK
  <2>2. i \notin InUse(repo)
    BY <1>2 DEF Stomps
  <2> QED BY <1>2, <2>1, <2>2, RegisteredFinds DEF AddObjectWithId
<1>3. ASSUME NEW o \in Object, RemoveObject(o) PROVE ObjectsAreFound'
  <2>1. repo.object_to_id[o] \in Id /\ repo.id_to_object[repo.object_to_id[o]] = o
    BY <1>3 DEF RemoveObject, RepositoryInv, TypeOK, ObjectsAreFound, Replicated
  <2> QED BY <1>3, <2>1, RemovedFinds DEF RemoveObject, Removed
<1>4. ASSUME NEW i \in Id, RemoveObjectId(i) PROVE ObjectsAreFound'
  <2> DEFINE o == repo.id_to_object[i]
  <2>1. o \in Object /\ repo.object_to_id[o] = i
    BY <1>4 DEF RemoveObjectId, RepositoryInv, TypeOK, IdentifiersHaveOwners, InUse
  <2>2. repo' = [repo EXCEPT !.id_to_object[i] = None, !.object_to_id[o] = -1,
                             !.object_awaits = @ \ {o}]
    BY <1>4 DEF RemoveObjectId, RepositoryInv, TypeOK
  <2> QED BY <1>4, <2>1, <2>2, RemovedFinds DEF RemoveObjectId
<1>5. ASSUME NEW i \in Id, GetObject(i) PROVE ObjectsAreFound'
  <2>1. /\ repo'.object_to_id = repo.object_to_id /\ live' = live
        /\ \A j \in Id : repo'.id_to_object[j] = IF j = i THEN Found(repo, i, live) ELSE repo.id_to_object[j]
    BY <1>5 DEF GetObject, Looked, RepositoryInv, TypeOK
  <2> SUFFICES ASSUME NEW x \in live \cap Replicated(repo)
               PROVE  repo'.id_to_object[repo.object_to_id[x]] = x
    BY <2>1 DEF ObjectsAreFound, Replicated
  <2>2. repo.object_to_id[x] \in Id /\ repo.id_to_object[repo.object_to_id[x]] = x
    BY DEF RepositoryInv, TypeOK, ObjectsAreFound, Replicated
  <2> QED BY <2>1, <2>2 DEF Found
<1>6. ASSUME NEW o \in Object, AddObjectIdAwait(o) PROVE ObjectsAreFound'
  <2>1. repo'.object_to_id = repo.object_to_id /\ repo'.id_to_object = repo.id_to_object /\ live' = live
    BY <1>6 DEF AddObjectIdAwait, RepositoryInv, TypeOK
  <2> QED BY <2>1 DEF ObjectsAreFound, Replicated
<1>7. ASSUME NEW o \in Object, Freed(o) PROVE ObjectsAreFound'
  BY <1>7 DEF Freed, ObjectsAreFound, Replicated
<1>8. CASE UNCHANGED vars
  BY <1>8 DEF vars, ObjectsAreFound, Replicated
<1> QED BY <1>1, <1>2, <1>3, <1>4, <1>5, <1>6, <1>7, <1>8 DEF Next

\* Nothing but an object added under an identifier in use makes a living object
\* unreachable under its own.
THEOREM OnlyStompingHides == Spec => OnlyStompingLoses
<1>1. RepositoryInv /\ [Next]_vars => [ObjectsAreFound => ObjectsAreFound' \/ Stomps]_vars
  BY ObjectsFoundStep
<1> QED BY <1>1, RepositoryInvariant, PTL DEF Spec, OnlyStompingLoses

\* The search for a free identifier never runs forever once the assertion
\* against overflow has passed, although they look at different dictionaries.
THEOREM SearchAlwaysEnds == Spec => []SearchEnds
<1>1. RepositoryInv => SearchEnds
  <2> SUFFICES ASSUME RepositoryInv, Cardinality(Replicated(repo)) < MaxId, InUse(repo) = Id
               PROVE  FALSE
    BY DEF SearchEnds
  <2> DEFINE f == [i \in Id |-> repo.id_to_object[i]]
  <2>1. \A i \in Id : f[i] \in Replicated(repo)
    <3> TAKE i \in Id
    <3>1. repo.id_to_object[i] \in Object /\ repo.object_to_id[repo.id_to_object[i]] = i
      BY DEF RepositoryInv, TypeOK, IdentifiersHaveOwners, InUse
    <3> QED BY <3>1 DEF Replicated, Id
  <2>2. f \in [Id -> Replicated(repo)]
    BY <2>1
  <2>3. IsFiniteSet(Id) /\ Cardinality(Id) = MaxId
    <3>1. 0 \in Int /\ MaxId - 1 \in Int /\ ~(0 > MaxId - 1) /\ (MaxId - 1) - 0 + 1 = MaxId
      BY IdAssumption
    <3> QED BY <3>1, FS_Interval DEF Id
  <2>4. PICK i, j \in Id : i # j /\ f[i] = f[j]
    <3> HIDE DEF f
    <3> QED BY <2>2, <2>3, FS_PigeonHole DEF RepositoryInv
  <2>5. repo.object_to_id[repo.id_to_object[i]] = i /\ repo.object_to_id[repo.id_to_object[j]] = j
    BY DEF RepositoryInv, IdentifiersHaveOwners
  <2> QED BY <2>4, <2>5
<1> QED BY <1>1, RepositoryInvariant, PTL

------------------------------------------------------------------------------
(* NetBarrier, for any clients and any number of rounds.                       *)

\* In a round that nothing reaches into, what is under way is of this round, who
\* is not awaited any more has answered in it, and a timer that may go off is that
\* of the server's end.
CleanRound ==
  /\ \A m \in coming : m.round = round
  /\ awaiting_peers \subseteq asked /\ asked \subseteq awaiting_peers \cup heard
  /\ timer /\ ~ emitting => 0 \in said

BarrierInv == completed \in Nat /\ (clean => CleanRound) /\ B!NotEarly

LEMMA StartKeeps ==
  ASSUME BarrierInv, NEW S, B!Start(S)
  PROVE  BarrierInv'
<1>1. /\ completed' = 0 /\ coming' = coming /\ timer' = timer /\ emitting' = emitting
      /\ awaiting_peers' = S /\ asked' = S
      /\ clean' => coming = {} /\ (timer => emitting)
  BY DEF B!Start
<1> QED BY <1>1 DEF BarrierInv, CleanRound, B!NotEarly

\* A last answer completes the round when all have answered.
LEMMA ReceiveEndKeeps ==
  ASSUME BarrierInv, NEW m \in coming, B!ReceiveEnd(m)
  PROVE  BarrierInv'
<1>1. /\ coming' \subseteq coming /\ awaiting_peers' = awaiting_peers \ {m.peer}
      /\ heard' = IF m.round = round THEN heard \cup {m.peer} ELSE heard
      /\ ~ emitting /\ timer' = timer
      /\ UNCHANGED <<round, asked, clean, said, elapsed>>
  BY DEF B!ReceiveEnd, B!Checked
<1>2. \/ completed' = completed + 1 /\ awaiting_peers # {} /\ awaiting_peers' = {}
      \/ completed' = completed
  BY DEF B!ReceiveEnd, B!Checked
<1>3. clean => CleanRound' /\ heard \subseteq heard' /\ m.peer \in heard'
  BY <1>1 DEF BarrierInv, CleanRound
<1>4. ASSUME clean, completed' > 0
      PROVE  elapsed \/ (asked # {} /\ asked \subseteq heard')
  <2>1. CASE awaiting_peers # {} /\ awaiting_peers' = {}
    BY <1>1, <1>3, <1>4, <2>1 DEF BarrierInv, CleanRound
  <2>2. CASE completed' = completed
    BY <1>3, <1>4, <2>2 DEF BarrierInv, B!NotEarly
  <2> QED BY <1>2, <2>1, <2>2
<1>5. completed' \in Nat
  BY <1>2 DEF BarrierInv
<1> QED BY <1>1, <1>3, <1>4, <1>5 DEF BarrierInv, B!NotEarly

LEMMA ElapseKeeps ==
  ASSUME BarrierInv, B!Elapse
  PROVE  BarrierInv'
<1>1. /\ ~ emitting /\ timer /\ ~ timer' /\ (0 \in said => elapsed') /\ completed' = completed + 1
      /\ UNCHANGED <<awaiting_peers, coming, round, asked, clean, said, heard>>
  BY DEF B!Elapse
<1>2. clean => 0 \in said /\ CleanRound'
  BY <1>1 DEF BarrierInv, CleanRound
<1>3. completed' \in Nat
  BY <1>1 DEF BarrierInv
<1> QED BY <1>1, <1>2, <1>3 DEF BarrierInv, B!NotEarly

LEMMA OthersKeep ==
  ASSUME BarrierInv, B!ServerEnd \/ B!Emitted \/ (\E p \in Peer : B!ClientEnd(p) \/ B!Disconnect(p))
  PROVE  BarrierInv'
<1>1. CASE B!ServerEnd
  BY <1>1 DEF B!ServerEnd, BarrierInv, CleanRound, B!NotEarly
<1>2. CASE B!Emitted
  BY <1>2 DEF B!Emitted, BarrierInv, CleanRound, B!NotEarly
<1>3. ASSUME NEW p \in Peer, B!ClientEnd(p) PROVE BarrierInv'
  BY <1>3 DEF B!ClientEnd, BarrierInv, CleanRound, B!NotEarly
<1>4. ASSUME NEW p \in Peer, B!Disconnect(p) PROVE BarrierInv'
  BY <1>4 DEF B!Disconnect, B!history, BarrierInv, CleanRound, B!NotEarly
<1> QED BY <1>1, <1>2, <1>3, <1>4

\* No round completes early that nothing of an earlier one reaches into: for any
\* clients and any number of rounds, whoever disconnects, whoever else answers and
\* whatever the handlers of complete start and end.
THEOREM NeverEarly == B!Spec => []NotEarly
<1>1. B!Init => BarrierInv
  BY DEF B!Init, BarrierInv, CleanRound, B!NotEarly
<1>2. ASSUME BarrierInv, [B!Next]_B!vars
      PROVE  BarrierInv'
  <2>1. CASE \E S \in SUBSET connected : B!Start(S)
    BY <1>2, <2>1, StartKeeps
  <2>2. CASE B!ServerEnd \/ B!Emitted \/ (\E p \in Peer : B!ClientEnd(p) \/ B!Disconnect(p))
    BY <1>2, <2>2, OthersKeep
  <2>3. CASE B!Elapse
    BY <1>2, <2>3, ElapseKeeps
  <2>4. CASE \E m \in coming : B!ReceiveEnd(m)
    BY <1>2, <2>4, ReceiveEndKeeps
  <2>5. CASE UNCHANGED B!vars
    BY <1>2, <2>5 DEF B!vars, B!history, BarrierInv, CleanRound, B!NotEarly
  <2> QED BY <1>2, <2>1, <2>2, <2>3, <2>4, <2>5 DEF B!Next
<1>3. BarrierInv => NotEarly
  BY DEF BarrierInv, NotEarly
<1> QED BY <1>1, <1>2, <1>3, PTL DEF B!Spec

------------------------------------------------------------------------------
(* RateLimiter, for every number of peers, count and duration. *)

(* s are the requests of one peer that are kept at time t, g all that were let *)
(* through. Those kept are the last of them; the others have left the window.  *)
IsSuffix(g, s) ==
  /\ Len(s) <= Len(g) /\ Len(s) <= count
  /\ \A i \in 1 .. Len(s) : s[i] = g[Len(g) - Len(s) + i]

OthersAreOld(g, s, t) == \A i \in 1 .. Len(g) - Len(s) : g[i] + duration < t

InOrder(g, t) ==
  /\ \A i, j \in 1 .. Len(g) : i <= j => g[i] <= g[j]
  /\ \A i \in 1 .. Len(g) : g[i] <= t

Spread(g) == \A i \in 1 .. Len(g) : i + count <= Len(g) => g[i + count] > g[i] + duration

Window(g, s, t) == IsSuffix(g, s) /\ OthersAreOld(g, s, t) /\ InOrder(g, t) /\ Spread(g)

Timed ==
  /\ now \in Nat
  /\ ids \in [Peer -> Seq(Nat)]
  /\ log \in [Peer -> Seq(Nat)]

LimitInv == Timed /\ \A p \in Peer : Window(log[p], ids[p], now)

------------------------------------------------------------------------------
\* The instance counts as this module does.
LEMMA SameCardinality == \A S : L!Cardinality(S) = Cardinality(S)
BY DEF L!Cardinality, Cardinality

\* A set of natural numbers has a least one.
LEMMA LeastIsThere ==
  ASSUME NEW S \in SUBSET Nat, S # {}
  PROVE  L!Min(S) \in S /\ \A y \in S : L!Min(S) <= y
<1>. DEFINE R == {ss \in Nat \X Nat : ss[1] < ss[2]}
<1>1. IsWellFoundedOn(R, Nat)
  BY NatLessThanWellFounded DEF OpToRel
<1>2. PICK x \in S : \A y \in S : <<y, x>> \notin R
  <2>. HIDE DEF R
  <2>. QED BY <1>1, WFMin
<1>3. ASSUME NEW y \in S PROVE x <= y
  <2>1. x \in Nat /\ y \in Nat /\ <<y, x>> \in Nat \X Nat /\ ~(y < x)
    BY <1>2
  <2>. QED BY <2>1
<1>. QED BY <1>3 DEF L!Min

\* What the loop of check leaves: it drops the first f, all too old, and stops
\* at one that is not, if there is one.
LEMMA FreshIsASuffix ==
  ASSUME now \in Nat, duration \in Nat, NEW s \in Seq(Nat)
  PROVE  \E f \in 0 .. Len(s) :
           /\ L!Fresh(s) = SubSeq(s, f + 1, Len(s))
           /\ \A i \in 1 .. f : s[i] + duration < now
           /\ f < Len(s) => s[f + 1] + duration >= now
<1>. DEFINE stops == {n \in 0 .. Len(s) : n < Len(s) => s[n + 1] + duration >= now}
            f == L!Min(stops)
<1>1. Len(s) \in stops /\ stops \in SUBSET Nat
  OBVIOUS
<1>2. f \in stops /\ \A y \in stops : f <= y
  BY <1>1, LeastIsThere
<1>3. \A i \in 1 .. f : s[i] + duration < now
  <2>. SUFFICES ASSUME NEW i \in 1 .. f PROVE s[i] + duration < now
    OBVIOUS
  <2>0. f \in 0 .. Len(s) /\ \A y \in 0 .. Len(s) : y \in stops => f <= y
    BY <1>2
  <2>. HIDE DEF f
  <2>1. i - 1 \in 0 .. Len(s) /\ i - 1 \notin stops
    <3>1. i - 1 \in 0 .. Len(s) /\ ~(f <= i - 1)
      BY <2>0
    <3>. HIDE DEF stops
    <3>. QED BY <2>0, <3>1
  <2>2. i - 1 < Len(s) /\ ~(s[i] + duration >= now) /\ s[i] \in Nat
    BY <2>1
  <2>. QED BY <2>2
<1>4. L!Fresh(s) = SubSeq(s, f + 1, Len(s))
  BY DEF L!Fresh
<1>. QED BY <1>2, <1>3, <1>4

------------------------------------------------------------------------------
\* Time passes: what has left the window stays out of it.
LEMMA WindowAges ==
  ASSUME NEW g \in Seq(Nat), NEW s \in Seq(Nat), NEW t \in Nat, duration \in Nat, Window(g, s, t)
  PROVE  Window(g, s, t + 1)
<1>1. \A i \in 1 .. Len(g) : g[i] \in Nat
  OBVIOUS
<1>2. \A i \in 1 .. Len(g) - Len(s) : i \in 1 .. Len(g)
  OBVIOUS
<1>3. OthersAreOld(g, s, t + 1)
  <2>. SUFFICES ASSUME NEW i \in 1 .. Len(g) - Len(s) PROVE g[i] + duration < t + 1
    BY DEF OthersAreOld
  <2>1. g[i] + duration < t /\ g[i] \in Nat
    BY <1>1, <1>2 DEF Window, OthersAreOld
  <2>. QED BY <2>1
<1>4. InOrder(g, t + 1)
  <2>. SUFFICES ASSUME NEW i \in 1 .. Len(g) PROVE g[i] <= t + 1
    BY DEF Window, InOrder
  <2>1. g[i] <= t /\ g[i] \in Nat
    BY <1>1 DEF Window, InOrder
  <2>. QED BY <2>1
<1>. QED BY <1>3, <1>4 DEF Window

\* The first f may be dropped when they are too old.
LEMMA OldMayGo ==
  ASSUME NEW g \in Seq(Nat), NEW s \in Seq(Nat), NEW t \in Nat, count \in Nat, duration \in Nat,
         Window(g, s, t),
         NEW f \in 0 .. Len(s), \A i \in 1 .. f : s[i] + duration < t
  PROVE  Window(g, SubSeq(s, f + 1, Len(s)), t)
<1>. DEFINE r == SubSeq(s, f + 1, Len(s))
            n == Len(g)
            k == Len(s)
<1>1. n \in Nat /\ k \in Nat /\ k <= n /\ k <= count /\ f \in Nat /\ f <= k
  BY DEF Window, IsSuffix
<1>2. Len(r) = k - f /\ \A i \in 1 .. k - f : r[i] = s[f + i]
  BY <1>1
<1>3. \A i \in 1 .. k : s[i] = g[n - k + i]
  BY DEF Window, IsSuffix
<1>. HIDE DEF n, k, r
<1>4. ASSUME NEW i \in 1 .. k - f PROVE r[i] = g[n - (k - f) + i]
  <2>1. f + i \in 1 .. k /\ n - k + (f + i) = n - (k - f) + i
    BY <1>1
  <2>. QED BY <1>2, <1>3, <2>1
<1>5. ASSUME NEW i \in 1 .. n - (k - f) PROVE g[i] + duration < t
  <2>1. CASE i <= n - k
    BY <1>1, <2>1 DEF Window, OthersAreOld, n, k
  <2>2. CASE i > n - k
    <3>1. i - (n - k) \in 1 .. k /\ i - (n - k) \in 1 .. f /\ n - k + (i - (n - k)) = i
      BY <1>1, <2>2
    <3>2. s[i - (n - k)] = g[n - k + (i - (n - k))] /\ s[i - (n - k)] + duration < t
      BY <1>3, <3>1
    <3>. QED BY <3>1, <3>2
  <2>. QED BY <1>1, <2>1, <2>2
<1>6. IsSuffix(g, r)
  BY <1>1, <1>2, <1>4 DEF IsSuffix, n
<1>7. OthersAreOld(g, r, t)
  BY <1>2, <1>5 DEF OthersAreOld, n
<1>. QED BY <1>6, <1>7 DEF Window, r, k

\* A request is let through where fewer than count are kept.
LEMMA RoomForOne ==
  ASSUME NEW g \in Seq(Nat), NEW s \in Seq(Nat), NEW t \in Nat, count \in Nat, duration \in Nat,
         Window(g, s, t), Len(s) < count
  PROVE  Window(Append(g, t), Append(s, t), t)
<1>. DEFINE n == Len(g)
            k == Len(s)
            g1 == Append(g, t)
            s1 == Append(s, t)
<1>1. n \in Nat /\ k \in Nat /\ k <= n /\ k + 1 <= count
  BY DEF Window, IsSuffix
<1>2. /\ Len(g1) = n + 1 /\ g1[n + 1] = t /\ \A i \in 1 .. n : g1[i] = g[i] /\ g[i] \in Nat
      /\ Len(s1) = k + 1 /\ s1[k + 1] = t /\ \A i \in 1 .. k : s1[i] = s[i]
  OBVIOUS
<1>3. \A i \in 1 .. k : s[i] = g[n - k + i] /\ n - k + i \in 1 .. n
  BY <1>1 DEF Window, IsSuffix
<1>4. \A i \in 1 .. n - k : g[i] + duration < t /\ i \in 1 .. n
  BY <1>1 DEF Window, OthersAreOld
<1>5. /\ \A i \in 1 .. n : g[i] <= t
      /\ \A i, j \in 1 .. n : i <= j => g[i] <= g[j]
      /\ \A i \in 1 .. n : i + count <= n => g[i + count] > g[i] + duration
  BY DEF Window, InOrder, Spread
<1>. HIDE DEF n, k, g1, s1
<1>6. IsSuffix(g1, s1)
  <2>1. ASSUME NEW i \in 1 .. k + 1 PROVE s1[i] = g1[(n + 1) - (k + 1) + i]
    <3>1. (n + 1) - (k + 1) + i = n - k + i
      BY <1>1
    <3>2. CASE i \in 1 .. k
      BY <1>2, <1>3, <3>1, <3>2
    <3>3. CASE i = k + 1
      BY <1>1, <1>2, <3>1, <3>3
    <3>. QED BY <1>1, <3>2, <3>3
  <2>. QED BY <1>1, <1>2, <2>1 DEF IsSuffix
<1>7. OthersAreOld(g1, s1, t)
  <2>1. (n + 1) - (k + 1) = n - k
    BY <1>1
  <2>. QED BY <1>2, <1>4, <2>1 DEF OthersAreOld
<1>8. InOrder(g1, t)
  <2>1. ASSUME NEW i \in 1 .. n + 1 PROVE g1[i] <= t
    <3>1. i \in 1 .. n \/ i = n + 1
      BY <1>1
    <3>. QED BY <1>2, <1>5, <3>1, SMTT(30)
  <2>2. ASSUME NEW i \in 1 .. n + 1, NEW j \in 1 .. n + 1, i <= j PROVE g1[i] <= g1[j]
    <3>1. (i \in 1 .. n /\ j \in 1 .. n) \/ j = n + 1
      BY <1>1, <2>2
    <3>. QED BY <1>2, <1>5, <2>1, <2>2, <3>1
  <2>. QED BY <1>2, <2>1, <2>2 DEF InOrder
<1>9. Spread(g1)
  <2>1. ASSUME NEW i \in 1 .. n + 1, i + count <= n + 1 PROVE g1[i + count] > g1[i] + duration
    <3>1. i \in 1 .. n
      BY <1>1, <2>1
    <3>2. CASE i + count <= n
      <4>1. i + count \in 1 .. n
        BY <1>1, <3>1, <3>2
      <4>. QED BY <1>2, <1>5, <3>1, <3>2, <4>1
    <3>3. CASE i + count = n + 1
      <4>1. i \in 1 .. n - k
        BY <1>1, <3>1, <3>3
      <4>. QED BY <1>2, <1>4, <3>1, <3>3, <4>1
    <3>. QED BY <1>1, <2>1, <3>2, <3>3
  <2>. QED BY <1>2, <2>1 DEF Spread
<1>. QED BY <1>6, <1>7, <1>8, <1>9 DEF Window, g1, s1

------------------------------------------------------------------------------
\* The invariant holds at the start: nothing was let through.
LEMMA LimitInit ==
  ASSUME count \in Nat, duration \in Nat, L!Init
  PROVE  LimitInv
<1>1. Timed
  BY DEF L!Init, Timed
<1>2. Window(<<>>, <<>>, 0)
  BY DEF Window, IsSuffix, OthersAreOld, InOrder, Spread
<1>. QED BY <1>1, <1>2 DEF LimitInv, L!Init

\* check keeps it: it drops what is too old, and may then let one through.
LEMMA CheckKeeps ==
  ASSUME count \in Nat, duration \in Nat, LimitInv, NEW q \in Peer, L!check(q)
  PROVE  LimitInv'
<1>. DEFINE s == L!Fresh(ids[q])
<1>1. Timed /\ ids[q] \in Seq(Nat) /\ log[q] \in Seq(Nat) /\ Window(log[q], ids[q], now)
  BY DEF LimitInv, Timed
<1>2. now \in Nat
  BY <1>1 DEF Timed
<1>3. s \in Seq(Nat) /\ Window(log[q], s, now)
  <2>1. PICK f \in 0 .. Len(ids[q]) :
          /\ s = SubSeq(ids[q], f + 1, Len(ids[q]))
          /\ \A i \in 1 .. f : ids[q][i] + duration < now
    BY <1>1, <1>2, FreshIsASuffix
  <2>2. Window(log[q], SubSeq(ids[q], f + 1, Len(ids[q])), now)
    BY <1>1, <1>2, <2>1, OldMayGo
  <2>3. SubSeq(ids[q], f + 1, Len(ids[q])) \in Seq(Nat)
    BY <1>1
  <2>. HIDE DEF s
  <2>. QED BY <2>1, <2>2, <2>3
<1>4. /\ now' = now
      /\ ids' = [ids EXCEPT ![q] = IF Len(s) < count THEN Append(s, now) ELSE s]
      /\ log' = [log EXCEPT ![q] = IF Len(s) < count THEN Append(@, now) ELSE @]
  BY DEF L!check
<1>. HIDE DEF s
<1>5. Timed' /\ Window(log'[q], ids'[q], now')
  <2>1. CASE Len(s) < count
    <3>1. Window(Append(log[q], now), Append(s, now), now)
      BY <1>1, <1>2, <1>3, <2>1, RoomForOne
    <3>2. ids'[q] = Append(s, now) /\ log'[q] = Append(log[q], now)
      BY <1>1, <1>4, <2>1 DEF Timed
    <3>3. Append(s, now) \in Seq(Nat) /\ Append(log[q], now) \in Seq(Nat)
      BY <1>1, <1>2, <1>3
    <3>. QED BY <1>1, <1>4, <2>1, <3>1, <3>2, <3>3 DEF Timed
  <2>2. CASE ~(Len(s) < count)
    BY <1>1, <1>3, <1>4, <2>2 DEF Timed
  <2>. QED BY <2>1, <2>2
<1>6. \A p \in Peer : p # q => Window(log'[p], ids'[p], now')
  BY <1>1, <1>4 DEF LimitInv, Timed
<1>. QED BY <1>5, <1>6 DEF LimitInv

\* Every step keeps the invariant.
LEMMA LimitStep ==
  ASSUME count \in Nat, duration \in Nat, LimitInv, [L!Next]_L!vars
  PROVE  LimitInv'
<1>0. Timed
  BY DEF LimitInv
<1>1. ASSUME L!Tick PROVE LimitInv'
  <2>1. \A p \in Peer : Window(log[p], ids[p], now + 1)
    BY <1>0, WindowAges DEF LimitInv, Timed
  <2>. QED BY <1>0, <1>1, <2>1 DEF L!Tick, LimitInv, Timed
<1>2. ASSUME NEW q \in Peer, L!check(q) PROVE LimitInv'
  BY <1>2, CheckKeeps
<1>3. ASSUME NEW q \in Peer, L!disconnect(q) PROVE LimitInv'
  <2>1. Timed' /\ now' = now
    BY <1>0, <1>3 DEF L!disconnect, Timed
  <2>2. Window(<<>>, <<>>, now)
    BY DEF Window, IsSuffix, OthersAreOld, InOrder, Spread
  <2>3. ASSUME NEW p \in Peer PROVE Window(log'[p], ids'[p], now')
    BY <1>0, <1>3, <2>1, <2>2 DEF L!disconnect, LimitInv, Timed
  <2>. QED BY <2>1, <2>3 DEF LimitInv
<1>4. CASE UNCHANGED L!vars
  BY <1>0, <1>4 DEF L!vars, LimitInv, Timed
<1>. QED BY <1>1, <1>2, <1>3, <1>4 DEF L!Next

\* For every count and duration, what is kept for a peer is the end of what was
\* let through, and everything before it has left the window (check).
THEOREM LimitInvariant == L!Spec => []LimitInv
<1>. USE LimitAssumption
<1>1. L!Init => LimitInv
  BY LimitInit
<1>2. LimitInv /\ [L!Next]_L!vars => LimitInv'
  BY LimitStep
<1>. QED BY <1>1, <1>2, PTL DEF L!Spec

\* However many peers ask, however often: of one peer no count + 1 requests are
\* let through within duration (check).
THEOREM LimitHolds == L!Spec => []L!NeverTooMany
<1>. USE LimitAssumption
<1>1. LimitInv => L!NeverTooMany
  <2>. SUFFICES ASSUME LimitInv, NEW p \in Peer, NEW i \in L!Times(p), i + count \in L!Times(p)
                PROVE  log[p][i + count] > log[p][i] + duration
    BY DEF L!NeverTooMany
  <2>1. log[p] \in Seq(Nat) /\ Spread(log[p])
    BY DEF LimitInv, Timed, Window
  <2>2. L!Times(p) = 1 .. Len(log[p]) /\ Len(log[p]) \in Nat
    BY <2>1 DEF L!Times
  <2>3. i \in 1 .. Len(log[p]) /\ i + count <= Len(log[p])
    <3>1. i \in 1 .. Len(log[p]) /\ i + count \in 1 .. Len(log[p])
      BY <2>2
    <3>. QED BY <2>2, <3>1
  <2>4. \A j \in 1 .. Len(log[p]) : j + count <= Len(log[p]) => log[p][j + count] > log[p][j] + duration
    BY <2>1 DEF Spread
  <2>. QED BY <2>3, <2>4
<1>. QED BY <1>1, LimitInvariant, PTL

\* The number that check compares with count is that of the requests let through
\* within the last duration, for every count and duration.
THEOREM CountsTheWindow == L!Spec => []L!WindowIsExact
<1>. USE LimitAssumption
<1>1. LimitInv => L!WindowIsExact
  <2>. SUFFICES ASSUME LimitInv, NEW p \in Peer
                PROVE  Len(L!Fresh(ids[p])) = L!Cardinality(L!Lately(p))
    BY DEF L!WindowIsExact
  <2>. DEFINE g == log[p]
              s == ids[p]
  <2>1. g \in Seq(Nat) /\ s \in Seq(Nat) /\ Window(g, s, now) /\ now \in Nat
    BY DEF LimitInv, Timed
  <2>2. PICK f \in 0 .. Len(s) :
          /\ L!Fresh(s) = SubSeq(s, f + 1, Len(s))
          /\ \A i \in 1 .. f : s[i] + duration < now
          /\ f < Len(s) => s[f + 1] + duration >= now
    BY <2>1, FreshIsASuffix
  <2>. DEFINE n == Len(g)
              k == Len(s)
              b == n - (k - f)
  <2>3. n \in Nat /\ k \in Nat /\ k <= n /\ f \in Nat /\ f <= k /\ b \in 0 .. n
    <3>1. n \in Nat /\ k \in Nat /\ k <= n
      BY <2>1 DEF Window, IsSuffix
    <3>. HIDE DEF n, s
    <3>. QED BY <3>1
  <2>4. Len(SubSeq(s, f + 1, k)) = k - f
    BY <2>1, <2>3
  <2>5. Window(g, SubSeq(s, f + 1, k), now)
    BY <2>1, <2>2, OldMayGo
  <2>6. \A i \in 1 .. b : g[i] + duration < now
    BY <2>4, <2>5 DEF Window, OthersAreOld
  <2>7. \A j \in 1 .. k : s[j] = g[n - k + j]
    BY <2>1 DEF Window, IsSuffix
  <2>8. \A i, j \in 1 .. n : i <= j => g[i] <= g[j]
    BY <2>1 DEF Window, InOrder
  <2>9. \A i \in 1 .. n : g[i] \in Nat
    BY <2>1
  <2>10. L!Lately(p) = {i \in 1 .. n : g[i] + duration >= now}
    BY <2>1 DEF L!Lately, L!Times
  <2>. HIDE DEF g, s, n, k
  <2>11. ASSUME NEW i \in b + 1 .. n PROVE g[i] + duration >= now
    <3>1. f < k /\ f + 1 \in 1 .. k /\ b + 1 \in 1 .. n /\ n - k + (f + 1) = b + 1
          /\ i \in 1 .. n /\ b + 1 <= i
      BY <2>3
    <3>2. g[b + 1] + duration >= now
      BY <2>2, <2>7, <3>1 DEF k
    <3>3. g[b + 1] <= g[i] /\ g[b + 1] \in Nat /\ g[i] \in Nat
      BY <2>8, <2>9, <3>1
    <3>. QED BY <2>1, <3>2, <3>3
  <2>12. L!Lately(p) = b + 1 .. n
    <3>1. \A i \in 1 .. n : i \in 1 .. b \/ i \in b + 1 .. n
      BY <2>3
    <3>2. \A i \in 1 .. n : g[i] + duration >= now => ~(g[i] + duration < now)
      BY <2>1, <2>9
    <3>3. \A i \in b + 1 .. n : i \in 1 .. n
      BY <2>3
    <3>. HIDE DEF b
    <3>. QED BY <2>6, <2>10, <2>11, <3>1, <3>2, <3>3
  <2>13. L!Cardinality(b + 1 .. n) = k - f
    <3>1. b + 1 \in Int /\ n \in Int
      BY <2>3
    <3>2. L!Cardinality(b + 1 .. n) = IF b + 1 > n THEN 0 ELSE n - (b + 1) + 1
      BY <3>1, FS_Interval, SameCardinality
    <3>. QED BY <2>3, <3>2
  <2>14. L!Fresh(ids[p]) = SubSeq(s, f + 1, k)
    BY <2>2 DEF k, s
  <2>. QED BY <2>4, <2>12, <2>13, <2>14
<1>. QED BY <1>1, LimitInvariant, PTL

\* Both hold together of every state.
THEOREM LimitExact == L!Spec => []LimitIsExact
<1>1. L!NeverTooMany /\ L!WindowIsExact => LimitIsExact
  BY DEF LimitIsExact
<1>. QED BY <1>1, LimitHolds, CountsTheWindow, PTL

------------------------------------------------------------------------------
(* DatabaseService, for any objects and keys. *)

\* The requests, and those that a track_object awaits.
Request == [op : {"read", "save", "untrack", "autosave"}, object : Saved, value : 0 .. MaxProgress, served : BOOLEAN]
Due(r) == r.op \in {"read", "save"}

DatabaseTypes ==
  /\ setup \in Setups
  /\ phase \in [Saved -> D!Phase]
  /\ tracked \subseteq Saved /\ locked \in BOOLEAN
  /\ value \in [Saved -> 0 .. MaxProgress] /\ store \in [Key -> 0 .. MaxProgress]
  /\ requests \subseteq Request

\* A track_object awaits the one request of its object that its phase names.
Awaited ==
  /\ \A r \in requests : r.op = "read" => phase[r.object] = "reading"
  /\ \A r \in requests : r.op = "save" => phase[r.object] = "saving"
  /\ \A o \in Saved : phase[o] = "reading" => \E r \in requests : r.object = o /\ r.op = "read"
  /\ \A o \in Saved : phase[o] = "saving" => \E r \in requests : r.object = o /\ r.op = "save"
  /\ \A r, q \in requests : r.object = q.object /\ Due(r) /\ Due(q) => r = q

DatabaseInv == DatabaseTypes /\ Awaited

LEMMA DatabaseInit == D!Init => DatabaseInv
<1> SUFFICES ASSUME D!Init PROVE DatabaseInv
  OBVIOUS
<1>1. 0 \in 0 .. MaxProgress
  BY SetupsAssumption
<1>2. DatabaseTypes
  BY <1>1 DEF D!Init, DatabaseTypes, D!Phase
<1>3. Awaited
  BY DEF D!Init, Awaited
<1> QED BY <1>2, <1>3 DEF DatabaseInv

LEMMA TypesAre == DatabaseInv => D!TypeOK
<1> SUFFICES ASSUME DatabaseInv PROVE D!TypeOK
  OBVIOUS
<1>1. \A o \in Saved, op \in {"read", "save"} :
        (\E r \in requests : r.object = o /\ r.op = op) <=> phase[o] = D!Awaiting[op]
  <2>1. D!Awaiting["read"] = "reading" /\ D!Awaiting["save"] = "saving"
    BY DEF D!Awaiting
  <2> QED BY <2>1 DEF DatabaseInv, Awaited
<1> QED BY <1>1 DEF DatabaseInv, DatabaseTypes, D!TypeOK, Request

LEMMA Keys ==
  ASSUME DatabaseInv
  PROVE  setup.key \in [Saved -> Key] /\ setup.async \in BOOLEAN
  BY SetupsAssumption DEF DatabaseInv, DatabaseTypes

LEMMA ReadIs ==
  ASSUME NEW o \in Saved
  PROVE  /\ D!Read(o) \in Request /\ D!Read(o).op = "read" /\ D!Read(o).object = o
         /\ D!Read(o).value = 0 /\ D!Read(o).served = FALSE
<1>1. 0 \in 0 .. MaxProgress
  BY SetupsAssumption
<1> QED BY <1>1 DEF D!Read, Request

\* The end of a track_object, and the wake-up of those at the barrier.
LEMMA CompleteKeeps ==
  ASSUME DatabaseInv, NEW r \in requests, Due(r), D!Complete(r.object, requests \ {r}), UNCHANGED <<setup, store>>,
         value' \in [Saved -> 0 .. MaxProgress]
  PROVE  DatabaseInv'
<1> DEFINE o == r.object
           W == D!Waiting
<1>0. DatabaseTypes /\ Awaited /\ o \in Saved
  BY DEF DatabaseInv, DatabaseTypes, Request
<1>1. /\ phase' = [q \in Saved |-> IF q = o THEN "done" ELSE IF q \in W THEN "reading" ELSE phase[q]]
      /\ locked' = (W # {}) /\ tracked' = tracked \cup W
      /\ requests' = (requests \ {r}) \cup {D!Read(q) : q \in W}
      /\ W \subseteq Saved /\ \A q \in Saved : q \in W <=> phase[q] = "waiting"
  BY DEF D!Complete, D!Tracking, D!Waiting
<1>2. \A q \in W : D!Read(q) \in Request /\ D!Read(q).op = "read" /\ D!Read(q).object = q
  BY <1>1, ReadIs
<1>3. phase[o] \in {"reading", "saving"} /\ o \notin W
  BY <1>0, <1>1 DEF Awaited, Due
<1>4. DatabaseTypes'
  BY <1>0, <1>1, <1>2 DEF DatabaseTypes, D!Phase
<1>5. \A q \in requests' : \/ q \in requests /\ q # r
                           \/ q.op = "read" /\ q.object \in W /\ q = D!Read(q.object)
  BY <1>1, <1>2
<1>6. \A q \in requests : q \in Request /\ q.object \in Saved
  BY <1>0 DEF DatabaseTypes, Request
<1>7. \A q \in requests : Due(q) /\ q # r => q.object # o /\ q.object \notin W
  BY <1>0, <1>1, <1>6 DEF Awaited, Due
<1> HIDE DEF o, W
<1>8. Awaited'
  <2>1. \A q \in requests' : q.op = "read" => phase'[q.object] = "reading"
    BY <1>0, <1>1, <1>3, <1>5, <1>6, <1>7 DEF Awaited, Due
  <2>2. \A q \in requests' : q.op = "save" => phase'[q.object] = "saving"
    BY <1>0, <1>1, <1>3, <1>5, <1>6, <1>7 DEF Awaited, Due
  <2>3. \A p \in Saved : phase'[p] = "reading" => \E q \in requests' : q.object = p /\ q.op = "read"
    BY <1>0, <1>1, <1>2, <1>3 DEF Awaited, o
  <2>4. \A p \in Saved : phase'[p] = "saving" => \E q \in requests' : q.object = p /\ q.op = "save"
    BY <1>0, <1>1, <1>2, <1>3 DEF Awaited, o
  <2>5. \A p, q \in requests' : p.object = q.object /\ Due(p) /\ Due(q) => p = q
    BY <1>0, <1>5, <1>7 DEF Awaited
  <2> QED BY <2>1, <2>2, <2>3, <2>4, <2>5 DEF Awaited
<1> QED BY <1>4, <1>8 DEF DatabaseInv

LEMMA ServeKeeps ==
  ASSUME DatabaseInv, NEW r \in requests, D!Serve(r), UNCHANGED setup
  PROVE  DatabaseInv'
<1>0. DatabaseTypes /\ Awaited /\ r \in Request /\ setup.key \in [Saved -> Key]
      /\ UNCHANGED <<phase, tracked, locked, value, setup>>
  BY Keys DEF DatabaseInv, DatabaseTypes, D!Serve
<1>1. \E s \in Request : requests' = (requests \ {r}) \cup {s} /\ s.op = r.op /\ s.object = r.object
  <2>1. CASE r.op = "read"
    <3> DEFINE s == [r EXCEPT !.served = TRUE, !.value = store[setup.key[r.object]]]
    <3>1. s \in Request /\ s.op = r.op /\ s.object = r.object
      BY <1>0 DEF Request, DatabaseTypes
    <3> QED BY <2>1, <3>1 DEF D!Serve
  <2>2. CASE r.op # "read"
    <3> DEFINE s == [r EXCEPT !.served = TRUE]
    <3>1. s \in Request /\ s.op = r.op /\ s.object = r.object
      BY <1>0 DEF Request
    <3> QED BY <2>2, <3>1 DEF D!Serve
  <2> QED BY <2>1, <2>2
<1>2. PICK s \in Request : requests' = (requests \ {r}) \cup {s} /\ s.op = r.op /\ s.object = r.object
  BY <1>1
<1>3. store' \in [Key -> 0 .. MaxProgress]
  BY <1>0 DEF D!Serve, Request, DatabaseTypes
<1>4. DatabaseTypes'
  BY <1>0, <1>2, <1>3 DEF DatabaseTypes
<1>5. Awaited'
  BY <1>0, <1>2 DEF Awaited, Due
<1> QED BY <1>4, <1>5 DEF DatabaseInv

LEMMA ReadDoneKeeps ==
  ASSUME DatabaseInv, NEW r \in requests, D!ReadDone(r), UNCHANGED setup
  PROVE  DatabaseInv'
<1> DEFINE o == r.object
<1>0. DatabaseTypes /\ Awaited /\ r \in Request /\ o \in Saved /\ r.op = "read" /\ phase[o] = "reading"
  BY DEF DatabaseInv, DatabaseTypes, Request, D!ReadDone, Awaited
<1>1. value' \in [Saved -> 0 .. MaxProgress] /\ UNCHANGED store
  BY <1>0 DEF D!ReadDone, D!Applied, Request, DatabaseTypes
<1>2. CASE o \in tracked
  <2> DEFINE s == [op |-> "save", object |-> o, value |-> value'[o], served |-> FALSE]
  <2>1. /\ phase' = [phase EXCEPT ![o] = "saving"] /\ requests' = (requests \ {r}) \cup {s}
        /\ UNCHANGED <<tracked, locked>>
    BY <1>2 DEF D!ReadDone
  <2>2. s \in Request /\ s.op = "save" /\ s.object = o
    BY <1>0, <1>1 DEF Request
  <2> HIDE DEF s
  <2>3. DatabaseTypes'
    BY <1>0, <1>1, <2>1, <2>2 DEF DatabaseTypes, D!Phase
  <2>4. \A q \in requests : Due(q) /\ q # r => q.object # o /\ q.object \in Saved
    BY <1>0 DEF Awaited, Due, DatabaseTypes, Request
  <2>5. \A q \in requests' : q = s \/ (q \in requests /\ q # r)
    BY <2>1
  <2>6. Awaited'
    <3>1. /\ \A q \in requests' : q.op = "read" => phase'[q.object] = "reading"
          /\ \A q \in requests' : q.op = "save" => phase'[q.object] = "saving"
      BY <1>0, <2>1, <2>2, <2>4, <2>5 DEF Awaited, Due, DatabaseTypes
    <3>2. /\ \A p \in Saved : phase'[p] = "reading" => \E q \in requests' : q.object = p /\ q.op = "read"
          /\ \A p \in Saved : phase'[p] = "saving" => \E q \in requests' : q.object = p /\ q.op = "save"
      BY <1>0, <2>1, <2>2 DEF Awaited, DatabaseTypes
    <3>3. \A p, q \in requests' : p.object = q.object /\ Due(p) /\ Due(q) => p = q
      BY <1>0, <2>2, <2>4, <2>5 DEF Awaited
    <3> QED BY <3>1, <3>2, <3>3 DEF Awaited
  <2> QED BY <2>3, <2>6 DEF DatabaseInv
<1>3. CASE o \notin tracked
  <2>1. D!Complete(o, requests \ {r})
    BY <1>3 DEF D!ReadDone
  <2> QED BY <1>0, <1>1, <2>1, CompleteKeeps DEF Due
<1> QED BY <1>2, <1>3

\* Requests that no track_object awaits come and go.
LEMMA OtherRequests ==
  ASSUME DatabaseInv, UNCHANGED <<setup, phase, locked, store, value>>, tracked' \subseteq Saved,
         requests' \subseteq Request, \A r \in Request : Due(r) => (r \in requests' <=> r \in requests)
  PROVE  DatabaseInv'
<1>0. DatabaseTypes /\ Awaited /\ requests \subseteq Request
  BY DEF DatabaseInv, DatabaseTypes
<1>1. DatabaseTypes'
  BY <1>0 DEF DatabaseTypes
<1>2. Awaited'
  BY <1>0 DEF Awaited, Due
<1> QED BY <1>1, <1>2 DEF DatabaseInv

LEMMA DatabaseStep ==
  ASSUME DatabaseInv, [D!Next]_D!vars
  PROVE  DatabaseInv'
<1>0. DatabaseTypes /\ Awaited
  BY DEF DatabaseInv
<1>1. ASSUME NEW o \in Saved, D!TrackObject(o), UNCHANGED setup PROVE DatabaseInv'
  <2>0. phase[o] = "new" /\ UNCHANGED <<value, store>> /\ \A r \in requests : Due(r) => r.object # o
    BY <1>0, <1>1 DEF D!TrackObject, Awaited, Due
  <2>1. CASE locked
    <3>1. phase' = [phase EXCEPT ![o] = "waiting"] /\ UNCHANGED <<locked, tracked, requests>>
      BY <1>1, <2>1 DEF D!TrackObject
    <3>2. DatabaseTypes'
      BY <1>0, <1>1, <2>0, <3>1 DEF DatabaseTypes, D!Phase
    <3>3. Awaited'
      BY <1>0, <2>0, <3>1 DEF Awaited, Due, DatabaseTypes, Request
    <3> QED BY <3>2, <3>3 DEF DatabaseInv
  <2>2. CASE ~ locked
    <3> DEFINE s == D!Read(o)
    <3>1. /\ phase' = [phase EXCEPT ![o] = "reading"] /\ requests' = requests \cup {s}
          /\ tracked' = tracked \cup {o} /\ locked' = TRUE
      BY <1>1, <2>2 DEF D!TrackObject, D!Tracking
    <3>2. s \in Request /\ s.op = "read" /\ s.object = o
      BY ReadIs
    <3> HIDE DEF s
    <3>3. DatabaseTypes'
      BY <1>0, <1>1, <2>0, <3>1, <3>2 DEF DatabaseTypes, D!Phase
    <3>4. \A q \in requests' : q = s \/ (q \in requests /\ q.object \in Saved)
      BY <1>0, <3>1 DEF DatabaseTypes, Request
    <3>5. Awaited'
      <4>1. /\ \A q \in requests' : q.op = "read" => phase'[q.object] = "reading"
            /\ \A q \in requests' : q.op = "save" => phase'[q.object] = "saving"
        BY <1>0, <2>0, <3>1, <3>2, <3>4 DEF Awaited, Due, DatabaseTypes
      <4>2. /\ \A p \in Saved : phase'[p] = "reading" => \E q \in requests' : q.object = p /\ q.op = "read"
            /\ \A p \in Saved : phase'[p] = "saving" => \E q \in requests' : q.object = p /\ q.op = "save"
        BY <1>0, <3>1, <3>2 DEF Awaited, DatabaseTypes
      <4>3. \A p, q \in requests' : p.object = q.object /\ Due(p) /\ Due(q) => p = q
        BY <1>0, <2>0, <3>2, <3>4 DEF Awaited
      <4> QED BY <4>1, <4>2, <4>3 DEF Awaited
    <3> QED BY <3>3, <3>5 DEF DatabaseInv
  <2> QED BY <2>1, <2>2
<1>2. ASSUME NEW o \in Saved, D!UntrackObject(o) \/ D!Autosave(o), UNCHANGED setup PROVE DatabaseInv'
  <2>1. PICK op \in {"untrack", "autosave"} : requests' = requests \cup {D!Write(op, o)}
    BY <1>2 DEF D!UntrackObject, D!Autosave
  <2>2. D!Write(op, o) \in Request /\ D!Write(op, o).op = op
    BY <1>0 DEF D!Write, Request, DatabaseTypes
  <2>3. UNCHANGED <<phase, locked, value, store>> /\ tracked' \subseteq tracked
    BY <1>2 DEF D!UntrackObject, D!Autosave
  <2> QED BY <1>0, <1>2, <2>1, <2>2, <2>3, OtherRequests DEF DatabaseTypes, Due
<1>3. ASSUME NEW o \in Saved, D!Play(o), UNCHANGED setup PROVE DatabaseInv'
  <2>1. UNCHANGED <<phase, tracked, locked, store, requests>> /\ value' = [value EXCEPT ![o] = value[o] + 1]
        /\ value[o] < MaxProgress
    BY <1>3 DEF D!Play
  <2>2. value' \in [Saved -> 0 .. MaxProgress]
    BY <1>0, <2>1, SetupsAssumption DEF DatabaseTypes
  <2>3. DatabaseTypes'
    BY <1>0, <1>3, <2>1, <2>2 DEF DatabaseTypes
  <2>4. Awaited'
    BY <1>0, <2>1 DEF Awaited
  <2> QED BY <2>3, <2>4 DEF DatabaseInv
<1>4. ASSUME NEW r \in requests, D!WriteDone(r), UNCHANGED setup PROVE DatabaseInv'
  <2>0. UNCHANGED <<value, store>> /\ r.op # "read"
    BY <1>4 DEF D!WriteDone
  <2>1. CASE r.op = "save"
    <3>1. D!Complete(r.object, requests \ {r})
      BY <1>4, <2>1 DEF D!WriteDone
    <3> QED BY <1>0, <1>4, <2>0, <2>1, <3>1, CompleteKeeps DEF Due, DatabaseTypes
  <2>2. CASE r.op # "save"
    <3>1. requests' = requests \ {r} /\ UNCHANGED <<phase, tracked, locked>>
      BY <1>4, <2>2 DEF D!WriteDone
    <3> QED BY <1>0, <1>4, <2>0, <2>2, <3>1, OtherRequests DEF DatabaseTypes, Due
  <2> QED BY <2>1, <2>2
<1>5. CASE UNCHANGED D!vars
  <2>1. UNCHANGED <<setup, phase, tracked, locked, value, store, requests>>
    BY <1>5 DEF D!vars
  <2> QED BY <1>0, <2>1, OtherRequests DEF DatabaseTypes
<1> QED BY <1>1, <1>2, <1>3, <1>4, <1>5, ServeKeeps, ReadDoneKeeps DEF D!Next

LEMMA DatabaseInvariant == D!Spec => []DatabaseInv
<1>1. D!Init => DatabaseInv
  BY DatabaseInit
<1>2. DatabaseInv /\ [D!Next]_D!vars => DatabaseInv'
  BY DatabaseStep
<1> QED BY <1>1, <1>2, PTL DEF D!Spec

\* Every object whose values are read or saved by track_object has the one request
\* that it awaits, and nothing else has one, however long the database takes.
THEOREM DatabaseTypesCorrect == D!Spec => []D!TypeOK
BY DatabaseInvariant, TypesAre, PTL

Active(o) == phase[o] \in {"reading", "saving"}

\* With a database that answers at once there is one request at a time, nobody
\* at the barrier, and one tracked object under a key.
Serial ==
  /\ \A r, q \in requests : r = q
  /\ locked => \E r \in requests : Due(r)
  /\ \A o \in Saved : phase[o] # "waiting" /\ (Active(o) => o \in tracked)
  /\ \A o \in tracked : phase[o] # "new"
  /\ \A o, p \in tracked : setup.key[o] = setup.key[p] => o = p

\* What is stored is not more than what may be stored over it.
Behind ==
  /\ \A o \in tracked : phase[o] \in {"saving", "done"} => store[setup.key[o]] <= value[o]
  /\ \A r \in requests : r.op = "read" /\ r.served => r.value = store[setup.key[r.object]]
  /\ \A r \in requests : r.op # "read" /\ ~ r.served => store[setup.key[r.object]] <= r.value
  /\ \A r \in requests, o \in tracked :
       r.op # "read" /\ setup.key[o] = setup.key[r.object] => o = r.object /\ r.value <= value[o]

SerialInv == Serial /\ Behind

LEMMA SerialComplete ==
  ASSUME DatabaseInv, SerialInv, NEW r \in requests, Due(r), D!Complete(r.object, requests \ {r}),
         UNCHANGED <<setup, store>>, value' \in [Saved -> 0 .. MaxProgress],
         \A o \in Saved \ {r.object} : value'[o] = value[o],
         store[setup.key[r.object]] <= value'[r.object]
  PROVE  SerialInv'
<1> DEFINE o == r.object
<1>0. /\ DatabaseTypes /\ Awaited /\ Serial /\ Behind /\ o \in Saved
      /\ setup.key \in [Saved -> Key]
  BY Keys DEF DatabaseInv, DatabaseTypes, Request, SerialInv
<1>1. D!Waiting = {}
  BY <1>0 DEF Serial, D!Waiting
<1>2. phase' = [q \in Saved |-> IF q = o THEN "done" ELSE phase[q]] /\ locked' = FALSE /\ tracked' = tracked
  BY <1>1 DEF D!Complete, D!Tracking
<1>3. requests' = {}
  BY <1>0, <1>1 DEF D!Complete, Serial
<1>4. tracked \subseteq Saved
  BY <1>0 DEF DatabaseTypes
<1> HIDE DEF o
<1>5. Serial'
  BY <1>0, <1>2, <1>3, <1>4 DEF Serial, Active
<1>6. Behind'
  BY <1>0, <1>2, <1>3, <1>4 DEF Behind, o
<1> QED BY <1>5, <1>6 DEF SerialInv

LEMMA SerialTrack ==
  ASSUME DatabaseInv, SerialInv, NEW o \in Saved, D!TrackObject(o), UNCHANGED setup, ~ setup.async
  PROVE  SerialInv'
<1>0. /\ DatabaseTypes /\ Awaited /\ Serial /\ Behind /\ tracked \subseteq Saved
      /\ setup.key \in [Saved -> Key]
  BY Keys DEF DatabaseInv, DatabaseTypes, SerialInv
<1>1. requests = {} /\ phase[o] = "new" /\ UNCHANGED <<value, store, setup>>
  BY DEF D!TrackObject, D!MayRun
<1>2. ~ locked
  BY <1>0, <1>1 DEF Serial
<1> DEFINE s == D!Read(o)
<1>3. phase' = [phase EXCEPT ![o] = "reading"] /\ tracked' = tracked \cup {o} /\ requests' = {s}
  BY <1>1, <1>2 DEF D!TrackObject, D!Tracking
<1>4. s.op = "read" /\ s.served = FALSE /\ s.object = o
  BY ReadIs
<1>5. \A q \in tracked : setup.key[q] # setup.key[o]
  BY <1>0 DEF D!TrackObject, Serial
<1> HIDE DEF s
<1>6. Serial'
  <2>1. \A p, q \in tracked' : setup'.key[p] = setup'.key[q] => p = q
    BY <1>0, <1>1, <1>3, <1>5 DEF Serial
  <2>2. \A p \in tracked' : phase'[p] # "new"
    BY <1>0, <1>3 DEF Serial, DatabaseTypes
  <2>3. \A p \in Saved : phase'[p] # "waiting" /\ (Active(p)' => p \in tracked')
    BY <1>0, <1>3 DEF Serial, DatabaseTypes, Active
  <2> QED BY <1>3, <1>4, <2>1, <2>2, <2>3 DEF Serial, Due
<1>7. Behind'
  BY <1>0, <1>1, <1>3, <1>4 DEF Behind, DatabaseTypes
<1> QED BY <1>6, <1>7 DEF SerialInv

\* A write joins, of an object that is tracked, or was until now.
LEMMA SerialWrite ==
  ASSUME DatabaseInv, SerialInv, ~ setup.async, UNCHANGED <<setup, phase, locked, value, store>>,
         NEW o \in tracked, NEW op \in {"untrack", "autosave"},
         requests = {}, requests' = {D!Write(op, o)}, tracked' \in {tracked, tracked \ {o}}
  PROVE  SerialInv'
<1> DEFINE s == D!Write(op, o)
<1>0. /\ DatabaseTypes /\ Awaited /\ Serial /\ Behind /\ tracked \subseteq Saved /\ o \in Saved
      /\ setup.key \in [Saved -> Key]
  BY Keys DEF DatabaseInv, DatabaseTypes, SerialInv
<1>1. s.op = op /\ s.object = o /\ s.value = value[o]
  BY DEF D!Write
<1>2. ~ locked /\ \A p \in Saved : ~ Active(p)
  BY <1>0 DEF Serial, Awaited, Active
<1>3. phase[o] = "done"
  BY <1>0, <1>2 DEF Serial, Active, DatabaseTypes, D!Phase
<1>4. value[o] \in Nat /\ store[setup.key[o]] <= value[o] /\ value[o] <= value[o]
  BY <1>0, <1>3, SetupsAssumption DEF Behind, DatabaseTypes
<1> HIDE DEF s
<1>5. Serial'
  BY <1>0, <1>2 DEF Serial, Active
<1>6. Behind'
  <2>1. \A r \in requests' : r = s
    BY DEF s
  <2>2. \A p \in tracked' : phase'[p] \in {"saving", "done"} => store'[setup'.key[p]] <= value'[p]
    BY <1>0 DEF Behind
  <2>3. \A r \in requests' : r.op # "read" /\ ~ r.served => store'[setup'.key[r.object]] <= r.value
    BY <1>1, <1>4, <2>1
  <2>4. \A r \in requests', p \in tracked' :
          r.op # "read" /\ setup'.key[p] = setup'.key[r.object] => p = r.object /\ r.value <= value'[p]
    BY <1>0, <1>1, <1>4, <2>1 DEF Serial
  <2>5. \A r \in requests' : r.op # "read"
    BY <1>1, <2>1
  <2> QED BY <2>2, <2>3, <2>4, <2>5 DEF Behind
<1> QED BY <1>5, <1>6 DEF SerialInv

LEMMA SerialServe ==
  ASSUME DatabaseInv, SerialInv, NEW r \in requests, D!Serve(r), UNCHANGED setup
  PROVE  SerialInv' /\ \A k \in Key : store[k] <= store'[k]
<1> DEFINE o == r.object
<1>0. /\ DatabaseTypes /\ Awaited /\ Serial /\ Behind /\ tracked \subseteq Saved /\ o \in Saved
      /\ setup.key \in [Saved -> Key] /\ UNCHANGED <<phase, tracked, locked, value, setup>> /\ r \in Request
      /\ r.value \in Nat /\ \A k \in Key : store[k] \in Nat
  BY Keys, SetupsAssumption DEF DatabaseInv, DatabaseTypes, SerialInv, Request, D!Serve
<1>1. CASE r.op = "read"
  <2> DEFINE s == [r EXCEPT !.served = TRUE, !.value = store[setup.key[r.object]]]
  <2>1. s.op = "read" /\ s.object = o /\ s.value = store[setup.key[o]]
    BY <1>0, <1>1 DEF Request
  <2>2. requests' = {s} /\ UNCHANGED store
    BY <1>0, <1>1 DEF D!Serve, Serial
  <2> HIDE DEF s, o
  <2>3. Serial'
    BY <1>0, <2>1, <2>2 DEF Serial, Active, Due
  <2>4. Behind'
    BY <1>0, <2>1, <2>2 DEF Behind
  <2> QED BY <1>0, <2>2, <2>3, <2>4 DEF SerialInv
<1>2. CASE r.op # "read"
  <2> DEFINE s == [r EXCEPT !.served = TRUE]
  <2>1. s.op = r.op /\ s.object = o /\ s.value = r.value /\ s.served
    BY <1>0 DEF Request
  <2>2. requests' = {s} /\ store' = [store EXCEPT ![setup.key[o]] = r.value] /\ ~ r.served
    BY <1>0, <1>2 DEF D!Serve, Serial
  <2>3. store[setup.key[o]] <= r.value
    BY <1>0, <1>2, <2>2 DEF Behind
  <2>4. \A p \in tracked : setup.key[p] = setup.key[o] => p = o /\ r.value <= value[p]
    BY <1>0, <1>2 DEF Behind
  <2> HIDE DEF s, o
  <2>5. \A k \in Key : store[k] <= store'[k]
    BY <1>0, <2>2, <2>3 DEF DatabaseTypes
  <2>6. Serial'
    BY <1>0, <2>1, <2>2 DEF Serial, Active, Due
  <2>7. Behind'
    <3>1. \A p \in tracked' : phase'[p] \in {"saving", "done"} => store'[setup'.key[p]] <= value'[p]
      BY <1>0, <2>2, <2>4 DEF Behind, DatabaseTypes
    <3>2. \A q \in requests' : q = s
      BY <2>2
    <3>3. \A q \in requests', p \in tracked' :
            q.op # "read" /\ setup'.key[p] = setup'.key[q.object] => p = q.object /\ q.value <= value'[p]
      BY <1>0, <2>1, <2>4, <3>2
    <3> QED BY <1>2, <2>1, <3>1, <3>2, <3>3 DEF Behind
  <2> QED BY <2>5, <2>6, <2>7 DEF SerialInv
<1> QED BY <1>1, <1>2

LEMMA SerialReadDone ==
  ASSUME DatabaseInv, SerialInv, NEW r \in requests, D!ReadDone(r), UNCHANGED setup
  PROVE  SerialInv'
<1> DEFINE o == r.object
<1>0. /\ DatabaseTypes /\ Awaited /\ Serial /\ Behind /\ tracked \subseteq Saved /\ o \in Saved
      /\ setup.key \in [Saved -> Key] /\ r \in Request /\ r.op = "read" /\ r.served
      /\ phase[o] = "reading" /\ UNCHANGED <<setup, store>>
  BY Keys DEF DatabaseInv, DatabaseTypes, SerialInv, Request, D!ReadDone, Awaited
<1>1. o \in tracked
  BY <1>0 DEF Serial, Active
<1>2. value' = D!Applied(o, r.value)
  BY DEF D!ReadDone
<1>3. r.value = store[setup.key[o]] /\ r.value \in Nat /\ value[o] \in Nat
  BY <1>0, SetupsAssumption DEF Behind, Request, DatabaseTypes
<1>4. store[setup.key[o]] <= value'[o] /\ value'[o] <= value'[o] /\ \A p \in Saved \ {o} : value'[p] = value[p]
  <2>1. value \in [Saved -> 0 .. MaxProgress]
    BY <1>0 DEF DatabaseTypes
  <2> HIDE DEF o
  <2>2. CASE r.value = 0
    BY <1>2, <1>3, <2>2 DEF D!Applied
  <2>3. CASE r.value # 0
    BY <1>0, <1>2, <1>3, <2>1, <2>3 DEF D!Applied
  <2> QED BY <2>2, <2>3
<1> DEFINE s == [op |-> "save", object |-> o, value |-> value'[o], served |-> FALSE]
<1>5. /\ phase' = [phase EXCEPT ![o] = "saving"] /\ requests' = {s}
      /\ UNCHANGED <<tracked, locked>>
  BY <1>0, <1>1 DEF D!ReadDone, Serial
<1>6. s.op = "save" /\ s.object = o /\ s.value = value'[o]
  OBVIOUS
<1> HIDE DEF s, o
<1>7. Serial'
  BY <1>0, <1>1, <1>5, <1>6 DEF Serial, Active, Due, DatabaseTypes
<1>8. Behind'
  <2>1. \A p \in tracked' : phase'[p] \in {"saving", "done"} => store'[setup'.key[p]] <= value'[p]
    BY <1>0, <1>4, <1>5 DEF Behind, DatabaseTypes
  <2>2. \A q \in requests' : q = s
    BY <1>5
  <2>3. \A q \in requests', p \in tracked' :
          q.op # "read" /\ setup'.key[p] = setup'.key[q.object] => p = q.object /\ q.value <= value'[p]
    BY <1>0, <1>1, <1>4, <1>5, <1>6, <2>2 DEF Serial
  <2> QED BY <1>0, <1>4, <1>6, <2>1, <2>2, <2>3 DEF Behind
<1> QED BY <1>7, <1>8 DEF SerialInv

LEMMA SerialWriteDone ==
  ASSUME DatabaseInv, SerialInv, NEW r \in requests, D!WriteDone(r), UNCHANGED setup
  PROVE  SerialInv'
<1>0. /\ DatabaseTypes /\ Awaited /\ Serial /\ Behind /\ tracked \subseteq Saved
      /\ r \in Request /\ r.op # "read" /\ UNCHANGED <<setup, value, store>>
  BY DEF DatabaseInv, DatabaseTypes, SerialInv, D!WriteDone
<1>1. CASE r.op = "save"
  <2>1. D!Complete(r.object, requests \ {r})
    BY <1>1 DEF D!WriteDone
  <2>2. phase[r.object] = "saving" /\ r.object \in Saved
    BY <1>0, <1>1 DEF Awaited, Request
  <2>3. store[setup.key[r.object]] <= value'[r.object]
    BY <1>0, <2>2 DEF Serial, Active, Behind
  <2> QED BY <1>0, <1>1, <2>1, <2>3, SerialComplete DEF Due, DatabaseTypes
<1>2. CASE r.op # "save"
  <2>1. requests' = {} /\ UNCHANGED <<phase, tracked, locked>>
    BY <1>0, <1>2 DEF D!WriteDone, Serial
  <2>2. ~ locked
    BY <1>0, <1>2 DEF Serial, Due
  <2>3. Serial'
    BY <1>0, <2>1, <2>2 DEF Serial, Active
  <2>4. Behind'
    BY <1>0, <2>1 DEF Behind
  <2> QED BY <2>3, <2>4 DEF SerialInv
<1> QED BY <1>1, <1>2

LEMMA SerialPlay ==
  ASSUME DatabaseInv, SerialInv, ~ setup.async, NEW o \in Saved, D!Play(o), UNCHANGED setup
  PROVE  SerialInv'
<1>0. /\ DatabaseTypes /\ Serial /\ Behind /\ tracked \subseteq Saved /\ setup.key \in [Saved -> Key]
      /\ UNCHANGED <<setup, phase, tracked, locked, store, requests>> /\ requests = {}
      /\ value' = [value EXCEPT ![o] = value[o] + 1]
  BY Keys DEF DatabaseInv, DatabaseTypes, SerialInv, D!Play, D!MayRun
<1>1. \A p \in Saved : value[p] \in Nat /\ store[setup.key[p]] \in Nat /\ value'[p] \in {value[p], value[p] + 1}
  BY <1>0, SetupsAssumption DEF DatabaseTypes
<1>2. Serial'
  BY <1>0 DEF Serial, Active
<1>3. \A p \in tracked' : phase'[p] \in {"saving", "done"} => store'[setup'.key[p]] <= value'[p]
  BY <1>0, <1>1 DEF Behind
<1>4. Behind'
  BY <1>0, <1>3 DEF Behind
<1> QED BY <1>2, <1>4 DEF SerialInv

\* With a database that answers at once every step keeps the invariant, and
\* only the handling of a write touches what is stored, which it does not lessen.
LEMMA SerialStep ==
  ASSUME DatabaseInv, SerialInv, ~ setup.async, [D!Next]_D!vars
  PROVE  SerialInv' /\ \A k \in Key : store[k] <= store'[k]
<1>0. \A k \in Key : store[k] \in Nat /\ store[k] <= store[k]
  BY SetupsAssumption DEF DatabaseInv, DatabaseTypes
<1>1. ASSUME NEW o \in Saved, D!UntrackObject(o) \/ D!Autosave(o), UNCHANGED setup PROVE SerialInv' /\ UNCHANGED store
  <2>1. CASE D!UntrackObject(o)
    <3>1. requests = {} /\ o \in tracked /\ requests' = {D!Write("untrack", o)} /\ tracked' = tracked \ {o}
          /\ UNCHANGED <<phase, locked, value, store>>
      BY <2>1 DEF D!UntrackObject, D!MayRun
    <3> QED BY <1>1, <3>1, SerialWrite
  <2>2. CASE D!Autosave(o)
    <3>1. requests = {} /\ o \in tracked /\ requests' = {D!Write("autosave", o)} /\ tracked' = tracked
          /\ UNCHANGED <<phase, locked, value, store>>
      BY <2>2 DEF D!Autosave, D!MayRun
    <3> QED BY <1>1, <3>1, SerialWrite
  <2> QED BY <1>1, <2>1, <2>2
<1>2. CASE UNCHANGED D!vars
  <2>1. UNCHANGED <<setup, phase, tracked, locked, value, store, requests>>
    BY <1>2 DEF D!vars
  <2>2. Serial' /\ Behind'
    BY <2>1 DEF SerialInv, Serial, Behind, Active
  <2> QED BY <1>0, <2>1, <2>2 DEF SerialInv
<1>3. ASSUME NEW o \in Saved, D!TrackObject(o), UNCHANGED setup PROVE SerialInv' /\ UNCHANGED store
  BY <1>3, SerialTrack DEF D!TrackObject
<1>4. ASSUME NEW o \in Saved, D!Play(o), UNCHANGED setup PROVE SerialInv' /\ UNCHANGED store
  BY <1>4, SerialPlay DEF D!Play
<1>5. ASSUME NEW r \in requests, D!ReadDone(r), UNCHANGED setup PROVE SerialInv' /\ UNCHANGED store
  BY <1>5, SerialReadDone DEF D!ReadDone
<1>6. ASSUME NEW r \in requests, D!WriteDone(r), UNCHANGED setup PROVE SerialInv' /\ UNCHANGED store
  BY <1>6, SerialWriteDone DEF D!WriteDone
<1> QED BY <1>0, <1>1, <1>2, <1>3, <1>4, <1>5, <1>6, SerialServe DEF D!Next

\* A database that answers later orders nothing.
AtOnce == setup.async \/ SerialInv

\* A database that answers at once (TextDB) never has what it holds replaced by
\* less, whatever is tracked, untracked, freed and saved, for any objects and keys.
THEOREM NothingLost == D!Spec => NoProgressLost
<1>1. D!Init => AtOnce
  <2> SUFFICES ASSUME D!Init PROVE SerialInv
    BY DEF AtOnce
  <2>1. Serial
    BY DEF D!Init, Serial, Active
  <2>2. Behind
    BY DEF D!Init, Behind
  <2> QED BY <2>1, <2>2 DEF SerialInv
<1>2. ASSUME DatabaseInv, AtOnce, [D!Next]_D!vars
      PROVE  AtOnce' /\ (setup.async \/ \A k \in Key : store[k] <= store'[k])
  <2>1. UNCHANGED setup
    BY <1>2 DEF D!Next, D!vars
  <2> QED BY <1>2, <2>1, SerialStep DEF AtOnce
<1>3. ASSUME DatabaseInv, setup.async \/ \A k \in Key : store[k] <= store'[k], [D!Next]_D!vars
      PROVE  [setup.async \/ \A k \in Key : store'[k] >= store[k]]_D!vars
  BY <1>3
<1>4. D!Init /\ []DatabaseInv /\ [][D!Next]_D!vars => [][setup.async \/ \A k \in Key : store'[k] >= store[k]]_D!vars
  <2>1. DatabaseInv /\ AtOnce /\ [D!Next]_D!vars => AtOnce'
    BY <1>2
  <2>2. DatabaseInv /\ AtOnce /\ [D!Next]_D!vars => [setup.async \/ \A k \in Key : store'[k] >= store[k]]_D!vars
    BY <1>2, <1>3
  <2> QED BY <1>1, <2>1, <2>2, PTL
<1> QED BY <1>4, DatabaseInvariant, PTL DEF D!Spec, NoProgressLost, D!NoProgressLost

==============================================================================
