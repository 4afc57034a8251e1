----------------------------- MODULE Repository -----------------------------
(***************************************************************************)
(* The repository of object identifiers (api/repository.gd).  Every RPC    *)
(* names its object by the identifier both processes have registered it    *)
(* under: the server draws the identifiers, a client takes those it is     *)
(* sent.  Two dictionaries must stay inverse of each other.                *)
(*                                                                         *)
(* The dictionaries are one record, and each operation a function of it,   *)
(* so that a module with several repositories can use the same operators.  *)
(***************************************************************************)
EXTENDS Integers, FiniteSets

CONSTANTS
  Object,  \* the objects that may be registered
  MaxId,   \* MAX_ID, the number of identifiers
  None     \* null

ASSUME IdAssumption   == MaxId \in Nat \ {0}
ASSUME NoneAssumption == None \notin Object

VARIABLES
  repo,    \* the repository
  live     \* the objects that have not been freed

vars == <<repo, live>>

Id == 0 .. MaxId - 1

\* get_id returns -1 for an object, and get_object null for an identifier,
\* that is not in the repository.
EmptyRepository ==
  [object_to_id  |-> [o \in Object |-> -1],
   id_to_object  |-> [i \in Id |-> None],
   current_id    |-> 0,
   object_awaits |-> {}]

Replicated(r) == {o \in Object : r.object_to_id[o] # -1}
InUse(r)      == {i \in Id : r.id_to_object[i] # None}

\* The search of add_object: the first free identifier from the current one,
\* wrapping around at MAX_ID.  The current one is free once its object is
\* removed, so the identifier drawn last is the first to be drawn again.
Ahead(r, i) == (i - r.current_id) % MaxId

\* Fault: identifiers are counted up, without a look at those in use.
CountedUp(r) == {(r.current_id + 1) % MaxId}

NextIds(r) == {i \in Id \ InUse(r) : \A j \in Id \ InUse(r) : Ahead(r, i) <= Ahead(r, j)}

Registered(r, o, i) ==
  [r EXCEPT !.object_to_id[o] = i, !.id_to_object[i] = o, !.object_awaits = @ \ {o}]

\* Fault: the identifiers of the removed objects stay with them.
RemovedOneWay(r, o) ==
  [r EXCEPT !.object_to_id[o] = -1, !.object_awaits = @ \ {o}]

Removed(r, o) ==
  [r EXCEPT !.id_to_object[r.object_to_id[o]] = None,
            !.object_to_id[o] = -1,
            !.object_awaits = @ \ {o}]

\* Several objects added under given identifiers, several removed.
RegisteredAll(r, f) ==
  [r EXCEPT !.object_to_id = [o \in Object |->
               IF \E i \in DOMAIN f : f[i] = o THEN CHOOSE i \in DOMAIN f : f[i] = o ELSE @[o]],
            !.id_to_object = [i \in Id |-> IF i \in DOMAIN f THEN f[i] ELSE @[i]],
            !.object_awaits = @ \ {f[i] : i \in DOMAIN f}]

RemovedAll(r, O) ==
  [r EXCEPT !.id_to_object = [i \in Id |->
               IF \E o \in O : r.object_to_id[o] = i THEN None ELSE @[i]],
            !.object_to_id = [o \in Object |-> IF o \in O THEN -1 ELSE @[o]],
            !.object_awaits = @ \ O]

\* What get_object returns, and what it leaves: the entry of a freed object goes.
Found(r, i, alive)  == IF r.id_to_object[i] \in alive THEN r.id_to_object[i] ELSE None
Looked(r, I, alive) ==
  [r EXCEPT !.id_to_object = [i \in Id |-> IF i \in I THEN Found(r, i, alive) ELSE @[i]]]

-----------------------------------------------------------------------------
Init == repo = EmptyRepository /\ live = Object

\* add_object(o): the assertions, then the search.
AddObject(o) ==
  /\ o \in live \ Replicated(repo)
  /\ Cardinality(Replicated(repo)) < MaxId
  /\ \E i \in NextIds(repo) : repo' = [Registered(repo, o, i) EXCEPT !.current_id = i]
  /\ UNCHANGED live

\* add_object(o, i).  The assertion "Object IDs are stomping." looks i up among
\* the keys of object_to_id, which are objects: it never fails, and what carried
\* i before keeps it in that dictionary.
AddObjectWithId(o, i) ==
  /\ o \in live \ Replicated(repo)
  /\ Cardinality(Replicated(repo)) < MaxId
  /\ repo' = Registered(repo, o, i)
  /\ UNCHANGED live

RemoveObject(o) ==
  /\ o \in live \cap Replicated(repo)
  /\ repo' = Removed(repo, o)
  /\ UNCHANGED live

RemoveObjectId(i) ==
  /\ i \in InUse(repo)
  /\ repo' = [repo EXCEPT !.object_to_id[repo.id_to_object[i]] = -1,
                          !.object_awaits = @ \ {repo.id_to_object[i]},
                          !.id_to_object[i] = None]
  /\ UNCHANGED live

GetObject(i) ==
  /\ repo' = Looked(repo, {i}, live)
  /\ UNCHANGED live

\* add_object_id_await: whoever uses o waits until it has an identifier.
AddObjectIdAwait(o) ==
  /\ o \in live
  /\ repo' = [repo EXCEPT !.object_awaits = @ \cup {o}]
  /\ UNCHANGED live

\* Fault: a freed object is dropped from the dictionary it is a key of.
FreedKeyGone(o) ==
  /\ o \in live
  /\ live' = live \ {o}
  /\ repo' = [repo EXCEPT !.object_to_id[o] = -1]

\* The engine frees an object, which may still be registered.
Freed(o) ==
  /\ o \in live
  /\ live' = live \ {o}
  /\ UNCHANGED repo

Next ==
  \/ \E o \in Object : AddObject(o) \/ RemoveObject(o) \/ AddObjectIdAwait(o) \/ Freed(o)
  \/ \E o \in Object, i \in Id : AddObjectWithId(o, i)
  \/ \E i \in Id : RemoveObjectId(i) \/ GetObject(i)

Spec == Init /\ [][Next]_vars

-----------------------------------------------------------------------------
(* Properties *)

\* The repository has its shape.
TypeOK ==
  /\ repo \in [object_to_id  : [Object -> Id \cup {-1}],
               id_to_object  : [Id -> Object \cup {None}],
               current_id    : Id,
               object_awaits : SUBSET Object]
  /\ live \subseteq Object

\* An identifier leads to an object that carries it: not to one that was removed,
\* and not to one that has another identifier by now (object_to_id, id_to_object).
IdentifiersHaveOwners == \A i \in InUse(repo) : repo.object_to_id[repo.id_to_object[i]] = i

\* The other way: an object that lives is found under the identifier it carries.
ObjectsAreFound ==
  \A o \in live \cap Replicated(repo) : repo.id_to_object[repo.object_to_id[o]] = o

\* Objects are found as long as nobody adds one under an identifier in use: whatever
\* else is added, removed, looked up or freed loses nobody's identifier.
Stomps == \E o \in Object, i \in InUse(repo) : AddObjectWithId(o, i)

OnlyStompingLoses == [][ObjectsAreFound => ObjectsAreFound' \/ Stomps]_vars

\* The assertion against overflow counts objects and the search looks at
\* identifiers: where the one passes, the other must end.
SearchEnds == Cardinality(Replicated(repo)) < MaxId => InUse(repo) # Id
=============================================================================
