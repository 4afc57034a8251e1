------------------------------- MODULE HashMap -------------------------------
(* The HashMap of godot-cpp, which holds the connections and the peers of a    *)
(* SteamMultiplayerPeer: open addressing with Robin Hood hashing, backward     *)
(* shift deletion, and a doubly linked list through the elements. m is a       *)
(* HashMap; it is an iterator that walks it while it changes.                  *)
EXTENDS Integers, Sequences, FiniteSets, FiniteSetsExt, SequencesExt

CONSTANTS
  Keys,
  ValuesOf,    \* the values a key may get
  FrontKeys,   \* bound: the keys that may be inserted at the front
  HashOf,      \* Hasher::hash
  Default,     \* TValue()
  Capacities,  \* what the constructor and reserve are called with
  Others       \* maps that are assigned: sequences of [key, value]

Null == "null"
EMPTY_HASH == 0
MIN_CAPACITY_INDEX == 2
hash_table_size_primes ==
  <<5, 13, 23, 47, 97, 193, 389, 769, 1543, 3079, 6151, 12289, 24593, 49157, 98317, 196613,
    393241, 786433, 1572869, 3145739, 6291469, 12582917, 25165843, 50331653, 100663319,
    201326611, 402653189, 805306457, 1610612741>>

VARIABLES
  m,      \* [elements: allocated?, index, hashes, slots, num, head, tail, elem]
  it,     \* the element an iterator is at, Null when it is past the end
  due     \* keys the iterator has still to come to, which nothing reads

vars == <<m, it, due>>

CapacityAt(i) == hash_table_size_primes[i + 1]
capacity(x) == CapacityAt(x.index)
LargestCapacity == CapacityAt(Len(hash_table_size_primes) - 1)

hash(k) == IF HashOf[k] = EMPTY_HASH THEN EMPTY_HASH + 1 ELSE HashOf[k]

Table(cap) == [hashes |-> [i \in 0 .. cap - 1 |-> EMPTY_HASH], slots |-> [i \in 0 .. cap - 1 |-> Null]]

\* The constructors: reserve on a table that is not allocated yet.
Made(i) == [elements |-> FALSE, index |-> i, hashes |-> <<>>, slots |-> <<>>, num |-> 0,
            head |-> Null, tail |-> Null, elem |-> [k \in {} |-> Null]]

\* _get_probe_length
Probe(pos, h, cap) == (pos - (h % cap) + cap) % cap

\* Where the search for k stops after d steps, and whether it has found k there.
Ends(x, k, d) ==
  LET cap == capacity(x)
      pos == (hash(k) + d) % cap
  IN \/ x.hashes[pos] = EMPTY_HASH
     \/ d > Probe(pos, x.hashes[pos], cap)
     \/ x.slots[pos] = k

\* _lookup_pos: the position of k, -1 if it is not there.
Lookup(x, k) ==
  IF ~x.elements THEN -1
  ELSE LET cap == capacity(x)
           stops == {d \in 0 .. cap - 1 : Ends(x, k, d)}
           pos == (hash(k) + Min(stops)) % cap
       IN IF stops # {} /\ x.slots[pos] = k /\ x.hashes[pos] = hash(k) THEN pos ELSE -1

\* A turn of the loop of _insert_with_hash, for a newcomer of hash h: who is nearer
\* to its home yields to it, and is the newcomer then.
Turn(t, cap) ==
  LET there == Probe(t.pos, t.hashes[t.pos], cap)
      next == (t.pos + 1) % cap
      taken == [t EXCEPT !.hashes[t.pos] = t.h, !.slots[t.pos] = t.e]
  IN IF t.done THEN t
     ELSE IF t.hashes[t.pos] = EMPTY_HASH THEN [taken EXCEPT !.done = TRUE]
     ELSE IF there < t.distance
       THEN [taken EXCEPT !.h = t.hashes[t.pos], !.e = t.slots[t.pos], !.pos = next, !.distance = there + 1]
     ELSE [t EXCEPT !.pos = next, !.distance = @ + 1]

InsertWithHash(x, h, e) ==
  LET cap == capacity(x)
      t[i \in 0 .. cap] ==
        IF i = 0 THEN [hashes |-> x.hashes, slots |-> x.slots, h |-> h, e |-> e,
                       pos |-> h % cap, distance |-> 0, done |-> FALSE]
        ELSE Turn(t[i - 1], cap)
  IN [x EXCEPT !.hashes = t[cap].hashes, !.slots = t[cap].slots, !.num = @ + 1]

\* _resize_and_rehash: the old table from its first slot to its last.
Resized(x, i) ==
  LET index == Max({MIN_CAPACITY_INDEX, i})
      t == Table(CapacityAt(index))
      y[j \in 0 .. capacity(x)] ==
        IF j = 0 THEN [x EXCEPT !.index = index, !.num = 0, !.hashes = t.hashes, !.slots = t.slots]
        ELSE IF x.hashes[j - 1] = EMPTY_HASH THEN y[j - 1]
        ELSE InsertWithHash(y[j - 1], x.hashes[j - 1], x.slots[j - 1])
  IN y[capacity(x)]

\* num_elements + 1 > MAX_OCCUPANCY * capacity
Full(x) == 4 * (x.num + 1) > 3 * capacity(x)

\* The new element of key k at an end of the list.
Linked(x, k, v, front) ==
  LET new == [next |-> IF front THEN x.head ELSE Null,
              prev |-> IF front THEN Null ELSE x.tail, value |-> v]
      elem1 == [j \in DOMAIN x.elem \cup {k} |->
                  IF j = k THEN new
                  ELSE IF front /\ j = x.head THEN [x.elem[j] EXCEPT !.prev = k]
                  ELSE IF ~front /\ j = x.tail THEN [x.elem[j] EXCEPT !.next = k]
                  ELSE x.elem[j]]
  IN [x EXCEPT !.elem = elem1,
               !.head = IF front \/ @ = Null THEN k ELSE @,
               !.tail = IF ~front \/ @ = Null THEN k ELSE @]

\* _insert
Inserted(x0, k, v, front) ==
  LET t == Table(capacity(x0))
      x == IF x0.elements THEN x0
           ELSE [x0 EXCEPT !.elements = TRUE, !.hashes = t.hashes, !.slots = t.slots]
      large == IF Full(x) THEN Resized(x, x.index + 1) ELSE x
  IN IF Lookup(x, k) # -1 THEN [x EXCEPT !.elem[k].value = v]
     ELSE InsertWithHash(Linked(large, k, v, front), hash(k), k)

\* Fault: the hole stays where the element was.
ShiftedNone(x, pos) == [hashes |-> [x.hashes EXCEPT ![pos] = EMPTY_HASH], slots |-> [x.slots EXCEPT ![pos] = Null]]

\* erase, backward shift: those that follow and are not at home move up by one.
Shifted(x, pos) ==
  LET cap == capacity(x)
      at(d) == (pos + d) % cap
      stop == Min({d \in 1 .. cap : \/ x.hashes[at(d)] = EMPTY_HASH
                                     \/ Probe(at(d), x.hashes[at(d)], cap) = 0})
      moved == {at(d) : d \in 0 .. stop - 2}
      up(f, empty) == [i \in DOMAIN f |-> IF i \in moved THEN f[(i + 1) % cap]
                                          ELSE IF i = at(stop - 1) THEN empty ELSE f[i]]
  IN [hashes |-> up(x.hashes, EMPTY_HASH), slots |-> up(x.slots, Null)]

\* The element of key k is taken out of the list and freed.
Unlinked(x, k) ==
  LET e == x.elem[k]
  IN [x EXCEPT !.head = IF @ = k THEN e.next ELSE @,
               !.tail = IF @ = k THEN e.prev ELSE @,
               !.elem = [j \in DOMAIN x.elem \ {k} |->
                           IF j = e.prev THEN [x.elem[j] EXCEPT !.next = e.next]
                           ELSE IF j = e.next THEN [x.elem[j] EXCEPT !.prev = e.prev]
                           ELSE x.elem[j]]]

Erased(x, k) ==
  IF Lookup(x, k) = -1 THEN x
  ELSE LET t == Shifted(x, Lookup(x, k))
       IN [Unlinked(x, k) EXCEPT !.hashes = t.hashes, !.slots = t.slots, !.num = @ - 1]

\* clear keeps the table, and its capacity.
Cleared(x) ==
  IF ~x.elements THEN x
  ELSE LET t == Table(capacity(x))
       IN [x EXCEPT !.hashes = t.hashes, !.slots = t.slots, !.num = 0,
                    !.head = Null, !.tail = Null, !.elem = [k \in {} |-> Null]]

\* reserve: nothing if the table is large enough.
Reserved(x, n) ==
  LET i == Min({j \in x.index .. Len(hash_table_size_primes) - 1 : CapacityAt(j) >= n})
  IN IF i = x.index THEN x
     ELSE IF ~x.elements THEN [x EXCEPT !.index = i]
     ELSE Resized(x, i)

InsertedAll(x, other) ==
  LET y[i \in 0 .. Len(other)] ==
        IF i = 0 THEN x ELSE Inserted(y[i - 1], other[i].key, other[i].value, FALSE)
  IN y[Len(other)]

\* Fault: what the map holds stays.
AssignedOver(x, other) == InsertedAll(x, other)

\* operator=, from a map of the first capacity that the constructor gives.
Assigned(x, other) ==
  InsertedAll(Reserved(IF x.num # 0 THEN Cleared(x) ELSE x, CapacityAt(MIN_CAPACITY_INDEX)), other)

------------------------------------------------------------------------------
Init ==
  /\ m \in {Made(MIN_CAPACITY_INDEX)} \cup {Reserved(Made(0), n) : n \in Capacities}
  /\ it = Null
  /\ due = {}

insert(k, v, front) ==
  /\ front => k \in FrontKeys
  /\ m' = Inserted(m, k, v, front)
  /\ due' = IF it # Null /\ ~front /\ k \notin DOMAIN m.elem THEN due \cup {k} ELSE due
  /\ UNCHANGED it

\* operator[] of a key that is not there.
index(k) == k \notin DOMAIN m.elem /\ insert(k, Default, FALSE)

\* Who iterates does not erase the element it is at.
erase(k) ==
  /\ it # k
  /\ m' = Erased(m, k)
  /\ due' = due \ {k}
  /\ UNCHANGED it

clear ==
  /\ it = Null
  /\ m' = Cleared(m)
  /\ UNCHANGED <<it, due>>

reserve(n) ==
  /\ m' = Reserved(m, n)
  /\ UNCHANGED <<it, due>>

assign(other) ==
  /\ it = Null
  /\ m' = Assigned(m, other)
  /\ UNCHANGED <<it, due>>

begin ==
  /\ it = Null
  /\ it' = m.head
  /\ due' = DOMAIN m.elem \ {m.head}
  /\ UNCHANGED m

step ==
  /\ it # Null
  /\ it' = m.elem[it].next
  /\ due' = due \ {m.elem[it].next}
  /\ UNCHANGED m

Next ==
  \/ \E k \in Keys, front \in BOOLEAN : \E v \in ValuesOf[k] : insert(k, v, front)
  \/ \E k \in Keys : index(k) \/ erase(k)
  \/ clear
  \/ \E n \in Capacities : reserve(n)
  \/ \E other \in Others : assign(other)
  \/ begin \/ step

Spec == Init /\ [][Next]_vars

------------------------------------------------------------------------------
(* Properties. *)

TypeOK ==
  /\ m.index \in 0 .. Len(hash_table_size_primes) - 1
  /\ m.num \in 0 .. Cardinality(Keys)
  /\ DOMAIN m.elem \subseteq Keys
  /\ \A k \in DOMAIN m.elem :
       /\ m.elem[k].value \in ValuesOf[k]
       /\ {m.elem[k].next, m.elem[k].prev} \subseteq DOMAIN m.elem \cup {Null}
  /\ {m.head, m.tail, it} \subseteq DOMAIN m.elem \cup {Null}

\* A lookup finds a key exactly when it is in the map, whatever was inserted,
\* displaced, shifted back and rehashed before (_lookup_pos).
LookupFinds ==
  \A k \in Keys : IF k \in DOMAIN m.elem THEN Lookup(m, k) # -1 ELSE Lookup(m, k) = -1

\* Every search ends: there is always an empty slot, as insertion grows the
\* table in time (MAX_OCCUPANCY).
RoomLeft == m.elements => \E i \in DOMAIN m.hashes : m.hashes[i] = EMPTY_HASH

\* The elements from the head along next, or from the tail along prev.
Along(from, dir) ==
  LET w[i \in 1 .. m.num] ==
        LET last == w[i - 1]
        IN IF i = 1 THEN from ELSE IF last \in DOMAIN m.elem THEN m.elem[last][dir] ELSE Null
  IN w

\* The list holds every element once and is the same in both directions.
ListIsWhole ==
  /\ Range(Along(m.head, "next")) = DOMAIN m.elem
  /\ Along(m.tail, "prev") = Reverse(Along(m.head, "next"))

\* An iterator comes to every key that stays in the map, and to those appended
\* meanwhile, although the table is rehashed under it (begin, operator++).
IterationIsWhole == it = Null => due = {}

\* The map is a dictionary that keeps the order of insertion (hash_map.hpp:46).
Pairs == [i \in 1 .. m.num |->
            LET k == Along(m.head, "next")[i]
            IN [key |-> k, value |-> IF k \in DOMAIN m.elem THEN m.elem[k].value ELSE Null]]

Dictionary == INSTANCE OrderedMap WITH pairs <- Pairs
IsOrderedMap == Dictionary!Spec
==============================================================================
