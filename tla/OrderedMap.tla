------------------------------ MODULE OrderedMap ------------------------------
(* What a HashMap of godot-cpp promises: a dictionary whose pairs keep the     *)
(* order in which their keys came ("Keys and values are stored in a double     *)
(* linked list by insertion order", hash_map.hpp).                             *)
EXTENDS Naturals, Sequences, SequencesExt

CONSTANTS
  Keys, ValuesOf,
  Others        \* maps that are assigned: sequences of [key, value]

VARIABLE pairs      \* a sequence of [key, value], no key twice

KeysOf(s) == {s[i].key : i \in DOMAIN s}

Init == pairs = <<>>

\* A key that is there gets the new value where it stands; a new one goes to an
\* end.
Insert(k, v, front) ==
  pairs' = IF k \in KeysOf(pairs)
             THEN [i \in DOMAIN pairs |-> IF pairs[i].key = k THEN [key |-> k, value |-> v] ELSE pairs[i]]
             ELSE IF front THEN <<[key |-> k, value |-> v]>> \o pairs
                           ELSE Append(pairs, [key |-> k, value |-> v])

Erase(k) ==
  \/ k \notin KeysOf(pairs) /\ UNCHANGED pairs
  \/ \E i \in DOMAIN pairs : pairs[i].key = k /\ pairs' = RemoveAt(pairs, i)

Clear == pairs' = <<>>

Assign(other) == pairs' = other

Next ==
  \/ \E k \in Keys, front \in BOOLEAN : \E v \in ValuesOf[k] : Insert(k, v, front)
  \/ \E k \in Keys : Erase(k)
  \/ Clear
  \/ \E other \in Others : Assign(other)

Spec == Init /\ [][Next]_pairs
==============================================================================
