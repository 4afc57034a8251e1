------------------------------ MODULE Containers ------------------------------
(* The two containers of godot-cpp that the Steam transport keeps its packets  *)
(* (List) and its connections and peers (HashMap) in. One module puts them     *)
(* side by side, each with its own constants and variables.                    *)
EXTENDS Integers, Sequences, FiniteSets

CONSTANTS
  Ids, Values, Others,                                                  \* List
  MapKeys, ValuesOf, FrontKeys, HashOf, Default, Capacities, OtherMaps  \* HashMap

VARIABLES
  l,              \* a List
  map, iter, due  \* a HashMap and an iterator of it

LI == INSTANCE List
HM == INSTANCE HashMap WITH Others <- OtherMaps, Keys <- MapKeys, m <- map, it <- iter

\* List: nullptr is the address of nothing.
ASSUME ListAssumption   == LI!Null \notin Ids /\ Values \subseteq Int /\ Others \subseteq Seq(Values)
\* HashMap: there are never more keys than three quarters of the largest table, no
\* capacity beyond it is asked for, and a map that is assigned has no key twice.
ASSUME HashAssumption ==
  /\ HM!Null \notin MapKeys /\ IsFiniteSet(MapKeys) /\ Cardinality(MapKeys) <= 3 * (HM!LargestCapacity \div 4)
  /\ HashOf \in [MapKeys -> Nat]
  /\ \A k \in MapKeys : Default \in ValuesOf[k]
  /\ Capacities \subseteq 0 .. HM!LargestCapacity
  /\ \A s \in OtherMaps :
       /\ s \in Seq([key : MapKeys, value : UNION {ValuesOf[k] : k \in MapKeys}])
       /\ \A i \in DOMAIN s : s[i].value \in ValuesOf[s[i].key]
       /\ \A i, j \in DOMAIN s : s[i].key = s[j].key => i = j

(* The properties of both: what each says, of which code, is there. *)

\* List: the two ways through it (next_ptr, prev_ptr) are the same way, without a
\* pointer to an element that is gone, and _data is there exactly while one is.
ListIsSound == LI!TypeOK /\ LI!BothWaysAlike /\ LI!DataWhileNeeded
\* List: its operations are those of a sequence.
ActsOnSequence == LI!ActsOnSequence
\* HashMap: its list is whole in both directions, without a pointer to an element
\* that is gone; its table has always an empty slot, so that searches end; a lookup
\* finds a key exactly when it is in the map; and an iterator misses nobody.
MapIsSound == HM!TypeOK /\ HM!ListIsWhole /\ HM!RoomLeft /\ HM!LookupFinds /\ HM!IterationIsWhole
\* HashMap: it is a dictionary that keeps the order of insertion.
IsOrderedMap == HM!IsOrderedMap
==============================================================================
