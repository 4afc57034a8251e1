--------------------------------- MODULE List ---------------------------------
(* The List of godot-cpp, which holds the packets of a SteamMultiplayerPeer    *)
(* that wait to be read or to be sent again: a doubly linked list whose _Data  *)
(* (first, last and a cached size) is there only while something is in it.    *)
(* Every element that is passed is one of this list (the code refuses others). *)
EXTENDS Integers, Sequences, FiniteSets, FiniteSetsExt, SequencesExt

CONSTANTS
  Ids,         \* bound: the addresses of elements
  Values,      \* integers, compared by <
  Others       \* lists that are assigned: sequences of values

Null == "null"

VARIABLE l      \* [data: is _data there?, first, last, size, elem: id -> [next, prev, value]]

NoData == [data |-> FALSE, first |-> Null, last |-> Null, size |-> 0, elem |-> [e \in {} |-> Null]]

Elements(x) == DOMAIN x.elem

\* The elements from the first along next, or from the last along prev.
Walk(x, from, dir) ==
  LET w[i \in 0 .. Cardinality(Elements(x))] ==
        IF i = 0 \/ from \notin Elements(x) THEN <<>>
        ELSE IF i = 1 THEN <<from>>
        ELSE LET s == w[i - 1]
                 e == x.elem[Last(s)][dir]
             IN IF Len(s) = i - 1 /\ e \in Elements(x) THEN Append(s, e) ELSE s
  IN w[Cardinality(Elements(x))]

Forward(x) == Walk(x, x.first, "next")
Backward(x) == Walk(x, x.last, "prev")

\* e is taken out: its neighbours, or the ends, are tied to each other.
Detached(x, e) ==
  LET p == x.elem[e].prev
      n == x.elem[e].next
  IN [x EXCEPT !.first = IF @ = e THEN n ELSE @,
               !.last = IF @ = e THEN p ELSE @,
               !.elem = [j \in Elements(x) |->
                           [next |-> IF j = p THEN n ELSE x.elem[j].next,
                            prev |-> IF j = n THEN p ELSE x.elem[j].prev,
                            value |-> x.elem[j].value]]]

\* e is put between p and n, which are neighbours; Null is before the first and
\* after the last.
Between(x, p, e, n) ==
  [x EXCEPT !.first = IF p = Null THEN e ELSE @,
            !.last = IF n = Null THEN e ELSE @,
            !.elem = [j \in Elements(x) |->
                        [next |-> IF j = p THEN e ELSE IF j = e THEN n ELSE x.elem[j].next,
                         prev |-> IF j = n THEN e ELSE IF j = e THEN p ELSE x.elem[j].prev,
                         value |-> x.elem[j].value]]]

\* A new element e, in no place yet.
Made(x, e, v) ==
  [x EXCEPT !.data = TRUE, !.size = @ + 1,
            !.elem = [j \in Elements(x) \cup {e} |->
                        IF j = e THEN [next |-> Null, prev |-> Null, value |-> v] ELSE x.elem[j]]]

Pushed(x, e, v) == Between(Made(x, e, v), x.last, e, Null)

PushedFront(x, e, v) == Between(Made(x, e, v), Null, e, x.first)

InsertedAfter(x, p, e, v) == Between(Made(x, e, v), p, e, x.elem[p].next)

InsertedBefore(x, n, e, v) == Between(Made(x, e, v), x.elem[n].prev, e, n)

\* _Data::erase, and erase, which frees _data with the last element.
Erased(x, e) ==
  LET y == Detached(x, e)
      z == [y EXCEPT !.size = @ - 1, !.elem = [j \in Elements(x) \ {e} |-> y.elem[j]]]
  IN IF z.size = 0 THEN [z EXCEPT !.data = FALSE, !.first = Null, !.last = Null] ELSE z

\* clear: while there is a first element.
Cleared(x) ==
  LET n == Cardinality(Elements(x))
      c[i \in 0 .. n] ==
        IF i = 0 THEN x
        ELSE IF c[i - 1].first = Null THEN c[i - 1] ELSE Erased(c[i - 1], c[i - 1].first)
  IN c[n]

\* The values of other are pushed, in the elements s.
PushedAll(x, s, other) ==
  LET c[i \in 0 .. Len(s)] == IF i = 0 THEN x ELSE Pushed(c[i - 1], s[i], other[i])
  IN c[Len(s)]

\* Fault: neighbours are swapped as if something were between them.
SwappedApart(x, a, b) ==
  LET A == x.elem[a]
      B == x.elem[b]
      goesNext(j) == IF j = a THEN B.next ELSE IF j = b THEN A.next
                     ELSE IF j = A.prev THEN b ELSE IF j = B.prev THEN a ELSE x.elem[j].next
      goesPrev(j) == IF j = a THEN B.prev ELSE IF j = b THEN A.prev
                     ELSE IF j = A.next THEN b ELSE IF j = B.next THEN a ELSE x.elem[j].prev
  IN [x EXCEPT !.first = IF A.prev = Null THEN b ELSE IF B.prev = Null THEN a ELSE @,
               !.last = IF A.next = Null THEN b ELSE IF B.next = Null THEN a ELSE @,
               !.elem = [j \in Elements(x) |->
                           [next |-> goesNext(j), prev |-> goesPrev(j), value |-> x.elem[j].value]]]

\* swap: the two elements themselves change places.
Swapped(x, a, b) ==
  LET A == x.elem[a]
      B == x.elem[b]
      next(j) == IF j = a THEN IF B.next = a THEN b ELSE B.next
                 ELSE IF j = b THEN IF A.next = b THEN a ELSE A.next
                 ELSE IF j = A.prev THEN b ELSE IF j = B.prev THEN a ELSE x.elem[j].next
      prev(j) == IF j = a THEN IF A.next = b THEN b ELSE B.prev
                 ELSE IF j = b THEN IF B.next = a THEN a ELSE A.prev
                 ELSE IF j = A.next THEN b ELSE IF j = B.next THEN a ELSE x.elem[j].prev
  IN IF a = b THEN x
     ELSE [x EXCEPT !.first = IF A.prev = Null THEN b ELSE IF B.prev = Null THEN a ELSE @,
                    !.last = IF A.next = Null THEN b ELSE IF B.next = Null THEN a ELSE @,
                    !.elem = [j \in Elements(x) |->
                                [next |-> next(j), prev |-> prev(j), value |-> x.elem[j].value]]]

MovedToBack(x, e) ==
  IF x.elem[e].next = Null THEN x
  ELSE LET y == Detached(x, e) IN Between(y, y.last, e, Null)

MovedToFront(x, e) ==
  IF x.elem[e].prev = Null THEN x
  ELSE LET y == Detached(x, e) IN Between(y, Null, e, y.first)

MovedBefore(x, e, where) ==
  LET y == Detached(x, e) IN Between(y, y.elem[where].prev, e, where)

\* reverse: the values change places, from the two ends.
Reversed(x) ==
  LET half == x.size \div 2
      f == Forward(x)
      b == Backward(x)
      other(e) == IF \E i \in 1 .. half : f[i] = e THEN b[CHOOSE i \in 1 .. half : f[i] = e]
                  ELSE IF \E i \in 1 .. half : b[i] = e THEN f[CHOOSE i \in 1 .. half : b[i] = e]
                  ELSE e
  IN [x EXCEPT !.elem = [j \in Elements(x) |-> [x.elem[j] EXCEPT !.value = x.elem[other(j)].value]]]

\* Fault: e goes before the first that is less.
SortedDown(y, e) ==
  LET s == Forward(y)
      more(i) == \A j \in 1 .. i : y.elem[s[j]].value >= y.elem[e].value
      k == Max({i \in 0 .. Len(s) : more(i)})
  IN Between(y, IF k = 0 THEN Null ELSE s[k], e, IF k = Len(s) THEN Null ELSE s[k + 1])

\* One step of sort_custom_inplace: e goes after all that are less, in the list
\* of those sorted so far.
Sorted(y, e) ==
  LET s == Forward(y)
      less(i) == \A j \in 1 .. i : y.elem[s[j]].value < y.elem[e].value
      k == Max({i \in 0 .. Len(s) : less(i)})
  IN Between(y, IF k = 0 THEN Null ELSE s[k], e, IF k = Len(s) THEN Null ELSE s[k + 1])

SortedInPlace(x) ==
  IF x.size < 2 THEN x
  ELSE LET s == Forward(x)
           c[i \in 0 .. Len(s)] ==
             IF i = 0 THEN [x EXCEPT !.first = Null, !.last = Null] ELSE Sorted(c[i - 1], s[i])
       IN c[Len(s)]

\* sort_custom: the elements are put in the order s.
Ordered(x, s) ==
  [x EXCEPT !.first = s[1],
            !.last = s[Len(s)],
            !.elem = [e \in Elements(x) |->
                        LET i == CHOOSE j \in DOMAIN s : s[j] = e
                        IN [next |-> IF i = Len(s) THEN Null ELSE s[i + 1],
                            prev |-> IF i = 1 THEN Null ELSE s[i - 1],
                            value |-> x.elem[e].value]]]

------------------------------------------------------------------------------
Init == l = NoData

Free == Ids \ Elements(l)

push_back(v) == \E e \in Free : l' = Pushed(l, e, v)

push_front(v) == \E e \in Free : l' = PushedFront(l, e, v)

insert_after(p, v) == \E e \in Free : l' = InsertedAfter(l, p, e, v)

insert_before(n, v) == \E e \in Free : l' = InsertedBefore(l, n, e, v)

erase(e) == l' = Erased(l, e)

pop_back == l.data /\ l.last # Null /\ l' = Erased(l, l.last)

pop_front == l.data /\ l.first # Null /\ l' = Erased(l, l.first)

\* erase of a value: the first element that find comes to.
eraseValue(v) ==
  LET s == Forward(l)
      has(i) == l.elem[s[i]].value = v
  IN \E i \in DOMAIN s : has(i) /\ (\A j \in 1 .. i - 1 : ~has(j)) /\ l' = Erased(l, s[i])

clear == l' = Cleared(l)

\* operator=
assign(other) ==
  \E s \in [DOMAIN other -> Ids] :
    /\ IsInjective(s)
    /\ l' = PushedAll(Cleared(l), s, other)

swap(a, b) == l' = Swapped(l, a, b)

move_to_back(e) == l' = MovedToBack(l, e)

move_to_front(e) == l' = MovedToFront(l, e)

\* Nobody moves an element before nullptr, which move_before tries to allow: it
\* does not tell the element that was last who follows it, so that clear frees
\* only what is before.
move_before(e, where) == e # where /\ l' = MovedBefore(l, e, where)

reverse == l' = Reversed(l)

sort_custom_inplace == l' = SortedInPlace(l)

\* SortArray is not stable: any order that is sorted.
sort_custom ==
  /\ l.size >= 2
  /\ \E s \in [1 .. l.size -> Elements(l)] :
       /\ IsInjective(s)
       /\ \A i, j \in 1 .. l.size : i < j => l.elem[s[i]].value <= l.elem[s[j]].value
       /\ l' = Ordered(l, s)

Next ==
  \/ \E v \in Values : push_back(v) \/ push_front(v) \/ eraseValue(v)
  \/ \E e \in Elements(l), v \in Values : insert_after(e, v) \/ insert_before(e, v)
  \/ \E e \in Elements(l) : erase(e) \/ move_to_back(e) \/ move_to_front(e)
  \/ \E a, b \in Elements(l) : swap(a, b)
  \/ \E e, where \in Elements(l) : move_before(e, where)
  \/ pop_back \/ pop_front \/ clear \/ reverse \/ sort_custom_inplace \/ sort_custom
  \/ \E other \in Others : assign(other)

Spec == Init /\ [][Next]_l

------------------------------------------------------------------------------
(* Properties. *)

TypeOK ==
  /\ l.data \in BOOLEAN /\ l.size \in Nat
  /\ Elements(l) \subseteq Ids
  /\ \A e \in Elements(l) :
       {l.elem[e].next, l.elem[e].prev} \subseteq Elements(l) \cup {Null} /\ l.elem[e].value \in Values
  /\ {l.first, l.last} \subseteq Elements(l) \cup {Null}

\* Whoever walks the list forward or backward comes to every element, in the
\* opposite orders, and to the end after as many as size() says.
BothWaysAlike ==
  /\ Len(Forward(l)) = l.size /\ Cardinality(Elements(l)) = l.size
  /\ Forward(l) = Reverse(Backward(l))
  /\ \A e \in {l.first} \ {Null} : l.elem[e].prev = Null
  /\ \A e \in {l.last} \ {Null} : l.elem[e].next = Null

\* _data is there exactly while an element is.
DataWhileNeeded == l.data <=> Elements(l) # {}

\* Each operation does to the sequence of elements and values what its name
\* says, wherever the elements are: at an end, side by side, the same.
Items(x) == LET s == Forward(x) IN [i \in DOMAIN s |-> <<s[i], x.elem[s[i]].value>>]

IsSorting(s, t) ==
  /\ Len(t) = Len(s) /\ Range(t) = Range(s)
  /\ \A i, j \in DOMAIN t : i < j => t[i][2] <= t[j][2]

ActsOnSequence ==
  LET s == Items(l)
      n == Len(s)
      moved(i, j) == InsertAt(RemoveAt(s, i), j, s[i])
      at(i) == s[i][1]
  IN /\ \A e \in Free, v \in Values :
          /\ Items(Pushed(l, e, v)) = Append(s, <<e, v>>)
          /\ Items(PushedFront(l, e, v)) = <<<<e, v>>>> \o s
          /\ \A i \in 1 .. n : /\ Items(InsertedAfter(l, at(i), e, v)) = InsertAt(s, i + 1, <<e, v>>)
                               /\ Items(InsertedBefore(l, at(i), e, v)) = InsertAt(s, i, <<e, v>>)
     /\ \A i \in 1 .. n :
          /\ Items(Erased(l, at(i))) = RemoveAt(s, i)
          /\ Items(MovedToBack(l, at(i))) = moved(i, n)
          /\ Items(MovedToFront(l, at(i))) = moved(i, 1)
     /\ \A i, j \in 1 .. n :
          /\ Items(Swapped(l, at(i), at(j))) = [s EXCEPT ![i] = s[j], ![j] = s[i]]
          /\ i # j => Items(MovedBefore(l, at(i), at(j))) = moved(i, IF i < j THEN j - 1 ELSE j)
     /\ Items(Cleared(l)) = <<>>
     /\ Items(Reversed(l)) = [i \in 1 .. n |-> <<s[i][1], s[n + 1 - i][2]>>]
     /\ IsSorting(s, Items(SortedInPlace(l)))
==============================================================================
