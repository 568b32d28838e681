----------------------------- MODULE LinkedList -----------------------------
(***************************************************************************)
(* List.hpp: nodes with pointers in both directions.                       *)
(***************************************************************************)
EXTENDS Naturals, Sequences

CONSTANTS
  Node,     \* the memory that new finds nodes in
  Element,
  Null

VARIABLES
  first, last,            \* _first and _last
  data, next, previous,   \* of the nodes; of a deleted one everything is null
  length,                 \* _size
  elements                \* what the list shall have

vars == <<first, last, data, next, previous, length, elements>>

Init ==
  /\ first = Null /\ last = Null /\ length = 0
  /\ data = [n \in Node |-> Null]
  /\ next = [n \in Node |-> Null]
  /\ previous = [n \in Node |-> Null]
  /\ elements = <<>>

-----------------------------------------------------------------------------
Free == {n \in Node : data[n] = Null}

addBack(n, e) ==
  /\ n \in Free
  /\ data' = [data EXCEPT ![n] = e]
  /\ IF last # Null
     THEN /\ next' = [next EXCEPT ![last] = n]
          /\ previous' = [previous EXCEPT ![n] = last]
          /\ UNCHANGED first
     ELSE first' = n /\ UNCHANGED <<next, previous>>
  /\ last' = n
  /\ length' = length + 1
  /\ elements' = Append(elements, e)

addFront(n, e) ==
  /\ n \in Free
  /\ data' = [data EXCEPT ![n] = e]
  /\ IF first # Null
     THEN /\ previous' = [previous EXCEPT ![first] = n]
          /\ next' = [next EXCEPT ![n] = first]
          /\ UNCHANGED last
     ELSE last' = n /\ UNCHANGED <<next, previous>>
  /\ first' = n
  /\ length' = length + 1
  /\ elements' = <<e>> \o elements

\* The node that is reached from one of them in i - 1 steps along pointers.
Reached(from, pointer, i) ==
  LET walk[j \in 1 .. i] == IF j = 1 THEN from ELSE pointer[walk[j - 1]]
  IN  walk[i]

NodeAt(i) == Reached(first, next, i)

NodeFromBack(i) == Reached(last, previous, i)

\* Mutation: the way back still leads to the node that is deleted.
BypassForward(n) ==
  /\ next' = [m \in Node |->
                IF m = n THEN Null ELSE IF m = previous[n] THEN next[n] ELSE next[m]]
  /\ previous' = [previous EXCEPT ![n] = Null]

Bypass(n) ==
  /\ next' = [m \in Node |->
                IF m = n THEN Null ELSE IF m = previous[n] THEN next[n] ELSE next[m]]
  /\ previous' = [m \in Node |->
                    IF m = n THEN Null
                    ELSE IF m = next[n] THEN previous[n] ELSE previous[m]]

\* With an iterator that has come to the i-th element.
erase(i) ==
  LET n == NodeAt(i)
  IN  /\ i \in 1 .. length
      /\ Bypass(n)
      /\ first' = IF previous[n] = Null THEN next[n] ELSE first
      /\ last' = IF next[n] = Null THEN previous[n] ELSE last
      /\ data' = [data EXCEPT ![n] = Null]
      /\ length' = length - 1
      /\ elements' = SubSeq(elements, 1, i - 1) \o SubSeq(elements, i + 1, Len(elements))

Next ==
  \/ \E n \in Node, e \in Element : addBack(n, e) \/ addFront(n, e)
  \/ \E i \in 1 .. length : erase(i)

-----------------------------------------------------------------------------
\* An iteration in either direction passes the elements of the list in their
\* order and ends behind the last of them.
ListAsSequence ==
  LET n == Len(elements)
  IN  /\ length = n
      /\ \A i \in 1 .. n : /\ data[NodeAt(i)] = elements[i]
                           /\ NodeFromBack(i) = NodeAt(n + 1 - i)
      /\ NodeAt(n + 1) = Null /\ NodeFromBack(n + 1) = Null
=============================================================================
