-------------------------------- MODULE Heap --------------------------------
(***************************************************************************)
(* The array of all objects (heap.hpp), and the loop in which the          *)
(* collector moves what is unused out of it (moveUnusedObjects): erase     *)
(* puts the last element into the hole and stays where it is.              *)
(***************************************************************************)
EXTENDS Naturals, Sequences, FiniteSets

CONSTANTS
  Object, Null,
  InitialCapacity,   \* 1000
  Least,             \* as many objects are always in use
  Deeds              \* small: fewer objects than that are left

VARIABLES
  slots,      \* _elements; what is left behind the last one is null here
  count,      \* _size
  capacity,   \* _capacity
  index,      \* the iterator in moveUnusedObjects
  target,     \* where the unused objects go
  marks,      \* the objects found in use, and sweeping: is there a collection?
  sweeping,
  deeds

vars == <<slots, count, capacity, index, target, marks, sweeping, deeds>>

Init ==
  /\ slots = [i \in 0 .. InitialCapacity - 1 |-> Null]
  /\ count = 0 /\ capacity = InitialCapacity
  /\ index = 0 /\ target = <<>>
  /\ marks = {} /\ sweeping = "no"
  /\ deeds \in Deeds

-----------------------------------------------------------------------------
\* realloc.
resize(s, n) == [i \in 0 .. n - 1 |-> IF i \in DOMAIN s THEN s[i] ELSE Null]

InHeap == {slots[i] : i \in DOMAIN slots \cap 0 .. count - 1}
InTarget == {target[i] : i \in 1 .. Len(target)}

\* Mutation: there is room for one more.
IsFullLate == count > capacity

IsFull == count = capacity

\* An array of less than four elements does not grow: the element is written
\* behind it, and what comes then is not modelled.
InMemory == count <= capacity

add(o) ==
  LET room == IF IsFull THEN (5 * capacity) \div 4 ELSE capacity
      there == IF IsFull THEN resize(slots, room) ELSE slots
  IN  /\ sweeping = "no" /\ InMemory
      /\ o \notin InHeap \cup InTarget
      /\ \A p \in Object : p < o => p \in InHeap \cup InTarget   \* which one is all the same
      /\ slots' = [i \in DOMAIN there |-> IF i = count THEN o ELSE there[i]]
      /\ capacity' = room
      /\ count' = count + 1
      /\ UNCHANGED <<index, target, marks, sweeping, deeds>>

BeginSweep(inUse) ==
  /\ sweeping = "no" /\ InMemory
  /\ inUse \subseteq InHeap
  /\ Cardinality(inUse) < Least => "small" \in deeds
  /\ marks' = inUse /\ sweeping' = "yes" /\ index' = 0
  /\ UNCHANGED <<slots, count, capacity, target, deeds>>

\* The last element comes into the hole.
Filled ==
  [i \in DOMAIN slots |->
     IF i = count - 1 THEN Null ELSE IF i = index THEN slots[count - 1] ELSE slots[i]]

erase ==
  LET shrinks == 2 * (count - 1) < capacity
      room == (3 * capacity) \div 4
  IN  /\ sweeping = "yes" /\ index # count
      /\ slots[index] \notin marks
      /\ target' = Append(target, slots[index])
      /\ slots' = IF shrinks THEN resize(Filled, room) ELSE Filled
      /\ capacity' = IF shrinks THEN room ELSE capacity
      /\ count' = count - 1
      /\ UNCHANGED <<index, marks, sweeping, deeds>>

Keep ==
  /\ sweeping = "yes" /\ index # count
  /\ slots[index] \in marks
  /\ index' = index + 1
  /\ UNCHANGED <<slots, count, capacity, target, marks, sweeping, deeds>>

EndSweep ==
  /\ sweeping = "yes" /\ index = count
  /\ sweeping' = "no" /\ index' = 0 /\ marks' = {}
  /\ UNCHANGED <<slots, count, capacity, target, deeds>>

\* The finalizer takes the list.
Take ==
  /\ sweeping = "no" /\ target # <<>>
  /\ target' = <<>>
  /\ UNCHANGED <<slots, count, capacity, index, marks, sweeping, deeds>>

Next ==
  \/ \E o \in Object : add(o)
  \/ \E inUse \in SUBSET InHeap : BeginSweep(inUse)
  \/ erase \/ Keep \/ EndSweep \/ Take

-----------------------------------------------------------------------------
\* The array has its objects in the memory it has been given, each once, also
\* while they are being moved; a sweep passes over none of them: all that is
\* not in use is on the list afterwards.
SweepMovesEach ==
  "small" \notin deeds =>
    /\ InMemory /\ DOMAIN slots = 0 .. capacity - 1
    /\ Cardinality(InHeap) = count /\ Null \notin InHeap
    /\ InHeap \cap InTarget = {} /\ Cardinality(InTarget) = Len(target)
    /\ sweeping = "yes" => marks \subseteq InHeap /\ {slots[i] : i \in 0 .. index - 1} \subseteq marks
    /\ sweeping = "yes" /\ index = count => InHeap = marks
=============================================================================
