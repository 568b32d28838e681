----------------------------- MODULE Containers -----------------------------
(***************************************************************************)
(* The containers of src/jvm/common and the string pool, side by side: a   *)
(* behaviour uses one of them.                                             *)
(***************************************************************************)
EXTENDS Naturals, Sequences

CONSTANTS
  Key, Val, Absent, Hash, InitialCount,
  Node, Element, Null,
  Capacity, Reserve, Usual, Large, Limit,
  Object, InitialCapacity, Least,
  Thread, Text, LengthLimit, Asks,
  Deeds

ASSUME MapAssumption ==
  Absent \notin Val /\ Hash \in [Key -> Nat] /\ InitialCount \in Nat \ {0}

ASSUME ListAssumption == Null \notin Node \cup Element

ASSUME StackAssumption ==
  /\ Capacity \in Nat /\ Reserve \in 0 .. Capacity /\ Limit \in Nat
  /\ Usual \cup Large \subseteq Nat \ {0}
  /\ \A n, m \in Usual : n + m + 2 <= Reserve

\* An array of less than four objects would not grow.
ASSUME HeapAssumption ==
  /\ Null \notin Object /\ Object \subseteq Nat
  /\ InitialCapacity \in Nat /\ 4 <= InitialCapacity /\ Least \in Nat /\ 3 <= Least

ASSUME TextAssumption ==
  /\ \A units \in Text : units \in Seq(Nat) /\ \A i \in DOMAIN units : units[i] <= 65535
  /\ LengthLimit \in Nat \ {0} /\ Asks \in Nat

VARIABLES
  buckets, size, contents,
  first, last, data, next, previous, length, elements,
  bytes, position, depth, frames,
  slots, count, capacity, index, target, marks, sweeping,
  pool, strings, asking, answers,
  deeds, part

map == <<buckets, size, contents>>
list == <<first, last, data, next, previous, length, elements>>
stack == <<bytes, position, depth, frames>>
heap == <<slots, count, capacity, index, target, marks, sweeping>>
text == <<pool, strings, asking, answers>>

vars == <<map, list, stack, heap, text, deeds, part>>

Map == INSTANCE HashMap
List == INSTANCE LinkedList
Stack == INSTANCE DynamicStack
Objects == INSTANCE Heap
Pool == INSTANCE StringPool

Init ==
  /\ Map!Init /\ List!Init /\ Stack!Init /\ Objects!Init /\ Pool!Init
  /\ part \in {"map", "list", "stack", "heap", "text"}
  /\ part \in {"map", "list"} => deeds = {}
  /\ deeds \cap {"large", "nested"} # {} => part = "stack"
  /\ "small" \in deeds => part = "heap"
  /\ "race" \in deeds => part = "text"

Next ==
  \/ part = "map" /\ Map!Next /\ UNCHANGED <<list, stack, heap, text, deeds, part>>
  \/ part = "list" /\ List!Next /\ UNCHANGED <<map, stack, heap, text, deeds, part>>
  \/ part = "stack" /\ Stack!Next /\ UNCHANGED <<map, list, heap, text, part>>
  \/ part = "heap" /\ Objects!Next /\ UNCHANGED <<map, list, stack, text, part>>
  \/ part = "text" /\ Pool!Next /\ UNCHANGED <<map, list, stack, heap, part>>

Spec == Init /\ [][Next]_vars

\* A map has under each key what was put there last, however its table has grown
\* and shrunk, and an iteration passes each of its keys once (HashMap.hpp).
MapAsFunction == Map!MapAsFunction

\* A list has its elements in their order, and iterations in both directions
\* pass each of them once (List.hpp).
ListAsSequence == List!ListAsSequence

\* The frames on a stack are found from the newest to the oldest, within the
\* memory, and have what their methods have written (dynamic_stack.hpp).
FramesStayIntact == Stack!FramesStayIntact

\* A sweep moves exactly what is not in use out of the array of all objects, and
\* each object once (heap.hpp, moveUnusedObjects).
SweepMovesEach == Objects!SweepMovesEach

\* Equal texts are one string (StringPool, UTF16String.cpp).
LiteralsAreOne == Pool!LiteralsAreOne

\* Neither a list, nor the stack of frames, nor the array of all objects loses
\* what was put in it, or has it twice, however its memory is moved, cut or linked
\* anew (List.hpp, dynamic_stack.hpp, heap.hpp).
NothingIsLost == ListAsSequence /\ FramesStayIntact /\ SweepMovesEach

\* There is one entry, and one string, for each key and text, and it is found
\* (HashMap.hpp, and the pool of literals that is built on it).
OneForEach == MapAsFunction /\ LiteralsAreOne
=============================================================================
