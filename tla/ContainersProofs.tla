-------------------------- MODULE ContainersProofs --------------------------
(***************************************************************************)
(* Theorems about the parts of module Containers.                          *)
(***************************************************************************)
EXTENDS Containers, SequenceTheorems, FiniteSetTheorems, TLAPS

-----------------------------------------------------------------------------
(* The array of all objects.                                               *)

HeapTypes ==
  /\ capacity \in Nat /\ count \in 0 .. capacity /\ index \in 0 .. count
  /\ slots \in [0 .. capacity - 1 -> Object \cup {Null}]
  /\ target \in Seq(Object)
  /\ 4 <= capacity

\* Each object is in one place.
InPlace ==
  /\ \A i \in 0 .. count - 1 : slots[i] \in Object
  /\ \A i, j \in 0 .. count - 1 : slots[i] = slots[j] => i = j
  /\ \A i, j \in 1 .. Len(target) : target[i] = target[j] => i = j
  /\ \A i \in 0 .. count - 1 : \A j \in 1 .. Len(target) : slots[i] # target[j]

\* What a sweep has passed is in use.
Swept ==
  sweeping = "yes" =>
    /\ marks \subseteq Objects!InHeap /\ Least <= Cardinality(marks)
    /\ \A i \in 0 .. index - 1 : slots[i] \in marks

HeapInv == "small" \notin deeds => HeapTypes /\ InPlace /\ Swept

\* The instance of module Heap counts as this module does.
LEMMA SameCardinality == \A S : Objects!Cardinality(S) = Cardinality(S)
BY Zenon DEF Objects!Cardinality, Cardinality, Objects!IsFiniteSet, IsFiniteSet

\* What a function takes a set to, one to one, has as many elements.
LEMMA OneToOne ==
  ASSUME NEW S, IsFiniteSet(S), NEW f, \A i, j \in S : f[i] = f[j] => i = j
  PROVE  /\ IsFiniteSet({f[i] : i \in S})
         /\ Cardinality({f[i] : i \in S}) = Cardinality(S)
<1> DEFINE T == {f[i] : i \in S}
           g == [i \in S |-> f[i]]
<1>1. g \in Injection(S, T)
  BY DEF Injection, IsInjective
<1>2. g \in Surjection(S, T)
  BY DEF Surjection
<1> HIDE DEF T, g
<1>3. IsFiniteSet(T) /\ Cardinality(T) = Cardinality(S)
  BY <1>1, <1>2, FS_Surjection
<1> QED BY <1>3 DEF T

\* So the objects of the array and of the list are as many as are counted.
LEMMA Counted ==
  ASSUME HeapTypes, InPlace
  PROVE  /\ Objects!InHeap = {slots[i] : i \in 0 .. count - 1}
         /\ IsFiniteSet(Objects!InHeap) /\ Cardinality(Objects!InHeap) = count
         /\ Cardinality(Objects!InTarget) = Len(target)
<1>0. /\ capacity \in Nat /\ count \in Nat /\ count <= capacity /\ Len(target) \in Nat
      /\ DOMAIN slots = 0 .. capacity - 1
  BY DEF HeapTypes
<1>1. DOMAIN slots \cap 0 .. count - 1 = 0 .. count - 1
  BY <1>0
<1>2. Objects!InHeap = {slots[i] : i \in 0 .. count - 1}
  BY <1>1 DEF Objects!InHeap
<1>3. IsFiniteSet(0 .. count - 1) /\ Cardinality(0 .. count - 1) = count
  <2>1. count - 1 \in Int /\ 0 \in Int /\ (IF 0 > count - 1 THEN 0 ELSE count - 1 - 0 + 1) = count
    BY <1>0
  <2> QED BY <2>1, FS_Interval
<1>4. IsFiniteSet(1 .. Len(target)) /\ Cardinality(1 .. Len(target)) = Len(target)
  <2>1. Len(target) \in Int /\ 1 \in Int
        /\ (IF 1 > Len(target) THEN 0 ELSE Len(target) - 1 + 1) = Len(target)
    BY <1>0
  <2> QED BY <2>1, FS_Interval
<1>5. /\ IsFiniteSet({slots[i] : i \in 0 .. count - 1})
      /\ Cardinality({slots[i] : i \in 0 .. count - 1}) = count
  <2>1. \A i, j \in 0 .. count - 1 : slots[i] = slots[j] => i = j
    BY DEF InPlace
  <2>2. ASSUME NEW S, IsFiniteSet(S), \A i, j \in S : slots[i] = slots[j] => i = j
        PROVE  /\ IsFiniteSet({slots[i] : i \in S})
               /\ Cardinality({slots[i] : i \in S}) = Cardinality(S)
    BY <2>2, OneToOne
  <2> QED BY <1>3, <2>1, <2>2
<1>6. Cardinality({target[i] : i \in 1 .. Len(target)}) = Len(target)
  <2>1. \A i, j \in 1 .. Len(target) : target[i] = target[j] => i = j
    BY DEF InPlace
  <2> QED BY <1>4, <2>1, OneToOne
<1> QED BY <1>2, <1>5, <1>6 DEF Objects!InTarget

\* An object is added, to an array that has grown if it was full.
LEMMA AddKeeps ==
  ASSUME HeapTypes, InPlace, NEW o \in Object, Objects!add(o)
  PROVE  HeapTypes' /\ InPlace' /\ sweeping' = "no"
<1>0. /\ capacity \in Nat /\ count \in Nat /\ count <= capacity /\ 4 <= capacity
      /\ index \in Nat /\ index <= count
      /\ slots \in [0 .. capacity - 1 -> Object \cup {Null}] /\ target \in Seq(Object)
  BY DEF HeapTypes
<1>1. Objects!InHeap = {slots[i] : i \in 0 .. count - 1}
  BY Counted
<1>2. /\ \A i \in 0 .. count - 1 : slots[i] # o
      /\ \A j \in 1 .. Len(target) : target[j] # o
  BY <1>1 DEF Objects!add, Objects!InTarget
<1>3. /\ capacity' \in Nat /\ count + 1 <= capacity' /\ 4 <= capacity'
      /\ \A i \in 0 .. count - 1 : i \in 0 .. capacity - 1 /\ i \in 0 .. capacity' - 1
      /\ count \in 0 .. capacity' - 1
      /\ \A i \in 0 .. count - 1 : i # count
  <2>1. capacity' = IF count = capacity THEN (5 * capacity) \div 4 ELSE capacity
    BY DEF Objects!add, Objects!IsFull
  <2>2. capacity + 1 <= (5 * capacity) \div 4 /\ (5 * capacity) \div 4 \in Nat
    BY <1>0
  <2>3. capacity' \in Nat /\ count + 1 <= capacity' /\ 4 <= capacity'
    BY <1>0, <2>1, <2>2
  <2> QED BY <1>0, <2>3
<1>4. /\ count' = count + 1 /\ index' = index /\ target' = target /\ sweeping' = "no"
  BY DEF Objects!add
<1>5. /\ slots' \in [0 .. capacity' - 1 -> Object \cup {Null}]
      /\ slots'[count] = o
      /\ \A i \in 0 .. count - 1 : slots'[i] = slots[i]
  <2>1. CASE count = capacity
    <3>1. slots' = [i \in 0 .. capacity' - 1 |->
                      IF i = count THEN o
                      ELSE IF i \in DOMAIN slots THEN slots[i] ELSE Null]
      BY <2>1 DEF Objects!add, Objects!IsFull, Objects!resize
    <3> QED BY <1>0, <1>3, <3>1
  <2>2. CASE count # capacity
    <3>1. slots' = [i \in DOMAIN slots |-> IF i = count THEN o ELSE slots[i]]
          /\ capacity' = capacity
      BY <2>2 DEF Objects!add, Objects!IsFull
    <3> QED BY <1>0, <1>3, <3>1
  <2> QED BY <2>1, <2>2
<1>6. HeapTypes'
  <2>1. count' \in 0 .. capacity' /\ index' \in 0 .. count'
    BY <1>0, <1>3, <1>4
  <2> QED BY <1>0, <1>3, <1>4, <1>5, <2>1 DEF HeapTypes
<1>7. \A i \in 0 .. count' - 1 : i = count \/ i \in 0 .. count - 1
  BY <1>0, <1>4
<1>8. InPlace'
  <2>1. ASSUME NEW i \in 0 .. count' - 1 PROVE slots'[i] \in Object
    BY <1>5, <1>7 DEF InPlace
  <2>2. ASSUME NEW i \in 0 .. count' - 1, NEW j \in 0 .. count' - 1, slots'[i] = slots'[j]
        PROVE  i = j
    BY <1>2, <1>5, <1>7, <2>2 DEF InPlace
  <2>3. ASSUME NEW i \in 0 .. count' - 1, NEW j \in 1 .. Len(target)
        PROVE  slots'[i] # target[j]
    BY <1>2, <1>5, <1>7 DEF InPlace
  <2> QED BY <1>4, <2>1, <2>2, <2>3 DEF InPlace
<1> QED BY <1>4, <1>6, <1>8

\* As long as something unused is found, more are left than are in use.
LEMMA MoreThanMarked ==
  ASSUME HeapTypes, InPlace, Swept, Objects!erase
  PROVE  /\ count - 1 \in Nat /\ index \in 0 .. count - 1 /\ 3 <= count - 1
         /\ sweeping = "yes"
<1>0. /\ capacity \in Nat /\ count \in Nat /\ index \in Nat /\ index <= count
  BY DEF HeapTypes
<1>1. sweeping = "yes" /\ index # count /\ slots[index] \notin marks
  BY DEF Objects!erase
<1>2. /\ Objects!InHeap = {slots[i] : i \in 0 .. count - 1}
      /\ IsFiniteSet(Objects!InHeap) /\ Cardinality(Objects!InHeap) = count
  BY Counted
<1>3. index \in 0 .. count - 1 /\ count - 1 \in Nat
  BY <1>0, <1>1
<1>4. slots[index] \in Objects!InHeap
  BY <1>2, <1>3
<1>5. marks \in SUBSET Objects!InHeap /\ marks # Objects!InHeap
  BY <1>1, <1>4 DEF Swept
<1>6. IsFiniteSet(marks) /\ Cardinality(marks) <= count /\ Cardinality(marks) # count
  BY <1>2, <1>5, FS_Subset
<1>7. Cardinality(marks) \in Nat
  BY <1>6, FS_CardinalityType
<1>8. Least <= Cardinality(marks) /\ Least \in Nat /\ 3 <= Least
  BY <1>1, HeapAssumption DEF Swept
<1> QED BY <1>0, <1>1, <1>3, <1>6, <1>7, <1>8

\* The last object comes into the place of one that is unused; the array may
\* shrink.
LEMMA EraseKeeps ==
  ASSUME HeapTypes, InPlace, Swept, Objects!erase
  PROVE  HeapTypes' /\ InPlace' /\ Swept'
<1>0. /\ capacity \in Nat /\ count \in Nat /\ count <= capacity /\ 4 <= capacity
      /\ index \in Nat
      /\ slots \in [0 .. capacity - 1 -> Object \cup {Null}] /\ target \in Seq(Object)
  BY DEF HeapTypes
<1>1. /\ count - 1 \in Nat /\ index \in 0 .. count - 1 /\ 3 <= count - 1 /\ sweeping = "yes"
  BY MoreThanMarked
<1>2. /\ count' = count - 1 /\ index' = index /\ target' = Append(target, slots[index])
      /\ marks' = marks /\ sweeping' = sweeping /\ slots[index] \notin marks
  BY DEF Objects!erase
<1>3. PICK n \in Nat : n = count - 1
  BY <1>1
<1>4. capacity' = IF 2 * n < capacity THEN (3 * capacity) \div 4 ELSE capacity
  BY <1>3 DEF Objects!erase
<1>5. capacity' \in Nat /\ n <= capacity' /\ 4 <= capacity' /\ capacity' <= capacity
  <2>1. 2 * n < capacity => 7 <= capacity
    BY <1>0, <1>1, <1>3
  <2>2. 2 * n < capacity =>
          /\ (3 * capacity) \div 4 \in Nat /\ n <= (3 * capacity) \div 4
          /\ 4 <= (3 * capacity) \div 4 /\ (3 * capacity) \div 4 <= capacity
    BY <1>0, <2>1
  <2> QED BY <1>0, <1>3, <1>4, <2>2
<1>6. /\ n \in 0 .. capacity - 1 /\ index \in 0 .. capacity - 1
      /\ \A i \in 0 .. n - 1 : /\ i \in 0 .. capacity - 1 /\ i \in 0 .. capacity' - 1
                               /\ i # n /\ i \in 0 .. count - 1
      /\ \A i \in 0 .. capacity' - 1 : i \in 0 .. capacity - 1
      /\ n \in 0 .. count - 1 /\ index <= n
      /\ \A i \in 0 .. count - 1 : i = n \/ i \in 0 .. n - 1
      /\ index # n => index \in 0 .. n - 1
  BY <1>0, <1>1, <1>3, <1>5
<1>7. /\ Objects!Filled \in [0 .. capacity - 1 -> Object \cup {Null}]
      /\ \A i \in 0 .. n - 1 : Objects!Filled[i] = IF i = index THEN slots[n] ELSE slots[i]
  BY <1>0, <1>3, <1>6 DEF Objects!Filled
<1>8. slots' = IF 2 * n < capacity THEN Objects!resize(Objects!Filled, capacity')
               ELSE Objects!Filled
  BY <1>3, <1>4 DEF Objects!erase
<1>9. /\ slots' \in [0 .. capacity' - 1 -> Object \cup {Null}]
      /\ \A i \in 0 .. n - 1 : slots'[i] = IF i = index THEN slots[n] ELSE slots[i]
  <2>1. CASE 2 * n < capacity
    <3>1. slots' = [i \in 0 .. capacity' - 1 |->
                      IF i \in DOMAIN Objects!Filled THEN Objects!Filled[i] ELSE Null]
      BY <1>8, <2>1 DEF Objects!resize
    <3> QED BY <1>6, <1>7, <3>1
  <2>2. CASE ~(2 * n < capacity)
    BY <1>4, <1>7, <1>8, <2>2
  <2> QED BY <2>1, <2>2
<1>10. slots[index] \in Object
  BY <1>1 DEF InPlace
<1>11. HeapTypes'
  <2>1. count' \in 0 .. capacity' /\ index' \in 0 .. count'
    BY <1>0, <1>2, <1>3, <1>5, <1>6
  <2>2. target' \in Seq(Object)
    BY <1>0, <1>2, <1>10
  <2> QED BY <1>5, <1>9, <2>1, <2>2 DEF HeapTypes
<1>12. ASSUME NEW i \in 0 .. n - 1
       PROVE  \E r \in 0 .. count - 1 :
                /\ r # index /\ slots'[i] = slots[r]
                /\ r = IF i = index THEN n ELSE i
  BY <1>1, <1>3, <1>6, <1>9
<1>13. PICK l \in Nat : l = Len(target)
  BY <1>0
<1>14. /\ Len(target') = l + 1 /\ target'[l + 1] = slots[index]
       /\ \A j \in 1 .. l : target'[j] = target[j]
       /\ \A j \in 1 .. l + 1 : j = l + 1 \/ j \in 1 .. l
  BY <1>0, <1>2, <1>10, <1>13
<1>15. InPlace'
  <2>1. ASSUME NEW i \in 0 .. n - 1 PROVE slots'[i] \in Object
    BY <1>12 DEF InPlace
  <2>2. ASSUME NEW i \in 0 .. n - 1, NEW j \in 0 .. n - 1, slots'[i] = slots'[j]
        PROVE  i = j
    BY <1>6, <1>12, <2>2 DEF InPlace
  <2>3. ASSUME NEW i \in 1 .. l + 1, NEW j \in 1 .. l + 1, target'[i] = target'[j]
        PROVE  i = j
    BY <1>1, <1>13, <1>14, <2>3 DEF InPlace
  <2>4. ASSUME NEW i \in 0 .. n - 1, NEW j \in 1 .. l + 1 PROVE slots'[i] # target'[j]
    <3>1. PICK r \in 0 .. count - 1 : r # index /\ slots'[i] = slots[r]
      BY <1>12
    <3>2. slots[r] # slots[index]
      BY <1>1, <3>1 DEF InPlace
    <3>3. \A k \in 1 .. l : slots[r] # target[k]
      BY <1>13 DEF InPlace
    <3> QED BY <1>14, <3>1, <3>2, <3>3
  <2>5. count' = n
    BY <1>2, <1>3
  <2> QED BY <1>14, <2>1, <2>2, <2>3, <2>4, <2>5 DEF InPlace
<1>16. Swept'
  <2>1. Objects!InHeap = {slots[i] : i \in 0 .. count - 1}
    BY Counted
  <2>2. DOMAIN slots' = 0 .. capacity' - 1
    BY <1>9
  <2>3. ASSUME NEW x \in marks PROVE x \in (Objects!InHeap)'
    <3>1. PICK i \in 0 .. count - 1 : x = slots[i]
      BY <1>1, <2>1 DEF Swept
    <3>2. i # index
      BY <1>2, <3>1
    <3>3. PICK j \in 0 .. n - 1 : slots'[j] = x
      <4>1. CASE i = n
        BY <1>6, <1>9, <3>1, <3>2, <4>1
      <4>2. CASE i # n
        BY <1>6, <1>9, <3>1, <3>2, <4>2
      <4> QED BY <4>1, <4>2
    <3>4. j \in 0 .. capacity' - 1 /\ j \in 0 .. count' - 1
      BY <1>2, <1>3, <1>6
    <3> QED BY <2>2, <3>3, <3>4 DEF Objects!InHeap
  <2>4. ASSUME NEW i \in 0 .. index - 1 PROVE slots'[i] \in marks
    <3>1. i \in 0 .. n - 1 /\ i # index
      BY <1>0, <1>6
    <3> QED BY <1>1, <1>9, <3>1 DEF Swept
  <2> QED BY <1>1, <1>2, <2>3, <2>4 DEF Swept
<1> QED BY <1>11, <1>15, <1>16

\* The objects that are found in use are marked, and a sweep begins.
LEMMA BeginKeeps ==
  ASSUME HeapTypes, InPlace, "small" \notin deeds, NEW inUse, Objects!BeginSweep(inUse)
  PROVE  HeapTypes' /\ InPlace' /\ Swept'
<1>1. /\ inUse \subseteq Objects!InHeap
      /\ ~(Objects!Cardinality(inUse) < Least)
      /\ marks' = inUse /\ index' = 0 /\ UNCHANGED <<slots, count, capacity, target>>
  BY DEF Objects!BeginSweep
<1>2. IsFiniteSet(Objects!InHeap)
  BY Counted
<1>3. Cardinality(inUse) \in Nat
  BY <1>1, <1>2, FS_Subset, FS_CardinalityType
<1>4. Least \in Nat
  BY HeapAssumption
<1>5. Least <= Cardinality(inUse)
  BY <1>1, <1>3, <1>4, SameCardinality
<1>6. (Objects!InHeap)' = Objects!InHeap
  BY <1>1 DEF Objects!InHeap
<1>7. HeapTypes' /\ InPlace'
  BY <1>1 DEF HeapTypes, InPlace
<1>8. 0 .. index' - 1 = {}
  BY <1>1
<1> QED BY <1>1, <1>5, <1>6, <1>7, <1>8 DEF Swept

\* An object in use is passed.
LEMMA KeepKeeps ==
  ASSUME HeapTypes, InPlace, Swept, Objects!Keep
  PROVE  HeapTypes' /\ InPlace' /\ Swept'
<1>1. /\ sweeping = "yes" /\ index # count /\ slots[index] \in marks /\ index' = index + 1
      /\ UNCHANGED <<slots, count, capacity, target, marks, sweeping>>
  BY DEF Objects!Keep
<1>2. /\ index + 1 \in 0 .. count
      /\ \A i \in 0 .. index + 1 - 1 : i = index \/ i \in 0 .. index - 1
  BY <1>1 DEF HeapTypes
<1>3. (Objects!InHeap)' = Objects!InHeap
  BY <1>1 DEF Objects!InHeap
<1>4. HeapTypes' /\ InPlace'
  BY <1>1, <1>2 DEF HeapTypes, InPlace
<1>5. \A i \in 0 .. index' - 1 : slots[i] \in marks
  <2>1. \A i \in 0 .. index - 1 : slots[i] \in marks
    BY <1>1 DEF Swept
  <2>2. index' = index + 1 /\ index \in Nat
    BY <1>1 DEF HeapTypes
  <2>3. ASSUME NEW i \in 0 .. index' - 1 PROVE slots[i] \in marks
    <3>1. i = index \/ i \in 0 .. index - 1
      BY <2>2
    <3> QED BY <1>1, <2>1, <3>1
  <2> QED BY <2>3
<1> QED BY <1>1, <1>3, <1>4, <1>5 DEF Swept

\* Nothing is in two places, whatever is done with the array.
LEMMA HeapSteps ==
  ASSUME HeapTypes, InPlace, Swept, "small" \notin deeds,
         Objects!Next \/ UNCHANGED Objects!vars
  PROVE  HeapTypes' /\ InPlace' /\ Swept'
<1>1. ASSUME NEW o \in Object, Objects!add(o) PROVE HeapTypes' /\ InPlace' /\ Swept'
  BY <1>1, AddKeeps DEF Swept
<1>2. ASSUME NEW inUse, Objects!BeginSweep(inUse)
      PROVE  HeapTypes' /\ InPlace' /\ Swept'
  BY <1>2, BeginKeeps
<1>3. CASE Objects!erase
  BY <1>3, EraseKeeps
<1>4. CASE Objects!Keep
  BY <1>4, KeepKeeps
<1>5. CASE Objects!EndSweep
  <2>1. /\ index' = 0 /\ sweeping' = "no" /\ UNCHANGED <<slots, count, capacity, target>>
    BY <1>5 DEF Objects!EndSweep
  <2> QED BY <2>1 DEF HeapTypes, InPlace, Swept
<1>6. CASE Objects!Take
  <2>1. /\ sweeping = "no" /\ target' = <<>>
        /\ UNCHANGED <<slots, count, capacity, index, sweeping>>
    BY <1>6 DEF Objects!Take
  <2>2. target' \in Seq(Object) /\ 1 .. Len(target') = {}
    BY <2>1
  <2> QED BY <2>1, <2>2 DEF HeapTypes, InPlace, Swept
<1>7. CASE UNCHANGED Objects!vars
  <2>1. UNCHANGED <<slots, count, capacity, index, target, marks, sweeping>>
    BY <1>7 DEF Objects!vars
  <2>2. (Objects!InHeap)' = Objects!InHeap
    BY <2>1 DEF Objects!InHeap
  <2> QED BY <2>1, <2>2 DEF HeapTypes, InPlace, Swept
<1> QED BY <1>1, <1>2, <1>3, <1>4, <1>5, <1>6, <1>7 DEF Objects!Next

\* What has been decided for a run stays.
LEMMA DeedsStay == Next => UNCHANGED deeds
<1>1. Stack!Next => UNCHANGED deeds
  BY DEF Stack!Next, Stack!InvokeJava, Stack!InvokeNative, Stack!InvokeOverflows,
         Stack!Leave, Stack!Write
<1>2. ASSUME Objects!Next PROVE UNCHANGED deeds
  BY <1>2 DEF Objects!Next, Objects!add, Objects!BeginSweep, Objects!erase, Objects!Keep,
              Objects!EndSweep, Objects!Take
<1>3. ASSUME Pool!Next PROVE UNCHANGED deeds
  BY <1>3 DEF Pool!Next, Pool!get_string_from_cp, Pool!intern, Pool!Ask, Pool!Create
<1> QED BY <1>1, <1>2, <1>3 DEF Next

\* An empty heap has nothing in two places.
LEMMA HeapBegins == Init => HeapInv
<1>1. ASSUME Init PROVE HeapTypes /\ InPlace /\ Swept
  <2>1. /\ slots = [i \in 0 .. InitialCapacity - 1 |-> Null] /\ capacity = InitialCapacity
        /\ count = 0 /\ index = 0 /\ target = <<>> /\ sweeping = "no"
    BY <1>1 DEF Init, Objects!Init
  <2>2. InitialCapacity \in Nat /\ 4 <= InitialCapacity
    BY HeapAssumption
  <2>3. target \in Seq(Object) /\ 1 .. Len(target) = {} /\ 0 .. count - 1 = {}
    BY <2>1
  <2> QED BY <2>1, <2>2, <2>3 DEF HeapTypes, InPlace, Swept
<1> QED BY <1>1 DEF HeapInv

\* Whatever is done with the heap, nothing is in two places.
LEMMA HeapKept == HeapInv /\ [Next]_vars => HeapInv'
<1>1. ASSUME HeapInv, [Next]_vars, "small" \notin deeds'
      PROVE  HeapTypes' /\ InPlace' /\ Swept'
  <2>1. UNCHANGED deeds
    BY <1>1, DeedsStay DEF vars
  <2>2. HeapTypes /\ InPlace /\ Swept /\ "small" \notin deeds
    BY <1>1, <2>1 DEF HeapInv
  <2>3. Objects!Next \/ UNCHANGED heap
    BY <1>1 DEF Next, vars
  <2> QED BY <2>1, <2>2, <2>3, HeapSteps DEF heap, Objects!vars
<1> QED BY <1>1 DEF HeapInv

\* A sweep moves each unused object out of the array, once, and nothing else.
THEOREM HeapIsSwept == Spec => []SweepMovesEach
<1>1. ASSUME HeapInv, "small" \notin deeds
      PROVE  /\ Objects!InMemory /\ DOMAIN slots = 0 .. capacity - 1
             /\ Objects!Cardinality(Objects!InHeap) = count /\ Null \notin Objects!InHeap
             /\ Objects!InHeap \cap Objects!InTarget = {}
             /\ Objects!Cardinality(Objects!InTarget) = Len(target)
             /\ sweeping = "yes" =>
                  /\ marks \subseteq Objects!InHeap
                  /\ {slots[i] : i \in 0 .. index - 1} \subseteq marks
             /\ sweeping = "yes" /\ index = count => Objects!InHeap = marks
  <2>1. HeapTypes /\ InPlace /\ Swept
    BY <1>1 DEF HeapInv
  <2>2. /\ Objects!InHeap = {slots[i] : i \in 0 .. count - 1}
        /\ Cardinality(Objects!InHeap) = count
        /\ Cardinality(Objects!InTarget) = Len(target)
    BY <2>1, Counted
  <2>3. Objects!InMemory /\ DOMAIN slots = 0 .. capacity - 1
    BY <2>1 DEF HeapTypes, Objects!InMemory
  <2>4. Null \notin Objects!InHeap
    <3>1. Null \notin Object
      BY HeapAssumption
    <3> QED BY <2>1, <2>2, <3>1 DEF InPlace
  <2>5. Objects!InHeap \cap Objects!InTarget = {}
    BY <2>1, <2>2 DEF InPlace, Objects!InTarget
  <2>6. ASSUME sweeping = "yes"
        PROVE  /\ marks \subseteq Objects!InHeap
               /\ {slots[i] : i \in 0 .. index - 1} \subseteq marks
    BY <2>1, <2>6 DEF Swept
  <2>7. ASSUME sweeping = "yes", index = count PROVE Objects!InHeap = marks
    BY <2>2, <2>6, <2>7
  <2> QED BY <2>2, <2>3, <2>4, <2>5, <2>6, <2>7, SameCardinality
<1>2. HeapInv => SweepMovesEach
  BY <1>1 DEF SweepMovesEach, Objects!SweepMovesEach
<1> QED BY <1>2, HeapBegins, HeapKept, PTL DEF Spec

-----------------------------------------------------------------------------
\* Some natural numbers have a least one.
LEMMA LeastNat ==
  ASSUME NEW T \in SUBSET Nat, T # {}
  PROVE  \E m \in T : \A n \in T : m <= n
<1> DEFINE R == OpToRel(<, Nat)
<1>1. IsWellFoundedOn(R, Nat)
  BY NatLessThanWellFounded
<1>2. \A x, y \in Nat : <<x, y>> \in R <=> x < y
  BY DEF OpToRel
<1> HIDE DEF R
<1>3. PICK m \in T : \A n \in T : ~(<<n, m>> \in R)
  BY <1>1, WFMin
<1>4. ASSUME NEW n \in T PROVE m <= n
  <2>1. m \in Nat /\ n \in Nat
    OBVIOUS
  <2>2. ~(n < m)
    BY <1>2, <1>3, <2>1
  <2> QED BY <2>1, <2>2
<1> QED BY <1>4

\* Two walks that begin together, and stay together if they are, are one.
LEMMA SameWalk ==
  ASSUME NEW i \in Nat \ {0}, NEW w, NEW g,
         w[1] = g[1], \A j \in 2 .. i : w[j - 1] = g[j - 1] => w[j] = g[j]
  PROVE  w[i] = g[i]
<1> DEFINE T == {j \in 1 .. i : w[j] # g[j]}
<1>1. ASSUME T # {} PROVE FALSE
  <2>1. T \in SUBSET Nat
    OBVIOUS
  <2>2. PICK m \in T : \A j \in T : m <= j
    BY <1>1, <2>1, LeastNat
  <2>3. m # 1
    BY <2>2
  <2>4. m \in 2 .. i /\ m - 1 \in 1 .. i /\ ~(m <= m - 1)
    BY <2>2, <2>3
  <2>5. w[m - 1] = g[m - 1]
    BY <2>2, <2>4
  <2> QED BY <2>2, <2>4, <2>5
<1> QED BY <1>1

-----------------------------------------------------------------------------
(* Linked lists.                                                           *)

\* The pointers of the i-th of n nodes, and its element.
OnPath(p, n, i) ==
  /\ data[p[i]] = elements[i]
  /\ next[p[i]] = IF i = n THEN Null ELSE p[i + 1]
  /\ previous[p[i]] = IF i = 1 THEN Null ELSE p[i - 1]

Bare(m) == data[m] = Null /\ next[m] = Null /\ previous[m] = Null

ListTypes(n) ==
  /\ length = n /\ elements \in Seq(Element) /\ Len(elements) = n
  /\ data \in [Node -> Element \cup {Null}]
  /\ next \in [Node -> Node \cup {Null}] /\ previous \in [Node -> Node \cup {Null}]

\* The nodes of the list are those that p has, in this order.
Path(p, n) ==
  /\ n \in Nat /\ p \in [1 .. n -> Node] /\ \A i, j \in 1 .. n : p[i] = p[j] => i = j
  /\ first = (IF n = 0 THEN Null ELSE p[1]) /\ last = (IF n = 0 THEN Null ELSE p[n])
  /\ \A i \in 1 .. n : OnPath(p, n, i)
  /\ \A m \in Node : (\A i \in 1 .. n : p[i] # m) => Bare(m)

ListInv ==
  LET n == Len(elements)
  IN  ListTypes(n) /\ \E p \in [1 .. n -> Node] : Path(p, n)

\* A walk is what each of its steps says.
LEMMA WalkIs ==
  ASSUME NEW from, NEW pointer, NEW i \in Nat \ {0}, NEW g,
         g[1] = from, \A j \in 2 .. i : g[j] = pointer[g[j - 1]]
  PROVE  List!Reached(from, pointer, i) = g[i]
<1> DEFINE Walks(f) == f = [j \in 1 .. i |-> IF j = 1 THEN from ELSE pointer[f[j - 1]]]
           h == [j \in 1 .. i |-> g[j]]
           w == CHOOSE f : Walks(f)
<1>1. Walks(h)
  <2>1. ASSUME NEW j \in 1 .. i
        PROVE  h[j] = IF j = 1 THEN from ELSE pointer[h[j - 1]]
    <3>1. CASE j = 1
      BY <3>1
    <3>2. CASE j # 1
      <4>1. j \in 2 .. i /\ j - 1 \in 1 .. i
        BY <3>2
      <4> QED BY <3>2, <4>1
    <3> QED BY <3>1, <3>2
  <2> QED BY <2>1
<1>2. Walks(w)
  BY <1>1, Zenon
<1>3. List!Reached(from, pointer, i) = w[i]
  BY Zenon DEF List!Reached
<1> HIDE DEF w, h
<1>4. \A j \in 1 .. i : w[j] = IF j = 1 THEN from ELSE pointer[w[j - 1]]
  BY <1>2
<1> QED BY <1>3, <1>4, SameWalk

\* A node is put behind the last one.
LEMMA BackKeeps ==
  ASSUME NEW n, NEW p, ListTypes(n), Path(p, n),
         NEW x \in Node, NEW e \in Element, List!addBack(x, e)
  PROVE  ListTypes(n + 1)' /\ \E q : Path(q, n + 1)'
<1> DEFINE q == [i \in 1 .. n + 1 |-> IF i = n + 1 THEN x ELSE p[i]]
<1>0. /\ n \in Nat /\ p \in [1 .. n -> Node] /\ Null \notin Node /\ Null \notin Element
      /\ \A i, j \in 1 .. n : p[i] = p[j] => i = j
  BY ListAssumption DEF Path
<1>1. /\ elements \in Seq(Element) /\ Len(elements) = n /\ length = n
      /\ data \in [Node -> Element \cup {Null}]
      /\ next \in [Node -> Node \cup {Null}] /\ previous \in [Node -> Node \cup {Null}]
  BY DEF ListTypes
<1>2. n + 1 \in Nat /\ \A i \in 1 .. n + 1 : i = n + 1 \/ i \in 1 .. n
  BY <1>0
<1>3. /\ \A i \in 1 .. n : i \in 1 .. n + 1 /\ i # n + 1
      /\ n + 1 \in 1 .. n + 1 /\ (n # 0 => 1 \in 1 .. n /\ n \in 1 .. n)
      /\ \A i \in 1 .. n : i # n => i + 1 \in 1 .. n /\ i + 1 # n + 1
      /\ \A i \in 1 .. n : i # 1 => i - 1 \in 1 .. n
      /\ n = 0 => 1 = n + 1
      /\ n # 0 => 1 # n + 1
      /\ n + 1 - 1 = n
  BY <1>0
<1>4. /\ q \in [1 .. n + 1 -> Node] /\ q[n + 1] = x
      /\ \A i \in 1 .. n : q[i] = p[i]
  BY <1>0, <1>2, <1>3
<1> HIDE DEF q
<1>5. /\ first = (IF n = 0 THEN Null ELSE p[1]) /\ last = (IF n = 0 THEN Null ELSE p[n])
      /\ n # 0 => p[1] \in Node /\ p[n] \in Node
  BY <1>0, <1>3 DEF Path
<1>6. ASSUME NEW i \in 1 .. n
      PROVE  /\ OnPath(p, n, i) /\ p[i] # x /\ p[i] \in Node
  <2>1. OnPath(p, n, i) /\ p[i] \in Node
    BY <1>0 DEF Path
  <2>2. data[p[i]] \in Element
    BY <1>1, <2>1 DEF OnPath
  <2>3. data[x] = Null
    BY DEF List!addBack, List!Free
  <2> QED BY <1>0, <2>1, <2>2, <2>3
<1>7. Bare(x)
  BY <1>6 DEF Path
<1>8. /\ data' = [data EXCEPT ![x] = e] /\ length' = n + 1 /\ last' = x
      /\ elements' = Append(elements, e)
  BY <1>1 DEF List!addBack
<1>9. /\ next' \in [Node -> Node \cup {Null}] /\ previous' \in [Node -> Node \cup {Null}]
      /\ \A m \in Node : next'[m] = IF n # 0 /\ m = p[n] THEN x ELSE next[m]
      /\ \A m \in Node : previous'[m] = IF n # 0 /\ m = x THEN p[n] ELSE previous[m]
      /\ first' = IF n = 0 THEN x ELSE first
  <2>1. CASE n = 0
    <3>1. first' = x /\ UNCHANGED <<next, previous>>
      BY <1>5, <2>1 DEF List!addBack
    <3> QED BY <1>1, <2>1, <3>1
  <2>2. CASE n # 0
    <3>1. /\ next' = [next EXCEPT ![p[n]] = x] /\ previous' = [previous EXCEPT ![x] = p[n]]
          /\ first' = first
      BY <1>0, <1>5, <2>2 DEF List!addBack
    <3> QED BY <1>1, <1>5, <2>2, <3>1
  <2> QED BY <2>1, <2>2
<1>10. /\ elements' \in Seq(Element) /\ Len(elements') = n + 1 /\ elements'[n + 1] = e
       /\ \A i \in 1 .. n : elements'[i] = elements[i]
  BY <1>1, <1>8
<1>11. ListTypes(n + 1)'
  BY <1>1, <1>8, <1>9, <1>10 DEF ListTypes
<1>12. \A i, j \in 1 .. n + 1 : q[i] = q[j] => i = j
  BY <1>0, <1>2, <1>4, <1>6
<1>13. first' = q[1] /\ last' = q[n + 1]
  BY <1>3, <1>4, <1>5, <1>8, <1>9
<1>14. ASSUME NEW i \in 1 .. n PROVE OnPath(q, n + 1, i)'
  <2>1. OnPath(p, n, i) /\ p[i] # x /\ p[i] \in Node /\ q[i] = p[i] /\ i # n + 1
    BY <1>3, <1>4, <1>6
  <2>2. data'[p[i]] = elements'[i]
    BY <1>1, <1>8, <1>10, <2>1 DEF OnPath
  <2>3. next'[p[i]] = q[i + 1]
    <3>1. CASE i = n
      BY <1>0, <1>3, <1>4, <1>9, <2>1, <3>1
    <3>2. CASE i # n
      <4>1. p[i] # p[n] /\ n # 0
        BY <1>0, <1>3, <3>2
      <4> QED BY <1>3, <1>4, <1>9, <2>1, <3>2, <4>1 DEF OnPath
    <3> QED BY <3>1, <3>2
  <2>4. previous'[p[i]] = IF i = 1 THEN Null ELSE q[i - 1]
    BY <1>3, <1>4, <1>9, <2>1 DEF OnPath
  <2> QED BY <2>1, <2>2, <2>3, <2>4 DEF OnPath
<1>15. OnPath(q, n + 1, n + 1)'
  <2>1. data'[x] = e
    BY <1>1, <1>8
  <2>2. next'[x] = Null
    BY <1>3, <1>6, <1>7, <1>9 DEF Bare
  <2>3. previous'[x] = IF n = 0 THEN Null ELSE q[n]
    BY <1>3, <1>4, <1>7, <1>9 DEF Bare
  <2> QED BY <1>3, <1>4, <1>10, <2>1, <2>2, <2>3 DEF OnPath
<1>16. ASSUME NEW m \in Node, \A i \in 1 .. n + 1 : q[i] # m PROVE Bare(m)'
  <2>1. m # x /\ \A i \in 1 .. n : p[i] # m
    BY <1>3, <1>4, <1>16
  <2>2. Bare(m)
    BY <2>1 DEF Path
  <2>3. n # 0 => p[n] # m
    BY <1>3, <2>1
  <2> QED BY <1>1, <1>8, <1>9, <2>1, <2>2, <2>3 DEF Bare
<1>17. \A i \in 1 .. n + 1 : OnPath(q, n + 1, i)'
  BY <1>2, <1>14, <1>15
<1>18. n + 1 # 0
  BY <1>0
<1> QED BY <1>2, <1>4, <1>11, <1>12, <1>13, <1>16, <1>17, <1>18 DEF Path

\* A node is put before the first one.
LEMMA FrontKeeps ==
  ASSUME NEW n, NEW p, ListTypes(n), Path(p, n),
         NEW x \in Node, NEW e \in Element, List!addFront(x, e)
  PROVE  ListTypes(n + 1)' /\ \E q : Path(q, n + 1)'
<1> DEFINE q == [i \in 1 .. n + 1 |-> IF i = 1 THEN x ELSE p[i - 1]]
<1>0. /\ n \in Nat /\ p \in [1 .. n -> Node] /\ Null \notin Node /\ Null \notin Element
      /\ \A i, j \in 1 .. n : p[i] = p[j] => i = j
  BY ListAssumption DEF Path
<1>1. /\ elements \in Seq(Element) /\ Len(elements) = n /\ length = n
      /\ data \in [Node -> Element \cup {Null}]
      /\ next \in [Node -> Node \cup {Null}] /\ previous \in [Node -> Node \cup {Null}]
  BY DEF ListTypes
<1>2. /\ n + 1 \in Nat /\ n + 1 # 0
      /\ \A i \in 1 .. n + 1 : i = 1 \/ i - 1 \in 1 .. n
  BY <1>0
<1>3. /\ \A i \in 1 .. n : i + 1 \in 1 .. n + 1 /\ i + 1 # 1 /\ i + 1 - 1 = i
      /\ 1 \in 1 .. n + 1 /\ (n # 0 => 1 \in 1 .. n /\ n \in 1 .. n)
      /\ \A i \in 1 .. n : i # n => i + 1 \in 1 .. n /\ i + 1 + 1 \in 1 .. n + 1
      /\ \A i \in 1 .. n : i # 1 => i - 1 \in 1 .. n /\ i - 1 + 1 = i
      /\ \A i \in 1 .. n : i = n <=> i + 1 = n + 1
      /\ n = 0 <=> 1 = n + 1
  BY <1>0
<1>4. /\ q \in [1 .. n + 1 -> Node] /\ q[1] = x
      /\ \A i \in 1 .. n : q[i + 1] = p[i]
  BY <1>0, <1>2, <1>3
<1> HIDE DEF q
<1>5. /\ first = (IF n = 0 THEN Null ELSE p[1]) /\ last = (IF n = 0 THEN Null ELSE p[n])
      /\ n # 0 => p[1] \in Node /\ p[n] \in Node
  BY <1>0, <1>3 DEF Path
<1>6. ASSUME NEW i \in 1 .. n
      PROVE  /\ OnPath(p, n, i) /\ p[i] # x /\ p[i] \in Node
  <2>1. OnPath(p, n, i) /\ p[i] \in Node
    BY <1>0 DEF Path
  <2>2. data[p[i]] \in Element
    BY <1>1, <2>1 DEF OnPath
  <2>3. data[x] = Null
    BY DEF List!addFront, List!Free
  <2> QED BY <1>0, <2>1, <2>2, <2>3
<1>7. Bare(x)
  BY <1>6 DEF Path
<1>8. /\ data' = [data EXCEPT ![x] = e] /\ length' = n + 1 /\ first' = x
      /\ elements' = <<e>> \o elements
  BY <1>1 DEF List!addFront
<1>9. /\ next' \in [Node -> Node \cup {Null}] /\ previous' \in [Node -> Node \cup {Null}]
      /\ \A m \in Node : next'[m] = IF n # 0 /\ m = x THEN p[1] ELSE next[m]
      /\ \A m \in Node : previous'[m] = IF n # 0 /\ m = p[1] THEN x ELSE previous[m]
      /\ last' = IF n = 0 THEN x ELSE last
  <2>1. CASE n = 0
    <3>1. last' = x /\ UNCHANGED <<next, previous>>
      BY <1>5, <2>1 DEF List!addFront
    <3> QED BY <1>1, <2>1, <3>1
  <2>2. CASE n # 0
    <3>1. /\ previous' = [previous EXCEPT ![p[1]] = x] /\ next' = [next EXCEPT ![x] = p[1]]
          /\ last' = last
      BY <1>0, <1>5, <2>2 DEF List!addFront
    <3> QED BY <1>1, <1>5, <2>2, <3>1
  <2> QED BY <2>1, <2>2
<1>10. /\ elements' \in Seq(Element) /\ Len(elements') = n + 1 /\ elements'[1] = e
       /\ \A i \in 1 .. n : elements'[i + 1] = elements[i]
  <2>1. <<e>> \in Seq(Element) /\ Len(<<e>>) = 1 /\ <<e>>[1] = e
    OBVIOUS
  <2>2. elements' \in Seq(Element) /\ Len(elements') = 1 + n
    BY <1>1, <1>8, <2>1
  <2>3. \A i \in 1 .. 1 + n : elements'[i] = IF i <= 1 THEN <<e>>[i] ELSE elements[i - 1]
    BY <1>1, <1>8, <2>1
  <2>4. \A i \in 1 .. n : i + 1 \in 1 .. 1 + n /\ ~(i + 1 <= 1)
    BY <1>0
  <2>5. 1 \in 1 .. 1 + n
    BY <1>0
  <2> QED BY <1>0, <1>3, <2>1, <2>2, <2>3, <2>4, <2>5
<1>11. ListTypes(n + 1)'
  BY <1>1, <1>8, <1>9, <1>10 DEF ListTypes
<1>12. \A i, j \in 1 .. n + 1 : q[i] = q[j] => i = j
  <2>1. ASSUME NEW i \in 1 .. n + 1 PROVE q[i] = IF i = 1 THEN x ELSE p[i - 1]
    BY <1>2, <1>3, <1>4, <2>1 DEF q
  <2>2. ASSUME NEW i \in 1 .. n + 1, NEW j \in 1 .. n + 1, q[i] = q[j] PROVE i = j
    <3>1. CASE i = 1 \/ j = 1
      BY <1>2, <1>6, <2>1, <2>2, <3>1
    <3>2. CASE i # 1 /\ j # 1
      <4>1. i - 1 = j - 1
        BY <1>0, <1>2, <2>1, <2>2, <3>2
      <4> QED BY <4>1
    <3> QED BY <3>1, <3>2
  <2> QED BY <2>2
<1>13. first' = q[1] /\ last' = q[n + 1]
  BY <1>3, <1>4, <1>5, <1>8, <1>9
<1>14. ASSUME NEW i \in 1 .. n PROVE OnPath(q, n + 1, i + 1)'
  <2>1. OnPath(p, n, i) /\ p[i] # x /\ p[i] \in Node /\ q[i + 1] = p[i] /\ i + 1 # 1
    BY <1>3, <1>4, <1>6
  <2>2. data'[p[i]] = elements'[i + 1]
    BY <1>1, <1>8, <1>10, <2>1 DEF OnPath
  <2>3. next'[p[i]] = IF i = n THEN Null ELSE q[i + 1 + 1]
    BY <1>3, <1>4, <1>9, <2>1 DEF OnPath
  <2>4. previous'[p[i]] = q[i]
    <3>1. CASE i = 1
      BY <1>3, <1>4, <1>9, <2>1, <3>1
    <3>2. CASE i # 1
      <4>1. p[i] # p[1] /\ n # 0 /\ q[i] = p[i - 1]
        BY <1>0, <1>3, <1>4, <3>2
      <4> QED BY <1>9, <2>1, <3>2, <4>1 DEF OnPath
    <3> QED BY <3>1, <3>2
  <2> QED BY <1>3, <2>1, <2>2, <2>3, <2>4 DEF OnPath
<1>15. OnPath(q, n + 1, 1)'
  <2>1. data'[x] = e
    BY <1>1, <1>8
  <2>2. next'[x] = IF n = 0 THEN Null ELSE q[1 + 1]
    BY <1>3, <1>4, <1>7, <1>9 DEF Bare
  <2>3. previous'[x] = Null
    BY <1>3, <1>6, <1>7, <1>9 DEF Bare
  <2> QED BY <1>3, <1>4, <1>10, <2>1, <2>2, <2>3 DEF OnPath
<1>16. ASSUME NEW m \in Node, \A i \in 1 .. n + 1 : q[i] # m PROVE Bare(m)'
  <2>1. m # x /\ \A i \in 1 .. n : p[i] # m
    BY <1>3, <1>4, <1>16
  <2>2. Bare(m)
    BY <2>1 DEF Path
  <2>3. n # 0 => p[1] # m
    BY <1>3, <2>1
  <2> QED BY <1>1, <1>8, <1>9, <2>1, <2>2, <2>3 DEF Bare
<1>17. ASSUME NEW i \in 1 .. n + 1 PROVE OnPath(q, n + 1, i)'
  <2>1. CASE i = 1
    BY <1>15, <2>1
  <2>2. CASE i # 1
    <3>1. PICK j \in 1 .. n : i = j + 1
      BY <1>2, <2>2
    <3> QED BY <1>14, <3>1
  <2> QED BY <2>1, <2>2
<1> QED BY <1>2, <1>4, <1>11, <1>12, <1>13, <1>16, <1>17 DEF Path

\* The i-th step along the pointers reaches the i-th node, from either end, and
\* the step after the last one nothing.
LEMMA StepsReach ==
  ASSUME NEW n, NEW p, Path(p, n), NEW i \in 1 .. n + 1
  PROVE  /\ List!NodeAt(i) = IF i = n + 1 THEN Null ELSE p[i]
         /\ List!NodeFromBack(i) = IF i = n + 1 THEN Null ELSE p[n + 1 - i]
<1> DEFINE g == [j \in 1 .. n + 1 |-> IF j = n + 1 THEN Null ELSE p[j]]
           h == [j \in 1 .. n + 1 |-> IF j = n + 1 THEN Null ELSE p[n + 1 - j]]
<1>0. /\ n \in Nat /\ i \in Nat \ {0} /\ 1 \in 1 .. n + 1 /\ n + 1 - 1 = n
      /\ (1 = n + 1 <=> n = 0)
      /\ first = (IF n = 0 THEN Null ELSE p[1]) /\ last = (IF n = 0 THEN Null ELSE p[n])
  BY DEF Path
<1>1. ASSUME NEW j \in 2 .. i
      PROVE  /\ j - 1 \in 1 .. n /\ j - 1 \in 1 .. n + 1 /\ j \in 1 .. n + 1 /\ j - 1 # n + 1
             /\ (j = n + 1 <=> j - 1 = n) /\ j - 1 + 1 = j
             /\ n + 1 - (j - 1) \in 1 .. n /\ n + 1 - (j - 1) - 1 = n + 1 - j
             /\ (j = n + 1 <=> n + 1 - (j - 1) = 1)
  BY <1>0
<1>2. ASSUME NEW j \in 2 .. i PROVE g[j] = next[g[j - 1]]
  BY <1>1 DEF Path, OnPath
<1>3. ASSUME NEW j \in 2 .. i PROVE h[j] = previous[h[j - 1]]
  BY <1>1 DEF Path, OnPath
<1>4. g[1] = first /\ h[1] = last
  BY <1>0
<1> HIDE DEF g, h
<1>5. List!NodeAt(i) = g[i]
  BY <1>0, <1>2, <1>4, WalkIs DEF List!NodeAt
<1>6. List!NodeFromBack(i) = h[i]
  BY <1>0, <1>3, <1>4, WalkIs DEF List!NodeFromBack
<1> QED BY <1>5, <1>6 DEF g, h

\* Where the i-th of a sequence was before the k-th was taken out.
Shift(k, i) == IF i < k THEN i ELSE i + 1

\* ... and where those on its sides were.
Sides(n, k, i) ==
  /\ Shift(k, i) \in 1 .. n /\ Shift(k, i) # k
  /\ i = n - 1 => (Shift(k, i) = n \/ (Shift(k, i) = k - 1 /\ k = n))
  /\ i # n - 1 =>
       /\ i + 1 \in 1 .. n - 1
       /\ Shift(k, i + 1) = IF Shift(k, i) = k - 1 THEN k + 1 ELSE Shift(k, i) + 1
       /\ Shift(k, i) # n /\ (Shift(k, i) = k - 1 => k # n)
  /\ i = 1 => (Shift(k, i) = 1 \/ (Shift(k, i) = k + 1 /\ k = 1))
  /\ i # 1 =>
       /\ i - 1 \in 1 .. n - 1
       /\ Shift(k, i - 1) = IF Shift(k, i) = k + 1 THEN k - 1 ELSE Shift(k, i) - 1
       /\ Shift(k, i) # 1 /\ (Shift(k, i) = k + 1 => k # 1)

\* Both are as they should be.
LEMMA Shifted ==
  ASSUME NEW n \in Nat, NEW k \in 1 .. n, NEW i \in 1 .. n - 1 PROVE Sides(n, k, i)
<1>0. /\ n \in Int /\ k \in Int /\ i \in Int /\ 1 <= k /\ k <= n /\ 1 <= i /\ i <= n - 1
  OBVIOUS
<1>1. CASE i < k
  <2>1. Shift(k, i) = i /\ Shift(k, i - 1) = i - 1
        /\ Shift(k, i + 1) = (IF i = k - 1 THEN k + 1 ELSE i + 1)
    BY <1>0, <1>1 DEF Shift
  <2> QED BY <1>0, <1>1, <2>1 DEF Sides
<1>2. CASE ~(i < k)
  <2>1. Shift(k, i) = i + 1 /\ Shift(k, i + 1) = i + 1 + 1
        /\ Shift(k, i - 1) = (IF i = k THEN k - 1 ELSE i)
    BY <1>0, <1>2 DEF Shift
  <2> QED BY <1>0, <1>2, <2>1 DEF Sides
<1> QED BY <1>1, <1>2

\* The nodes on both sides of one that is deleted point to each other.
LEMMA DeleteKeeps ==
  ASSUME NEW n, NEW p, ListTypes(n), Path(p, n), NEW k, List!erase(k)
  PROVE  ListTypes(n - 1)' /\ \E q : Path(q, n - 1)'
<1> DEFINE q == [i \in 1 .. n - 1 |-> p[Shift(k, i)]]
<1>0. /\ n \in Nat /\ p \in [1 .. n -> Node] /\ Null \notin Node /\ Null \notin Element
      /\ \A i, j \in 1 .. n : p[i] = p[j] => i = j
  BY ListAssumption DEF Path
<1>1. /\ elements \in Seq(Element) /\ Len(elements) = n /\ length = n
      /\ data \in [Node -> Element \cup {Null}]
      /\ next \in [Node -> Node \cup {Null}] /\ previous \in [Node -> Node \cup {Null}]
  BY DEF ListTypes
<1>2. k \in 1 .. n
  BY <1>1 DEF List!erase
<1>3. k \in 1 .. n + 1 /\ k # n + 1 /\ n - 1 \in Nat /\ (n - 1 = 0 <=> n = 1)
  BY <1>0, <1>2
<1>4. List!NodeAt(k) = p[k] /\ p[k] \in Node /\ OnPath(p, n, k)
  BY <1>0, <1>2, <1>3, StepsReach DEF Path
<1>5. /\ next[p[k]] = (IF k = n THEN Null ELSE p[k + 1])
      /\ previous[p[k]] = IF k = 1 THEN Null ELSE p[k - 1]
  BY <1>4 DEF OnPath
<1>6. /\ data' = [data EXCEPT ![p[k]] = Null] /\ length' = n - 1
      /\ first' = (IF previous[p[k]] = Null THEN next[p[k]] ELSE first)
      /\ last' = (IF next[p[k]] = Null THEN previous[p[k]] ELSE last)
      /\ elements' = SubSeq(elements, 1, k - 1) \o SubSeq(elements, k + 1, Len(elements))
  BY <1>1, <1>4 DEF List!erase
<1>7. /\ next' = [m \in Node |->
                    IF m = p[k] THEN Null
                    ELSE IF m = previous[p[k]] THEN next[p[k]] ELSE next[m]]
      /\ previous' = [m \in Node |->
                        IF m = p[k] THEN Null
                        ELSE IF m = next[p[k]] THEN previous[p[k]] ELSE previous[m]]
  BY <1>4 DEF List!erase, List!Bypass
<1>8. ASSUME NEW i \in 1 .. n - 1
      PROVE  Sides(n, k, i) /\ Shift(k, i) \in 1 .. n /\ Shift(k, i) # k
  <2>1. Sides(n, k, i)
    BY <1>0, <1>2, Shifted
  <2> QED BY <2>1 DEF Sides
<1>9. /\ \A i, j \in 1 .. n - 1 : Shift(k, i) = Shift(k, j) => i = j
      /\ \A j \in 1 .. n : j # k => \E i \in 1 .. n - 1 : j = Shift(k, i)
  <2>1. ASSUME NEW i \in 1 .. n - 1, NEW j \in 1 .. n - 1, Shift(k, i) = Shift(k, j) PROVE i = j
    BY <1>0, <1>2, <2>1 DEF Shift
  <2>2. ASSUME NEW j \in 1 .. n, j # k PROVE \E i \in 1 .. n - 1 : j = Shift(k, i)
    <3>1. CASE j < k
      <4>1. j \in 1 .. n - 1 /\ j = Shift(k, j)
        BY <1>0, <1>2, <3>1 DEF Shift
      <4> QED BY <4>1
    <3>2. CASE ~(j < k)
      <4>1. j - 1 \in 1 .. n - 1 /\ j = Shift(k, j - 1)
        BY <1>0, <1>2, <2>2, <3>2 DEF Shift
      <4> QED BY <4>1
    <3> QED BY <3>1, <3>2
  <2> QED BY <2>1, <2>2
<1>10. /\ elements' \in Seq(Element) /\ Len(elements') = n - 1
       /\ \A i \in 1 .. n - 1 : elements'[i] = elements[Shift(k, i)]
  <2> DEFINE s == SubSeq(elements, 1, k - 1)
             t == SubSeq(elements, k + 1, n)
  <2>1. /\ s \in Seq(Element) /\ Len(s) = k - 1 /\ \A i \in 1 .. k - 1 : s[i] = elements[i]
    BY <1>0, <1>1, <1>2
  <2>2. /\ t \in Seq(Element) /\ Len(t) = n - k
        /\ \A i \in 1 .. n - k : t[i] = elements[k + i]
    BY <1>0, <1>1, <1>2
  <2>3. elements' = s \o t
    BY <1>1, <1>6
  <2> HIDE DEF s, t
  <2>4. elements' \in Seq(Element) /\ Len(elements') = (k - 1) + (n - k)
    <3>1. s \o t \in Seq(Element) /\ Len(s \o t) = Len(s) + Len(t)
      BY <2>1, <2>2
    <3> QED BY <2>1, <2>2, <2>3, <3>1
  <2>5. \A i \in 1 .. (k - 1) + (n - k) :
          elements'[i] = IF i <= k - 1 THEN s[i] ELSE t[i - (k - 1)]
    BY <2>1, <2>2, <2>3
  <2>6. ASSUME NEW i \in 1 .. n - 1 PROVE elements'[i] = elements[Shift(k, i)]
    <3>0. i \in 1 .. (k - 1) + (n - k)
      BY <1>0, <1>2
    <3>1. CASE i < k
      <4>1. i \in 1 .. k - 1 /\ i <= k - 1
        BY <1>2, <3>1
      <4> QED BY <2>1, <2>5, <3>0, <3>1, <4>1 DEF Shift
    <3>2. CASE ~(i < k)
      <4>1. /\ i - (k - 1) \in 1 .. n - k /\ ~(i <= k - 1)
            /\ k + (i - (k - 1)) = i + 1
        BY <1>0, <1>2, <3>2
      <4> QED BY <2>2, <2>5, <3>0, <3>2, <4>1 DEF Shift
    <3> QED BY <3>1, <3>2
  <2>7. (k - 1) + (n - k) = n - 1
    BY <1>0, <1>2
  <2> QED BY <2>4, <2>6, <2>7
<1>11. q \in [1 .. n - 1 -> Node] /\ \A i \in 1 .. n - 1 : q[i] = p[Shift(k, i)]
  BY <1>0, <1>8
<1> HIDE DEF q
<1>12. ListTypes(n - 1)'
  <2>1. data' \in [Node -> Element \cup {Null}]
    BY <1>1, <1>6
  <2>2. next[p[k]] \in Node \cup {Null} /\ previous[p[k]] \in Node \cup {Null}
    BY <1>1, <1>4
  <2>3. next' \in [Node -> Node \cup {Null}] /\ previous' \in [Node -> Node \cup {Null}]
    BY <1>1, <1>7, <2>2
  <2> QED BY <1>6, <1>10, <2>1, <2>3 DEF ListTypes
<1>13. \A i, j \in 1 .. n - 1 : q[i] = q[j] => i = j
  BY <1>0, <1>8, <1>9, <1>11
<1>14. ASSUME NEW i \in 1 .. n - 1 PROVE OnPath(q, n - 1, i)'
  <2>1. PICK j \in 1 .. n : j = Shift(k, i) /\ j # k
    BY <1>8
  <2>2. /\ p[j] # p[k] /\ p[j] \in Node /\ q[i] = p[j] /\ OnPath(p, n, j)
    BY <1>0, <1>2, <1>11, <2>1 DEF Path
  <2>3. data'[p[j]] = elements'[i]
    BY <1>1, <1>4, <1>6, <1>10, <2>1, <2>2 DEF OnPath
  <2>4. /\ p[j] = previous[p[k]] <=> k # 1 /\ j = k - 1
        /\ p[j] = next[p[k]] <=> k # n /\ j = k + 1
    <3>1. (k # 1 => k - 1 \in 1 .. n) /\ (k # n => k + 1 \in 1 .. n)
      BY <1>0, <1>2
    <3> QED BY <1>0, <1>5, <2>2, <3>1
  <2>5. next'[p[j]] = IF i = n - 1 THEN Null ELSE q[i + 1]
    <3>1. next'[p[j]] = IF k # 1 /\ j = k - 1 THEN next[p[k]] ELSE next[p[j]]
      BY <1>7, <2>2, <2>4
    <3>2. j = k - 1 => k # 1
      BY <2>1
    <3>3. CASE i = n - 1
      <4>1. j = n \/ (j = k - 1 /\ k = n)
        BY <1>8, <2>1, <3>3 DEF Sides
      <4>2. j = n => j # k - 1
        BY <1>0, <1>2
      <4> QED BY <1>5, <2>2, <3>1, <3>2, <3>3, <4>1, <4>2 DEF OnPath
    <3>4. CASE i # n - 1
      <4>1. /\ q[i + 1] = p[IF j = k - 1 THEN k + 1 ELSE j + 1]
            /\ j # n /\ (j = k - 1 => k # n)
        BY <1>8, <1>11, <2>1, <3>4 DEF Sides
      <4> QED BY <1>5, <2>2, <3>1, <3>2, <3>4, <4>1 DEF OnPath
    <3> QED BY <3>3, <3>4
  <2>6. previous'[p[j]] = IF i = 1 THEN Null ELSE q[i - 1]
    <3>1. previous'[p[j]] = IF k # n /\ j = k + 1 THEN previous[p[k]] ELSE previous[p[j]]
      BY <1>7, <2>2, <2>4
    <3>2. j = k + 1 => k # n
      BY <1>0, <2>1
    <3>3. CASE i = 1
      <4>1. j = 1 \/ (j = k + 1 /\ k = 1)
        BY <1>8, <2>1, <3>3 DEF Sides
      <4>2. j = 1 => j # k + 1
        BY <1>0, <1>2
      <4> QED BY <1>5, <2>2, <3>1, <3>2, <3>3, <4>1, <4>2 DEF OnPath
    <3>4. CASE i # 1
      <4>1. /\ q[i - 1] = p[IF j = k + 1 THEN k - 1 ELSE j - 1]
            /\ j # 1 /\ (j = k + 1 => k # 1)
        BY <1>8, <1>11, <2>1, <3>4 DEF Sides
      <4> QED BY <1>5, <2>2, <3>1, <3>2, <3>4, <4>1 DEF OnPath
    <3> QED BY <3>3, <3>4
  <2> QED BY <2>2, <2>3, <2>5, <2>6 DEF OnPath
<1>15. /\ first = p[1] /\ last = p[n] /\ n # 0
       /\ k # 1 => k - 1 \in 1 .. n /\ p[k - 1] \in Node
       /\ k # n => k + 1 \in 1 .. n /\ p[k + 1] \in Node
  <2>1. n # 0 /\ (k # 1 => k - 1 \in 1 .. n) /\ (k # n => k + 1 \in 1 .. n)
    BY <1>0, <1>2
  <2> QED BY <1>0, <2>1 DEF Path
<1>16. first' = IF n - 1 = 0 THEN Null ELSE q[1]
  <2>1. CASE n = 1
    <3>1. k = 1 /\ n - 1 = 0
      BY <1>2, <2>1
    <3> QED BY <1>5, <1>6, <2>1, <3>1
  <2>2. CASE n # 1
    <3>1. /\ n - 1 # 0 /\ 1 \in 1 .. n - 1 /\ 1 + 1 = 2
          /\ Shift(k, 1) = IF k = 1 THEN 2 ELSE 1
      BY <1>0, <1>2, <2>2 DEF Shift
    <3>2. q[1] = IF k = 1 THEN p[2] ELSE p[1]
      BY <1>11, <3>1
    <3> QED BY <1>0, <1>5, <1>6, <1>15, <2>2, <3>1, <3>2
  <2> QED BY <2>1, <2>2
<1>17. last' = IF n - 1 = 0 THEN Null ELSE q[n - 1]
  <2>1. CASE n = 1
    <3>1. k = 1 /\ n - 1 = 0
      BY <1>2, <2>1
    <3> QED BY <1>5, <1>6, <2>1, <3>1
  <2>2. CASE n # 1
    <3>1. /\ n - 1 # 0 /\ n - 1 \in 1 .. n - 1
          /\ Shift(k, n - 1) = IF k = n THEN n - 1 ELSE n
      BY <1>0, <1>2, <2>2 DEF Shift
    <3>2. q[n - 1] = IF k = n THEN p[n - 1] ELSE p[n]
      BY <1>11, <3>1
    <3> QED BY <1>0, <1>5, <1>6, <1>15, <2>2, <3>1, <3>2
  <2> QED BY <2>1, <2>2
<1>18. ASSUME NEW m \in Node, \A i \in 1 .. n - 1 : q[i] # m PROVE Bare(m)'
  <2>1. CASE m = p[k]
    BY <1>1, <1>6, <1>7, <2>1 DEF Bare
  <2>2. CASE m # p[k]
    <3>1. \A j \in 1 .. n : p[j] # m
      BY <1>9, <1>11, <1>18, <2>2
    <3>2. Bare(m)
      BY <3>1 DEF Path
    <3>3. m # previous[p[k]] /\ m # next[p[k]]
      BY <1>0, <1>5, <1>15, <3>1
    <3> QED BY <1>1, <1>6, <1>7, <2>2, <3>2, <3>3 DEF Bare
  <2> QED BY <2>1, <2>2
<1> QED BY <1>3, <1>11, <1>12, <1>13, <1>14, <1>16, <1>17, <1>18 DEF Path

\* An empty list is a path of no nodes.
LEMMA ListBegins == Init => ListInv
<1> SUFFICES ASSUME Init PROVE ListInv
  OBVIOUS
<1> DEFINE p == [i \in 1 .. 0 |-> Null]
<1>1. /\ first = Null /\ last = Null /\ length = 0 /\ elements = <<>>
      /\ data = [m \in Node |-> Null] /\ next = [m \in Node |-> Null]
      /\ previous = [m \in Node |-> Null]
  BY DEF Init, List!Init
<1>2. 1 .. 0 = {}
  OBVIOUS
<1>3. p \in [1 .. 0 -> Node]
  BY <1>2
<1> HIDE DEF p
<1>4. Path(p, 0)
  BY <1>1, <1>2, <1>3 DEF Path, Bare
<1>5. ListTypes(0) /\ Len(elements) = 0
  BY <1>1 DEF ListTypes
<1> QED BY <1>3, <1>4, <1>5 DEF ListInv

\* Whatever is done with a list, its nodes are a path.
LEMMA ListKept == ListInv /\ [Next]_vars => ListInv'
<1> SUFFICES ASSUME ListInv, [Next]_vars PROVE ListInv'
  OBVIOUS
<1>1. PICK n, p : ListTypes(n) /\ Path(p, n)
  BY DEF ListInv
<1>2. ASSUME NEW m, ListTypes(m)', NEW q, Path(q, m)' PROVE ListInv'
  <2>1. Len(elements') = m /\ q \in [1 .. m -> Node]
    BY <1>2 DEF ListTypes, Path
  <2> QED BY <1>2, <2>1 DEF ListInv
<1>3. ASSUME NEW x \in Node, NEW e \in Element, List!addBack(x, e) PROVE ListInv'
  BY <1>1, <1>2, <1>3, BackKeeps
<1>4. ASSUME NEW x \in Node, NEW e \in Element, List!addFront(x, e) PROVE ListInv'
  BY <1>1, <1>2, <1>4, FrontKeeps
<1>5. ASSUME NEW k, List!erase(k) PROVE ListInv'
  BY <1>1, <1>2, <1>5, DeleteKeeps
<1>6. CASE UNCHANGED list
  <2>1. UNCHANGED <<first, last, data, next, previous, length, elements>>
    BY <1>6 DEF list
  <2>2. ListTypes(n)' /\ Path(p, n)'
    BY <1>1, <2>1 DEF ListTypes, Path, OnPath, Bare
  <2> QED BY <1>2, <2>2
<1>7. List!Next \/ UNCHANGED list
  BY DEF Next, vars
<1> QED BY <1>3, <1>4, <1>5, <1>6, <1>7 DEF List!Next

\* Iterations in both directions pass each element of a list in its place, and
\* end.
THEOREM ListIsSequence == Spec => []ListAsSequence
<1>1. ASSUME ListInv PROVE ListAsSequence
  <2>1. PICK n, p : ListTypes(n) /\ Path(p, n)
    BY <1>1 DEF ListInv
  <2>2. n \in Nat /\ length = n /\ Len(elements) = n
    BY <2>1 DEF ListTypes, Path
  <2>3. ASSUME NEW i \in 1 .. n
        PROVE  /\ data[List!NodeAt(i)] = elements[i]
               /\ List!NodeFromBack(i) = List!NodeAt(n + 1 - i)
    <3>1. /\ i \in 1 .. n + 1 /\ i # n + 1 /\ n + 1 - i \in 1 .. n + 1 /\ n + 1 - i # n + 1
      BY <2>2
    <3>2. /\ List!NodeAt(i) = p[i] /\ List!NodeFromBack(i) = p[n + 1 - i]
          /\ List!NodeAt(n + 1 - i) = p[n + 1 - i]
      BY <2>1, <3>1, StepsReach
    <3>3. OnPath(p, n, i)
      BY <2>1 DEF Path
    <3> QED BY <3>2, <3>3 DEF OnPath
  <2>4. List!NodeAt(n + 1) = Null /\ List!NodeFromBack(n + 1) = Null
    <3>1. n + 1 \in 1 .. n + 1
      BY <2>2
    <3> QED BY <2>1, <3>1, StepsReach
  <2> QED BY <2>2, <2>3, <2>4 DEF ListAsSequence, List!ListAsSequence
<1> QED BY <1>1, ListBegins, ListKept, PTL DEF Spec

-----------------------------------------------------------------------------
(* The frames on a stack.                                                  *)

StackFrame ==
  [type : {"java", "native"}, start : Nat, words : UNION {[0 .. n - 1 -> Nat] : n \in Usual}]

\* Where the i-th frame begins, or the next one would.
Mark(i) == IF i <= Len(frames) THEN frames[i].start ELSE position

\* The words of a frame and its size are where the next frame begins; it has not
\* been begun in the reserve, nor, if it is of Java, does it reach into it.
Whole(i, n) ==
  /\ n \in Usual /\ Mark(i + 1) = Mark(i) + n + 1 /\ bytes[Mark(i) + n] = n
  /\ DOMAIN frames[i].words = 0 .. n - 1
  /\ \A j \in 0 .. n - 1 : bytes[Mark(i) + j] = frames[i].words[j]
  /\ Mark(i) <= Capacity - Reserve
  /\ frames[i].type = "java" => Mark(i + 1) <= Capacity - Reserve

Stacked(k) ==
  /\ frames \in Seq(StackFrame) /\ Len(frames) = k /\ depth = k
  /\ bytes \in [0 .. Limit - 1 -> Nat] /\ position \in 0 .. Limit
  /\ Mark(1) = 0
  /\ \A i \in 1 .. k : \A j \in i + 1 .. k + 1 : Mark(i + 1) <= Mark(j)
  /\ \A i \in 1 .. k : \E n \in Usual : Whole(i, n)

StackInv == deeds = {} => Stacked(Len(frames))

\* Numbers that marks are.
LEMMA MarksAre ==
  ASSUME NEW k, Stacked(k)
  PROVE  /\ k \in Nat /\ \A i \in 1 .. k + 1 : Mark(i) \in Nat
         /\ \A i \in 1 .. k : Mark(i) = frames[i].start
         /\ Mark(k + 1) = position /\ position \in Nat /\ position <= Limit
<1>1. /\ frames \in Seq(StackFrame) /\ Len(frames) = k /\ position \in 0 .. Limit
      /\ Limit \in Nat
  BY StackAssumption DEF Stacked
<1>2. k \in Nat /\ position \in Nat /\ position <= Limit /\ ~(k + 1 <= k)
  BY <1>1
<1>3. ASSUME NEW i \in 1 .. k PROVE Mark(i) = frames[i].start /\ frames[i].start \in Nat
  <2>1. frames[i] \in StackFrame
    BY <1>1
  <2>2. frames[i].start \in Nat
    BY <2>1 DEF StackFrame
  <2>3. i <= k
    OBVIOUS
  <2> QED BY <1>1, <2>2, <2>3 DEF Mark
<1>4. Mark(k + 1) = position
  BY <1>1, <1>2 DEF Mark
<1>5. \A i \in 1 .. k + 1 : i = k + 1 \/ i \in 1 .. k
  BY <1>2
<1> QED BY <1>2, <1>3, <1>4, <1>5

\* The frame below a mark begins where the size that is found there says.
LEMMA BelowIs ==
  ASSUME NEW k, Stacked(k), NEW i \in 1 .. k
  PROVE  Mark(i + 1) # 0 /\ Stack!Below(Mark(i + 1)) = Mark(i)
<1>1. PICK n \in Usual : Whole(i, n)
  BY DEF Stacked
<1>2. k \in Nat /\ Mark(i) \in Nat
  BY MarksAre
<1>3. n \in Nat
  BY StackAssumption
<1>4. Mark(i + 1) = Mark(i) + n + 1 /\ bytes[Mark(i) + n] = n
  BY <1>1 DEF Whole
<1>5. Mark(i + 1) - 1 = Mark(i) + n
  BY <1>2, <1>3, <1>4
<1> QED BY <1>2, <1>3, <1>4, <1>5 DEF Stack!Below

\* As much as a frame of a native method and one of a Java method take, is in
\* the reserve.
LEMMA Within ==
  ASSUME NEW k, Stacked(k), NEW n \in Usual
  PROVE  /\ position + n + 1 <= Capacity
         /\ Stack!Caller # "native" => position <= Capacity - Reserve
<1>0. /\ Capacity \in Nat /\ Reserve \in Nat /\ Reserve <= Capacity
      /\ n \in Nat /\ n + n + 2 <= Reserve
      /\ \A m \in Usual : m \in Nat /\ m + n + 2 <= Reserve
  BY StackAssumption
<1>1. frames \in Seq(StackFrame) /\ Len(frames) = k /\ k \in Nat /\ Mark(1) = 0
      /\ position = Mark(k + 1) /\ position \in Nat
  BY MarksAre DEF Stacked
<1>2. CASE k = 0
  BY <1>0, <1>1, <1>2
<1>3. CASE k # 0
  <2>1. k \in 1 .. k /\ frames # <<>>
    BY <1>1, <1>3
  <2>2. PICK m \in Usual : Whole(k, m)
    BY <2>1 DEF Stacked
  <2>3. Mark(k) \in Nat /\ m \in Nat /\ m + n + 2 <= Reserve
    BY <1>0, <1>1, <2>1, MarksAre
  <2>4. /\ position = Mark(k) + m + 1 /\ Mark(k) <= Capacity - Reserve
        /\ frames[k].type = "java" => position <= Capacity - Reserve
    BY <1>1, <2>2 DEF Whole
  <2>5. frames[k].type \in {"java", "native"}
    <3>1. frames[k] \in StackFrame
      BY <1>1, <2>1
    <3> QED BY <3>1 DEF StackFrame
  <2>6. Stack!Caller # "native" => frames[k].type = "java"
    BY <1>1, <2>1, <2>5 DEF Stack!Caller
  <2>7. Mark(k) + m + 1 + n + 1 <= Capacity
    <3>1. PICK s \in Nat : s = Mark(k)
      BY <2>3
    <3>2. s <= Capacity - Reserve
      BY <2>4, <3>1
    <3>3. s + m + 1 + n + 1 <= Capacity
      BY <1>0, <2>3, <3>2
    <3> QED BY <3>1, <3>3
  <2> QED BY <2>4, <2>6, <2>7
<1> QED BY <1>2, <1>3

\* The frames above one are given up.
LEMMA CutKeeps ==
  ASSUME NEW k, Stacked(k), NEW left \in 0 .. k,
         frames' = SubSeq(frames, 1, left), position' = Mark(left + 1),
         bytes' = Stack!LeftAbove(position'), depth' = left
  PROVE  Stacked(left)'
<1>0. /\ frames \in Seq(StackFrame) /\ Len(frames) = k /\ bytes \in [0 .. Limit - 1 -> Nat]
      /\ Limit \in Nat /\ Mark(1) = 0 /\ k \in Nat /\ Mark(k + 1) = position
      /\ position <= Limit
  BY MarksAre, StackAssumption DEF Stacked
<1>1. /\ frames' \in Seq(StackFrame) /\ Len(frames') = left
      /\ \A i \in 1 .. left : frames'[i] = frames[i]
  BY <1>0
<1>2. PICK s \in Nat : s = Mark(left + 1)
  <2>1. left + 1 \in 1 .. k + 1
    BY <1>0
  <2> QED BY <2>1, MarksAre
<1>3. s <= Limit
  <2>1. CASE left = 0
    BY <1>0, <1>2, <2>1
  <2>2. CASE left # 0
    <3>1. left \in 1 .. k /\ k + 1 \in left + 1 .. k + 1
      BY <1>0, <2>2
    <3>2. Mark(left + 1) <= Mark(k + 1)
      BY <3>1 DEF Stacked
    <3>3. Mark(k + 1) \in Nat
      BY <1>0, MarksAre
    <3> QED BY <1>0, <1>2, <3>2, <3>3
  <2> QED BY <2>1, <2>2
<1>4. ASSUME NEW i \in 1 .. left + 1 PROVE Mark(i)' = Mark(i)
  <2>1. CASE i = left + 1
    <3>1. ~(i <= Len(frames'))
      BY <1>1, <2>1
    <3> QED BY <2>1, <3>1 DEF Mark
  <2>2. CASE i # left + 1
    <3>1. i \in 1 .. left /\ i <= Len(frames') /\ i <= Len(frames)
      BY <1>0, <1>1, <2>2
    <3> QED BY <1>1, <3>1 DEF Mark
  <2> QED BY <2>1, <2>2
<1>5. /\ bytes' \in [0 .. Limit - 1 -> Nat]
      /\ \A a \in 0 .. Limit - 1 : a < s => bytes'[a] = bytes[a]
  BY <1>0, <1>2 DEF Stack!LeftAbove
<1>6. ASSUME NEW i \in 1 .. left PROVE \E n \in Usual : Whole(i, n)'
  <2>0. i \in 1 .. k /\ i \in 1 .. left + 1 /\ i + 1 \in 1 .. left + 1 /\ i \in 1 .. k + 1
        /\ left + 1 \in i + 1 .. k + 1
    BY <1>0
  <2>1. PICK n \in Usual : Whole(i, n)
    BY <2>0 DEF Stacked
  <2>2. n \in Nat
    BY StackAssumption
  <2>3. PICK b \in Nat : b = Mark(i)
    BY <2>0, MarksAre
  <2>4. b + n + 1 <= s
    <3>1. Mark(i + 1) <= Mark(left + 1)
      BY <2>0 DEF Stacked
    <3>2. Mark(i + 1) = b + n + 1
      BY <2>1, <2>3 DEF Whole
    <3> QED BY <1>2, <3>1, <3>2
  <2>5. ASSUME NEW j \in 0 .. n PROVE bytes'[b + j] = bytes[b + j]
    <3>1. b + j \in 0 .. Limit - 1 /\ b + j < s
      BY <1>0, <1>3, <2>2, <2>4
    <3> QED BY <1>5, <3>1
  <2>6. n \in 0 .. n /\ \A j \in 0 .. n - 1 : j \in 0 .. n
    BY <2>2
  <2>7. Mark(i)' = Mark(i) /\ Mark(i + 1)' = Mark(i + 1) /\ frames'[i] = frames[i]
    BY <1>1, <1>4, <2>0
  <2> QED BY <2>1, <2>3, <2>5, <2>6, <2>7 DEF Whole
<1>7. ASSUME NEW i \in 1 .. left, NEW j \in i + 1 .. left + 1 PROVE Mark(i + 1)' <= Mark(j)'
  <2>1. i \in 1 .. k /\ j \in i + 1 .. k + 1 /\ i + 1 \in 1 .. left + 1 /\ j \in 1 .. left + 1
    BY <1>0
  <2> QED BY <1>4, <2>1 DEF Stacked
<1>8. position' \in 0 .. Limit /\ Mark(1)' = 0
  <2>1. 1 \in 1 .. left + 1
    OBVIOUS
  <2> QED BY <1>0, <1>2, <1>3, <1>4, <2>1
<1> QED BY <1>1, <1>5, <1>6, <1>7, <1>8 DEF Stacked

\* A frame is pushed.
LEMMA PushKeeps ==
  ASSUME NEW k, Stacked(k), NEW n \in Usual, position + n < Limit,
         NEW type \in {"java", "native"}, position <= Capacity - Reserve,
         type = "java" => position + n + 1 <= Capacity - Reserve, Stack!push(n, type)
  PROVE  Stacked(k + 1)'
<1>0. /\ frames \in Seq(StackFrame) /\ Len(frames) = k /\ bytes \in [0 .. Limit - 1 -> Nat]
      /\ Limit \in Nat /\ Mark(1) = 0 /\ k \in Nat /\ Mark(k + 1) = position
      /\ position \in Nat /\ depth = k
  BY MarksAre, StackAssumption DEF Stacked
<1>1. n \in Nat /\ n # 0
  BY StackAssumption
<1>2. PICK f : f = [type |-> type, start |-> position, words |-> [i \in 0 .. n - 1 |-> 0]]
  OBVIOUS
<1>3. f \in StackFrame
  <2>1. [i \in 0 .. n - 1 |-> 0] \in UNION {[0 .. m - 1 -> Nat] : m \in Usual}
    <3>1. [i \in 0 .. n - 1 |-> 0] \in [0 .. n - 1 -> Nat]
      OBVIOUS
    <3> QED BY <3>1
  <2> QED BY <1>0, <1>2, <2>1 DEF StackFrame
<1>4. /\ frames' = Append(frames, f) /\ position' = position + n + 1 /\ depth' = k + 1
      /\ bytes' = [a \in 0 .. Limit - 1 |->
                     IF a = position + n THEN n
                     ELSE IF a \in position .. position + n - 1 THEN 0 ELSE bytes[a]]
  BY <1>0, <1>2 DEF Stack!push
<1>5. /\ frames' \in Seq(StackFrame) /\ Len(frames') = k + 1 /\ frames'[k + 1] = f
      /\ \A i \in 1 .. k : frames'[i] = frames[i]
  BY <1>0, <1>3, <1>4
<1>6. ASSUME NEW i \in 1 .. k + 1 PROVE Mark(i)' = Mark(i)
  <2>1. CASE i = k + 1
    <3>1. i <= Len(frames') /\ ~(i <= Len(frames))
      BY <1>0, <1>5, <2>1
    <3> QED BY <1>2, <1>5, <2>1, <3>1 DEF Mark
  <2>2. CASE i # k + 1
    <3>1. i \in 1 .. k /\ i <= Len(frames') /\ i <= Len(frames)
      BY <1>0, <1>5, <2>2
    <3> QED BY <1>5, <3>1 DEF Mark
  <2> QED BY <2>1, <2>2
<1>7. Mark(k + 1 + 1)' = position + n + 1
  <2>1. ~(k + 1 + 1 <= Len(frames'))
    BY <1>0, <1>5
  <2> QED BY <1>4, <2>1 DEF Mark
<1>8. /\ bytes' \in [0 .. Limit - 1 -> Nat] /\ bytes'[position + n] = n
      /\ \A j \in 0 .. n - 1 : bytes'[position + j] = 0
      /\ \A a \in 0 .. Limit - 1 : a < position => bytes'[a] = bytes[a]
  <2>1. bytes' \in [0 .. Limit - 1 -> Nat]
    BY <1>0, <1>1, <1>4
  <2>2. position + n \in 0 .. Limit - 1
    BY <1>0, <1>1
  <2>3. ASSUME NEW j \in 0 .. n - 1 PROVE bytes'[position + j] = 0
    <3>1. /\ position + j \in 0 .. Limit - 1 /\ position + j # position + n
          /\ position + j \in position .. position + n - 1
      BY <1>0, <1>1
    <3> QED BY <1>4, <3>1
  <2>4. ASSUME NEW a \in 0 .. Limit - 1, a < position PROVE bytes'[a] = bytes[a]
    <3>1. a # position + n /\ a \notin position .. position + n - 1
      BY <1>0, <1>1, <2>4
    <3> QED BY <1>4, <3>1
  <2> QED BY <1>4, <2>1, <2>2, <2>3, <2>4
<1>9. ASSUME NEW i \in 1 .. k PROVE \E m \in Usual : Whole(i, m)'
  <2>0. i \in 1 .. k + 1 /\ i + 1 \in 1 .. k + 1 /\ k + 1 \in i + 1 .. k + 1
    BY <1>0
  <2>1. PICK m \in Usual : Whole(i, m)
    BY DEF Stacked
  <2>2. m \in Nat
    BY StackAssumption
  <2>3. PICK b \in Nat : b = Mark(i)
    BY <2>0, MarksAre
  <2>4. b + m + 1 <= position
    <3>1. Mark(i + 1) <= Mark(k + 1)
      BY <2>0 DEF Stacked
    <3>2. Mark(i + 1) = b + m + 1
      BY <2>1, <2>3 DEF Whole
    <3> QED BY <1>0, <3>1, <3>2
  <2>5. ASSUME NEW j \in 0 .. m PROVE bytes'[b + j] = bytes[b + j]
    <3>1. b + j \in 0 .. Limit - 1 /\ b + j < position
      BY <1>0, <1>1, <2>2, <2>4
    <3> QED BY <1>8, <3>1
  <2>6. m \in 0 .. m /\ \A j \in 0 .. m - 1 : j \in 0 .. m
    BY <2>2
  <2>7. Mark(i)' = Mark(i) /\ Mark(i + 1)' = Mark(i + 1) /\ frames'[i] = frames[i]
    BY <1>5, <1>6, <2>0
  <2>8. Whole(i, m)'
    BY <2>1, <2>3, <2>5, <2>6, <2>7 DEF Whole
  <2> QED BY <2>8
<1>10. Whole(k + 1, n)'
  <2>1. k + 1 \in 1 .. k + 1
    BY <1>0
  <2>2. Mark(k + 1)' = position
    BY <1>0, <1>6, <2>1
  <2>3. /\ DOMAIN f.words = 0 .. n - 1 /\ f.type = type
        /\ \A j \in 0 .. n - 1 : f.words[j] = 0
    BY <1>2
  <2> QED BY <1>5, <1>7, <1>8, <2>2, <2>3 DEF Whole
<1>11. ASSUME NEW i \in 1 .. k + 1, NEW j \in i + 1 .. k + 1 + 1
       PROVE  Mark(i + 1)' <= Mark(j)'
  <2>1. CASE j = k + 1 + 1
    <3>1. CASE i = k + 1
      BY <1>0, <1>1, <1>7, <2>1, <3>1
    <3>2. CASE i # k + 1
      <4>1. i \in 1 .. k /\ i + 1 \in 1 .. k + 1 /\ k + 1 \in i + 1 .. k + 1
        BY <1>0, <3>2
      <4>2. Mark(i + 1) <= position /\ Mark(i + 1) \in Nat
        BY <1>0, <4>1, MarksAre DEF Stacked
      <4>3. Mark(i + 1)' = Mark(i + 1)
        BY <1>6, <4>1
      <4> QED BY <1>0, <1>1, <1>7, <2>1, <4>2, <4>3
    <3> QED BY <3>1, <3>2
  <2>2. CASE j # k + 1 + 1
    <3>1. /\ i \in 1 .. k /\ i + 1 \in 1 .. k + 1 /\ j \in 1 .. k + 1
          /\ j \in i + 1 .. k + 1
      BY <1>0, <2>2
    <3> QED BY <1>6, <3>1 DEF Stacked
  <2> QED BY <2>1, <2>2
<1>12. position' \in 0 .. Limit /\ Mark(1)' = 0
  <2>1. 1 \in 1 .. k + 1
    BY <1>0
  <2> QED BY <1>0, <1>1, <1>4, <1>6, <2>1
<1>13. ASSUME NEW i \in 1 .. k + 1 PROVE \E m \in Usual : Whole(i, m)'
  <2>1. CASE i = k + 1
    <3>1. Whole(i, n)'
      BY <1>10, <2>1 DEF Whole
    <3> QED BY <3>1
  <2>2. CASE i # k + 1
    <3>1. i \in 1 .. k
      BY <1>0, <2>2
    <3> QED BY <1>9, <3>1
  <2> QED BY <2>1, <2>2
<1> QED BY <1>4, <1>5, <1>8, <1>11, <1>12, <1>13 DEF Stacked

\* A method writes the last word of its frame.
LEMMA WriteKeeps ==
  ASSUME NEW k, Stacked(k), NEW word \in Nat, Stack!Write(word)
  PROVE  Stacked(k)'
<1>0. /\ frames \in Seq(StackFrame) /\ Len(frames) = k /\ bytes \in [0 .. Limit - 1 -> Nat]
      /\ Limit \in Nat /\ Mark(1) = 0 /\ k \in Nat /\ Mark(k + 1) = position
      /\ position \in Nat /\ position <= Limit /\ depth = k
  BY MarksAre, StackAssumption DEF Stacked
<1>1. k \in 1 .. k
  <2>1. frames # <<>>
    BY DEF Stack!Write
  <2> QED BY <1>0, <2>1
<1>2. PICK n \in Usual : Whole(k, n)
  BY <1>1 DEF Stacked
<1>3. n \in Nat /\ n # 0
  BY StackAssumption
<1>4. PICK b \in Nat : b = Mark(k)
  BY <1>0, <1>1, MarksAre
<1>5. position = b + n + 1 /\ bytes[b + n] = n /\ position - 1 = b + n
  <2>1. Mark(k + 1) = b + n + 1 /\ bytes[b + n] = n
    BY <1>2, <1>4 DEF Whole
  <2> QED BY <1>0, <1>3, <2>1
<1>6. Stack!Below(position) = b
  BY <1>0, <1>1, <1>4, BelowIs
<1>7. /\ bytes' = [bytes EXCEPT ![b + (n - 1)] = word]
      /\ frames' = [frames EXCEPT ![k].words[n - 1] = word]
      /\ position' = position /\ depth' = depth
  BY <1>0, <1>5, <1>6 DEF Stack!Write
<1>8. /\ bytes' \in [0 .. Limit - 1 -> Nat] /\ bytes'[b + (n - 1)] = word
      /\ \A a \in 0 .. Limit - 1 : a # b + (n - 1) => bytes'[a] = bytes[a]
  <2>1. b + (n - 1) \in 0 .. Limit - 1
    BY <1>0, <1>3, <1>5
  <2> QED BY <1>0, <1>7, <2>1
<1>9. /\ Len(frames') = k /\ \A i \in 1 .. k : i # k => frames'[i] = frames[i]
      /\ frames'[k] = [frames[k] EXCEPT !.words[n - 1] = word]
  BY <1>0, <1>1, <1>7
<1>10. /\ frames[k] \in StackFrame /\ DOMAIN frames[k].words = 0 .. n - 1
       /\ \A j \in 0 .. n - 1 : bytes[b + j] = frames[k].words[j]
  BY <1>0, <1>1, <1>2, <1>4 DEF Whole
<1>11. frames[k].words \in [0 .. n - 1 -> Nat]
  <2>1. PICK m \in Usual : frames[k].words \in [0 .. m - 1 -> Nat]
    BY <1>10 DEF StackFrame
  <2>2. DOMAIN frames[k].words = 0 .. m - 1
    BY <2>1
  <2> QED BY <1>10, <2>1, <2>2
<1>12. /\ frames'[k].type = frames[k].type /\ frames'[k].start = frames[k].start
       /\ frames'[k].words = [frames[k].words EXCEPT ![n - 1] = word]
       /\ frames'[k] \in StackFrame
  <2>1. frames[k] = [type |-> frames[k].type, start |-> frames[k].start, words |-> frames[k].words]
    BY <1>10 DEF StackFrame
  <2>2. frames'[k] = [type |-> frames[k].type, start |-> frames[k].start,
                      words |-> [frames[k].words EXCEPT ![n - 1] = word]]
    BY <1>9, <2>1
  <2>3. [frames[k].words EXCEPT ![n - 1] = word] \in [0 .. n - 1 -> Nat]
    BY <1>11
  <2>4. frames[k].type \in {"java", "native"} /\ frames[k].start \in Nat
    BY <1>10 DEF StackFrame
  <2> QED BY <2>2, <2>3, <2>4 DEF StackFrame
<1>13. frames' \in Seq(StackFrame)
  <2>1. PICK f \in StackFrame : f = frames'[k]
    BY <1>12
  <2>2. frames' = [frames EXCEPT ![k] = f]
    BY <1>7, <1>9, <2>1
  <2> QED BY <1>0, <1>1, <2>2, ExceptSeq
<1>14. ASSUME NEW i \in 1 .. k + 1 PROVE Mark(i)' = Mark(i)
  <2>1. CASE i = k + 1
    <3>1. ~(i <= Len(frames')) /\ ~(i <= Len(frames))
      BY <1>0, <1>9, <2>1
    <3> QED BY <1>7, <3>1 DEF Mark
  <2>2. CASE i # k + 1
    <3>1. i \in 1 .. k /\ i <= Len(frames') /\ i <= Len(frames)
      BY <1>0, <1>9, <2>2
    <3>2. frames'[i].start = frames[i].start
      BY <1>9, <1>12, <3>1
    <3> QED BY <3>1, <3>2 DEF Mark
  <2> QED BY <2>1, <2>2
<1>15. ASSUME NEW i \in 1 .. k PROVE \E m \in Usual : Whole(i, m)'
  <2>0. Mark(i)' = Mark(i) /\ Mark(i + 1)' = Mark(i + 1)
    <3>1. i \in 1 .. k + 1 /\ i + 1 \in 1 .. k + 1
      BY <1>0
    <3> QED BY <1>14, <3>1
  <2>1. CASE i = k
    <3>1. bytes'[b + n] = bytes[b + n]
      <4>1. b + n \in 0 .. Limit - 1 /\ b + n # b + (n - 1)
        BY <1>0, <1>3, <1>5
      <4> QED BY <1>8, <4>1
    <3>2. ASSUME NEW j \in 0 .. n - 1 PROVE bytes'[b + j] = frames'[k].words[j]
      <4>1. CASE j = n - 1
        BY <1>8, <1>11, <1>12, <4>1
      <4>2. CASE j # n - 1
        <5>1. b + j \in 0 .. Limit - 1 /\ b + j # b + (n - 1)
          BY <1>0, <1>3, <1>5, <4>2
        <5> QED BY <1>8, <1>10, <1>11, <1>12, <4>2, <5>1
      <4> QED BY <4>1, <4>2
    <3>3. DOMAIN frames'[k].words = 0 .. n - 1 /\ frames'[k].type = frames[k].type
      BY <1>11, <1>12
    <3>4. Whole(i, n)'
      BY <1>2, <1>4, <2>0, <2>1, <3>1, <3>2, <3>3 DEF Whole
    <3> QED BY <3>4
  <2>2. CASE i # k
    <3>0. i + 1 \in 1 .. k + 1 /\ k \in i + 1 .. k + 1 /\ i \in 1 .. k + 1
      BY <1>0, <2>2
    <3>1. PICK m \in Usual : Whole(i, m)
      BY DEF Stacked
    <3>2. m \in Nat
      BY StackAssumption
    <3>3. PICK c \in Nat : c = Mark(i)
      BY <3>0, MarksAre
    <3>4. c + m + 1 <= b
      <4>1. Mark(i + 1) <= Mark(k)
        BY <3>0 DEF Stacked
      <4>2. Mark(i + 1) = c + m + 1
        BY <3>1, <3>3 DEF Whole
      <4> QED BY <1>4, <4>1, <4>2
    <3>5. ASSUME NEW j \in 0 .. m PROVE bytes'[c + j] = bytes[c + j]
      <4>1. c + j \in 0 .. Limit - 1 /\ c + j # b + (n - 1)
        BY <1>0, <1>3, <1>5, <3>2, <3>4
      <4> QED BY <1>8, <4>1
    <3>6. m \in 0 .. m /\ \A j \in 0 .. m - 1 : j \in 0 .. m
      BY <3>2
    <3>7. frames'[i] = frames[i]
      BY <1>9, <2>2
    <3>8. Whole(i, m)'
      BY <2>0, <3>1, <3>3, <3>5, <3>6, <3>7 DEF Whole
    <3> QED BY <3>8
  <2> QED BY <2>1, <2>2
<1>16. ASSUME NEW i \in 1 .. k, NEW j \in i + 1 .. k + 1 PROVE Mark(i + 1)' <= Mark(j)'
  <2>1. i + 1 \in 1 .. k + 1 /\ j \in 1 .. k + 1
    BY <1>0
  <2> QED BY <1>14, <2>1 DEF Stacked
<1>17. Mark(1)' = 0
  <2>1. 1 \in 1 .. k + 1
    BY <1>0
  <2> QED BY <1>0, <1>14, <2>1
<1>18. position' \in 0 .. Limit /\ depth' = k
  BY <1>0, <1>7
<1> QED BY <1>8, <1>9, <1>13, <1>15, <1>16, <1>17, <1>18 DEF Stacked

\* Whatever is called, and however it ends, the frames on the stack are whole.
LEMMA StackSteps ==
  ASSUME NEW k, Stacked(k), deeds = {}, Stack!Next \/ UNCHANGED Stack!vars
  PROVE  \E l : Stacked(l)'
<1>0. /\ frames \in Seq(StackFrame) /\ Len(frames) = k /\ k \in Nat /\ depth = k
      /\ Mark(k + 1) = position /\ position \in Nat
      /\ \A i \in 1 .. k : Mark(i) = frames[i].start
  BY MarksAre DEF Stacked
<1>1. ASSUME NEW n, Stack!InvokeJava(n) PROVE Stacked(k + 1)'
  <2>1. /\ n \in Usual /\ position + n < Limit /\ ~Stack!IsFull(position + n + 1)
        /\ Stack!push(n, "java")
    BY <1>1 DEF Stack!InvokeJava, Stack!Fits, Stack!Size
  <2>2. position + n + 1 <= Capacity
    BY <2>1, Within
  <2>3. ~(Capacity - (position + n + 1) < Reserve)
    BY <2>1, <2>2 DEF Stack!IsFull
  <2>4. Capacity \in Nat /\ Reserve \in Nat /\ n \in Nat
    BY <2>1, StackAssumption
  <2>5. position + n + 1 <= Capacity - Reserve /\ position <= Capacity - Reserve
    BY <1>0, <2>3, <2>4
  <2> QED BY <2>1, <2>5, PushKeeps
<1>2. ASSUME NEW n, Stack!InvokeNative(n) PROVE Stacked(k + 1)'
  <2>1. /\ n \in Usual /\ position + n < Limit /\ Stack!Caller # "native"
        /\ Stack!push(n, "native")
    BY <1>2 DEF Stack!InvokeNative, Stack!Fits, Stack!Size, Stack!CallsNative
  <2>2. position <= Capacity - Reserve
    BY <2>1, Within
  <2> QED BY <2>1, <2>2, PushKeeps
<1>3. ASSUME NEW n, NEW left \in 0 .. depth, Stack!InvokeOverflows(n, left)
      PROVE  Stacked(left)'
  <2>1. /\ position' = (IF left = depth THEN position ELSE frames[left + 1].start)
        /\ bytes' = Stack!LeftAbove(position') /\ depth' = left
        /\ frames' = SubSeq(frames, 1, left)
    BY <1>3 DEF Stack!InvokeOverflows
  <2>2. left \in 0 .. k /\ (left # k => left + 1 \in 1 .. k)
    BY <1>0
  <2>3. position' = Mark(left + 1)
    BY <1>0, <2>1, <2>2
  <2> QED BY <2>1, <2>2, <2>3, CutKeeps
<1>4. CASE Stack!Leave
  <2>1. /\ frames # <<>> /\ position' = Stack!Below(position)
        /\ bytes' = Stack!LeftAbove(position') /\ depth' = depth - 1
        /\ frames' = SubSeq(frames, 1, Len(frames) - 1)
    BY <1>4 DEF Stack!Leave, Stack!pop
  <2>2. k \in 1 .. k /\ k - 1 \in 0 .. k /\ k - 1 + 1 = k
    BY <1>0, <2>1
  <2>3. position' = Mark(k - 1 + 1)
    BY <1>0, <2>1, <2>2, BelowIs
  <2>4. Stacked(k - 1)'
    BY <1>0, <2>1, <2>2, <2>3, CutKeeps
  <2> QED BY <2>4
<1>5. CASE Stack!Write(2)
  BY <1>5, WriteKeeps
<1>6. CASE UNCHANGED Stack!vars
  <2>1. UNCHANGED <<bytes, position, depth, frames>>
    BY <1>6 DEF Stack!vars
  <2>2. ASSUME NEW i PROVE Mark(i)' = Mark(i)
    BY <2>1 DEF Mark
  <2>3. ASSUME NEW i, NEW n, Whole(i, n) PROVE Whole(i, n)'
    BY <2>1, <2>2, <2>3 DEF Whole
  <2>4. Stacked(k)'
    BY <2>1, <2>2, <2>3 DEF Stacked
  <2> QED BY <2>4
<1> QED BY <1>1, <1>2, <1>3, <1>4, <1>5, <1>6 DEF Stack!Next

\* A stack without frames is whole.
LEMMA StackBegins == Init => StackInv
<1> SUFFICES ASSUME Init PROVE StackInv
  OBVIOUS
<1>1. /\ bytes = [a \in 0 .. Limit - 1 |-> 2] /\ position = 0 /\ depth = 0 /\ frames = <<>>
  BY DEF Init, Stack!Init
<1>2. Limit \in Nat
  BY StackAssumption
<1>3. frames \in Seq(StackFrame) /\ Len(frames) = 0 /\ 1 .. 0 = {} /\ ~(1 <= 0)
  BY <1>1
<1>4. Mark(1) = 0
  BY <1>1, <1>3 DEF Mark
<1>5. bytes \in [0 .. Limit - 1 -> Nat] /\ position \in 0 .. Limit
  BY <1>1, <1>2
<1>6. Stacked(0)
  BY <1>1, <1>3, <1>4, <1>5 DEF Stacked
<1> QED BY <1>3, <1>6 DEF StackInv

\* No operation on a container leaves a frame broken.
LEMMA StackKept == StackInv /\ [Next]_vars => StackInv'
<1> SUFFICES ASSUME StackInv, [Next]_vars, deeds' = {} PROVE Stacked(Len(frames))'
  BY DEF StackInv
<1>1. UNCHANGED deeds
  BY DeedsStay DEF vars
<1>2. Stacked(Len(frames)) /\ deeds = {}
  BY <1>1 DEF StackInv
<1>3. Stack!Next \/ UNCHANGED stack
  BY DEF Next, vars
<1>4. Stack!Next \/ UNCHANGED Stack!vars
  BY <1>1, <1>3 DEF stack, Stack!vars
<1>5. PICK l : Stacked(l)'
  BY <1>2, <1>4, StackSteps
<1>6. Len(frames') = l
  BY <1>5 DEF Stacked
<1> QED BY <1>5, <1>6 DEF Stacked

\* The walk of the iterator over the frames is what each of its steps says.
LEMMA AtIs ==
  ASSUME NEW i \in Nat \ {0}, NEW g,
         g[1] = Stack!Begin, \A j \in 2 .. i : g[j] = Stack!Following(g[j - 1])
  PROVE  Stack!At(i) = g[i]
<1> DEFINE Walks(f) ==
             f = [j \in 1 .. i |-> IF j = 1 THEN Stack!Begin ELSE Stack!Following(f[j - 1])]
           h == [j \in 1 .. i |-> g[j]]
           w == CHOOSE f : Walks(f)
<1>1. Walks(h)
  <2>1. ASSUME NEW j \in 1 .. i
        PROVE  h[j] = IF j = 1 THEN Stack!Begin ELSE Stack!Following(h[j - 1])
    <3>1. CASE j = 1
      BY <3>1
    <3>2. CASE j # 1
      <4>1. j \in 2 .. i /\ j - 1 \in 1 .. i
        BY <3>2
      <4> QED BY <3>2, <4>1
    <3> QED BY <3>1, <3>2
  <2> QED BY <2>1
<1>2. Walks(w)
  BY <1>1, Zenon
<1>3. Stack!At(i) = w[i]
  BY Zenon DEF Stack!At
<1> HIDE DEF w, h
<1>4. \A j \in 1 .. i : w[j] = IF j = 1 THEN Stack!Begin ELSE Stack!Following(w[j - 1])
  BY <1>2
<1> QED BY <1>3, <1>4, SameWalk

\* The collector finds each frame, within the memory, with its words.
THEOREM FramesAreFound == Spec => []FramesStayIntact
<1>1. ASSUME NEW k, Stacked(k) PROVE position <= Capacity
  <2>1. k \in Nat /\ position = Mark(k + 1) /\ position \in Nat
    BY <1>1, MarksAre
  <2>2. CASE k = 0
    <3>1. position = 0
      BY <1>1, <2>1, <2>2 DEF Stacked
    <3> QED BY <3>1, StackAssumption
  <2>3. CASE k # 0
    <3>1. k \in 1 .. k
      BY <2>1, <2>3
    <3>2. PICK n \in Usual : Whole(k, n)
      BY <1>1, <3>1 DEF Stacked
    <3>3. n \in Nat
      BY StackAssumption
    <3>4. position + n + 1 <= Capacity
      BY <1>1, Within
    <3>5. Capacity \in Nat
      BY StackAssumption
    <3> QED BY <2>1, <3>3, <3>4, <3>5
  <2> QED BY <2>2, <2>3
<1>2. ASSUME NEW k, Stacked(k), NEW i \in 1 .. k + 1
      PROVE  Stack!At(i) = IF i = k + 1 THEN Stack!End ELSE Mark(k + 1 - i)
  <2> DEFINE g == [j \in 1 .. k + 1 |-> IF j = k + 1 THEN Stack!End ELSE Mark(k + 1 - j)]
  <2>0. /\ k \in Nat /\ position = Mark(k + 1) /\ Mark(1) = 0
    BY <1>2, MarksAre DEF Stacked
  <2>1. /\ i \in Nat \ {0} /\ 1 \in 1 .. k + 1 /\ (1 = k + 1 <=> k = 0) /\ k + 1 - 1 = k
        /\ k # 0 => k \in 1 .. k
    BY <2>0
  <2>2. g[1] = Stack!Begin
    <3>1. CASE k = 0
      BY <2>0, <2>1, <3>1 DEF Stack!Begin
    <3>2. CASE k # 0
      <4>1. Mark(k + 1) # 0 /\ Stack!Below(Mark(k + 1)) = Mark(k)
        BY <1>2, <2>1, <3>2, BelowIs
      <4> QED BY <2>0, <2>1, <3>2, <4>1 DEF Stack!Begin
    <3> QED BY <3>1, <3>2
  <2>3. ASSUME NEW j \in 2 .. i PROVE g[j] = Stack!Following(g[j - 1])
    <3>1. /\ j \in 1 .. k + 1 /\ j - 1 \in 1 .. k + 1 /\ j - 1 # k + 1
          /\ k + 1 - (j - 1) = k + 1 - j + 1
          /\ (j = k + 1 => k + 1 - j + 1 = 1) /\ (j # k + 1 => k + 1 - j \in 1 .. k)
      BY <2>0
    <3>2. g[j - 1] = Mark(k + 1 - j + 1)
      BY <3>1
    <3>3. CASE j = k + 1
      BY <2>0, <3>1, <3>2, <3>3 DEF Stack!Following
    <3>4. CASE j # k + 1
      <4>1. Mark(k + 1 - j + 1) # 0 /\ Stack!Below(Mark(k + 1 - j + 1)) = Mark(k + 1 - j)
        BY <1>2, <3>1, <3>4, BelowIs
      <4> QED BY <3>1, <3>2, <3>4, <4>1 DEF Stack!Following
    <3> QED BY <3>3, <3>4
  <2> HIDE DEF g
  <2>4. Stack!At(i) = g[i]
    BY <2>1, <2>2, <2>3, AtIs
  <2> QED BY <2>4 DEF g
<1>3. ASSUME NEW k, Stacked(k)
      PROVE  /\ depth = k /\ position <= Capacity /\ Len(frames) = k
             /\ \A i \in 1 .. k : Stack!At(i) = frames[k + 1 - i].start
             /\ Stack!At(k + 1) = Stack!End
             /\ \A i \in 1 .. k : \A j \in DOMAIN frames[i].words :
                  bytes[frames[i].start + j] = frames[i].words[j]
  <2>0. k \in Nat /\ \A i \in 1 .. k : Mark(i) = frames[i].start
    BY <1>3, MarksAre
  <2>1. ASSUME NEW i \in 1 .. k PROVE Stack!At(i) = frames[k + 1 - i].start
    <3>1. i \in 1 .. k + 1 /\ i # k + 1 /\ k + 1 - i \in 1 .. k
      BY <2>0
    <3> QED BY <1>2, <1>3, <2>0, <3>1
  <2>2. Stack!At(k + 1) = Stack!End
    <3>1. k + 1 \in 1 .. k + 1
      BY <2>0
    <3> QED BY <1>2, <1>3, <3>1
  <2>3. ASSUME NEW i \in 1 .. k, NEW j \in DOMAIN frames[i].words
        PROVE  bytes[frames[i].start + j] = frames[i].words[j]
    <3>1. PICK n \in Usual : Whole(i, n)
      BY <1>3 DEF Stacked
    <3> QED BY <2>0, <2>3, <3>1 DEF Whole
  <2> QED BY <1>1, <1>3, <2>1, <2>2, <2>3 DEF Stacked
<1>4. StackInv => FramesStayIntact
  BY <1>3 DEF StackInv, FramesStayIntact, Stack!FramesStayIntact
<1> QED BY <1>4, StackBegins, StackKept, PTL DEF Spec

-----------------------------------------------------------------------------
(* Sequences of sequences, flattened.                                      *)

\* FlattenSeq is computed by a function, which exists.
Flattens(f, ss, n) == f = [i \in 1 .. n |-> IF i = 1 THEN ss[i] ELSE f[i - 1] \o ss[i]]

\* Over any sequence of sequences.
LEMMA FlattensExists ==
  ASSUME NEW ss, NEW n \in Nat \ {0}
  PROVE  \E f : Flattens(f, ss, n)
<1> SUFFICES ASSUME ~ \E f : Flattens(f, ss, n) PROVE FALSE
  OBVIOUS
<1> DEFINE T == {m \in 1 .. n : ~ \E f : Flattens(f, ss, m)}
<1>1. n \in T /\ T \in SUBSET Nat
  OBVIOUS
<1>2. PICK m \in T : \A k \in T : m <= k
  BY <1>1, LeastNat
<1>3. m \in 1 .. n /\ ~ \E f : Flattens(f, ss, m)
  OBVIOUS
<1>4. m # 1
  <2>1. SUFFICES ASSUME m = 1 PROVE FALSE
    OBVIOUS
  <2> DEFINE g == [i \in 1 .. 1 |-> ss[i]]
  <2>2. Flattens(g, ss, 1)
    BY DEF Flattens
  <2> HIDE DEF g
  <2> QED BY <1>3, <2>1, <2>2
<1>5. m - 1 \in 1 .. n /\ ~(m <= m - 1)
  BY <1>3, <1>4
<1>6. PICK f : Flattens(f, ss, m - 1)
  BY <1>2, <1>5
<1> DEFINE g == [i \in 1 .. m |-> IF i = m THEN f[m - 1] \o ss[m] ELSE f[i]]
<1>7. Flattens(g, ss, m)
  <2>1. ASSUME NEW i \in 1 .. m
        PROVE  g[i] = IF i = 1 THEN ss[i] ELSE g[i - 1] \o ss[i]
    <3>1. CASE i = m
      <4>1. m - 1 \in 1 .. m /\ m - 1 # m
        BY <1>3, <1>4
      <4> QED BY <1>4, <3>1, <4>1
    <3>2. CASE i # m
      <4>1. i \in 1 .. m - 1 /\ (i # 1 => i - 1 \in 1 .. m /\ i - 1 # m)
        BY <1>3, <3>2
      <4>2. f[i] = IF i = 1 THEN ss[i] ELSE f[i - 1] \o ss[i]
        BY <1>6, <4>1 DEF Flattens
      <4> QED BY <3>2, <4>1, <4>2
    <3> QED BY <3>1, <3>2
  <2> QED BY <2>1 DEF Flattens
<1> HIDE DEF g
<1> QED BY <1>3, <1>7

\* s has the elements of ss, sequence after sequence; start says how many come before
\* the end of each.
IsFlat(s, ss, n, start) ==
  /\ start \in [0 .. n -> Nat] /\ start[0] = 0
  /\ \A i \in 1 .. n : start[i] = start[i - 1] + Len(ss[i])
  /\ Len(s) = start[n]
  /\ \A i \in 1 .. n : \A j \in 1 .. Len(ss[i]) :
       start[i - 1] + j \in 1 .. Len(s) /\ s[start[i - 1] + j] = ss[i][j]
  /\ \A q \in 1 .. Len(s) : \E i \in 1 .. n : \E j \in 1 .. Len(ss[i]) : q = start[i - 1] + j

\* One sequence more.
LEMMA FlatMore ==
  ASSUME NEW T, NEW n \in Nat \ {0}, NEW ss, \A i \in 1 .. n + 1 : ss[i] \in Seq(T),
         NEW s \in Seq(T), NEW f, IsFlat(s, ss, n, f)
  PROVE  /\ s \o ss[n + 1] \in Seq(T)
         /\ \E g : IsFlat(s \o ss[n + 1], ss, n + 1, g)
<1>1. PICK m, r : m = n + 1 /\ r = ss[m]
  OBVIOUS
<1>2. PICK u : u = s \o r
  OBVIOUS
<1>3. r \in Seq(T) /\ Len(r) \in Nat /\ m \in Nat /\ m \in 1 .. n + 1
  BY <1>1
<1>4. /\ u \in Seq(T) /\ Len(s) \in Nat /\ Len(u) = Len(s) + Len(r)
      /\ \A q \in 1 .. Len(s) + Len(r) : u[q] = IF q <= Len(s) THEN s[q] ELSE r[q - Len(s)]
  BY <1>2, <1>3, ConcatProperties
<1>5. PICK g : g = [i \in 0 .. m |-> IF i = m THEN f[n] + Len(r) ELSE f[i]]
  OBVIOUS
<1>6. /\ f \in [0 .. n -> Nat] /\ f[0] = 0 /\ Len(s) = f[n]
      /\ \A i \in 1 .. n : f[i] = f[i - 1] + Len(ss[i])
      /\ \A i \in 1 .. n : \A j \in 1 .. Len(ss[i]) :
           f[i - 1] + j \in 1 .. Len(s) /\ s[f[i - 1] + j] = ss[i][j]
      /\ \A q \in 1 .. Len(s) : \E i \in 1 .. n : \E j \in 1 .. Len(ss[i]) : q = f[i - 1] + j
  BY DEF IsFlat
<1>7. /\ \A i \in 0 .. n : g[i] = f[i] /\ g[i] \in Nat
      /\ g[m] = f[n] + Len(r) /\ g[m] = Len(u) /\ g[n] = f[n]
  <2>1. \A i \in 0 .. n : i \in 0 .. m /\ i # m
    BY <1>1
  <2>2. n \in 0 .. n /\ m \in 0 .. m
    BY <1>1
  <2> QED BY <1>4, <1>5, <1>6, <2>1, <2>2
<1>8. \A i \in 1 .. m : (i = m /\ i - 1 = n) \/ (i \in 1 .. n /\ i - 1 \in 0 .. n /\ i # m)
  BY <1>1
<1>9. g \in [0 .. m -> Nat] /\ g[0] = 0
  <2>1. \A i \in 0 .. m : i = m \/ i \in 0 .. n
    BY <1>1
  <2>2. \A i \in 0 .. m : g[i] \in Nat
    BY <1>3, <1>4, <1>6, <1>7, <2>1
  <2>3. 0 \in 0 .. n
    OBVIOUS
  <2>4. g[0] = 0
    BY <1>6, <1>7, <2>3
  <2> QED BY <1>5, <2>2, <2>4
<1>10. ASSUME NEW i \in 1 .. m PROVE g[i] = g[i - 1] + Len(ss[i])
  <2>1. CASE i = m /\ i - 1 = n
    BY <1>1, <1>7, <2>1
  <2>2. CASE i \in 1 .. n /\ i - 1 \in 0 .. n
    <3>1. i \in 0 .. n
      BY <2>2
    <3> QED BY <1>6, <1>7, <2>2, <3>1
  <2> QED BY <1>8, <2>1, <2>2
<1>11. ASSUME NEW i \in 1 .. m, NEW j \in 1 .. Len(ss[i])
       PROVE  g[i - 1] + j \in 1 .. Len(u) /\ u[g[i - 1] + j] = ss[i][j]
  <2>1. CASE i = m /\ i - 1 = n
    <3>1. j \in 1 .. Len(r) /\ ss[i] = r /\ g[i - 1] = Len(s)
      BY <1>1, <1>6, <1>7, <2>1
    <3>2. PICK l \in Nat : l = Len(s)
      BY <1>4
    <3>3. l + j \in 1 .. l + Len(r) /\ ~(l + j <= l) /\ (l + j) - l = j
      BY <1>3, <3>1
    <3> QED BY <1>4, <3>1, <3>2, <3>3
  <2>2. CASE i \in 1 .. n /\ i - 1 \in 0 .. n
    <3>1. f[i - 1] + j \in 1 .. Len(s) /\ s[f[i - 1] + j] = ss[i][j] /\ g[i - 1] = f[i - 1]
      BY <1>6, <1>7, <2>2
    <3>2. f[i - 1] + j \in 1 .. Len(s) + Len(r) /\ f[i - 1] + j <= Len(s)
      BY <1>3, <1>4, <3>1
    <3> QED BY <1>4, <3>1, <3>2
  <2> QED BY <1>8, <2>1, <2>2
<1>12. ASSUME NEW q \in 1 .. Len(u)
       PROVE  \E i \in 1 .. m : \E j \in 1 .. Len(ss[i]) : q = g[i - 1] + j
  <2>1. CASE q <= Len(s)
    <3>1. q \in 1 .. Len(s)
      BY <1>4, <2>1
    <3>2. PICK i \in 1 .. n : \E j \in 1 .. Len(ss[i]) : q = f[i - 1] + j
      BY <1>6, <3>1
    <3>3. i \in 1 .. m /\ i - 1 \in 0 .. n
      BY <1>1
    <3> QED BY <1>7, <3>2, <3>3
  <2>2. CASE ~(q <= Len(s))
    <3>1. PICK l, k \in Nat : l = Len(s) /\ k = Len(r)
      BY <1>3, <1>4
    <3>2. q - l \in 1 .. k /\ q = l + (q - l)
      BY <1>4, <2>2, <3>1
    <3>3. m \in 1 .. m /\ m - 1 = n /\ g[n] = l /\ ss[m] = r
      BY <1>1, <1>6, <1>7, <3>1
    <3> QED BY <3>1, <3>2, <3>3
  <2> QED BY <2>1, <2>2
<1>13. IsFlat(u, ss, m, g)
  BY <1>7, <1>9, <1>10, <1>11, <1>12 DEF IsFlat
<1> QED BY <1>1, <1>2, <1>4, <1>13

\* FlattenSeq is flat.
LEMMA FlattenIs ==
  ASSUME NEW T, NEW ss, NEW n \in Nat \ {0}, \A i \in 1 .. n : ss[i] \in Seq(T),
         NEW f, Flattens(f, ss, n)
  PROVE  f[n] \in Seq(T) /\ \E start : IsFlat(f[n], ss, n, start)
<1>1. \A i \in 1 .. n : f[i] = IF i = 1 THEN ss[i] ELSE f[i - 1] \o ss[i]
  BY DEF Flattens
<1> DEFINE Flat(k) == f[k] \in Seq(T) /\ \E start : IsFlat(f[k], ss, k, start)
           B == {k \in 1 .. n : ~Flat(k)}
<1>2. SUFFICES ASSUME B # {} PROVE FALSE
  <2>1. n \in 1 .. n
    OBVIOUS
  <2> QED BY <2>1
<1>3. PICK k \in B : \A m \in B : k <= m
  <2>1. B \in SUBSET Nat
    OBVIOUS
  <2> QED BY <1>2, <2>1, LeastNat
<1>4. k \in 1 .. n /\ ~Flat(k)
  OBVIOUS
<1>5. CASE k = 1
  <2>1. f[1] = ss[1] /\ ss[1] \in Seq(T) /\ 1 \in 1 .. n
    BY <1>1
  <2>2. PICK l \in Nat : l = Len(ss[1])
    BY <2>1
  <2>3. PICK g : g = [i \in 0 .. 1 |-> IF i = 0 THEN 0 ELSE l]
    OBVIOUS
  <2>4. g[0] = 0 /\ g[1] = l /\ g \in [0 .. 1 -> Nat] /\ \A i \in 1 .. 1 : i = 1 /\ i - 1 = 0
    BY <2>3
  <2>5. \A j \in 1 .. l : 0 + j \in 1 .. l /\ 0 + j = j
    OBVIOUS
  <2>6. 1 \in 1 .. 1
    OBVIOUS
  <2>7. IsFlat(ss[1], ss, 1, g)
    BY <2>2, <2>4, <2>5, <2>6 DEF IsFlat
  <2> QED BY <1>4, <1>5, <2>1, <2>7
<1>6. CASE k # 1
  <2>1. PICK m \in Nat \ {0} : k = m + 1 /\ m \in 1 .. n /\ ~(k <= m)
    <3>1. k - 1 \in Nat \ {0} /\ k = (k - 1) + 1 /\ k - 1 \in 1 .. n /\ ~(k <= k - 1)
      BY <1>4, <1>6
    <3> QED BY <3>1
  <2>2. Flat(m)
    BY <1>3, <2>1
  <2>3. f[k] = f[m] \o ss[m + 1]
    <3>1. k - 1 = m
      BY <2>1
    <3> QED BY <1>1, <1>4, <1>6, <2>1, <3>1
  <2>4. \A i \in 1 .. m + 1 : ss[i] \in Seq(T)
    BY <1>4, <2>1
  <2>5. PICK start : IsFlat(f[m], ss, m, start)
    BY <2>2
  <2>6. Flat(k)
    BY <2>1, <2>2, <2>3, <2>4, <2>5, FlatMore
  <2> QED BY <1>4, <2>6
<1> QED BY <1>5, <1>6

\* The later a sequence, the later it starts.
LEMMA StartsGrow ==
  ASSUME NEW T, NEW n \in Nat, NEW ss, \A i \in 1 .. n : ss[i] \in Seq(T), NEW s, NEW start,
         IsFlat(s, ss, n, start)
  PROVE  \A i, k \in 0 .. n : i <= k => start[i] <= start[k]
<1>1. /\ start \in [0 .. n -> Nat]
      /\ \A i \in 1 .. n : start[i] = start[i - 1] + Len(ss[i]) /\ Len(ss[i]) \in Nat
  BY DEF IsFlat
<1>2. SUFFICES ASSUME NEW i \in 0 .. n, NEW k0 \in 0 .. n, i <= k0, ~(start[i] <= start[k0])
               PROVE  FALSE
  OBVIOUS
<1> DEFINE B == {k \in 0 .. n : i <= k /\ ~(start[i] <= start[k])}
<1>3. PICK k \in B : \A m \in B : k <= m
  <2>1. B \in SUBSET Nat /\ k0 \in B
    BY <1>2
  <2> HIDE DEF B
  <2> QED BY <2>1, LeastNat
<1>4. k # i
  BY <1>1
<1>5. k - 1 \in 0 .. n /\ i <= k - 1 /\ ~(k <= k - 1) /\ k \in 1 .. n
  BY <1>3, <1>4
<1>6. start[i] <= start[k - 1]
  BY <1>3, <1>5
<1>7. /\ start[k] = start[k - 1] + Len(ss[k]) /\ start[k - 1] \in Nat
      /\ Len(ss[k]) \in Nat /\ start[i] \in Nat
  BY <1>1, <1>5
<1> QED BY <1>3, <1>6, <1>7

-----------------------------------------------------------------------------
(* The map.                                                                *)

Entry == [key : Key, value : Val]

\* Each entry is in the bucket of its key, and each key is in one entry.
Filed(b) ==
  /\ b \in Seq(Seq(Entry)) /\ Len(b) \in Nat \ {0}
  /\ \A i \in 1 .. Len(b) : \A j \in 1 .. Len(b[i]) : Map!BucketOf(b, b[i][j].key) = i
  /\ \A i \in 1 .. Len(b) : \A j, l \in 1 .. Len(b[i]) : b[i][j].key = b[i][l].key => j = l

ChainOf(b, k) == b[Map!BucketOf(b, k)]

Has(b, k, v) ==
  \E j \in 1 .. Len(ChainOf(b, k)) : ChainOf(b, k)[j] = [key |-> k, value |-> v]

KeysOf(b) == {k \in Key : \E v \in Val : Has(b, k, v)}

\* Every key has a bucket.
LEMMA BucketIs ==
  ASSUME NEW b, Len(b) \in Nat \ {0}, NEW k \in Key
  PROVE  Map!BucketOf(b, k) \in 1 .. Len(b)
<1>1. PICK h \in Nat : h = Hash[k]
  BY MapAssumption
<1>2. PICK n \in Nat \ {0} : n = Len(b)
  OBVIOUS
<1>3. h % n \in 0 .. n - 1
  OBVIOUS
<1>4. 1 + (h % n) \in 1 .. n
  BY <1>3
<1> QED BY <1>1, <1>2, <1>4 DEF Map!BucketOf

\* A chain is a sequence of entries.
LEMMA ChainsAre ==
  ASSUME NEW b, Filed(b), NEW k \in Key
  PROVE  /\ Map!BucketOf(b, k) \in 1 .. Len(b)
         /\ ChainOf(b, k) \in Seq(Entry) /\ Len(ChainOf(b, k)) \in Nat
         /\ \A j \in 1 .. Len(ChainOf(b, k)) :
              /\ ChainOf(b, k)[j] \in Entry
              /\ ChainOf(b, k)[j] = [key |-> ChainOf(b, k)[j].key, value |-> ChainOf(b, k)[j].value]
<1>1. PICK i : i = Map!BucketOf(b, k)
  OBVIOUS
<1>2. i \in 1 .. Len(b) /\ b \in Seq(Seq(Entry))
  BY <1>1, BucketIs DEF Filed
<1>3. PICK c : c = b[i]
  OBVIOUS
<1>4. c \in Seq(Entry)
  BY <1>2, <1>3
<1>5. \A j \in 1 .. Len(c) : c[j] \in Entry
  BY <1>4
<1>6. \A e \in Entry : e = [key |-> e.key, value |-> e.value]
  BY DEF Entry
<1> QED BY <1>1, <1>2, <1>3, <1>4, <1>5, <1>6 DEF ChainOf

\* Place finds the key of a chain, if it is there.
LEMMA PlaceIs ==
  ASSUME NEW b, Filed(b), NEW k \in Key
  PROVE  LET p == Map!Place(b, k)
             c == ChainOf(b, k)
         IN  \/ p = 0 /\ \A j \in 1 .. Len(c) : c[j].key # k
             \/ p \in 1 .. Len(c) /\ c[p].key = k
<1>1. PICK c : c = ChainOf(b, k)
  OBVIOUS
<1> DEFINE I == {i \in 1 .. Len(c) : c[i].key = k}
<1>2. Map!Place(b, k) = IF I # {} THEN CHOOSE x \in I : \A y \in I : x <= y ELSE 0
  <2>1. Map!Place(b, k)
          = LET J == {i \in 1 .. Len(ChainOf(b, k)) : ChainOf(b, k)[i].key = k}
            IN IF J # {} THEN Map!Min(J) ELSE 0
    BY Zenon DEF Map!Place, Map!SelectInSeq, ChainOf
  <2>2. Map!Place(b, k) = IF I # {} THEN Map!Min(I) ELSE 0
    BY <1>1, <2>1
  <2> HIDE DEF I
  <2> QED BY <2>2 DEF Map!Min
<1>3. CASE I = {}
  BY <1>1, <1>2, <1>3
<1>4. CASE I # {}
  <2>1. I \in SUBSET Nat
    OBVIOUS
  <2>2. \E x \in I : \A y \in I : x <= y
    BY <1>4, <2>1, LeastNat
  <2>3. Map!Place(b, k) \in I
    BY <1>2, <1>4, <2>2
  <2> QED BY <1>1, <2>3
<1> QED BY <1>3, <1>4

\* What a chain becomes.
Chained(c, p, e) == IF p = 0 THEN Append(c, e) ELSE [c EXCEPT ![p] = e]

\* An entry that is put, in a chain.
LEMMA ChainedIs ==
  ASSUME NEW c \in Seq(Entry), NEW e \in Entry, NEW p,
         \A j, l \in 1 .. Len(c) : c[j].key = c[l].key => j = l,
         \/ p = 0 /\ \A j \in 1 .. Len(c) : c[j].key # e.key
         \/ p \in 1 .. Len(c) /\ c[p].key = e.key
  PROVE  LET d == Chained(c, p, e)
         IN  /\ d \in Seq(Entry)
             /\ \A j, l \in 1 .. Len(d) : d[j].key = d[l].key => j = l
             /\ \A j \in 1 .. Len(d) :
                  d[j] = e \/ (d[j].key # e.key /\ j \in 1 .. Len(c) /\ d[j] = c[j])
             /\ \A j \in 1 .. Len(c) :
                  j \in 1 .. Len(d) /\ (c[j].key # e.key => d[j] = c[j])
             /\ \E j \in 1 .. Len(d) : d[j] = e
<1>0. Len(c) \in Nat
  OBVIOUS
<1>1. CASE p = 0
  <2>1. PICK d : d = Append(c, e)
    OBVIOUS
  <2>2. /\ d \in Seq(Entry) /\ Len(d) = Len(c) + 1 /\ d[Len(c) + 1] = e
        /\ \A j \in 1 .. Len(c) : d[j] = c[j]
    BY <2>1
  <2>3. PICK n \in Nat : n = Len(c)
    BY <1>0
  <2>4. Len(d) = n + 1 /\ d[n + 1] = e /\ \A j \in 1 .. n : d[j] = c[j] /\ c[j].key # e.key
    BY <1>0, <1>1, <2>2, <2>3
  <2>5. /\ \A j \in 1 .. n + 1 : j \in 1 .. n \/ j = n + 1
        /\ \A j \in 1 .. n : j \in 1 .. n + 1
        /\ n + 1 \in 1 .. n + 1
    OBVIOUS
  <2>6. \A j, l \in 1 .. n + 1 : d[j].key = d[l].key => j = l
    BY <2>3, <2>4, <2>5
  <2>7. \A j \in 1 .. n + 1 : d[j] = e \/ (d[j].key # e.key /\ j \in 1 .. n /\ d[j] = c[j])
    BY <2>4, <2>5
  <2>8. \A j \in 1 .. n : j \in 1 .. n + 1 /\ (c[j].key # e.key => d[j] = c[j])
    BY <2>4, <2>5
  <2> QED BY <1>1, <2>1, <2>2, <2>3, <2>4, <2>5, <2>6, <2>7, <2>8 DEF Chained
<1>2. CASE p \in 1 .. Len(c) /\ c[p].key = e.key
  <2>1. PICK d : d = [c EXCEPT ![p] = e]
    OBVIOUS
  <2>2. /\ d \in Seq(Entry) /\ Len(d) = Len(c) /\ d[p] = e
        /\ \A j \in 1 .. Len(c) : j # p => d[j] = c[j]
    BY <1>2, <2>1
  <2>3. \A j \in 1 .. Len(c) : j # p => c[j].key # e.key
    BY <1>2
  <2>4. \A j \in 1 .. Len(c) : d[j].key = c[j].key
    BY <1>2, <2>2
  <2>5. p # 0
    BY <1>2
  <2> QED BY <1>2, <2>1, <2>2, <2>3, <2>4, <2>5 DEF Chained
<1> QED BY <1>1, <1>2

\* A key that is put is there with its value, and the others are as before.
LEMMA WithEntryIs ==
  ASSUME NEW b, Filed(b), NEW k \in Key, NEW v \in Val
  PROVE  LET w == Map!WithEntry(b, k, v)
         IN  /\ Filed(w) /\ Len(w) = Len(b)
             /\ \A k2 \in Key, v2 \in Val :
                  Has(w, k2, v2) <=> IF k2 = k THEN v2 = v ELSE Has(b, k2, v2)
<1>1. PICK i, c, p, e : /\ i = Map!BucketOf(b, k) /\ c = ChainOf(b, k) /\ p = Map!Place(b, k)
                        /\ e = [key |-> k, value |-> v]
  OBVIOUS
<1>2. PICK d : d = Chained(c, p, e)
  OBVIOUS
<1>3. /\ e \in Entry /\ e.key = k /\ e.value = v
      /\ \A k2, v2 : [key |-> k2, value |-> v2] = e <=> k2 = k /\ v2 = v
  BY <1>1 DEF Entry
<1>4. /\ i \in 1 .. Len(b) /\ c \in Seq(Entry) /\ c = b[i] /\ b \in Seq(Seq(Entry))
      /\ Len(b) \in Nat \ {0} /\ Len(c) \in Nat
  BY <1>1, ChainsAre DEF ChainOf, Filed
<1>5. \A j, l \in 1 .. Len(c) : c[j].key = c[l].key => j = l
  BY <1>4 DEF Filed
<1>6. \/ p = 0 /\ \A j \in 1 .. Len(c) : c[j].key # e.key
      \/ p \in 1 .. Len(c) /\ c[p].key = e.key
  BY <1>1, <1>3, PlaceIs
<1>7. /\ d \in Seq(Entry)
      /\ \A j, l \in 1 .. Len(d) : d[j].key = d[l].key => j = l
      /\ \A j \in 1 .. Len(d) : d[j] = e \/ (d[j].key # k /\ j \in 1 .. Len(c) /\ d[j] = c[j])
      /\ \A j \in 1 .. Len(c) : j \in 1 .. Len(d) /\ (c[j].key # k => d[j] = c[j])
      /\ \E j \in 1 .. Len(d) : d[j] = e
  <2>1. LET h == Chained(c, p, e)
        IN  /\ h \in Seq(Entry)
            /\ \A j, l \in 1 .. Len(h) : h[j].key = h[l].key => j = l
            /\ \A j \in 1 .. Len(h) :
                 h[j] = e \/ (h[j].key # e.key /\ j \in 1 .. Len(c) /\ h[j] = c[j])
            /\ \A j \in 1 .. Len(c) :
                 j \in 1 .. Len(h) /\ (c[j].key # e.key => h[j] = c[j])
            /\ \E j \in 1 .. Len(h) : h[j] = e
    BY <1>3, <1>4, <1>5, <1>6, ChainedIs
  <2> QED BY <1>2, <1>3, <2>1
<1>8. PICK w : w = [b EXCEPT ![i] = d]
  OBVIOUS
<1>9. Map!WithEntry(b, k, v) = w
  <2>1. w = [b EXCEPT ![i] = IF p = 0 THEN Append(@, e) ELSE [@ EXCEPT ![p] = e]]
    BY <1>2, <1>4, <1>8 DEF Chained
  <2> QED BY <1>1, <2>1 DEF Map!WithEntry
<1>10. /\ w \in Seq(Seq(Entry)) /\ Len(w) = Len(b) /\ w[i] = d
       /\ \A m \in 1 .. Len(b) : m # i => w[m] = b[m]
  BY <1>4, <1>7, <1>8
<1>11. \A k2 : Map!BucketOf(w, k2) = Map!BucketOf(b, k2)
  BY <1>10 DEF Map!BucketOf
<1>12. Filed(w)
  <2>1. ASSUME NEW m \in 1 .. Len(w), NEW j \in 1 .. Len(w[m])
        PROVE  Map!BucketOf(w, w[m][j].key) = m
    <3>1. CASE m = i
      <4>1. j \in 1 .. Len(d) /\ w[m][j] = d[j]
        BY <1>10, <3>1
      <4>2. CASE d[j] = e
        BY <1>1, <1>3, <1>11, <3>1, <4>1, <4>2
      <4>3. CASE j \in 1 .. Len(c) /\ d[j] = c[j]
        BY <1>4, <1>11, <3>1, <4>1, <4>3 DEF Filed
      <4> QED BY <1>7, <4>1, <4>2, <4>3
    <3>2. CASE m # i
      <4>1. w[m] = b[m] /\ m \in 1 .. Len(b)
        BY <1>10, <3>2
      <4>2. Map!BucketOf(b, b[m][j].key) = m
        BY <4>1 DEF Filed
      <4> QED BY <1>11, <4>1, <4>2
    <3> QED BY <3>1, <3>2
  <2>2. ASSUME NEW m \in 1 .. Len(w), NEW j \in 1 .. Len(w[m]), NEW l \in 1 .. Len(w[m]),
               w[m][j].key = w[m][l].key
        PROVE  j = l
    <3>1. CASE m = i
      BY <1>7, <1>10, <2>2, <3>1
    <3>2. CASE m # i
      <4>1. w[m] = b[m] /\ m \in 1 .. Len(b)
        BY <1>10, <3>2
      <4> QED BY <2>2, <4>1 DEF Filed
    <3> QED BY <3>1, <3>2
  <2> QED BY <1>4, <1>10, <2>1, <2>2 DEF Filed
<1>13. ASSUME NEW k2 \in Key, NEW v2 \in Val
       PROVE  Has(w, k2, v2) <=> IF k2 = k THEN v2 = v ELSE Has(b, k2, v2)
  <2>1. PICK x, i2 : x = [key |-> k2, value |-> v2] /\ i2 = Map!BucketOf(b, k2)
    OBVIOUS
  <2>2. x.key = k2 /\ i2 \in 1 .. Len(b) /\ (x = e <=> k2 = k /\ v2 = v)
    BY <1>3, <1>4, <2>1, BucketIs
  <2>3. /\ Has(w, k2, v2) <=> \E j \in 1 .. Len(w[i2]) : w[i2][j] = x
        /\ Has(b, k2, v2) <=> \E j \in 1 .. Len(b[i2]) : b[i2][j] = x
    BY <1>11, <2>1 DEF Has, ChainOf
  <2>4. CASE i2 # i
    BY <1>1, <1>10, <2>1, <2>2, <2>3, <2>4
  <2>5. CASE i2 = i /\ k2 = k
    <3>1. (\E j \in 1 .. Len(d) : d[j] = x) <=> x = e
      BY <1>7, <2>2, <2>5
    <3> QED BY <1>10, <2>2, <2>3, <2>5, <3>1
  <2>6. CASE i2 = i /\ k2 # k
    <3>1. (\E j \in 1 .. Len(d) : d[j] = x) <=> \E j \in 1 .. Len(c) : c[j] = x
      BY <1>3, <1>7, <2>2, <2>6
    <3> QED BY <1>4, <1>10, <2>3, <2>6, <3>1
  <2> QED BY <2>4, <2>5, <2>6
<1> QED BY <1>9, <1>10, <1>12, <1>13

\* The entries of a map, in the order of its buckets.
LEMMA EntriesAre ==
  ASSUME NEW b, Filed(b), NEW s, s = Map!FlattenSeq(b)
  PROVE  /\ s \in Seq(Entry)
         /\ \E start : IsFlat(s, b, Len(b), start)
         /\ \A k \in Key, v \in Val :
              Has(b, k, v) <=> \E q \in 1 .. Len(s) : s[q] = [key |-> k, value |-> v]
         /\ \A q, r \in 1 .. Len(s) : s[q].key = s[r].key => q = r
<1>1. PICK n \in Nat \ {0} : n = Len(b)
  BY DEF Filed
<1>2. b \in Seq(Seq(Entry)) /\ \A i \in 1 .. n : b[i] \in Seq(Entry)
  BY <1>1 DEF Filed
<1>3. PICK f : f = CHOOSE h : Flattens(h, b, n)
  OBVIOUS
<1>4. Flattens(f, b, n)
  BY <1>3, FlattensExists
<1>5. s = f[n]
  <2>1. n # 0
    OBVIOUS
  <2>2. Map!FlattenSeq(b) = (CHOOSE h : Flattens(h, b, Len(b)))[Len(b)]
    BY <1>1, <2>1, Zenon DEF Map!FlattenSeq, Flattens
  <2> QED BY <1>1, <1>3, <2>2
<1>6. s \in Seq(Entry) /\ \E start : IsFlat(s, b, n, start)
  BY <1>2, <1>4, <1>5, FlattenIs
<1>7. PICK start : IsFlat(s, b, n, start)
  BY <1>6
<1>8. /\ \A i \in 1 .. n : \A j \in 1 .. Len(b[i]) :
           start[i - 1] + j \in 1 .. Len(s) /\ s[start[i - 1] + j] = b[i][j]
      /\ \A q \in 1 .. Len(s) : \E i \in 1 .. n : \E j \in 1 .. Len(b[i]) : q = start[i - 1] + j
  BY <1>7 DEF IsFlat
<1>9. ASSUME NEW k \in Key, NEW v \in Val, NEW e, e = [key |-> k, value |-> v]
      PROVE  Has(b, k, v) <=> \E q \in 1 .. Len(s) : s[q] = e
  <2>1. PICK i : i = Map!BucketOf(b, k) /\ i \in 1 .. n
    BY <1>1, BucketIs
  <2>2. Has(b, k, v) <=> \E j \in 1 .. Len(b[i]) : b[i][j] = e
    BY <1>9, <2>1 DEF Has, ChainOf
  <2>3. ASSUME NEW j \in 1 .. Len(b[i]), b[i][j] = e PROVE \E q \in 1 .. Len(s) : s[q] = e
    BY <1>8, <2>1, <2>3
  <2>4. ASSUME NEW q \in 1 .. Len(s), s[q] = e PROVE \E j \in 1 .. Len(b[i]) : b[i][j] = e
    <3>1. PICK m \in 1 .. n : \E j \in 1 .. Len(b[m]) : q = start[m - 1] + j
      BY <1>8
    <3>2. PICK j \in 1 .. Len(b[m]) : q = start[m - 1] + j
      BY <3>1
    <3>3. b[m][j] = e /\ b[m][j].key = k
      BY <1>8, <1>9, <2>4, <3>2
    <3>4. Map!BucketOf(b, b[m][j].key) = m
      BY <1>1 DEF Filed
    <3> QED BY <2>1, <3>3, <3>4
  <2> QED BY <2>2, <2>3, <2>4
<1>10. ASSUME NEW q \in 1 .. Len(s), NEW r \in 1 .. Len(s), s[q].key = s[r].key PROVE q = r
  <2>1. PICK i \in 1 .. n : \E j \in 1 .. Len(b[i]) : q = start[i - 1] + j
    BY <1>8
  <2>2. PICK j \in 1 .. Len(b[i]) : q = start[i - 1] + j
    BY <2>1
  <2>3. PICK m \in 1 .. n : \E l \in 1 .. Len(b[m]) : r = start[m - 1] + l
    BY <1>8
  <2>4. PICK l \in 1 .. Len(b[m]) : r = start[m - 1] + l
    BY <2>3
  <2>5. s[q] = b[i][j] /\ s[r] = b[m][l]
    BY <1>8, <2>2, <2>4
  <2>6. Map!BucketOf(b, b[i][j].key) = i /\ Map!BucketOf(b, b[m][l].key) = m
    BY <1>1 DEF Filed
  <2>7. i = m
    BY <1>10, <2>5, <2>6
  <2>8. j = l
    BY <1>1, <1>10, <2>5, <2>7 DEF Filed
  <2> QED BY <2>2, <2>4, <2>7, <2>8
<1> QED BY <1>1, <1>6, <1>9, <1>10

\* They are as many as the keys.
LEMMA EntriesCount ==
  ASSUME NEW b, Filed(b)
  PROVE  IsFiniteSet(KeysOf(b)) /\ Cardinality(KeysOf(b)) = Map!Count(b) /\ Map!Count(b) \in Nat
<1>1. PICK s : s = Map!FlattenSeq(b)
  OBVIOUS
<1>2. /\ s \in Seq(Entry) /\ \A q, r \in 1 .. Len(s) : s[q].key = s[r].key => q = r
      /\ \A k \in Key, v \in Val :
              Has(b, k, v) <=> \E q \in 1 .. Len(s) : s[q] = [key |-> k, value |-> v]
  BY <1>1, EntriesAre
<1>3. PICK n \in Nat : n = Len(s)
  BY <1>2
<1>4. PICK f : f = [q \in 1 .. n |-> s[q].key]
  OBVIOUS
<1>5. \A q, r \in 1 .. n : f[q] = f[r] => q = r
  BY <1>2, <1>3, <1>4
<1>6. IsFiniteSet(1 .. n) /\ Cardinality(1 .. n) = n
  <2>1. /\ IsFiniteSet(1 .. n) /\ Cardinality(1 .. n) = IF 1 > n THEN 0 ELSE n - 1 + 1
    BY FS_Interval
  <2>2. (IF 1 > n THEN 0 ELSE n - 1 + 1) = n
    OBVIOUS
  <2> QED BY <2>1, <2>2
<1>7. {f[q] : q \in 1 .. n} = KeysOf(b)
  <2>1. ASSUME NEW q \in 1 .. n PROVE f[q] \in KeysOf(b)
    <3>1. PICK e : e = s[q]
      OBVIOUS
    <3>2. e \in Entry /\ f[q] = e.key
      BY <1>2, <1>3, <1>4, <3>1
    <3>3. e.key \in Key /\ e.value \in Val /\ e = [key |-> e.key, value |-> e.value]
      BY <3>2 DEF Entry
    <3>4. Has(b, e.key, e.value)
      BY <1>2, <1>3, <3>1, <3>3
    <3> QED BY <3>2, <3>3, <3>4 DEF KeysOf
  <2>2. ASSUME NEW k \in KeysOf(b) PROVE \E q \in 1 .. n : f[q] = k
    <3>1. PICK v \in Val : Has(b, k, v) /\ k \in Key
      BY DEF KeysOf
    <3>2. PICK q \in 1 .. n : s[q] = [key |-> k, value |-> v]
      BY <1>2, <1>3, <3>1
    <3>3. f[q] = k
      BY <1>4, <3>2
    <3> QED BY <3>3
  <2> QED BY <2>1, <2>2
<1>8. IsFiniteSet({f[q] : q \in 1 .. n}) /\ Cardinality({f[q] : q \in 1 .. n}) = n
  BY <1>5, <1>6, OneToOne
<1> QED BY <1>1, <1>3, <1>7, <1>8 DEF Map!Count

\* The greatest of some numbers.
LEMMA MaxIs ==
  ASSUME NEW n \in Nat, NEW r \in SUBSET (1 .. n), r # {}
  PROVE  Map!Max(r) \in r /\ \A y \in r : Map!Max(r) >= y
<1> DEFINE B == {m \in Nat : \E x \in r : m = n - x}
<1>1. PICK x \in r : TRUE
  OBVIOUS
<1>2. n - x \in B /\ B \in SUBSET Nat
  OBVIOUS
<1>3. PICK m \in B : \A k \in B : m <= k
  BY <1>2, LeastNat
<1>4. PICK z \in r : m = n - z
  OBVIOUS
<1>5. ASSUME NEW y \in r PROVE z >= y
  <2>1. n - y \in B
    OBVIOUS
  <2>2. m <= n - y
    BY <1>3, <2>1
  <2>3. y \in Nat /\ z \in Nat
    OBVIOUS
  <2> HIDE DEF B
  <2> QED BY <1>4, <2>2, <2>3
<1> HIDE DEF B
<1>6. \E u \in r : \A y \in r : u >= y
  BY <1>5
<1> QED BY <1>6, Zenon DEF Map!Max

\* The function that resize is computed by.
Puts(it, new, s, n) ==
  it = [r \in SUBSET (1 .. n) |->
          IF r = {} THEN new
          ELSE LET x == Map!Max(r) IN Map!WithEntry(it[r \ {x}], s[x].key, s[x].value)]

\* It exists.
LEMMA PutsExist ==
  ASSUME NEW new, NEW s, NEW n \in Nat
  PROVE  \E it : Puts(it, new, s, n)
<1> SUFFICES ASSUME ~ \E it : Puts(it, new, s, n) PROVE FALSE
  OBVIOUS
<1> DEFINE T == {m \in Nat : ~ \E it : Puts(it, new, s, m)}
<1>1. n \in T /\ T \in SUBSET Nat
  OBVIOUS
<1>2. PICK m \in T : \A k \in T : m <= k
  BY <1>1, LeastNat
<1>3. m \in Nat /\ ~ \E it : Puts(it, new, s, m)
  OBVIOUS
<1>4. CASE m = 0
  <2>1. PICK it : it = [r \in SUBSET (1 .. 0) |-> new]
    OBVIOUS
  <2>2. \A r \in SUBSET (1 .. 0) : r = {}
    OBVIOUS
  <2>3. Puts(it, new, s, 0)
    BY <2>1, <2>2 DEF Puts
  <2> QED BY <1>3, <1>4, <2>3
<1>5. CASE m # 0
  <2>1. PICK k \in Nat : m = k + 1 /\ ~(m <= k)
    <3>1. m - 1 \in Nat /\ m = (m - 1) + 1 /\ ~(m <= m - 1)
      BY <1>3, <1>5
    <3> QED BY <3>1
  <2>2. PICK f : Puts(f, new, s, k)
    BY <1>2, <2>1
  <2>3. \A r \in SUBSET (1 .. k) :
          f[r] = IF r = {} THEN new
                 ELSE Map!WithEntry(f[r \ {Map!Max(r)}], s[Map!Max(r)].key, s[Map!Max(r)].value)
    BY <2>2, Zenon DEF Puts
  <2>4. PICK g : g = [r \in SUBSET (1 .. m) |->
                        IF m \in r THEN Map!WithEntry(f[r \ {m}], s[m].key, s[m].value) ELSE f[r]]
    OBVIOUS
  <2>5. \A r \in SUBSET (1 .. m) : m \notin r => r \in SUBSET (1 .. k)
    BY <2>1
  <2>6. ASSUME NEW r \in SUBSET (1 .. m)
        PROVE  g[r] = IF r = {} THEN new
                      ELSE LET x == Map!Max(r)
                           IN Map!WithEntry(g[r \ {x}], s[x].key, s[x].value)
    <3>1. CASE r = {}
      BY <2>3, <2>4, <2>5, <3>1
    <3>2. CASE r # {}
      <4>1. PICK x : x = Map!Max(r)
        OBVIOUS
      <4>2. x \in r /\ \A y \in r : x >= y
        BY <1>3, <3>2, <4>1, MaxIs
      <4>3. g[r] = Map!WithEntry(g[r \ {x}], s[x].key, s[x].value)
        <5>1. CASE m \in r
          <6>1. x = m
            <7>1. x \in 1 .. m /\ x >= m
              BY <4>2, <5>1
            <7> QED BY <7>1
          <6>2. r \ {m} \in SUBSET (1 .. m) /\ m \notin r \ {m}
            OBVIOUS
          <6> QED BY <2>4, <5>1, <6>1, <6>2
        <5>2. CASE m \notin r
          <6>1. r \in SUBSET (1 .. k) /\ r \ {x} \in SUBSET (1 .. m) /\ m \notin r \ {x}
            BY <2>5, <5>2
          <6>2. g[r] = f[r] /\ g[r \ {x}] = f[r \ {x}]
            BY <2>4, <5>2, <6>1
          <6>3. f[r] = Map!WithEntry(f[r \ {x}], s[x].key, s[x].value)
            BY <2>3, <3>2, <4>1, <6>1
          <6> QED BY <6>2, <6>3
        <5> QED BY <5>1, <5>2
      <4> QED BY <3>2, <4>1, <4>3
    <3> QED BY <3>1, <3>2
  <2>7. g = [r \in SUBSET (1 .. m) |-> g[r]]
    BY <2>4
  <2>8. Puts(g, new, s, m)
    BY <2>6, <2>7, Zenon DEF Puts
  <2> QED BY <1>3, <2>8
<1> QED BY <1>4, <1>5

\* What has been put of a sequence, in an empty table.
PutUpto(w, new, s, k) ==
  /\ Filed(w) /\ Len(w) = Len(new)
  /\ \A x \in Key, v \in Val :
       Has(w, x, v) <=> \E i \in 1 .. k : s[i] = [key |-> x, value |-> v]

\* It puts all.
LEMMA PutsAll ==
  ASSUME NEW new, Filed(new), \A x \in Key, v \in Val : ~Has(new, x, v),
         NEW s \in Seq(Entry), \A i, j \in 1 .. Len(s) : s[i].key = s[j].key => i = j,
         NEW it, Puts(it, new, s, Len(s))
  PROVE  PutUpto(it[1 .. Len(s)], new, s, Len(s))
<1>1. PICK n \in Nat : n = Len(s)
  OBVIOUS
<1>2. \A r \in SUBSET (1 .. n) :
        it[r] = IF r = {} THEN new
                ELSE Map!WithEntry(it[r \ {Map!Max(r)}], s[Map!Max(r)].key, s[Map!Max(r)].value)
  BY <1>1, Zenon DEF Puts
<1>3. \A i \in 1 .. n : s[i] \in Entry
  BY <1>1
<1> DEFINE B == {k \in 0 .. n : ~PutUpto(it[1 .. k], new, s, k)}
<1>4. SUFFICES ASSUME B # {} PROVE FALSE
  <2>1. n \in 0 .. n
    OBVIOUS
  <2> QED BY <1>1, <2>1
<1>5. PICK k \in B : \A m \in B : k <= m
  <2>1. B \in SUBSET Nat
    OBVIOUS
  <2> QED BY <1>4, <2>1, LeastNat
<1>6. k \in 0 .. n /\ ~PutUpto(it[1 .. k], new, s, k)
  OBVIOUS
<1>7. CASE k = 0
  <2>1. 1 .. 0 = {} /\ {} \in SUBSET (1 .. n)
    OBVIOUS
  <2>2. it[1 .. 0] = new
    BY <1>2, <2>1
  <2>3. PutUpto(new, new, s, 0)
    BY <2>1 DEF PutUpto
  <2> QED BY <1>6, <1>7, <2>2, <2>3
<1>8. CASE k # 0
  <2>1. PICK m \in Nat : k = m + 1 /\ m \in 0 .. n /\ ~(k <= m)
    <3>1. k - 1 \in Nat /\ k = (k - 1) + 1 /\ k - 1 \in 0 .. n /\ ~(k <= k - 1)
      BY <1>6, <1>8
    <3> QED BY <3>1
  <2>2. PICK w, u, e : w = it[1 .. m] /\ u = it[1 .. k] /\ e = s[k]
    OBVIOUS
  <2>3. PutUpto(w, new, s, m)
    BY <1>5, <2>1, <2>2
  <2>4. k \in 1 .. n /\ e \in Entry
    BY <1>3, <1>6, <1>8, <2>2
  <2>5. e.key \in Key /\ e.value \in Val /\ e = [key |-> e.key, value |-> e.value]
    BY <2>4 DEF Entry
  <2>6. u = Map!WithEntry(w, e.key, e.value)
    <3>1. 1 .. k \in SUBSET (1 .. n) /\ 1 .. k # {} /\ (1 .. k) \ {k} = 1 .. m
      BY <2>1, <2>4
    <3>2. Map!Max(1 .. k) = k
      <4>1. PICK x : x = Map!Max(1 .. k)
        OBVIOUS
      <4>2. k \in Nat /\ 1 .. k \in SUBSET (1 .. k)
        BY <2>1
      <4>3. x \in 1 .. k /\ \A y \in 1 .. k : x >= y
        BY <3>1, <4>1, <4>2, MaxIs
      <4>4. k \in 1 .. k
        BY <2>4
      <4>5. x = k
        BY <4>2, <4>3, <4>4
      <4> QED BY <4>1, <4>5
    <3> QED BY <1>2, <2>2, <3>1, <3>2
  <2>7. /\ Filed(u) /\ Len(u) = Len(w)
        /\ \A x \in Key, v \in Val :
             Has(u, x, v) <=> IF x = e.key THEN v = e.value ELSE Has(w, x, v)
    <3>1. LET x == Map!WithEntry(w, e.key, e.value)
          IN  /\ Filed(x) /\ Len(x) = Len(w)
              /\ \A k2 \in Key, v2 \in Val :
                   Has(x, k2, v2) <=> IF k2 = e.key THEN v2 = e.value ELSE Has(w, k2, v2)
      BY <2>3, <2>5, WithEntryIs DEF PutUpto
    <3> QED BY <2>6, <3>1
  <2>8. ASSUME NEW x \in Key, NEW v \in Val
        PROVE  Has(u, x, v) <=> \E i \in 1 .. k : s[i] = [key |-> x, value |-> v]
    <3>1. PICK y : y = [key |-> x, value |-> v]
      OBVIOUS
    <3>2. y.key = x /\ (y = e <=> x = e.key /\ v = e.value)
      BY <2>5, <3>1
    <3>3. \A i \in 1 .. k : i = k \/ i \in 1 .. m
      BY <2>1
    <3>4. k \in 1 .. k /\ \A i \in 1 .. m : i \in 1 .. k /\ i # k /\ i \in 1 .. n
      BY <2>1, <2>4
    <3>5. Has(w, x, v) <=> \E i \in 1 .. m : s[i] = y
      BY <2>3, <3>1 DEF PutUpto
    <3>6. CASE x = e.key
      <4>1. \A i \in 1 .. m : s[i] # y
        BY <1>1, <2>2, <2>4, <3>2, <3>4, <3>6
      <4>2. (\E i \in 1 .. k : s[i] = y) <=> y = e
        BY <2>2, <3>3, <3>4, <4>1
      <4> QED BY <2>7, <3>1, <3>2, <3>6, <4>2
    <3>7. CASE x # e.key
      <4>1. y # e
        BY <3>2, <3>7
      <4>2. (\E i \in 1 .. k : s[i] = y) <=> \E i \in 1 .. m : s[i] = y
        BY <2>2, <3>3, <3>4, <4>1
      <4> QED BY <2>7, <3>1, <3>5, <3>7, <4>2
    <3> QED BY <3>6, <3>7
  <2>9. PutUpto(u, new, s, k)
    BY <2>3, <2>7, <2>8 DEF PutUpto
  <2> QED BY <1>6, <2>2, <2>9
<1> QED BY <1>7, <1>8

\* A map has the same entries in a table of any size.
LEMMA ResizeIs ==
  ASSUME NEW b, Filed(b), NEW n \in Nat \ {0}
  PROVE  LET w == Map!resize(b, n)
         IN  /\ Filed(w) /\ Len(w) = n
             /\ \A k \in Key, v \in Val : Has(w, k, v) <=> Has(b, k, v)
<1>1. PICK s, new : s = Map!FlattenSeq(b) /\ new = Map!Empty(n)
  OBVIOUS
<1>2. /\ s \in Seq(Entry) /\ \A q, r \in 1 .. Len(s) : s[q].key = s[r].key => q = r
      /\ \A k \in Key, v \in Val :
              Has(b, k, v) <=> \E q \in 1 .. Len(s) : s[q] = [key |-> k, value |-> v]
  BY <1>1, EntriesAre
<1>3. PICK it : it = CHOOSE h : Puts(h, new, s, Len(s))
  OBVIOUS
<1>4. Puts(it, new, s, Len(s))
  <2>1. Len(s) \in Nat
    BY <1>2
  <2> QED BY <1>3, <2>1, PutsExist
<1>5. Map!resize(b, n) = it[1 .. Len(s)]
  <2>1. DOMAIN s = 1 .. Len(s)
    BY <1>2
  <2>2. Map!resize(b, n)
          = (CHOOSE h : h = [r \in SUBSET DOMAIN s |->
                               IF r = {} THEN new
                               ELSE LET x == Map!Max(r)
                                    IN Map!WithEntry(h[r \ {x}], s[x].key, s[x].value)])[DOMAIN s]
    BY <1>1, Zenon DEF Map!resize, Map!FoldLeft, Map!MapThenFoldSet
  <2> QED BY <1>3, <2>1, <2>2, Zenon DEF Puts
<1>6. /\ Len(new) = n /\ new \in Seq(Seq(Entry)) /\ \A i \in 1 .. n : new[i] = <<>>
  BY <1>1 DEF Map!Empty
<1>7. Filed(new)
  BY <1>6 DEF Filed
<1>8. ASSUME NEW k \in Key, NEW v \in Val PROVE ~Has(new, k, v)
  <2>1. Map!BucketOf(new, k) \in 1 .. n
    BY <1>6, BucketIs
  <2>2. ChainOf(new, k) = <<>>
    BY <1>6, <2>1 DEF ChainOf
  <2> QED BY <2>2 DEF Has
<1>9. PutUpto(it[1 .. Len(s)], new, s, Len(s))
  BY <1>2, <1>4, <1>7, <1>8, PutsAll
<1>10. PICK w : w = Map!resize(b, n) /\ PutUpto(w, new, s, Len(s))
  BY <1>5, <1>9
<1>11. \A k \in Key, v \in Val : Has(w, k, v) <=> Has(b, k, v)
  BY <1>2, <1>10 DEF PutUpto
<1>12. Filed(w) /\ Len(w) = n
  BY <1>6, <1>10 DEF PutUpto
<1> QED BY <1>10, <1>11, <1>12

\* d is c without the entry at p.
Without(c, p, d) ==
  /\ d \in Seq(Entry) /\ Len(d) = Len(c) - 1
  /\ \A j \in 1 .. Len(d) :
       \/ j \in 1 .. Len(c) /\ j < p /\ d[j] = c[j]
       \/ j + 1 \in 1 .. Len(c) /\ p < j + 1 /\ ~(j < p) /\ d[j] = c[j + 1]
  /\ \A j \in 1 .. Len(c) : j # p => \E i \in 1 .. Len(d) : d[i] = c[j]

\* A chain without one of its entries.
LEMMA RemovedIs ==
  ASSUME NEW c \in Seq(Entry), NEW p \in 1 .. Len(c)
  PROVE  Without(c, p, Map!RemoveAt(c, p))
<1>0. PICK d : d = Map!RemoveAt(c, p)
  OBVIOUS
<1>1. PICK n \in Nat : n = Len(c)
  OBVIOUS
<1>2. PICK s, t : s = SubSeq(c, 1, p - 1) /\ t = SubSeq(c, p + 1, n)
  OBVIOUS
<1>3. p \in 1 .. n /\ p \in Nat /\ d = s \o t
  BY <1>0, <1>1, <1>2 DEF Map!RemoveAt
<1>4. \A i \in 1 .. n : c[i] \in Entry
  BY <1>1
<1>5. s \in Seq(Entry) /\ Len(s) = p - 1 /\ \A i \in 1 .. p - 1 : s[i] = c[i]
  BY <1>1, <1>2, <1>3, <1>4
<1>6. t \in Seq(Entry) /\ Len(t) = n - p /\ \A i \in 1 .. n - p : t[i] = c[p + i]
  <2>1. p + 1 \in 1 .. n + 1
    BY <1>3
  <2>2. /\ t \in Seq(Entry) /\ Len(t) = IF p + 1 <= n THEN n - (p + 1) + 1 ELSE 0
        /\ \A i \in 1 .. n - (p + 1) + 1 : t[i] = c[(p + 1) + i - 1]
    <3>1. 1 .. n - (p + 1) + 1 = 1 .. n - p
      BY <1>3
    <3> QED BY <1>1, <1>2, <1>3, <1>4, <2>1, <3>1
  <2>3. \A i \in 1 .. n - p : i \in 1 .. n - (p + 1) + 1 /\ (p + 1) + i - 1 = p + i
    BY <1>3
  <2>4. (IF p + 1 <= n THEN n - (p + 1) + 1 ELSE 0) = n - p
    BY <1>3
  <2> QED BY <2>2, <2>3, <2>4
<1>7. /\ d \in Seq(Entry) /\ Len(d) = n - 1
      /\ \A i \in 1 .. n - 1 : d[i] = IF i <= p - 1 THEN s[i] ELSE t[i - (p - 1)]
  <2>1. /\ d \in Seq(Entry) /\ Len(d) = Len(s) + Len(t)
        /\ \A i \in 1 .. Len(s) + Len(t) : d[i] = IF i <= Len(s) THEN s[i] ELSE t[i - Len(s)]
    <3>1. /\ s \o t \in Seq(Entry) /\ Len(s \o t) = Len(s) + Len(t)
          /\ \A i \in 1 .. Len(s) + Len(t) :
               (s \o t)[i] = IF i <= Len(s) THEN s[i] ELSE t[i - Len(s)]
      BY <1>5, <1>6, ConcatProperties
    <3> QED BY <1>3, <3>1
  <2>2. (p - 1) + (n - p) = n - 1
    BY <1>3
  <2> QED BY <1>5, <1>6, <2>1, <2>2
<1>8. ASSUME NEW i \in 1 .. n - 1
      PROVE  \/ i \in 1 .. n /\ i < p /\ d[i] = c[i]
             \/ i + 1 \in 1 .. n /\ p < i + 1 /\ ~(i < p) /\ d[i] = c[i + 1]
  <2>1. CASE i <= p - 1
    BY <1>3, <1>5, <1>7, <2>1
  <2>2. CASE ~(i <= p - 1)
    <3>1. i - (p - 1) \in 1 .. n - p /\ p + (i - (p - 1)) = i + 1
      BY <1>3, <2>2
    <3>2. d[i] = c[i + 1]
      BY <1>6, <1>7, <2>2, <3>1
    <3> QED BY <1>3, <2>2, <3>2
  <2> QED BY <2>1, <2>2
<1>9. ASSUME NEW j \in 1 .. n, j # p PROVE \E i \in 1 .. n - 1 : d[i] = c[j]
  <2>1. CASE j < p
    <3>1. j \in 1 .. n - 1 /\ j <= p - 1 /\ j \in 1 .. p - 1
      BY <1>3, <2>1
    <3>2. d[j] = c[j]
      BY <1>5, <1>7, <3>1
    <3> QED BY <3>1, <3>2
  <2>2. CASE ~(j < p)
    <3>1. PICK i : i = j - 1
      OBVIOUS
    <3>2. i \in 1 .. n - 1 /\ ~(i <= p - 1) /\ ~(i < p) /\ j = i + 1
      BY <1>3, <1>9, <2>2, <3>1
    <3> QED BY <1>8, <3>2
  <2> QED BY <2>1, <2>2
<1> QED BY <1>0, <1>1, <1>7, <1>8, <1>9 DEF Without

\* A key that is removed is not there, and the others are as before.
LEMMA WithoutIs ==
  ASSUME NEW b, Filed(b), NEW k \in Key, Map!Place(b, k) # 0
  PROVE  LET w == [b EXCEPT ![Map!BucketOf(b, k)] = Map!RemoveAt(@, Map!Place(b, k))]
         IN  /\ Filed(w) /\ Len(w) = Len(b)
             /\ \A k2 \in Key, v2 \in Val : Has(w, k2, v2) <=> k2 # k /\ Has(b, k2, v2)
<1>0. PICK w : w = [b EXCEPT ![Map!BucketOf(b, k)] = Map!RemoveAt(@, Map!Place(b, k))]
  OBVIOUS
<1>1. PICK i, c, p : i = Map!BucketOf(b, k) /\ c = ChainOf(b, k) /\ p = Map!Place(b, k)
  OBVIOUS
<1>2. /\ i \in 1 .. Len(b) /\ c \in Seq(Entry) /\ c = b[i] /\ b \in Seq(Seq(Entry))
      /\ Len(b) \in Nat \ {0} /\ Len(c) \in Nat
  BY <1>1, ChainsAre DEF ChainOf, Filed
<1>3. /\ \A j, l \in 1 .. Len(c) : c[j].key = c[l].key => j = l
      /\ \A j \in 1 .. Len(c) : Map!BucketOf(b, c[j].key) = i
  BY <1>2 DEF Filed
<1>4. p \in 1 .. Len(c) /\ c[p].key = k
  BY <1>1, PlaceIs
<1>5. PICK d : d = Map!RemoveAt(c, p)
  OBVIOUS
<1>6. /\ d \in Seq(Entry) /\ Len(d) = Len(c) - 1
      /\ \A j \in 1 .. Len(d) :
           \/ j \in 1 .. Len(c) /\ j < p /\ d[j] = c[j]
           \/ j + 1 \in 1 .. Len(c) /\ p < j + 1 /\ ~(j < p) /\ d[j] = c[j + 1]
      /\ \A j \in 1 .. Len(c) : j # p => \E m \in 1 .. Len(d) : d[m] = c[j]
  <2>1. Without(c, p, d)
    BY <1>2, <1>4, <1>5, RemovedIs
  <2> QED BY <2>1 DEF Without
<1>7. ASSUME NEW j \in 1 .. Len(d) PROVE \E m \in 1 .. Len(c) : m # p /\ d[j] = c[m]
  <2>1. CASE j \in 1 .. Len(c) /\ j < p /\ d[j] = c[j]
    <3>1. j # p
      BY <1>4, <2>1
    <3> QED BY <2>1, <3>1
  <2>2. CASE j + 1 \in 1 .. Len(c) /\ p < j + 1 /\ d[j] = c[j + 1]
    <3>1. PICK m : m = j + 1
      OBVIOUS
    <3>2. m # p
      BY <1>4, <2>2, <3>1
    <3> QED BY <2>2, <3>1, <3>2
  <2> QED BY <1>6, <2>1, <2>2
<1>8. ASSUME NEW j \in 1 .. Len(d), NEW l \in 1 .. Len(d), d[j].key = d[l].key PROVE j = l
  <2>1. PICK x, y : x = j + 1 /\ y = l + 1
    OBVIOUS
  <2>2. \/ j \in 1 .. Len(c) /\ j < p /\ d[j] = c[j]
        \/ x \in 1 .. Len(c) /\ ~(j < p) /\ d[j] = c[x]
    BY <1>6, <2>1
  <2>3. \/ l \in 1 .. Len(c) /\ l < p /\ d[l] = c[l]
        \/ y \in 1 .. Len(c) /\ ~(l < p) /\ d[l] = c[y]
    BY <1>6, <2>1
  <2>4. j = l \/ j = y \/ x = l \/ x = y
    BY <1>3, <1>8, <2>2, <2>3
  <2>5. CASE j < p /\ ~(l < p)
    <3>1. c[j].key = c[y].key /\ j \in 1 .. Len(c) /\ y \in 1 .. Len(c)
      BY <1>8, <2>2, <2>3, <2>5
    <3>2. j = y
      BY <1>3, <3>1
    <3> QED BY <1>4, <2>1, <2>5, <3>2
  <2>6. CASE ~(j < p) /\ l < p
    <3>1. c[x].key = c[l].key /\ x \in 1 .. Len(c) /\ l \in 1 .. Len(c)
      BY <1>8, <2>2, <2>3, <2>6
    <3>2. x = l
      BY <1>3, <3>1
    <3> QED BY <1>4, <2>1, <2>6, <3>2
  <2>7. CASE j < p /\ l < p
    BY <1>3, <1>8, <2>2, <2>3, <2>7
  <2>8. CASE ~(j < p) /\ ~(l < p)
    <3>1. x = y
      BY <1>3, <1>8, <2>2, <2>3, <2>8
    <3> QED BY <2>1, <3>1
  <2> QED BY <2>5, <2>6, <2>7, <2>8
<1>9. w = [b EXCEPT ![i] = d]
  BY <1>0, <1>1, <1>2, <1>5
<1>10. /\ w \in Seq(Seq(Entry)) /\ Len(w) = Len(b) /\ w[i] = d
       /\ \A m \in 1 .. Len(b) : m # i => w[m] = b[m]
  BY <1>2, <1>6, <1>9
<1>11. \A k2 : Map!BucketOf(w, k2) = Map!BucketOf(b, k2)
  BY <1>10 DEF Map!BucketOf
<1>12. Filed(w)
  <2>1. ASSUME NEW m \in 1 .. Len(w), NEW j \in 1 .. Len(w[m])
        PROVE  Map!BucketOf(w, w[m][j].key) = m
    <3>1. CASE m = i
      <4>1. PICK l \in 1 .. Len(c) : d[j] = c[l]
        BY <1>7, <1>10, <3>1
      <4> QED BY <1>3, <1>10, <1>11, <3>1, <4>1
    <3>2. CASE m # i
      <4>1. w[m] = b[m] /\ m \in 1 .. Len(b)
        BY <1>10, <3>2
      <4>2. Map!BucketOf(b, b[m][j].key) = m
        BY <4>1 DEF Filed
      <4> QED BY <1>11, <4>1, <4>2
    <3> QED BY <3>1, <3>2
  <2>2. ASSUME NEW m \in 1 .. Len(w), NEW j \in 1 .. Len(w[m]), NEW l \in 1 .. Len(w[m]),
               w[m][j].key = w[m][l].key
        PROVE  j = l
    <3>1. CASE m = i
      BY <1>8, <1>10, <2>2, <3>1
    <3>2. CASE m # i
      <4>1. w[m] = b[m] /\ m \in 1 .. Len(b)
        BY <1>10, <3>2
      <4> QED BY <2>2, <4>1 DEF Filed
    <3> QED BY <3>1, <3>2
  <2> QED BY <1>2, <1>10, <2>1, <2>2 DEF Filed
<1>13. ASSUME NEW k2 \in Key, NEW v2 \in Val
       PROVE  Has(w, k2, v2) <=> k2 # k /\ Has(b, k2, v2)
  <2>1. PICK x, i2 : x = [key |-> k2, value |-> v2] /\ i2 = Map!BucketOf(b, k2)
    OBVIOUS
  <2>2. x.key = k2 /\ i2 \in 1 .. Len(b)
    BY <1>2, <2>1, BucketIs
  <2>3. /\ Has(w, k2, v2) <=> \E j \in 1 .. Len(w[i2]) : w[i2][j] = x
        /\ Has(b, k2, v2) <=> \E j \in 1 .. Len(b[i2]) : b[i2][j] = x
    BY <1>11, <2>1 DEF Has, ChainOf
  <2>4. CASE i2 # i
    BY <1>1, <1>10, <2>1, <2>2, <2>3, <2>4
  <2>5. CASE i2 = i
    <3>1. (\E j \in 1 .. Len(d) : d[j] = x) <=> k2 # k /\ \E j \in 1 .. Len(c) : c[j] = x
      <4>1. ASSUME NEW j \in 1 .. Len(d), d[j] = x
            PROVE  k2 # k /\ \E l \in 1 .. Len(c) : c[l] = x
        <5>1. PICK m \in 1 .. Len(c) : m # p /\ c[m] = x
          BY <1>7, <4>1
        <5>2. c[m].key # k
          BY <1>3, <1>4, <5>1
        <5> QED BY <2>2, <5>1, <5>2
      <4>2. ASSUME NEW l \in 1 .. Len(c), c[l] = x, k2 # k PROVE \E j \in 1 .. Len(d) : d[j] = x
        <5>1. l # p
          BY <1>4, <2>2, <4>2
        <5> QED BY <1>6, <4>2, <5>1
      <4> QED BY <4>1, <4>2
    <3> QED BY <1>2, <1>10, <2>3, <2>5, <3>1
  <2> QED BY <2>4, <2>5
<1> QED BY <1>0, <1>10, <1>12, <1>13

\* Place and get, by what a map has.
LEMMA GetIs ==
  ASSUME NEW b, Filed(b), NEW k \in Key
  PROVE  /\ Map!Place(b, k) = 0 <=> k \notin KeysOf(b)
         /\ Map!Place(b, k) = 0 => Map!get(b, k) = Absent
         /\ Map!Place(b, k) # 0 => Map!get(b, k) \in Val /\ Has(b, k, Map!get(b, k))
         /\ \A v, u \in Val : Has(b, k, v) /\ Has(b, k, u) => v = u
<1>1. PICK c, p : c = ChainOf(b, k) /\ p = Map!Place(b, k)
  OBVIOUS
<1>2. /\ \A j \in 1 .. Len(c) : c[j] \in Entry /\ c[j] = [key |-> c[j].key, value |-> c[j].value]
      /\ \A v \in Val : Has(b, k, v) <=> \E j \in 1 .. Len(c) : c[j] = [key |-> k, value |-> v]
      /\ Map!BucketOf(b, k) \in 1 .. Len(b)
  BY <1>1, ChainsAre DEF Has
<1>3. \A j, l \in 1 .. Len(c) : c[j].key = c[l].key => j = l
  BY <1>1, <1>2 DEF Filed, ChainOf
<1>4. \/ p = 0 /\ \A j \in 1 .. Len(c) : c[j].key # k
      \/ p \in 1 .. Len(c) /\ c[p].key = k
  <2>1. LET q == Map!Place(b, k)
            d == ChainOf(b, k)
        IN  \/ q = 0 /\ \A j \in 1 .. Len(d) : d[j].key # k
            \/ q \in 1 .. Len(d) /\ d[q].key = k
    BY PlaceIs
  <2> QED BY <1>1, <2>1
<1>5. Map!get(b, k) = IF p = 0 THEN Absent ELSE c[p].value
  BY <1>1 DEF Map!get, ChainOf
<1>6. \A v, u \in Val : Has(b, k, v) /\ Has(b, k, u) => v = u
  <2>1. SUFFICES ASSUME NEW v \in Val, NEW u \in Val, Has(b, k, v), Has(b, k, u) PROVE v = u
    OBVIOUS
  <2>2. PICK j \in 1 .. Len(c) : c[j] = [key |-> k, value |-> v]
    BY <1>2, <2>1
  <2>3. PICK l \in 1 .. Len(c) : c[l] = [key |-> k, value |-> u]
    BY <1>2, <2>1
  <2>4. j = l
    BY <1>3, <2>2, <2>3
  <2> QED BY <2>2, <2>3, <2>4
<1>7. CASE p = 0
  <2>1. ASSUME NEW v \in Val PROVE ~Has(b, k, v)
    <3>1. PICK x : x = [key |-> k, value |-> v]
      OBVIOUS
    <3>2. x.key = k
      BY <3>1
    <3>3. 0 \notin 1 .. Len(c)
      BY <1>1, ChainsAre
    <3>4. \A j \in 1 .. Len(c) : c[j] # x
      BY <1>4, <1>7, <3>2, <3>3
    <3> QED BY <1>2, <3>1, <3>4
  <2> QED BY <1>1, <1>5, <1>6, <1>7, <2>1 DEF KeysOf
<1>8. CASE p \in 1 .. Len(c) /\ c[p].key = k
  <2>1. p # 0
    <3>1. Len(c) \in Nat
      BY <1>1, ChainsAre
    <3> QED BY <1>8, <3>1
  <2>2. c[p].value \in Val
    BY <1>2, <1>8 DEF Entry
  <2>3. Has(b, k, c[p].value)
    BY <1>2, <1>8, <2>2
  <2> QED BY <1>1, <1>5, <1>6, <2>1, <2>2, <2>3 DEF KeysOf
<1> QED BY <1>4, <1>7, <1>8

\* The table has what was put, and is as large as is counted.
MapInv ==
  /\ Filed(buckets) /\ contents \in [Key -> Val \cup {Absent}]
  /\ \A k \in Key, v \in Val : Has(buckets, k, v) <=> contents[k] = v
  /\ size = Map!Count(buckets)

\* The table is empty at first.
LEMMA MapBegins == Init => MapInv
<1>1. SUFFICES ASSUME Init PROVE MapInv
  OBVIOUS
<1>2. /\ buckets = Map!Empty(InitialCount) /\ size = 0 /\ contents = [k \in Key |-> Absent]
      /\ InitialCount \in Nat \ {0}
  BY <1>1, MapAssumption DEF Init, Map!Init
<1>3. /\ Len(buckets) = InitialCount /\ buckets \in Seq(Seq(Entry))
      /\ \A i \in 1 .. Len(buckets) : buckets[i] = <<>>
  BY <1>2 DEF Map!Empty
<1>4. Filed(buckets)
  BY <1>2, <1>3 DEF Filed
<1>5. ASSUME NEW k \in Key, NEW v \in Val PROVE ~Has(buckets, k, v)
  <2>1. Map!BucketOf(buckets, k) \in 1 .. Len(buckets)
    BY <1>2, <1>3, BucketIs
  <2>2. ChainOf(buckets, k) = <<>>
    BY <1>3, <2>1 DEF ChainOf
  <2> QED BY <2>2 DEF Has
<1>6. KeysOf(buckets) = {}
  BY <1>5 DEF KeysOf
<1>7. Map!Count(buckets) = 0
  BY <1>4, <1>6, EntriesCount, FS_EmptySet
<1>8. \A k \in Key, v \in Val : contents[k] # v
  BY <1>2, MapAssumption
<1> QED BY <1>2, <1>4, <1>5, <1>7, <1>8 DEF MapInv

\* What put does.
LEMMA PutKeeps ==
  ASSUME MapInv, NEW k \in Key, NEW v \in Val, Map!put(k, v)
  PROVE  MapInv'
<1>1. PICK n \in Nat \ {0} : n = Len(buckets)
  BY DEF MapInv, Filed
<1>2. PICK room : room = IF size = n THEN Map!resize(buckets, (7 * n) \div 4) ELSE buckets
  OBVIOUS
<1>3. Filed(room) /\ \A x \in Key, u \in Val : Has(room, x, u) <=> Has(buckets, x, u)
  <2>1. (7 * n) \div 4 \in Nat \ {0}
    OBVIOUS
  <2>2. PICK r : r = Map!resize(buckets, (7 * n) \div 4)
    OBVIOUS
  <2>3. Filed(r) /\ \A x \in Key, u \in Val : Has(r, x, u) <=> Has(buckets, x, u)
    BY <2>1, <2>2, ResizeIs DEF MapInv
  <2> QED BY <1>2, <2>2, <2>3 DEF MapInv
<1>4. PICK w : w = Map!WithEntry(room, k, v)
  OBVIOUS
<1>5. /\ Filed(w)
      /\ \A k2 \in Key, v2 \in Val : Has(w, k2, v2) <=> IF k2 = k THEN v2 = v ELSE Has(room, k2, v2)
  BY <1>3, <1>4, WithEntryIs
<1>6. KeysOf(room) = KeysOf(buckets) /\ KeysOf(w) = KeysOf(room) \cup {k}
  BY <1>3, <1>5 DEF KeysOf
<1>7. /\ IsFiniteSet(KeysOf(room)) /\ Cardinality(KeysOf(room)) = size
      /\ Map!Count(room) = size /\ size \in Nat
  BY <1>3, <1>6, EntriesCount DEF MapInv
<1>8. Map!Count(w) = IF Map!Place(room, k) = 0 THEN size + 1 ELSE size
  <2>1. Map!Count(w) = Cardinality(KeysOf(room) \cup {k})
    BY <1>5, <1>6, EntriesCount
  <2>2. Map!Place(room, k) = 0 <=> k \notin KeysOf(room)
    BY <1>3, GetIs
  <2>3. CASE k \in KeysOf(room)
    <3>1. KeysOf(room) \cup {k} = KeysOf(room)
      BY <2>3
    <3> QED BY <1>7, <2>1, <2>2, <2>3, <3>1
  <2>4. CASE k \notin KeysOf(room)
    <3>1. Cardinality(KeysOf(room) \cup {k}) = Cardinality(KeysOf(room)) + 1
      BY <1>7, <2>4, FS_AddElement
    <3> QED BY <1>7, <2>1, <2>2, <2>4, <3>1
  <2> QED BY <2>3, <2>4
<1>9. /\ buckets' = w /\ contents' = [contents EXCEPT ![k] = v]
      /\ size' = IF Map!Place(room, k) = 0 THEN size + 1 ELSE size
  BY <1>1, <1>2, <1>4, <1>7 DEF Map!put
<1>10. \A k2 \in Key, v2 \in Val : Has(w, k2, v2) <=> contents'[k2] = v2
  BY <1>3, <1>5, <1>9 DEF MapInv
<1>11. contents' \in [Key -> Val \cup {Absent}]
  BY <1>9 DEF MapInv
<1>12. (\A k2 \in Key, v2 \in Val : Has(buckets, k2, v2) <=> contents[k2] = v2)'
  BY <1>9, <1>10 DEF Has, ChainOf, Map!BucketOf
<1>13. Filed(buckets)'
  BY <1>5, <1>9 DEF Filed, Map!BucketOf
<1>14. (size = Map!Count(buckets))'
  BY <1>8, <1>9 DEF Map!Count
<1> QED BY <1>11, <1>12, <1>13, <1>14 DEF MapInv

\* What remove does.
LEMMA RemoveKeeps ==
  ASSUME MapInv, NEW k \in Key, Map!remove(k)
  PROVE  MapInv'
<1>1. PICK n, p : n = Len(buckets) /\ p = Map!Place(buckets, k)
  OBVIOUS
<1>2. PICK without, left :
        /\ without = IF p = 0 THEN buckets
                     ELSE [buckets EXCEPT ![Map!BucketOf(buckets, k)] = Map!RemoveAt(@, p)]
        /\ left = IF p = 0 THEN size ELSE size - 1
  OBVIOUS
<1>3. /\ buckets' = IF 4 * n = 7 * left THEN Map!resize(without, left) ELSE without
      /\ size' = IF 4 * n = 7 * left THEN Map!Count(buckets') ELSE left
      /\ contents' = [contents EXCEPT ![k] = Absent]
  BY <1>1, <1>2, Zenon DEF Map!remove
<1>4. p = 0 <=> k \notin KeysOf(buckets)
  BY <1>1, GetIs DEF MapInv
<1>5. /\ Filed(without) /\ Len(without) = n
      /\ \A x \in Key, v \in Val : Has(without, x, v) <=> x # k /\ Has(buckets, x, v)
  <2>1. CASE p = 0
    <3>1. \A v \in Val : ~Has(buckets, k, v)
      BY <1>4, <2>1 DEF KeysOf
    <3> QED BY <1>1, <1>2, <2>1, <3>1 DEF MapInv
  <2>2. CASE p # 0
    <3>1. Map!Place(buckets, k) # 0 /\ Filed(buckets)
      BY <1>1, <2>2 DEF MapInv
    <3>2. without = [buckets EXCEPT ![Map!BucketOf(buckets, k)]
                                     = Map!RemoveAt(@, Map!Place(buckets, k))]
      BY <1>1, <1>2, <2>2
    <3>3. LET w == [buckets EXCEPT ![Map!BucketOf(buckets, k)]
                                     = Map!RemoveAt(@, Map!Place(buckets, k))]
          IN  /\ Filed(w) /\ Len(w) = Len(buckets)
              /\ \A k2 \in Key, v2 \in Val :
                   Has(w, k2, v2) <=> k2 # k /\ Has(buckets, k2, v2)
      BY <3>1, WithoutIs
    <3> QED BY <1>1, <3>2, <3>3
  <2> QED BY <2>1, <2>2
<1>6. KeysOf(without) = KeysOf(buckets) \ {k}
  BY <1>5 DEF KeysOf
<1>7. IsFiniteSet(KeysOf(buckets)) /\ Cardinality(KeysOf(buckets)) = size /\ size \in Nat
  BY EntriesCount DEF MapInv
<1>8. left = Map!Count(without) /\ left \in Nat
  <2>1. Map!Count(without) = Cardinality(KeysOf(buckets) \ {k}) /\ Map!Count(without) \in Nat
    BY <1>5, <1>6, EntriesCount
  <2>2. CASE p = 0
    <3>1. KeysOf(buckets) \ {k} = KeysOf(buckets)
      BY <1>4, <2>2
    <3> QED BY <1>2, <1>7, <2>1, <2>2, <3>1
  <2>3. CASE p # 0
    <3>1. Cardinality(KeysOf(buckets) \ {k}) = Cardinality(KeysOf(buckets)) - 1
      BY <1>4, <1>7, <2>3, FS_RemoveElement
    <3> QED BY <1>2, <1>7, <2>1, <2>3, <3>1
  <2> QED BY <2>2, <2>3
<1>9. PICK w : w = IF 4 * n = 7 * left THEN Map!resize(without, left) ELSE without
  OBVIOUS
<1>10. Filed(w) /\ \A x \in Key, v \in Val : Has(w, x, v) <=> Has(without, x, v)
  <2>1. CASE 4 * n = 7 * left
    <3>1. n \in Nat \ {0}
      BY <1>1 DEF MapInv, Filed
    <3>2. left \in Nat \ {0}
      BY <1>8, <2>1, <3>1
    <3>3. PICK r : r = Map!resize(without, left)
      OBVIOUS
    <3>4. Filed(r) /\ \A x \in Key, u \in Val : Has(r, x, u) <=> Has(without, x, u)
      BY <1>5, <3>2, <3>3, ResizeIs
    <3> QED BY <1>9, <2>1, <3>3, <3>4
  <2>2. CASE ~(4 * n = 7 * left)
    BY <1>5, <1>9, <2>2
  <2> QED BY <2>1, <2>2
<1>11. buckets' = w /\ size' = Map!Count(w)
  <2>1. buckets' = w
    BY <1>3, <1>9
  <2>2. Map!Count(buckets') = Map!Count(w)
    BY <2>1
  <2>3. ~(4 * n = 7 * left) => w = without
    BY <1>9
  <2> QED BY <1>3, <1>8, <2>1, <2>2, <2>3
<1>12. \A x \in Key, v \in Val : Has(w, x, v) <=> contents'[x] = v
  BY <1>3, <1>5, <1>10, MapAssumption DEF MapInv
<1>13. contents' \in [Key -> Val \cup {Absent}]
  BY <1>3 DEF MapInv
<1>14. (\A k2 \in Key, v2 \in Val : Has(buckets, k2, v2) <=> contents[k2] = v2)'
  BY <1>11, <1>12 DEF Has, ChainOf, Map!BucketOf
<1>15. Filed(buckets)'
  BY <1>10, <1>11 DEF Filed, Map!BucketOf
<1>16. (size = Map!Count(buckets))'
  BY <1>11 DEF Map!Count
<1> QED BY <1>13, <1>14, <1>15, <1>16 DEF MapInv

\* Every step keeps the map.
LEMMA MapKept == MapInv /\ [Next]_vars => MapInv'
<1>1. SUFFICES ASSUME MapInv, [Next]_vars PROVE MapInv'
  OBVIOUS
<1>2. CASE UNCHANGED map
  BY <1>1, <1>2 DEF map, MapInv, Filed, Has, ChainOf, Map!BucketOf, Map!Count
<1>3. CASE Map!Next
  BY <1>1, <1>3, PutKeeps, RemoveKeeps DEF Map!Next
<1> QED BY <1>1, <1>2, <1>3 DEF Next, vars, map, Map!Next

\* The iterator is where the entry n + 1 is, or after the last.
IsPlace(b, s, start, n, p) ==
  \/ n = Len(s) /\ p = Map!End
  \/ /\ n < Len(s)
     /\ \E i \in 1 .. Len(b) : \E j \in 1 .. Len(b[i]) :
          p = <<i, j>> /\ start[i - 1] + j = n + 1

\* Nothing is in buckets that are empty.
LEMMA NoneBetween ==
  ASSUME NEW b, Filed(b), NEW s, NEW start, IsFlat(s, b, Len(b), start),
         NEW i \in 0 .. Len(b), NEW k \in i .. Len(b), \A j \in i + 1 .. k : b[j] = <<>>
  PROVE  start[k] = start[i]
<1>0. PICK n \in Nat \ {0} : n = Len(b)
  BY DEF Filed
<1>1. /\ start \in [0 .. n -> Nat] /\ i \in 0 .. n /\ k \in i .. n
      /\ \A j \in 1 .. n : start[j] = start[j - 1] + Len(b[j])
  BY <1>0 DEF IsFlat
<1> DEFINE B == {j \in i .. k : start[j] # start[i]}
<1>2. SUFFICES ASSUME B # {} PROVE FALSE
  <2>1. k \in i .. k
    BY <1>1
  <2> QED BY <2>1
<1>3. PICK j \in B : \A m \in B : j <= m
  <2>1. B \in SUBSET Nat
    BY <1>1
  <2> HIDE DEF B
  <2> QED BY <1>2, <2>1, LeastNat
<1>4. j \in i .. k /\ start[j] # start[i]
  OBVIOUS
<1>5. PICK m : m = j - 1
  OBVIOUS
<1>6. j \in i + 1 .. k /\ j \in 1 .. n /\ m \in i .. k /\ ~(j <= m) /\ m \in 0 .. n
  <2>1. j # i
    BY <1>4
  <2> QED BY <1>1, <1>4, <1>5, <2>1
<1>7. start[m] = start[i]
  BY <1>3, <1>6
<1>8. start[j] = start[m] + Len(b[j]) /\ b[j] = <<>>
  BY <1>1, <1>5, <1>6
<1>9. start[m] \in Nat
  BY <1>1, <1>6
<1> QED BY <1>4, <1>7, <1>8, <1>9

\* The first entry after a bucket.
LEMMA FirstAfterIs ==
  ASSUME NEW b, Filed(b), NEW s, NEW start, IsFlat(s, b, Len(b), start),
         NEW i \in 0 .. Len(b)
  PROVE  IsPlace(b, s, start, start[i], Map!FirstAfter(b, i))
<1>1. PICK l \in Nat \ {0} : l = Len(b)
  BY DEF Filed
<1>2. \A j \in 1 .. l : b[j] \in Seq(Entry) /\ Len(b[j]) \in Nat /\ (b[j] # <<>> => Len(b[j]) # 0)
  <2>1. \A c \in Seq(Entry) : Len(c) \in Nat /\ (c # <<>> => Len(c) # 0)
    OBVIOUS
  <2> QED BY <1>1, <2>1 DEF Filed
<1>3. /\ start \in [0 .. l -> Nat] /\ Len(s) = start[l]
      /\ \A j \in 1 .. l : start[j] = start[j - 1] + Len(b[j])
  BY <1>1 DEF IsFlat
<1>4. i \in 0 .. l /\ i \in Nat /\ start[i] \in Nat
  BY <1>1, <1>3
<1> DEFINE F == {j \in i + 1 .. l : b[j] # <<>>}
<1>5. Map!FirstAfter(b, i)
        = IF F = {} THEN Map!End ELSE <<CHOOSE j \in F : \A j2 \in F : j <= j2, 1>>
  BY <1>1 DEF Map!FirstAfter
<1>6. CASE F = {}
  <2>1. start[l] = start[i]
    <3>1. /\ i \in 0 .. Len(b) /\ l \in i .. Len(b)
          /\ \A j \in i + 1 .. l : b[j] = <<>>
      BY <1>1, <1>4, <1>6
    <3> QED BY <3>1, NoneBetween
  <2> QED BY <1>3, <1>5, <1>6, <2>1 DEF IsPlace
<1>7. CASE F # {}
  <2>1. PICK m \in F : (\A j \in F : m <= j) /\ Map!FirstAfter(b, i) = <<m, 1>>
    <3>1. F \in SUBSET Nat
      BY <1>4
    <3>2. \E m \in F : \A j \in F : m <= j
      <4> HIDE DEF F
      <4> QED BY <1>7, <3>1, LeastNat
    <3> HIDE DEF F
    <3> QED BY <1>5, <1>7, <3>2
  <2>2. m \in i + 1 .. l /\ b[m] # <<>>
    OBVIOUS
  <2>3. PICK k : k = m - 1
    OBVIOUS
  <2>4. m \in 1 .. l /\ k \in i .. l /\ k \in 0 .. l
    BY <1>4, <2>2, <2>3
  <2>5. \A j \in i + 1 .. k : j \in i + 1 .. l /\ ~(m <= j)
    BY <1>4, <2>2, <2>3
  <2>6. \A j \in i + 1 .. k : b[j] = <<>>
    BY <2>1, <2>5
  <2>7. start[k] = start[i]
    <3>1. i \in 0 .. Len(b) /\ k \in i .. Len(b)
      BY <1>1, <1>4, <2>4
    <3> QED BY <2>6, <3>1, NoneBetween
  <2>8. start[m] = start[i] + Len(b[m]) /\ Len(b[m]) \in Nat \ {0}
    BY <1>2, <1>3, <2>2, <2>3, <2>4, <2>7
  <2>9. start[m] <= start[l] /\ start[m] \in Nat /\ start[l] \in Nat
    <3>1. m \in 0 .. l /\ l \in 0 .. l /\ m <= l
      BY <2>4
    <3> QED BY <1>1, <1>2, <1>3, <3>1, StartsGrow
  <2>10. start[i] < Len(s)
    <3>1. PICK x, y, z, w : /\ x = start[i] /\ y = start[m] /\ z = start[l] /\ w = Len(b[m])
                            /\ x \in Nat /\ y \in Nat /\ z \in Nat /\ w \in Nat \ {0}
      BY <1>4, <2>8, <2>9
    <3>2. y = x + w /\ y <= z
      BY <2>8, <2>9, <3>1
    <3>3. x < z
      BY <3>1, <3>2
    <3> QED BY <1>3, <3>1, <3>3
  <2>11. 1 \in 1 .. Len(b[m])
    BY <2>8
  <2>12. start[m - 1] + 1 = start[i] + 1
    BY <2>3, <2>7
  <2> QED BY <1>1, <2>1, <2>4, <2>10, <2>11, <2>12 DEF IsPlace
<1> QED BY <1>6, <1>7

\* The next entry.
LEMMA FollowingIs ==
  ASSUME NEW b, Filed(b), NEW s, NEW start, IsFlat(s, b, Len(b), start),
         NEW n \in Nat, n < Len(s), NEW p, IsPlace(b, s, start, n, p)
  PROVE  p # Map!End /\ IsPlace(b, s, start, n + 1, Map!Following(b, p))
<1>1. PICK l \in Nat \ {0} : l = Len(b)
  BY DEF Filed
<1>2. \A j \in 1 .. l : b[j] \in Seq(Entry) /\ Len(b[j]) \in Nat
  <2>1. \A c \in Seq(Entry) : Len(c) \in Nat
    OBVIOUS
  <2> QED BY <1>1, <2>1 DEF Filed
<1>3. /\ start \in [0 .. l -> Nat] /\ Len(s) = start[l] /\ start[l] \in Nat
      /\ \A j \in 1 .. l : start[j] = start[j - 1] + Len(b[j])
  BY <1>1 DEF IsFlat
<1>4. n # Len(s)
  BY <1>3
<1>5. PICK i \in 1 .. l : \E j \in 1 .. Len(b[i]) : p = <<i, j>> /\ start[i - 1] + j = n + 1
  BY <1>1, <1>4 DEF IsPlace
<1>6. PICK j \in 1 .. Len(b[i]) : p = <<i, j>> /\ start[i - 1] + j = n + 1
  BY <1>5
<1>7. p[1] = i /\ p[2] = j /\ p # Map!End
  <2>1. i # 0
    OBVIOUS
  <2> QED BY <1>6, <2>1 DEF Map!End
<1>8. PICK a, c, e, z : /\ a = start[i - 1] /\ c = Len(b[i]) /\ e = start[i] /\ z = start[l]
                        /\ a \in Nat /\ c \in Nat /\ e \in Nat /\ z \in Nat
  <2>1. i - 1 \in 0 .. l /\ i \in 0 .. l
    BY <1>5
  <2> QED BY <1>2, <1>3, <2>1
<1>9. e = a + c /\ a + j = n + 1 /\ j \in 1 .. c /\ e <= z
  <2>1. i \in 0 .. l /\ l \in 0 .. l /\ i <= l
    BY <1>5
  <2>2. start[i] <= start[l]
    BY <1>1, <1>2, <2>1, StartsGrow
  <2> QED BY <1>3, <1>6, <1>8, <2>2
<1>10. CASE j < c
  <2>0. PICK y \in Nat : y = j
    BY <1>8, <1>9
  <2>1. Map!Following(b, p) = <<i, j + 1>>
    BY <1>7, <1>8, <1>10 DEF Map!Following
  <2>2. j + 1 \in 1 .. c /\ a + (j + 1) = (n + 1) + 1 /\ n + 1 < z
    <3>1. PICK m \in Nat : m = n
      OBVIOUS
    <3>2. a \in Nat /\ c \in Nat /\ e \in Nat /\ z \in Nat
      BY <1>8
    <3>3. e = a + c /\ a + y = m + 1 /\ y < c /\ e <= z
      BY <1>9, <1>10, <2>0, <3>1
    <3>4. y + 1 \in 1 .. c
      BY <3>2, <3>3
    <3>5. a + (y + 1) = (m + 1) + 1
      BY <3>2, <3>3
    <3>6. m + 1 < z
      BY <3>2, <3>3
    <3> QED BY <2>0, <3>1, <3>4, <3>5, <3>6
  <2> QED BY <1>1, <1>3, <1>7, <1>8, <2>1, <2>2 DEF IsPlace
<1>11. CASE ~(j < c)
  <2>1. Map!Following(b, p) = Map!FirstAfter(b, i)
    BY <1>7, <1>8, <1>11 DEF Map!Following
  <2>2. e = n + 1
    BY <1>8, <1>9, <1>11
  <2>3. i \in 0 .. Len(b)
    BY <1>1
  <2>4. IsPlace(b, s, start, start[i], Map!FirstAfter(b, i))
    BY <2>3, FirstAfterIs
  <2> QED BY <1>7, <1>8, <2>1, <2>2, <2>4
<1> QED BY <1>10, <1>11

\* The walk of the iterator.
Visits(f, b, n) ==
  f = [i \in 0 .. n |->
         IF i = 0 THEN Map!FirstAfter(b, 0)
         ELSE IF f[i - 1] = Map!End THEN Map!End ELSE Map!Following(b, f[i - 1])]

\* It exists.
LEMMA VisitsExist ==
  ASSUME NEW b, NEW n \in Nat
  PROVE  \E f : Visits(f, b, n)
<1> SUFFICES ASSUME ~ \E f : Visits(f, b, n) PROVE FALSE
  OBVIOUS
<1> DEFINE T == {m \in Nat : ~ \E f : Visits(f, b, m)}
<1>1. n \in T /\ T \in SUBSET Nat
  OBVIOUS
<1>2. PICK m \in T : \A k \in T : m <= k
  BY <1>1, LeastNat
<1>3. m \in Nat /\ ~ \E f : Visits(f, b, m)
  OBVIOUS
<1>4. CASE m = 0
  <2> DEFINE g == [i \in 0 .. 0 |-> Map!FirstAfter(b, 0)]
  <2>1. Visits(g, b, 0)
    BY DEF Visits
  <2> HIDE DEF g
  <2> QED BY <1>3, <1>4, <2>1
<1>5. CASE m # 0
  <2>1. PICK k \in Nat : m = k + 1 /\ ~(m <= k)
    <3>1. m - 1 \in Nat /\ m = (m - 1) + 1 /\ ~(m <= m - 1)
      BY <1>3, <1>5
    <3> QED BY <3>1
  <2>2. PICK f : Visits(f, b, k)
    BY <1>2, <2>1
  <2>3. PICK x : x = IF f[k] = Map!End THEN Map!End ELSE Map!Following(b, f[k])
    OBVIOUS
  <2> DEFINE g == [i \in 0 .. m |-> IF i = m THEN x ELSE f[i]]
  <2>4. ASSUME NEW i \in 0 .. m
        PROVE  g[i] = IF i = 0 THEN Map!FirstAfter(b, 0)
                      ELSE IF g[i - 1] = Map!End THEN Map!End ELSE Map!Following(b, g[i - 1])
    <3>1. CASE i = m
      <4>1. i # 0 /\ i - 1 = k /\ k \in 0 .. m /\ k # m
        BY <1>5, <2>1, <3>1
      <4>2. g[i] = x /\ g[i - 1] = f[k]
        BY <3>1, <4>1
      <4> HIDE DEF g
      <4> QED BY <2>3, <4>1, <4>2
    <3>2. CASE i # m
      <4>1. i \in 0 .. k /\ (i # 0 => i - 1 \in 0 .. m /\ i - 1 # m)
        BY <2>1, <3>2
      <4>2. f[i] = IF i = 0 THEN Map!FirstAfter(b, 0)
                   ELSE IF f[i - 1] = Map!End THEN Map!End ELSE Map!Following(b, f[i - 1])
        BY <2>2, <4>1 DEF Visits
      <4>3. g[i] = f[i] /\ (i # 0 => g[i - 1] = f[i - 1])
        BY <3>2, <4>1
      <4> HIDE DEF g
      <4> QED BY <4>2, <4>3
    <3> QED BY <3>1, <3>2
  <2>5. g = [i \in 0 .. m |-> g[i]]
    OBVIOUS
  <2> HIDE DEF g
  <2>6. Visits(g, b, m)
    BY <2>4, <2>5, Zenon DEF Visits
  <2> QED BY <1>3, <2>6
<1> QED BY <1>4, <1>5

\* After n steps the iterator is at the entry n + 1.
LEMMA VisitIs ==
  ASSUME NEW b, Filed(b), NEW s, NEW start, IsFlat(s, b, Len(b), start),
         NEW n \in 0 .. Len(s)
  PROVE  IsPlace(b, s, start, n, Map!At(b, n))
<1>1. PICK l \in Nat \ {0} : l = Len(b)
  BY DEF Filed
<1>2. PICK z \in Nat : z = Len(s)
  BY <1>1 DEF IsFlat
<1>3. n \in Nat /\ n \in 0 .. z
  BY <1>2
<1>4. PICK f : f = CHOOSE h : Visits(h, b, n)
  OBVIOUS
<1>5. Visits(f, b, n)
  BY <1>3, <1>4, VisitsExist
<1>6. Map!At(b, n) = f[n]
  BY <1>4, Zenon DEF Map!At, Visits
<1>7. \A i \in 0 .. n :
        f[i] = IF i = 0 THEN Map!FirstAfter(b, 0)
               ELSE IF f[i - 1] = Map!End THEN Map!End ELSE Map!Following(b, f[i - 1])
  BY <1>5 DEF Visits
<1> DEFINE B == {i \in 0 .. n : ~IsPlace(b, s, start, i, f[i])}
<1>8. SUFFICES ASSUME B # {} PROVE FALSE
  <2>1. n \in 0 .. n
    BY <1>3
  <2> QED BY <1>6, <2>1
<1>9. PICK i \in B : \A m \in B : i <= m
  <2>1. B \in SUBSET Nat
    OBVIOUS
  <2> HIDE DEF B
  <2> QED BY <1>8, <2>1, LeastNat
<1>10. i \in 0 .. n /\ ~IsPlace(b, s, start, i, f[i])
  OBVIOUS
<1>11. CASE i = 0
  <2>1. 0 \in 0 .. Len(b) /\ start[0] = 0
    BY <1>1 DEF IsFlat
  <2>2. IsPlace(b, s, start, 0, Map!FirstAfter(b, 0))
    BY <2>1, FirstAfterIs
  <2> QED BY <1>7, <1>10, <1>11, <2>2
<1>12. CASE i # 0
  <2>1. PICK m \in Nat : i = m + 1 /\ m = i - 1 /\ m \in 0 .. n /\ ~(i <= m) /\ m < z
    <3>1. i - 1 \in Nat /\ i = (i - 1) + 1 /\ i - 1 \in 0 .. n /\ ~(i <= i - 1) /\ i - 1 < z
      BY <1>3, <1>10, <1>12
    <3> QED BY <3>1
  <2>2. IsPlace(b, s, start, m, f[m])
    BY <1>9, <2>1
  <2>3. f[m] # Map!End /\ IsPlace(b, s, start, m + 1, Map!Following(b, f[m]))
    BY <1>2, <2>1, <2>2, FollowingIs
  <2>4. f[i] = Map!Following(b, f[m])
    BY <1>7, <1>10, <1>12, <2>1, <2>3
  <2> QED BY <1>10, <2>1, <2>3, <2>4
<1> QED BY <1>11, <1>12

\* A table that has what was put is the function of what was put.
LEMMA MapIsAFunction == MapInv => Map!MapAsFunction
<1>1. SUFFICES ASSUME MapInv PROVE Map!MapAsFunction
  OBVIOUS
<1>2. /\ Filed(buckets) /\ contents \in [Key -> Val \cup {Absent}]
      /\ \A k \in Key, v \in Val : Has(buckets, k, v) <=> contents[k] = v
  BY <1>1 DEF MapInv
<1>3. PICK s : s = Map!FlattenSeq(buckets)
  OBVIOUS
<1>4. /\ s \in Seq(Entry) /\ \E start : IsFlat(s, buckets, Len(buckets), start)
      /\ \A k \in Key, v \in Val :
           Has(buckets, k, v) <=> \E q \in 1 .. Len(s) : s[q] = [key |-> k, value |-> v]
      /\ \A q, r \in 1 .. Len(s) : s[q].key = s[r].key => q = r
  BY <1>2, <1>3, EntriesAre
<1>5. PICK start : IsFlat(s, buckets, Len(buckets), start)
  BY <1>4
<1>6. Len(s) = size /\ size \in Nat
  BY <1>1, <1>3, <1>4 DEF MapInv, Map!Count
<1>7. ASSUME NEW k \in Key PROVE Map!get(buckets, k) = contents[k]
  <2>1. PICK p, x : p = Map!Place(buckets, k) /\ x = Map!get(buckets, k)
    OBVIOUS
  <2>2. /\ p = 0 <=> k \notin KeysOf(buckets)
        /\ p = 0 => x = Absent
        /\ p # 0 => x \in Val /\ Has(buckets, k, x)
    BY <1>2, <2>1, GetIs
  <2>3. CASE p = 0
    <3>1. \A v \in Val : contents[k] # v
      BY <1>2, <2>2, <2>3 DEF KeysOf
    <3> QED BY <1>2, <2>1, <2>2, <2>3, <3>1
  <2>4. CASE p # 0
    BY <1>2, <2>1, <2>2, <2>4
  <2> QED BY <2>3, <2>4
<1>8. Map!At(buckets, size) = Map!End
  <2>1. size \in 0 .. Len(s) /\ ~(size < Len(s))
    BY <1>6
  <2>2. IsPlace(buckets, s, start, size, Map!At(buckets, size))
    BY <1>2, <1>5, <2>1, VisitIs
  <2> QED BY <2>1, <2>2 DEF IsPlace
<1>9. ASSUME NEW n \in 0 .. size - 1
      PROVE  /\ Map!At(buckets, n) # Map!End
             /\ buckets[Map!At(buckets, n)[1]][Map!At(buckets, n)[2]] = s[n + 1]
             /\ n + 1 \in 1 .. Len(s)
  <2>1. n \in 0 .. Len(s) /\ n # Len(s) /\ n + 1 \in 1 .. Len(s)
    BY <1>6
  <2>2. PICK p : p = Map!At(buckets, n)
    OBVIOUS
  <2>3. IsPlace(buckets, s, start, n, p)
    BY <1>2, <1>5, <2>1, <2>2, VisitIs
  <2>4. PICK i \in 1 .. Len(buckets) :
          \E j \in 1 .. Len(buckets[i]) : p = <<i, j>> /\ start[i - 1] + j = n + 1
    BY <2>1, <2>3 DEF IsPlace
  <2>5. PICK j \in 1 .. Len(buckets[i]) : p = <<i, j>> /\ start[i - 1] + j = n + 1
    BY <2>4
  <2>6. s[start[i - 1] + j] = buckets[i][j]
    BY <1>5 DEF IsFlat
  <2>7. p[1] = i /\ p[2] = j /\ p # Map!End
    <3>1. i # 0
      BY <1>2 DEF Filed
    <3> QED BY <2>5, <3>1 DEF Map!End
  <2> QED BY <2>1, <2>2, <2>5, <2>6, <2>7
<1> DEFINE Visited(n) == buckets[Map!At(buckets, n)[1]][Map!At(buckets, n)[2]].key
<1>10. \A n \in 0 .. size - 1 : Visited(n) = s[n + 1].key /\ n + 1 \in 1 .. Len(s)
  BY <1>9
<1> HIDE DEF Visited
<1>11. {k \in Key : contents[k] # Absent} = {Visited(n) : n \in 0 .. size - 1}
  <2>1. ASSUME NEW k \in Key, contents[k] # Absent
        PROVE  \E n \in 0 .. size - 1 : Visited(n) = k
    <3>1. PICK v \in Val : contents[k] = v
      BY <1>2, <2>1
    <3>2. Has(buckets, k, v)
      BY <1>2, <3>1
    <3>3. PICK q \in 1 .. Len(s) : s[q] = [key |-> k, value |-> v]
      BY <1>4, <3>2
    <3>4. s[q].key = k
      BY <3>3
    <3>5. PICK n : n = q - 1
      OBVIOUS
    <3>6. n \in 0 .. size - 1 /\ n + 1 = q
      BY <1>6, <3>5
    <3> QED BY <1>10, <3>4, <3>6
  <2>2. ASSUME NEW n \in 0 .. size - 1
        PROVE  Visited(n) \in Key /\ contents[Visited(n)] # Absent
    <3>1. PICK e : e = s[n + 1]
      OBVIOUS
    <3>2. e \in Entry /\ Visited(n) = e.key
      BY <1>4, <1>10, <3>1
    <3>3. e.key \in Key /\ e.value \in Val /\ e = [key |-> e.key, value |-> e.value]
      BY <3>2 DEF Entry
    <3>4. Has(buckets, e.key, e.value)
      BY <1>4, <1>10, <3>1, <3>3
    <3>5. contents[e.key] = e.value
      BY <1>2, <3>3, <3>4
    <3> QED BY <3>2, <3>3, <3>5, MapAssumption
  <2> QED BY <2>1, <2>2
<1>12. \A n, m \in 0 .. size - 1 : Visited(n) = Visited(m) => n = m
  <2>1. SUFFICES ASSUME NEW n \in 0 .. size - 1, NEW m \in 0 .. size - 1, Visited(n) = Visited(m)
                 PROVE  n = m
    OBVIOUS
  <2>2. n + 1 = m + 1
    BY <1>4, <1>10, <2>1
  <2> QED BY <1>6, <2>2
<1>13. \A n \in 0 .. size - 1 : Map!At(buckets, n) # Map!End
  BY <1>9
<1> QED BY <1>7, <1>8, <1>11, <1>12, <1>13, Zenon DEF Map!MapAsFunction, Visited

-----------------------------------------------------------------------------
(* Strings.                                                                *)

Byte == Nat \ {0}
Letter == {n \in Nat : n <= 65535}

\* A unit has one byte, two or three, as in Java, and none is zero.
LEMMA BytesAre ==
  ASSUME NEW c \in Letter
  PROVE  /\ Pool!Bytes(c) = Pool!JavaBytes(c) /\ Pool!Bytes(c) \in Seq(Byte)
         /\ \/ 1 <= c /\ c <= 127 /\ Pool!Bytes(c) = <<c>>
            \/ /\ c = 0 \/ (128 <= c /\ c <= 2047)
               /\ Pool!Bytes(c) = <<192 + (c \div 64), 128 + (c % 64)>>
            \/ /\ 2048 <= c
               /\ Pool!Bytes(c) = <<224 + (c \div 4096), 128 + ((c \div 64) % 64), 128 + (c % 64)>>
<1>1. c \in Nat /\ c <= 65535
  BY DEF Letter
<1>2. CASE 1 <= c /\ c <= 127
  <2>1. Pool!Bytes(c) = <<c>>
    BY <1>1, <1>2 DEF Pool!Bytes
  <2>2. Pool!JavaBytes(c) = <<c>>
    BY <1>1, <1>2 DEF Pool!JavaBytes
  <2>3. c \in Byte
    BY <1>1, <1>2 DEF Byte
  <2>4. <<c>> \in Seq(Byte)
    BY <2>3
  <2> QED BY <1>2, <2>1, <2>2, <2>4
<1>3. CASE (c = 0 \/ (128 <= c /\ c <= 2047))
  <2>1. PICK d, l : d = c \div 64 /\ l = c % 64
    OBVIOUS
  <2>2. d \in Nat /\ d <= 31 /\ l \in Nat /\ l <= 63
    BY <1>1, <1>3, <2>1
  <2>3. d % 32 = d /\ (c \div 1) % 64 = l
    BY <1>1, <2>1, <2>2
  <2>4. ~(c # 0 /\ c <= 127) /\ ~(c > 2047) /\ ~(1 <= c /\ c <= 127)
    BY <1>1, <1>3
  <2>5. Pool!Bytes(c) = <<192 + d, 128 + l>>
    BY <2>1, <2>4 DEF Pool!Bytes
  <2>6. Pool!JavaBytes(c) = <<192 + (d % 32), 128 + ((c \div 1) % 64)>>
    BY <1>3, <2>1, <2>4 DEF Pool!JavaBytes
  <2>7. 192 + d \in Byte /\ 128 + l \in Byte
    BY <2>2 DEF Byte
  <2>8. <<192 + d, 128 + l>> \in Seq(Byte)
    BY <2>7
  <2> QED BY <1>3, <2>1, <2>3, <2>5, <2>6, <2>8
<1>4. CASE 2048 <= c
  <2>1. PICK h, d, l : h = c \div 4096 /\ d = (c \div 64) % 64 /\ l = c % 64
    OBVIOUS
  <2>2. h \in Nat /\ h <= 15 /\ d \in Nat /\ d <= 63 /\ l \in Nat /\ l <= 63
    BY <1>1, <1>4, <2>1
  <2>3. h % 16 = h /\ (c \div 1) % 64 = l
    BY <1>1, <2>1, <2>2
  <2>4. /\ ~(c # 0 /\ c <= 127) /\ c > 2047 /\ ~(1 <= c /\ c <= 127)
        /\ ~(c = 0 \/ (128 <= c /\ c <= 2047))
    BY <1>1, <1>4
  <2>5. Pool!Bytes(c) = <<224 + h, 128 + d, 128 + l>>
    BY <2>1, <2>4 DEF Pool!Bytes
  <2>6. Pool!JavaBytes(c) = <<224 + (h % 16), 128 + d, 128 + ((c \div 1) % 64)>>
    BY <2>1, <2>4 DEF Pool!JavaBytes
  <2>7. 224 + h \in Byte /\ 128 + d \in Byte /\ 128 + l \in Byte
    BY <2>2 DEF Byte
  <2>8. <<224 + h, 128 + d, 128 + l>> \in Seq(Byte)
    BY <2>7
  <2> QED BY <1>4, <2>1, <2>3, <2>5, <2>6, <2>8
<1> QED BY <1>1, <1>2, <1>3, <1>4

\* w has u after q.
HasAfter(w, q, u) == \A j \in 1 .. Len(u) : w[q + j] = u[j]

\* It is read from where its bytes are.
LEMMA UnitIs ==
  ASSUME NEW c \in Letter, NEW w, NEW q \in Nat, HasAfter(w, q, Pool!Bytes(c))
  PROVE  Pool!Width(w[q + 1]) = Len(Pool!Bytes(c)) /\ Pool!UnitAt(w, q + 1) = c
<1>0. PICK u : u = Pool!Bytes(c) /\ \A j \in 1 .. Len(u) : w[q + j] = u[j]
  BY DEF HasAfter
<1>1. c \in Nat /\ c <= 65535
  BY DEF Letter
<1>2. (q + 1) + 1 = q + 2 /\ (q + 1) + 2 = q + 3
  OBVIOUS
<1>3. CASE 1 <= c /\ c <= 127 /\ u = <<c>>
  <2>1. Len(u) = 1 /\ u[1] = c
    BY <1>3
  <2>2. w[q + 1] = c
    BY <1>0, <2>1
  <2>3. Pool!Width(c) = 1
    BY <1>1, <1>3 DEF Pool!Width
  <2> QED BY <1>0, <2>1, <2>2, <2>3 DEF Pool!UnitAt
<1>4. CASE (c = 0 \/ (128 <= c /\ c <= 2047)) /\ u = <<192 + (c \div 64), 128 + (c % 64)>>
  <2>1. PICK d, l : d = c \div 64 /\ l = c % 64
    OBVIOUS
  <2>2. d \in Nat /\ d <= 31 /\ l \in Nat /\ l <= 63 /\ c = d * 64 + l
    BY <1>1, <1>4, <2>1
  <2>3. Len(u) = 2 /\ u[1] = 192 + d /\ u[2] = 128 + l
    BY <1>4, <2>1
  <2>4. w[q + 1] = 192 + d /\ w[q + 2] = 128 + l
    BY <1>0, <2>3
  <2>5. ~(192 + d < 128) /\ ((192 + d) \div 32) % 2 # 1
    BY <2>2
  <2>6. Pool!Width(192 + d) = 2
    BY <2>5 DEF Pool!Width
  <2>7. (192 + d) % 32 = d /\ (128 + l) % 64 = l
    BY <2>2
  <2>8. Pool!UnitAt(w, q + 1) = ((192 + d) % 32) * 64 + ((128 + l) % 64)
    BY <1>2, <2>4, <2>6 DEF Pool!UnitAt
  <2> QED BY <1>0, <2>2, <2>3, <2>4, <2>6, <2>7, <2>8
<1>5. CASE /\ 2048 <= c
           /\ u = <<224 + (c \div 4096), 128 + ((c \div 64) % 64), 128 + (c % 64)>>
  <2>1. PICK h, d, l : h = c \div 4096 /\ d = (c \div 64) % 64 /\ l = c % 64
    OBVIOUS
  <2>2. /\ h \in Nat /\ h <= 15 /\ d \in Nat /\ d <= 63 /\ l \in Nat /\ l <= 63
        /\ c = h * 4096 + d * 64 + l
    <3>1. PICK e \in Nat : e = c \div 64 /\ c = e * 64 + l /\ l \in Nat /\ l <= 63
      BY <1>1, <2>1
    <3>2. e = h * 64 + d /\ d \in Nat /\ d <= 63 /\ h \in Nat /\ h <= 15
      BY <1>1, <2>1, <3>1
    <3> QED BY <3>1, <3>2
  <2>3. Len(u) = 3 /\ u[1] = 224 + h /\ u[2] = 128 + d /\ u[3] = 128 + l
    BY <1>5, <2>1
  <2>4. w[q + 1] = 224 + h /\ w[q + 2] = 128 + d /\ w[q + 3] = 128 + l
    BY <1>0, <2>3
  <2>5. ~(224 + h < 128) /\ ((224 + h) \div 32) % 2 = 1
    BY <2>2
  <2>6. Pool!Width(224 + h) = 3
    BY <2>5 DEF Pool!Width
  <2>7. PICK x, y, z : /\ x = w[q + 1] % 16 /\ y = w[q + 2] % 64 /\ z = w[q + 3] % 64
    OBVIOUS
  <2>8. x = h /\ y = d /\ z = l
    <3>1. (224 + h) % 16 = h /\ (128 + d) % 64 = d /\ (128 + l) % 64 = l
      BY <2>2
    <3> QED BY <2>4, <2>7, <3>1
  <2>9. Pool!UnitAt(w, q + 1) = x * 4096 + y * 64 + z
    BY <1>2, <2>4, <2>6, <2>7 DEF Pool!UnitAt
  <2>10. Pool!UnitAt(w, q + 1) = c
    BY <2>2, <2>8, <2>9
  <2> QED BY <1>0, <2>3, <2>4, <2>6, <2>10
<1> QED BY <1>0, <1>3, <1>4, <1>5, BytesAre

\* Any sequence of sequences, flattened.
LEMMA FlatIs ==
  ASSUME NEW T, NEW n \in Nat, NEW ss, ss \in Seq(Seq(T)), Len(ss) = n,
         NEW s, s = Pool!FlattenSeq(ss)
  PROVE  s \in Seq(T) /\ \E start : IsFlat(s, ss, n, start)
<1>1. CASE n = 0
  <2>1. s = ss /\ ss = <<>>
    BY <1>1 DEF Pool!FlattenSeq
  <2>2. PICK start : start = [i \in 0 .. 0 |-> 0]
    OBVIOUS
  <2>3. start \in [0 .. 0 -> Nat] /\ start[0] = 0
    BY <2>2
  <2>4. s \in Seq(T) /\ Len(s) = 0
    BY <2>1
  <2>5. IsFlat(s, ss, n, start)
    BY <1>1, <2>3, <2>4 DEF IsFlat
  <2> QED BY <2>4, <2>5
<1>2. CASE n # 0
  <2>1. PICK f : f = CHOOSE h : Flattens(h, ss, n)
    OBVIOUS
  <2>2. Flattens(f, ss, n)
    BY <1>2, <2>1, FlattensExists
  <2>3. s = f[n]
    <3>1. Pool!FlattenSeq(ss) = (CHOOSE h : Flattens(h, ss, Len(ss)))[Len(ss)]
      BY <1>2, Zenon DEF Pool!FlattenSeq, Flattens
    <3> QED BY <2>1, <3>1
  <2>4. \A i \in 1 .. n : ss[i] \in Seq(T)
    OBVIOUS
  <2> QED BY <1>2, <2>2, <2>3, <2>4, FlattenIs
<1> QED BY <1>1, <1>2

\* The bytes of each unit of a string.
BytesOf(w) == [i \in 1 .. Len(w) |-> Pool!Bytes(w[i])]

\* The bytes of a string are those of Java, of one unit after the other.
LEMMA TextIs ==
  ASSUME NEW w \in Seq(Letter), NEW s, s = Pool!ToUTF8(w)
  PROVE  /\ s \in Seq(Byte) /\ s = Pool!JavaUTF8(w)
         /\ \E start : IsFlat(s, BytesOf(w), Len(w), start)
<1>1. DOMAIN w = 1 .. Len(w) /\ Len(w) \in Nat /\ \A i \in 1 .. Len(w) : w[i] \in Letter
  OBVIOUS
<1>2. PICK b : b = BytesOf(w)
  OBVIOUS
<1>3. \A i \in 1 .. Len(w) :
        Pool!Bytes(w[i]) \in Seq(Byte) /\ Pool!Bytes(w[i]) = Pool!JavaBytes(w[i])
  BY <1>1, BytesAre
<1>4. b \in Seq(Seq(Byte)) /\ Len(b) = Len(w)
  BY <1>1, <1>2, <1>3 DEF BytesOf
<1>5. s = Pool!FlattenSeq(b)
  BY <1>1, <1>2 DEF Pool!ToUTF8, BytesOf
<1>6. b = [i \in DOMAIN w |-> Pool!JavaBytes(w[i])]
  BY <1>1, <1>2, <1>3 DEF BytesOf
<1>7. s = Pool!JavaUTF8(w)
  BY <1>5, <1>6 DEF Pool!JavaUTF8
<1>8. s \in Seq(Byte) /\ \E start : IsFlat(s, b, Len(w), start)
  BY <1>1, <1>4, <1>5, FlatIs
<1> QED BY <1>2, <1>7, <1>8

\* They end with the first zero, and there is none.
LEMMA CStringIs ==
  ASSUME NEW s \in Seq(Byte)
  PROVE  Pool!CString(s) = s
<1> DEFINE I == {i \in 1 .. Len(s) : s[i] = 0}
<1>1. \A i \in 1 .. Len(s) : s[i] # 0
  BY DEF Byte
<1>2. I = {}
  BY <1>1
<1>3. Pool!SelectInSeq(s, LAMBDA b : b = 0) = IF I # {} THEN Pool!Min(I) ELSE 0
  BY Zenon DEF Pool!SelectInSeq
<1>4. Pool!SelectInSeq(s, LAMBDA b : b = 0) = 0
  BY <1>2, <1>3, Zenon
<1> QED BY <1>4, Zenon DEF Pool!CString

\* The function that ToUTF16 is computed by.
Reads(f, s, k) ==
  f = [i \in k .. Len(s) + 3 |->
         IF i > Len(s) THEN <<>> ELSE <<Pool!UnitAt(s, i)>> \o f[i + Pool!Width(s[i])]]

\* It exists.
LEMMA ReadsExist ==
  ASSUME NEW s, NEW n \in Nat, Len(s) = n
  PROVE  \E f : Reads(f, s, 1)
<1> DEFINE T == {m \in 0 .. n + 3 : ~ \E f : Reads(f, s, (n + 4) - m)}
<1>1. SUFFICES ASSUME ~ \E f : Reads(f, s, 1) PROVE FALSE
  OBVIOUS
<1>2. n + 3 \in T /\ T \in SUBSET Nat
  <2>1. (n + 4) - (n + 3) = 1 /\ n + 3 \in 0 .. n + 3
    OBVIOUS
  <2> QED BY <1>1, <2>1
<1>3. PICK m \in T : \A k \in T : m <= k
  BY <1>2, LeastNat
<1>4. m \in 0 .. n + 3 /\ ~ \E f : Reads(f, s, (n + 4) - m)
  OBVIOUS
<1>5. CASE m = 0
  <2>1. PICK f : f = [i \in (n + 4) .. (n + 3) |-> <<>>]
    OBVIOUS
  <2>2. \A i : i \notin (n + 4) .. (n + 3)
    OBVIOUS
  <2>3. Reads(f, s, n + 4)
    BY <2>1, <2>2 DEF Reads
  <2>4. (n + 4) - 0 = n + 4
    OBVIOUS
  <2> QED BY <1>4, <1>5, <2>3, <2>4
<1>6. CASE m # 0
  <2>1. PICK k \in Nat : k = (n + 4) - m /\ k \in 1 .. n + 3
    BY <1>4, <1>6
  <2>2. m - 1 \in 0 .. n + 3 /\ ~(m <= m - 1) /\ (n + 4) - (m - 1) = k + 1
    BY <1>4, <1>6, <2>1
  <2>3. PICK f : Reads(f, s, k + 1)
    BY <1>3, <2>2
  <2>4. \A i \in k + 1 .. n + 3 :
          f[i] = IF i > n THEN <<>> ELSE <<Pool!UnitAt(s, i)>> \o f[i + Pool!Width(s[i])]
    BY <2>3 DEF Reads
  <2>5. \A b : Pool!Width(b) \in {1, 2, 3}
    BY DEF Pool!Width
  <2>6. PICK x : x = IF k > n THEN <<>> ELSE <<Pool!UnitAt(s, k)>> \o f[k + Pool!Width(s[k])]
    OBVIOUS
  <2> DEFINE g == [i \in k .. n + 3 |-> IF i = k THEN x ELSE f[i]]
  <2>7. \A i \in k .. n : i + Pool!Width(s[i]) \in k + 1 .. n + 3
    <3>1. SUFFICES ASSUME NEW i \in k .. n, NEW d \in {1, 2, 3} PROVE i + d \in k + 1 .. n + 3
      BY <2>5
    <3> QED BY <2>1
  <2>8. \A i \in k + 1 .. n + 3 : g[i] = f[i]
    BY <2>1
  <2>9. k \in k .. n + 3 /\ g[k] = x
    BY <2>1
  <2>10. g = [i \in k .. n + 3 |-> g[i]]
    OBVIOUS
  <2> HIDE DEF g
  <2>11. ASSUME NEW i \in k .. n + 3
         PROVE  g[i] = IF i > n THEN <<>>
                       ELSE <<Pool!UnitAt(s, i)>> \o g[i + Pool!Width(s[i])]
    <3>1. ~(i > n) => g[i + Pool!Width(s[i])] = f[i + Pool!Width(s[i])]
      <4>1. ~(i > n) => i \in k .. n
        BY <2>1
      <4> QED BY <2>7, <2>8, <4>1
    <3>2. CASE i = k
      BY <2>6, <2>9, <3>1, <3>2
    <3>3. CASE i # k
      <4>1. i \in k + 1 .. n + 3
        BY <2>1, <3>3
      <4> QED BY <2>4, <2>8, <3>1, <4>1
    <3> QED BY <3>2, <3>3
  <2>12. g = [i \in k .. Len(s) + 3 |->
                IF i > Len(s) THEN <<>>
                ELSE <<Pool!UnitAt(s, i)>> \o g[i + Pool!Width(s[i])]]
    BY <2>10, <2>11
  <2>13. Reads(g, s, k)
    BY <2>12, Zenon DEF Reads
  <2> QED BY <1>4, <2>1, <2>13
<1> QED BY <1>5, <1>6

\* A unit before others.
LEMMA Preceded ==
  ASSUME NEW r \in Seq(Letter), NEW c \in Letter, NEW u, u = <<c>> \o r
  PROVE  /\ u \in Seq(Letter) /\ Len(u) = Len(r) + 1 /\ u[1] = c
         /\ \A j \in 1 .. Len(r) : u[j + 1] = r[j]
<1>1. PICK n \in Nat : n = Len(r)
  OBVIOUS
<1>2. <<c>> \in Seq(Letter) /\ Len(<<c>>) = 1 /\ <<c>>[1] = c
  OBVIOUS
<1>3. /\ <<c>> \o r \in Seq(Letter) /\ Len(<<c>> \o r) = Len(<<c>>) + Len(r)
      /\ \A i \in 1 .. Len(<<c>>) + Len(r) :
           (<<c>> \o r)[i] = IF i <= Len(<<c>>) THEN <<c>>[i] ELSE r[i - Len(<<c>>)]
  BY <1>2, ConcatProperties
<1>4. /\ u \in Seq(Letter) /\ Len(u) = 1 + n
      /\ \A i \in 1 .. 1 + n : u[i] = IF i <= 1 THEN <<c>>[i] ELSE r[i - 1]
  BY <1>1, <1>2, <1>3
<1>5. u[1] = c
  <2>1. 1 \in 1 .. 1 + n /\ 1 <= 1
    OBVIOUS
  <2> QED BY <1>2, <1>4, <2>1
<1>6. ASSUME NEW j \in 1 .. n PROVE u[j + 1] = r[j]
  <2>1. PICK k : k = j + 1
    OBVIOUS
  <2>2. k \in 1 .. 1 + n /\ ~(k <= 1) /\ k - 1 = j
    BY <2>1
  <2> QED BY <1>4, <2>1, <2>2
<1>7. 1 + n = n + 1
  OBVIOUS
<1> QED BY <1>1, <1>4, <1>5, <1>6, <1>7

\* A string that is converted to bytes and back is the string.
LEMMA ReadIs ==
  ASSUME NEW w \in Seq(Letter)
  PROVE  Pool!ToUTF16(Pool!ToUTF8(w)) = w
<1>1. PICK s : s = Pool!ToUTF8(w)
  OBVIOUS
<1>2. s \in Seq(Byte) /\ \E start : IsFlat(s, BytesOf(w), Len(w), start)
  BY <1>1, TextIs
<1>3. PICK start : IsFlat(s, BytesOf(w), Len(w), start)
  BY <1>2
<1>4. PICK n \in Nat, z \in Nat : n = Len(w) /\ z = Len(s)
  BY <1>2
<1>5. \A i \in 1 .. n : w[i] \in Letter
  BY <1>4
<1>6. PICK b : b = BytesOf(w)
  OBVIOUS
<1>7. \A i \in 1 .. n : b[i] = Pool!Bytes(w[i]) /\ b[i] \in Seq(Byte)
  BY <1>4, <1>5, <1>6, BytesAre DEF BytesOf
<1>8. /\ start \in [0 .. n -> Nat] /\ start[0] = 0 /\ z = start[n]
      /\ \A i \in 1 .. n : start[i] = start[i - 1] + Len(b[i])
      /\ \A i \in 1 .. n : \A j \in 1 .. Len(b[i]) :
           start[i - 1] + j \in 1 .. Len(s) /\ s[start[i - 1] + j] = b[i][j]
  BY <1>3, <1>4, <1>6 DEF IsFlat
<1>9. PICK f : f = CHOOSE h : Reads(h, s, 1)
  OBVIOUS
<1>10. Reads(f, s, 1)
  BY <1>4, <1>9, ReadsExist
<1>11. Pool!ToUTF16(s) = f[1]
  BY <1>9, Zenon DEF Pool!ToUTF16, Reads
<1>12. \A i \in 1 .. z + 3 :
         f[i] = IF i > z THEN <<>> ELSE <<Pool!UnitAt(s, i)>> \o f[i + Pool!Width(s[i])]
  BY <1>4, <1>10 DEF Reads
<1> DEFINE Rest(i) == /\ f[start[i] + 1] \in Seq(Letter) /\ Len(f[start[i] + 1]) = n - i
                      /\ \A j \in 1 .. n - i : f[start[i] + 1][j] = w[i + j]
           B == {m \in Nat : \E i \in 0 .. n : m = n - i /\ ~Rest(i)}
<1>13. \A i \in 0 .. n : Rest(i)
  <2>1. SUFFICES ASSUME NEW i0 \in 0 .. n, ~Rest(i0) PROVE FALSE
    OBVIOUS
  <2>2. n - i0 \in B /\ B \in SUBSET Nat
    BY <2>1
  <2>3. PICK m \in B : \A k \in B : m <= k
    <3> HIDE DEF B
    <3> QED BY <2>2, LeastNat
  <2>4. PICK i \in 0 .. n : m = n - i /\ ~Rest(i)
    OBVIOUS
  <2>5. \A k \in 0 .. n : n - k \in Nat /\ (~Rest(k) => n - k \in B)
    <3> HIDE DEF Rest
    <3> QED OBVIOUS
  <2> HIDE DEF B, Rest
  <2>6. \A k \in i + 1 .. n : Rest(k)
    <3>1. SUFFICES ASSUME NEW k \in i + 1 .. n, ~Rest(k) PROVE FALSE
      OBVIOUS
    <3>2. k \in 0 .. n /\ ~(n - i <= n - k)
      OBVIOUS
    <3> QED BY <2>3, <2>4, <2>5, <3>1, <3>2
  <2>7. PICK q \in Nat : q = start[i]
    BY <1>8
  <2>8. CASE i = n
    <3>1. q = z /\ q + 1 \in 1 .. z + 3 /\ q + 1 > z
      BY <1>8, <2>7, <2>8
    <3>2. f[q + 1] = <<>>
      BY <1>12, <3>1
    <3>3. n - i = 0
      BY <2>8
    <3>4. Rest(i)
      BY <2>7, <3>2, <3>3 DEF Rest
    <3> QED BY <2>4, <3>4
  <2>9. CASE i # n
    <3>1. PICK k : k = i + 1
      OBVIOUS
    <3>2. k \in 1 .. n /\ k \in i + 1 .. n /\ k - 1 = i
      BY <2>9, <3>1
    <3>3. PICK u, c, l : u = b[k] /\ c = w[k] /\ l = Len(u)
      OBVIOUS
    <3>4. c \in Letter /\ u = Pool!Bytes(c) /\ l \in Nat /\ start[k] = q + l
      BY <1>5, <1>7, <1>8, <2>7, <3>2, <3>3
    <3>5. \A j \in 1 .. Len(u) : q + j \in 1 .. Len(s) /\ s[q + j] = u[j]
      BY <1>8, <2>7, <3>2, <3>3
    <3>6. Pool!Width(s[q + 1]) = l /\ Pool!UnitAt(s, q + 1) = c
      <4>1. HasAfter(s, q, Pool!Bytes(c))
        BY <3>4, <3>5 DEF HasAfter
      <4>2. Pool!Width(s[q + 1]) = Len(Pool!Bytes(c)) /\ Pool!UnitAt(s, q + 1) = c
        BY <3>4, <4>1, UnitIs
      <4> QED BY <3>3, <3>4, <4>2
    <3>7. q + 1 \in 1 .. z
      <4>1. l # 0
        <5>1. \A x : Pool!Width(x) # 0
          BY DEF Pool!Width
        <5> QED BY <3>6, <5>1
      <4>2. 1 \in 1 .. Len(u)
        BY <3>3, <3>4, <4>1
      <4> QED BY <1>4, <3>5, <4>2
    <3>8. f[q + 1] = <<c>> \o f[(q + l) + 1]
      <4>1. q + 1 \in 1 .. z + 3 /\ ~(q + 1 > z) /\ (q + 1) + l = (q + l) + 1
        BY <3>4, <3>7
      <4> QED BY <1>12, <3>6, <4>1
    <3>9. PICK r : r = f[(q + l) + 1]
      OBVIOUS
    <3>10. /\ r \in Seq(Letter) /\ Len(r) = n - k
           /\ \A j \in 1 .. n - k : r[j] = w[k + j]
      BY <2>6, <3>2, <3>4, <3>9 DEF Rest
    <3>11. PICK v : v = f[q + 1]
      OBVIOUS
    <3>12. /\ v \in Seq(Letter) /\ Len(v) = Len(r) + 1 /\ v[1] = c
           /\ \A j \in 1 .. Len(r) : v[j + 1] = r[j]
      BY <3>4, <3>8, <3>9, <3>10, <3>11, Preceded
    <3>13. Len(v) = n - i
      BY <3>1, <3>2, <3>10, <3>12
    <3>14. ASSUME NEW j \in 1 .. n - i PROVE v[j] = w[i + j]
      <4>1. CASE j = 1
        BY <3>1, <3>3, <3>12, <4>1
      <4>2. CASE j # 1
        <5>1. PICK p : p = j - 1
          OBVIOUS
        <5>2. p \in 1 .. n - k /\ p + 1 = j /\ k + p = i + j
          BY <3>1, <3>2, <4>2, <5>1
        <5> QED BY <3>10, <3>12, <5>2
      <4> QED BY <4>1, <4>2
    <3>15. Rest(i)
      BY <2>7, <3>11, <3>12, <3>13, <3>14 DEF Rest
    <3> QED BY <2>4, <3>15
  <2> QED BY <2>8, <2>9
<1>14. Rest(0)
  <2>1. 0 \in 0 .. n
    OBVIOUS
  <2> HIDE DEF Rest
  <2> QED BY <1>13, <2>1
<1>15. PICK v : v = f[1]
  OBVIOUS
<1>16. v \in Seq(Letter) /\ Len(v) = n /\ \A j \in 1 .. n : v[j] = w[j]
  <2>1. start[0] + 1 = 1 /\ n - 0 = n /\ \A j \in 1 .. n : 0 + j = j
    BY <1>8
  <2> QED BY <1>14, <1>15, <2>1
<1>17. v = w
  BY <1>4, <1>16
<1> QED BY <1>1, <1>11, <1>15, <1>17

-----------------------------------------------------------------------------
(* The pool of strings.                                                    *)

\* The bytes of a text are found as they are, and are those of no other text.
LEMMA TextsAre ==
  ASSUME NEW w \in Text
  PROVE  /\ Pool!ToUTF8(w) = Pool!JavaUTF8(w) /\ Pool!ToUTF16(Pool!JavaUTF8(w)) = w
         /\ Pool!CString(Pool!ToUTF8(w)) = Pool!ToUTF8(w)
         /\ \A w2 \in Text : Pool!ToUTF8(w2) = Pool!ToUTF8(w) => w2 = w
<1>1. ASSUME NEW x \in Text PROVE x \in Seq(Letter)
  <2>1. x \in Seq(Nat) /\ \A i \in DOMAIN x : x[i] <= 65535
    BY TextAssumption
  <2>2. DOMAIN x = 1 .. Len(x) /\ \A i \in 1 .. Len(x) : x[i] \in Nat
    BY <2>1
  <2>3. \A i \in 1 .. Len(x) : x[i] \in Letter
    BY <2>1, <2>2 DEF Letter
  <2> QED BY <2>1, <2>3
<1>2. ASSUME NEW x \in Text
      PROVE  /\ Pool!ToUTF8(x) \in Seq(Byte) /\ Pool!ToUTF8(x) = Pool!JavaUTF8(x)
             /\ Pool!ToUTF16(Pool!ToUTF8(x)) = x
  <2>1. PICK s : s = Pool!ToUTF8(x)
    OBVIOUS
  <2>2. s \in Seq(Byte) /\ s = Pool!JavaUTF8(x)
    BY <1>1, <2>1, TextIs
  <2> QED BY <1>1, <2>1, <2>2, ReadIs
<1>3. \A w2 \in Text : Pool!ToUTF8(w2) = Pool!ToUTF8(w) => w2 = w
  <2>1. SUFFICES ASSUME NEW w2 \in Text, Pool!ToUTF8(w2) = Pool!ToUTF8(w) PROVE w2 = w
    OBVIOUS
  <2>2. Pool!ToUTF16(Pool!ToUTF8(w2)) = Pool!ToUTF16(Pool!ToUTF8(w))
    BY <2>1
  <2> QED BY <1>2, <2>2
<1>4. Pool!CString(Pool!ToUTF8(w)) = Pool!ToUTF8(w)
  BY <1>2, CStringIs
<1> QED BY <1>2, <1>3, <1>4

EntryOf(s, i) == [bytes |-> Pool!ToUTF8(s[i]), string |-> i]

\* Each string has a text of its own and is in the pool with its bytes, and what is being
\* created is not there yet.
Pooled(p, s, q, a) ==
  /\ s \in Seq(Text) /\ \A i, j \in 1 .. Len(s) : s[i] = s[j] => i = j
  /\ p = {EntryOf(s, i) : i \in 1 .. Len(s)}
  /\ \A x \in a : x.string \in 1 .. Len(s) /\ s[x.string] = x.text
  /\ q = [t \in Thread |-> q[t]]
  /\ \A t \in Thread : q[t].state # "idle" =>
       /\ q[t].text \in Text /\ q[t].new = q[t].text
       /\ q[t].bytes = Pool!ToUTF8(q[t].text)
       /\ \A i \in 1 .. Len(s) : s[i] # q[t].text
  /\ \A t, u \in Thread : q[t].state # "idle" /\ q[u].state # "idle" => t = u

\* The strings that are created one after the other.
PoolInv == deeds = {} => Pooled(pool, strings, asking, answers)

\* There are none at first.
LEMMA PoolBegins == Init => PoolInv
<1>1. SUFFICES ASSUME Init PROVE Pooled(pool, strings, asking, answers)
  BY DEF PoolInv
<1>2. /\ pool = {} /\ strings = <<>> /\ answers = {}
      /\ asking = [t \in Thread |-> Pool!Idle]
  BY <1>1 DEF Init, Pool!Init
<1>3. strings \in Seq(Text) /\ \A i : i \notin 1 .. Len(strings)
  BY <1>2
<1>4. \A t \in Thread : asking[t].state = "idle"
  BY <1>2 DEF Pool!Idle
<1>5. {EntryOf(strings, i) : i \in 1 .. Len(strings)} = {}
  BY <1>3
<1> QED BY <1>2, <1>3, <1>4, <1>5 DEF Pooled

\* A text that is asked for is in the pool with its string, or with none.
LEMMA FoundIs ==
  ASSUME NEW p, NEW s, NEW q, NEW a, Pooled(p, s, q, a), NEW w \in Text, NEW e \in p
  PROVE  /\ e.string \in 1 .. Len(s) /\ s[e.string] \in Text
         /\ Pool!CString(e.bytes) = Pool!CString(Pool!ToUTF8(w)) <=> s[e.string] = w
<1>1. PICK i \in 1 .. Len(s) : e = EntryOf(s, i)
  BY DEF Pooled
<1>2. s \in Seq(Text)
  BY DEF Pooled
<1>3. s[i] \in Text
  BY <1>2
<1>4. e.bytes = Pool!ToUTF8(s[i]) /\ e.string = i
  BY <1>1 DEF EntryOf
<1>5. Pool!CString(e.bytes) = Pool!ToUTF8(s[i])
  BY <1>3, <1>4, TextsAre
<1>6. Pool!CString(Pool!ToUTF8(w)) = Pool!ToUTF8(w)
  BY TextsAre
<1>7. Pool!ToUTF8(s[i]) = Pool!ToUTF8(w) <=> s[i] = w
  BY <1>3, TextsAre
<1> QED BY <1>3, <1>4, <1>5, <1>6, <1>7

\* A thread asks, while no other does.
LEMMA AskKeeps ==
  ASSUME deeds = {}, Pooled(pool, strings, asking, answers), NEW t \in Thread, NEW w \in Text,
         Pool!Ask(t, w, Pool!ToUTF8(w), w)
  PROVE  Pooled(pool', strings', asking', answers')
<1>1. PICK p, s, q, a : p = pool /\ s = strings /\ q = asking /\ a = answers
  OBVIOUS
<1>2. Pooled(p, s, q, a)
  BY <1>1
<1>3. PICK f : f = Pool!Entered(Pool!ToUTF8(w))
  OBVIOUS
<1>4. f = {e \in p : Pool!CString(e.bytes) = Pool!CString(Pool!ToUTF8(w))}
  BY <1>1, <1>3 DEF Pool!Entered
<1>5. /\ \A u \in Thread : q[u].state = "idle"
      /\ pool' = p /\ strings' = s
  BY <1>1 DEF Pool!Ask
<1>6. CASE f # {}
  <2>1. /\ asking' = q
        /\ answers' = a \cup {[text |-> w, by |-> t, string |-> e.string] : e \in f}
    BY <1>1, <1>3, <1>6 DEF Pool!Ask
  <2>2. ASSUME NEW x \in answers' PROVE x.string \in 1 .. Len(s) /\ s[x.string] = x.text
    <3>1. CASE x \in a
      BY <1>2, <3>1 DEF Pooled
    <3>2. CASE x \notin a
      <4>1. PICK e \in f : x = [text |-> w, by |-> t, string |-> e.string]
        BY <2>1, <3>2
      <4>2. x.text = w /\ x.string = e.string
        BY <4>1
      <4>3. e \in p /\ Pool!CString(e.bytes) = Pool!CString(Pool!ToUTF8(w))
        BY <1>4
      <4>4. e.string \in 1 .. Len(s) /\ s[e.string] = w
        BY <1>2, <4>3, FoundIs
      <4> QED BY <4>2, <4>4
    <3> QED BY <3>1, <3>2
  <2>3. Pooled(p, s, q, answers')
    BY <1>2, <2>2 DEF Pooled
  <2> QED BY <1>5, <2>1, <2>3
<1>7. CASE f = {}
  <2>1. PICK r : r = [text |-> w, bytes |-> Pool!ToUTF8(w), new |-> w, state |-> "creating"]
    OBVIOUS
  <2>2. asking' = [q EXCEPT ![t] = r] /\ answers' = a
    BY <1>1, <1>3, <1>7, <2>1 DEF Pool!Ask
  <2>3. r.text = w /\ r.new = w /\ r.bytes = Pool!ToUTF8(w)
    BY <2>1
  <2>4. PICK h : h = [q EXCEPT ![t] = r]
    OBVIOUS
  <2>5. h = [u \in Thread |-> h[u]] /\ h[t] = r /\ \A u \in Thread : u # t => h[u] = q[u]
    BY <1>2, <2>4 DEF Pooled
  <2>6. \A i \in 1 .. Len(s) : s[i] # w
    <3>1. SUFFICES ASSUME NEW i \in 1 .. Len(s), s[i] = w PROVE FALSE
      OBVIOUS
    <3>2. PICK e : e = EntryOf(s, i)
      OBVIOUS
    <3>3. e \in p /\ e.string = i
      BY <1>2, <3>2 DEF Pooled, EntryOf
    <3>4. e \in f
      BY <1>2, <1>4, <3>1, <3>3, FoundIs
    <3> QED BY <1>7, <3>4
  <2>7. \A u \in Thread : h[u].state # "idle" => u = t
    BY <1>5, <2>5
  <2>8. Pooled(p, s, h, a)
    BY <1>2, <2>3, <2>5, <2>6, <2>7 DEF Pooled
  <2> QED BY <1>5, <2>2, <2>4, <2>8
<1> QED BY <1>6, <1>7

\* A string is created and entered.
LEMMA CreateKeeps ==
  ASSUME Pooled(pool, strings, asking, answers), NEW t \in Thread, Pool!Create(t)
  PROVE  Pooled(pool', strings', asking', answers')
<1>1. PICK p, s, q, a : p = pool /\ s = strings /\ q = asking /\ a = answers
  OBVIOUS
<1>2. Pooled(p, s, q, a)
  BY <1>1
<1>3. PICK w : w = q[t].text
  OBVIOUS
<1>4. /\ w \in Text /\ q[t].new = w /\ q[t].bytes = Pool!ToUTF8(w) /\ s \in Seq(Text)
      /\ \A i \in 1 .. Len(s) : s[i] # w
      /\ \A u \in Thread : u # t => q[u].state = "idle"
  <2>1. q[t].state # "idle"
    BY <1>1 DEF Pool!Create
  <2> QED BY <1>2, <1>3, <2>1 DEF Pooled
<1>5. PICK n \in Nat : n = Len(s)
  BY <1>4
<1>6. PICK z, h, e, x : /\ z = Append(s, w) /\ h = [q EXCEPT ![t] = Pool!Idle]
                        /\ e = [bytes |-> Pool!ToUTF8(w), string |-> n + 1]
                        /\ x = [text |-> w, by |-> t, string |-> n + 1]
  OBVIOUS
<1>7. /\ strings' = z /\ asking' = h /\ answers' = a \cup {x}
      /\ pool' = {y \in p : Pool!CString(y.bytes) # Pool!CString(Pool!ToUTF8(w))} \cup {e}
  BY <1>1, <1>3, <1>4, <1>5, <1>6 DEF Pool!Create, Pool!Enter
<1>8. pool' = p \cup {e}
  <2>1. \A y \in p : Pool!CString(y.bytes) # Pool!CString(Pool!ToUTF8(w))
    BY <1>2, <1>4, FoundIs
  <2> QED BY <1>7, <2>1
<1>9. /\ z \in Seq(Text) /\ Len(z) = n + 1 /\ z[n + 1] = w
      /\ \A i \in 1 .. n : z[i] = s[i]
  BY <1>4, <1>5, <1>6
<1>10. /\ \A i \in 1 .. n + 1 : i = n + 1 \/ i \in 1 .. n
       /\ \A i \in 1 .. n : i \in 1 .. n + 1 /\ i # n + 1
       /\ n + 1 \in 1 .. n + 1
  OBVIOUS
<1>11. \A i, j \in 1 .. n + 1 : z[i] = z[j] => i = j
  <2>1. \A i, j \in 1 .. n : s[i] = s[j] => i = j
    BY <1>2, <1>5 DEF Pooled
  <2> QED BY <1>4, <1>5, <1>9, <1>10, <2>1
<1>12. p \cup {e} = {EntryOf(z, i) : i \in 1 .. n + 1}
  <2>1. p = {EntryOf(s, i) : i \in 1 .. n}
    BY <1>2, <1>5 DEF Pooled
  <2>2. \A i \in 1 .. n : EntryOf(z, i) = EntryOf(s, i)
    BY <1>9 DEF EntryOf
  <2>3. EntryOf(z, n + 1) = e
    BY <1>6, <1>9 DEF EntryOf
  <2> QED BY <1>10, <2>1, <2>2, <2>3
<1>13. \A y \in a \cup {x} : y.string \in 1 .. n + 1 /\ z[y.string] = y.text
  <2>1. \A y \in a : y.string \in 1 .. n /\ s[y.string] = y.text
    BY <1>2, <1>5 DEF Pooled
  <2>2. x.string = n + 1 /\ x.text = w
    BY <1>6
  <2> QED BY <1>9, <1>10, <2>1, <2>2
<1>14. h = [u \in Thread |-> h[u]] /\ \A u \in Thread : h[u].state = "idle"
  <2>1. q = [u \in Thread |-> q[u]]
    BY <1>2 DEF Pooled
  <2>2. h[t] = Pool!Idle /\ \A u \in Thread : u # t => h[u] = q[u]
    BY <1>6, <2>1
  <2>3. h = [u \in Thread |-> h[u]]
    BY <1>6, <2>1
  <2> QED BY <1>4, <2>2, <2>3 DEF Pool!Idle
<1>15. Pooled(p \cup {e}, z, h, a \cup {x})
  BY <1>9, <1>11, <1>12, <1>13, <1>14 DEF Pooled
<1> QED BY <1>7, <1>8, <1>15

\* Every step keeps the pool.
LEMMA PoolKept == PoolInv /\ [Next]_vars => PoolInv'
<1>1. SUFFICES ASSUME PoolInv, [Next]_vars, deeds' = {}
               PROVE  Pooled(pool', strings', asking', answers')
  BY DEF PoolInv
<1>2. deeds = {} /\ Pooled(pool, strings, asking, answers)
  BY <1>1, DeedsStay DEF PoolInv, vars
<1>3. CASE UNCHANGED text
  BY <1>2, <1>3 DEF text
<1>4. CASE Pool!Next
  <2>1. PICK t \in Thread : \/ \E w \in Text : Pool!get_string_from_cp(t, w) \/ Pool!intern(t, w)
                            \/ Pool!Create(t)
    BY <1>4 DEF Pool!Next
  <2>2. ASSUME NEW w \in Text, Pool!get_string_from_cp(t, w) \/ Pool!intern(t, w)
        PROVE  Pool!Ask(t, w, Pool!ToUTF8(w), w)
    <3>1. Pool!ToUTF8(w) = Pool!JavaUTF8(w) /\ Pool!ToUTF16(Pool!JavaUTF8(w)) = w
      BY TextsAre
    <3> QED BY <2>2, <3>1 DEF Pool!get_string_from_cp, Pool!intern
  <2> QED BY <1>2, <2>1, <2>2, AskKeeps, CreateKeeps
<1> QED BY <1>1, <1>3, <1>4 DEF Next, vars, text

\* In such a pool equal texts are one string.
LEMMA PoolIsOne == PoolInv => LiteralsAreOne
<1>1. SUFFICES ASSUME Pooled(pool, strings, asking, answers)
               PROVE  /\ \A x, y \in answers : x.text = y.text <=> x.string = y.string
                      /\ \A x \in answers : strings[x.string] = x.text
  BY DEF PoolInv, LiteralsAreOne, Pool!LiteralsAreOne
<1>2. /\ \A x \in answers : x.string \in 1 .. Len(strings) /\ strings[x.string] = x.text
      /\ \A i, j \in 1 .. Len(strings) : strings[i] = strings[j] => i = j
  BY <1>1 DEF Pooled
<1> QED BY <1>2

\* However its table has grown and shrunk, a map has one entry for each key that is there, and
\* however strings are asked for one after the other, there is one string for each text: the
\* bytes of texts are different, and become the text again.
THEOREM ContainersHaveOne == Spec => []OneForEach
<1>1. Spec => []MapInv
  BY MapBegins, MapKept, PTL DEF Spec
<1>2. Spec => []PoolInv
  BY PoolBegins, PoolKept, PTL DEF Spec
<1>3. MapInv /\ PoolInv => OneForEach
  BY MapIsAFunction, PoolIsOne DEF OneForEach, MapAsFunction
<1> QED BY <1>1, <1>2, <1>3, PTL

-----------------------------------------------------------------------------
\* None of the containers loses what was put in it, or has it twice.
THEOREM ContainersKeepAll == Spec => []NothingIsLost
BY HeapIsSwept, ListIsSequence, FramesAreFound, PTL DEF NothingIsLost
=============================================================================
