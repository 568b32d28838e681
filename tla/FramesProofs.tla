---------------------------- MODULE FramesProofs ----------------------------
(***************************************************************************)
(* Theorems about module Frames, for every set of methods, every exception *)
(* table and every depth of the stack.                                     *)
(*                                                                         *)
(* IInv adds to the correspondence of calls and frames what leaving calls  *)
(* one by one relies on: the calls whose frames are gone are all of Java   *)
(* methods, a failed call finds the frame on top in a handler, and (where  *)
(* the program has no instruction at the edge of a handler's range that    *)
(* throws) no frame below has called from such an edge.                    *)
(***************************************************************************)
EXTENDS Frames, SequenceTheorems, FiniteSetTheorems, TLAPS

\* How often l has been entered by the synchronized ones of the first n frames.
Entries(mem, n, l) == {p \in 1 .. n : Sync[mem[p].method] = l}

Balanced == \A l \in Lock : held[l] = Cardinality(Entries(memory, top, l))

LeftAreJava == \A i \in top + 1 .. Len(calls) : MethodOf(i) \notin Native

\* p goes on at the beginning of a handler.
InHandler(p) ==
  \E i \in DOMAIN Handlers[MethodOf(p)] : memory[p].pc = Handlers[MethodOf(p)][i].target

FailureHandled ==
  result = "exception" /\ top > 0 /\ MethodOf(top) \notin Native => InHandler(top)

\* No handler's range begins behind the instruction that p executes.
OffEdge(frame) ==
  \A i \in DOMAIN Handlers[frame.method] : frame.pc # Handlers[frame.method][i].start

CallersOffEdge ==
  deeds = {} => \A p \in 1 .. top - 1 : MethodOf(p) \notin Native => OffEdge(memory[p])

Good ==
  /\ TypeOK
  /\ CallsHaveFrames
  /\ Balanced
  /\ LeftAreJava
  /\ FailureHandled
  /\ CallersOffEdge

IInv == Calm => Good

-----------------------------------------------------------------------------
(* Greatest and least elements.                                            *)

\* Some natural numbers have a least one.
LEMMA LeastNat ==
  ASSUME NEW T \in SUBSET Nat, T # {}
  PROVE  \E m \in T : \A n \in T : m <= n
<1> DEFINE R == OpToRel(<, Nat)
<1>1. IsWellFoundedOn(R, Nat)
  BY NatLessThanWellFounded
<1>2. \A x, y \in Nat : <<x, y>> \in R <=> x < y
  BY DEF OpToRel
<1> HIDE DEF R
<1>3. PICK m \in T : \A n \in T : ~(<<n, m>> \in R)
  BY <1>1, WFMin
<1>4. ASSUME NEW n \in T PROVE m <= n
  <2>1. m \in Nat /\ n \in Nat
    OBVIOUS
  <2>2. ~(n < m)
    BY <1>2, <1>3, <2>1
  <2> QED BY <2>1, <2>2
<1> QED BY <1>4

\* Some of the first n have a greatest one.
LEMMA GreatestUpTo ==
  ASSUME NEW n \in Nat, NEW T \in SUBSET (1 .. n), T # {}
  PROVE  \E p \in T : \A q \in T : q <= p
<1> DEFINE D == {d \in 0 .. n : n - d \in T}
<1>0. D \in SUBSET Nat
  OBVIOUS
<1>1. D # {}
  <2>1. PICK p \in T : TRUE
    OBVIOUS
  <2>2. n - p \in 0 .. n /\ n - (n - p) = p
    OBVIOUS
  <2>3. n - p \in D
    BY <2>2
  <2> QED BY <2>3
<1>2. PICK d \in D : \A e \in D : d <= e
  <2> HIDE DEF D
  <2> QED BY <1>0, <1>1, LeastNat
<1>3. PICK p \in T : p = n - d
  OBVIOUS
<1>4. ASSUME NEW q \in T PROVE q <= p
  <2>1. n - q \in 0 .. n /\ n - (n - q) = q
    OBVIOUS
  <2>3. n - q \in D
    BY <2>1
  <2>2. d <= n - q
    BY <1>2, <2>3
  <2> QED BY <1>3, <2>1, <2>2
<1> QED BY <1>4

-----------------------------------------------------------------------------
(* Locks.                                                                  *)

\* The entries of the first n frames are finitely many.
LEMMA EntriesFinite ==
  ASSUME NEW mem, NEW n \in Nat, NEW l
  PROVE  IsFiniteSet(Entries(mem, n, l)) /\ Cardinality(Entries(mem, n, l)) \in Nat
<1>1. IsFiniteSet(1 .. n)
  BY FS_Interval
<1>2. Entries(mem, n, l) \subseteq 1 .. n
  BY DEF Entries
<1> QED BY <1>1, <1>2, FS_Subset, FS_CardinalityType

\* A frame more is an entry more if its method is synchronized by l.
LEMMA EntriesPush ==
  ASSUME NEW mem, NEW n \in Nat, NEW l
  PROVE  Cardinality(Entries(mem, n + 1, l)) =
           Cardinality(Entries(mem, n, l)) + IF Sync[mem[n + 1].method] = l THEN 1 ELSE 0
<1>1. IsFiniteSet(Entries(mem, n, l)) /\ Cardinality(Entries(mem, n, l)) \in Nat
  BY EntriesFinite
<1>2. n + 1 \notin Entries(mem, n, l)
  BY DEF Entries
<1>3. CASE Sync[mem[n + 1].method] = l
  <2>1. Entries(mem, n + 1, l) = Entries(mem, n, l) \cup {n + 1}
    BY <1>3 DEF Entries
  <2> QED BY <1>1, <1>2, <1>3, <2>1, FS_AddElement
<1>4. CASE Sync[mem[n + 1].method] # l
  <2>1. Entries(mem, n + 1, l) = Entries(mem, n, l)
    BY <1>4 DEF Entries
  <2> QED BY <1>1, <1>4, <2>1
<1> QED BY <1>3, <1>4

\* Entries are those of frames that stay and of frames that go.
LEMMA EntriesSplit ==
  ASSUME NEW mem, NEW n \in Nat, NEW k \in 0 .. n, NEW l
  PROVE  /\ Cardinality({p \in k + 1 .. n : Sync[mem[p].method] = l}) \in Nat
         /\ Cardinality(Entries(mem, n, l)) =
              Cardinality(Entries(mem, k, l))
              + Cardinality({p \in k + 1 .. n : Sync[mem[p].method] = l})
<1> DEFINE S == Entries(mem, k, l)
           T == {p \in k + 1 .. n : Sync[mem[p].method] = l}
<1>1. IsFiniteSet(S) /\ Cardinality(S) \in Nat
  BY EntriesFinite
<1>2. IsFiniteSet(T) /\ Cardinality(T) \in Nat
  <2>1. IsFiniteSet(k + 1 .. n)
    BY FS_Interval
  <2>2. T \subseteq k + 1 .. n
    OBVIOUS
  <2> QED BY <2>1, <2>2, FS_Subset, FS_CardinalityType
<1>3. S \cap T = {} /\ Entries(mem, n, l) = S \cup T
  BY DEF Entries
<1> HIDE DEF S, T
<1>4. Cardinality(S \cup T) = Cardinality(S) + Cardinality(T)
  <2>1. Cardinality(S \cup T) = Cardinality(S) + Cardinality(T) - Cardinality(S \cap T)
    BY <1>1, <1>2, FS_Union
  <2>2. Cardinality(S \cap T) = 0
    BY <1>3, FS_EmptySet
  <2> QED BY <1>1, <1>2, <2>1, <2>2
<1> QED BY <1>2, <1>3, <1>4 DEF S, T

\* Frames with the same methods have the same entries.
LEMMA EntriesSame ==
  ASSUME NEW mem, NEW new, NEW n \in Nat, NEW l,
         \A p \in 1 .. n : new[p].method = mem[p].method
  PROVE  Entries(new, n, l) = Entries(mem, n, l)
BY DEF Entries

-----------------------------------------------------------------------------
(* Unwinding.                                                              *)

Takes(frame, e) == frame.method \in Native \/ Matching(frame, e) # {}

\* Unwinding ends at the first frame that takes the exception, if there is one.
LEMMA TakerRight ==
  ASSUME NEW mem, NEW n \in Nat, NEW e
  PROVE  /\ Taker(mem, n, e) \in 0 .. n
         /\ Taker(mem, n, e) > 0 => Takes(mem[Taker(mem, n, e)], e)
         /\ \A p \in Taker(mem, n, e) + 1 .. n : ~Takes(mem[p], e)
<1> DEFINE T == {p \in 1 .. n : Takes(mem[p], e)}
<1>1. Taker(mem, n, e) = IF T = {} THEN 0 ELSE CHOOSE p \in T : \A q \in T : q <= p
  BY DEF Taker, Takes
<1>2. T \in SUBSET (1 .. n)
  OBVIOUS
<1>3. CASE T = {}
  <2>1. Taker(mem, n, e) = 0
    BY <1>1, <1>3
  <2>2. \A p \in 1 .. n : ~Takes(mem[p], e)
    BY <1>3
  <2> QED BY <2>1, <2>2
<1>4. CASE T # {}
  <2>1. \E p \in T : \A q \in T : q <= p
    <3> HIDE DEF T
    <3> QED BY <1>2, <1>4, GreatestUpTo
  <2>2. PICK k : k = Taker(mem, n, e)
    OBVIOUS
  <2>3. k \in T /\ \A q \in T : q <= k
    <3> HIDE DEF T
    <3> QED BY <1>1, <1>4, <2>1, <2>2
  <2>4. k \in 1 .. n /\ Takes(mem[k], e)
    BY <2>3
  <2>5. ASSUME NEW p \in k + 1 .. n PROVE ~Takes(mem[p], e)
    <3>1. p \in 1 .. n /\ ~(p <= k)
      BY <2>4
    <3>2. p \notin T
      <4> HIDE DEF T
      <4> QED BY <2>3, <3>1
    <3> QED BY <3>1, <3>2
  <2> HIDE DEF T
  <2> QED BY <2>2, <2>4, <2>5
<1> QED BY <1>3, <1>4

\* The frame that takes an exception stays on the stack; if it is not native it
\* goes on in a handler.
LEMMA LandedRight ==
  ASSUME NEW frame \in Frame, NEW e \in Exception, Takes(frame, e)
  PROVE  /\ Landed(frame, e) \in Frame
         /\ Landed(frame, e).method = frame.method
         /\ Landed(frame, e).valid = frame.valid
         /\ frame.method \notin Native =>
              \E i \in DOMAIN Handlers[frame.method] :
                Landed(frame, e).pc = Handlers[frame.method][i].target
<1>1. /\ frame.method \in Method /\ frame.pc \in Nat /\ frame.valid \in {"yes", "no"}
      /\ frame.exception \in Exception \cup {NoException}
  BY DEF Frame
<1>2. CASE frame.method \in Native
  <2>1. Landed(frame, e) = [frame EXCEPT !.exception = e]
    BY <1>2 DEF Landed
  <2> QED BY <1>1, <1>2, <2>1 DEF Frame
<1>3. CASE frame.method \notin Native
  <2> DEFINE M == Matching(frame, e)
             i0 == CHOOSE i \in M : \A j \in M : i <= j
             H == Handlers[frame.method]
  <2>1. H \in Seq(Handler)
    BY <1>1, FramesAssumption
  <2>2. DOMAIN H \subseteq Nat
    BY <2>1
  <2>3. M \in SUBSET Nat /\ M # {} /\ M \subseteq DOMAIN H
    BY <1>3, <2>2 DEF Takes, Matching
  <2>4. \E i \in M : \A j \in M : i <= j
    <3> HIDE DEF M
    <3> QED BY <2>3, LeastNat
  <2>5. i0 \in M
    <3> HIDE DEF M
    <3> QED BY <2>4
  <2>6. i0 \in DOMAIN H
    BY <2>3, <2>5
  <2>7. Landed(frame, e) = [frame EXCEPT !.pc = H[i0].target]
    BY <1>3 DEF Landed
  <2>8. H[i0].target \in Nat
    <3> HIDE DEF H, i0
    <3>1. H[i0] \in Handler
      BY <2>1, <2>6
    <3> QED BY <3>1 DEF Handler
  <2> HIDE DEF i0, M
  <2> QED BY <1>1, <1>3, <2>6, <2>7, <2>8 DEF Frame
<1> QED BY <1>2, <1>3

\* What has been unwound: the frames above the one that takes the exception have
\* become invalid, that one goes on in a handler, and those below stay.
LEMMA UnwoundFrames ==
  ASSUME NEW mem \in [Slots -> Frame], NEW n \in 0 .. Depth, NEW h, NEW e \in Exception,
         Unwind(mem, n, h, e)
  PROVE  /\ top' \in 0 .. n
         /\ memory' \in [Slots -> Frame]
         /\ \A p \in Slots : memory'[p].method = mem[p].method
         /\ \A p \in Slots :
              memory'[p].valid = IF p \in top' + 1 .. n THEN "no" ELSE mem[p].valid
         /\ \A p \in Slots : p < top' => memory'[p] = mem[p]
         /\ top' > 0 => Takes(mem[top'], e)
         /\ \A p \in top' + 1 .. n : ~Takes(mem[p], e)
         /\ top' > 0 /\ mem[top'].method \notin Native =>
              \E i \in DOMAIN Handlers[mem[top'].method] :
                memory'[top'].pc = Handlers[mem[top'].method][i].target
<1>0. n \in Nat /\ Depth \in Nat
  BY FramesAssumption
<1> DEFINE k == Taker(mem, n, e)
<1>1. /\ top' = k
      /\ memory' = [p \in Slots |->
                      IF p = k THEN Landed(mem[p], e)
                      ELSE IF p \in k + 1 .. n THEN [mem[p] EXCEPT !.valid = "no"]
                      ELSE mem[p]]
  BY DEF Unwind
<1>2. /\ k \in 0 .. n
      /\ k > 0 => Takes(mem[k], e)
      /\ \A p \in k + 1 .. n : ~Takes(mem[p], e)
  BY <1>0, TakerRight
<1> HIDE DEF k
<1>3. ASSUME NEW p \in Slots
      PROVE  /\ memory'[p] \in Frame
             /\ memory'[p].method = mem[p].method
             /\ memory'[p].valid = IF p \in k + 1 .. n THEN "no" ELSE mem[p].valid
             /\ p < k => memory'[p] = mem[p]
             /\ p = k /\ mem[p].method \notin Native =>
                  \E i \in DOMAIN Handlers[mem[p].method] :
                    memory'[p].pc = Handlers[mem[p].method][i].target
  <2>0. p \in Nat /\ p > 0 /\ mem[p] \in Frame
    BY <1>0 DEF Slots
  <2>1. CASE p = k
    <3>1. memory'[p] = Landed(mem[p], e) /\ Takes(mem[p], e)
      BY <1>1, <1>2, <2>0, <2>1
    <3>2. p \notin k + 1 .. n /\ ~(p < k)
      BY <1>2, <2>1
    <3>3. /\ Landed(mem[p], e) \in Frame
          /\ Landed(mem[p], e).method = mem[p].method
          /\ Landed(mem[p], e).valid = mem[p].valid
          /\ mem[p].method \notin Native =>
               \E i \in DOMAIN Handlers[mem[p].method] :
                 Landed(mem[p], e).pc = Handlers[mem[p].method][i].target
      BY <2>0, <3>1, LandedRight
    <3> QED BY <3>1, <3>2, <3>3
  <2>2. CASE p \in k + 1 .. n
    <3>1. memory'[p] = [mem[p] EXCEPT !.valid = "no"]
      BY <1>1, <1>2, <2>0, <2>2
    <3>2. ~(p < k) /\ p # k
      BY <1>2, <2>2
    <3> QED BY <2>0, <2>2, <3>1, <3>2 DEF Frame
  <2>3. CASE p # k /\ p \notin k + 1 .. n
    <3>1. memory'[p] = mem[p]
      BY <1>1, <2>3
    <3> QED BY <2>0, <2>3, <3>1
  <2> QED BY <2>1, <2>2, <2>3
<1>4. memory' \in [Slots -> Frame]
  BY <1>1, <1>3
<1>5. k > 0 => k \in Slots
  BY <1>0, <1>2 DEF Slots
<1>6. k > 0 /\ mem[k].method \notin Native =>
        \E i \in DOMAIN Handlers[mem[k].method] :
          memory'[k].pc = Handlers[mem[k].method][i].target
  BY <1>3, <1>5
<1>7. /\ \A p \in Slots : memory'[p].method = mem[p].method
      /\ \A p \in Slots : memory'[p].valid = IF p \in k + 1 .. n THEN "no" ELSE mem[p].valid
      /\ \A p \in Slots : p < k => memory'[p] = mem[p]
  BY <1>3
<1>8. top' = k
  BY <1>1
<1> QED BY <1>2, <1>4, <1>6, <1>7, <1>8

\* What is entered is again what the frames on the stack have entered.
LEMMA UnwoundLocks ==
  ASSUME NEW mem \in [Slots -> Frame], NEW n \in 0 .. Depth, NEW h, NEW e \in Exception,
         \A l \in Lock : h[l] = Cardinality(Entries(mem, n, l)),
         Unwind(mem, n, h, e)
  PROVE  /\ held' \in [Lock -> Nat]
         /\ Balanced'
<1>0. n \in Nat /\ Depth \in Nat
  BY FramesAssumption
<1>1. /\ top' \in 0 .. n
      /\ \A p \in Slots : memory'[p].method = mem[p].method
  BY UnwoundFrames
<1>2. held' = Released(h, mem, top' + 1 .. n)
  BY DEF Unwind
<1>3. PICK k \in 0 .. n : k = top'
  BY <1>1
<1>4. ASSUME NEW l \in Lock
      PROVE  held'[l] = Cardinality(Entries(mem, k, l))
  <2> DEFINE C == Cardinality({p \in k + 1 .. n : Sync[mem[p].method] = l})
  <2>1. held'[l] = h[l] - C
    BY <1>2, <1>3 DEF Released
  <2>2. C \in Nat /\ Cardinality(Entries(mem, n, l)) = Cardinality(Entries(mem, k, l)) + C
    BY <1>0, EntriesSplit, SMTT(30)
  <2>3. Cardinality(Entries(mem, k, l)) \in Nat
    BY <1>0, <1>1, <1>3, EntriesFinite
  <2>4. h[l] = Cardinality(Entries(mem, n, l))
    OBVIOUS
  <2> DEFINE A == Cardinality(Entries(mem, k, l))
             B == Cardinality(Entries(mem, n, l))
  <2>5. A \in Nat /\ C \in Nat /\ B = A + C /\ h[l] = B /\ held'[l] = h[l] - C
    BY <2>1, <2>2, <2>3, <2>4
  <2> HIDE DEF A, B, C
  <2>6. held'[l] = A
    BY <2>5
  <2> QED BY <2>6 DEF A
<1>5. ASSUME NEW l \in Lock
      PROVE  /\ Cardinality(Entries(mem, k, l)) \in Nat
             /\ Entries(memory', k, l) = Entries(mem, k, l)
  <2>1. Cardinality(Entries(mem, k, l)) \in Nat
    BY <1>0, <1>1, <1>3, EntriesFinite
  <2>2. \A p \in 1 .. k : memory'[p].method = mem[p].method
    BY <1>0, <1>1, <1>3 DEF Slots
  <2> QED BY <2>1, <2>2 DEF Entries
<1>6. held' \in [Lock -> Nat]
  <2>1. held' = [l \in Lock |-> held'[l]]
    BY <1>2 DEF Released
  <2> QED BY <1>4, <1>5, <2>1
<1>7. Balanced'
  BY <1>3, <1>4, <1>5 DEF Balanced
<1> QED BY <1>6, <1>7

\* Where frames are that stay below frame k, and that go above it.
LEMMA Below ==
  ASSUME NEW d \in Nat, NEW n \in 0 .. d, NEW k \in 0 .. n
  PROVE  /\ \A p \in 1 .. k - 1 : p \in 1 .. d /\ p < k /\ p \in 1 .. n - 1
         /\ \A p \in k + 1 .. n : p \in 1 .. d
OBVIOUS

\* What throw_exception makes true again, whoever calls it.
LEMMA UnwoundRight ==
  ASSUME NEW mem \in [Slots -> Frame], NEW n \in 0 .. Depth, NEW h, NEW e \in Exception,
         \A l \in Lock : h[l] = Cardinality(Entries(mem, n, l)),
         deeds = {} => \A p \in 1 .. n - 1 : mem[p].method \notin Native => OffEdge(mem[p]),
         uncaught \in Exception \cup {NoException},
         deeds' = deeds,
         Unwind(mem, n, h, e)
  PROVE  /\ memory' \in [Slots -> Frame]
         /\ top' \in 0 .. n
         /\ held' \in [Lock -> Nat]
         /\ uncaught' \in Exception \cup {NoException}
         /\ Balanced'
         /\ FailureHandled'
         /\ CallersOffEdge'
         /\ top' > 0 => Takes(mem[top'], e)
         /\ \A p \in top' + 1 .. n : memory'[p].method \notin Native
         /\ \A p \in 1 .. n :
              mem[p].valid = "yes" => (memory'[p].valid = "yes" <=> p <= top')
<1>0. n \in Nat /\ Depth \in Nat /\ n <= Depth
  BY FramesAssumption
<1>1. /\ top' \in 0 .. n
      /\ memory' \in [Slots -> Frame]
      /\ \A p \in Slots : memory'[p].method = mem[p].method
      /\ \A p \in Slots :
           memory'[p].valid = IF p \in top' + 1 .. n THEN "no" ELSE mem[p].valid
      /\ \A p \in Slots : p < top' => memory'[p] = mem[p]
      /\ top' > 0 => Takes(mem[top'], e)
      /\ \A p \in top' + 1 .. n : ~Takes(mem[p], e)
      /\ top' > 0 /\ mem[top'].method \notin Native =>
           \E i \in DOMAIN Handlers[mem[top'].method] :
             memory'[top'].pc = Handlers[mem[top'].method][i].target
  BY UnwoundFrames
<1>8. top' \in 0 .. n
  BY <1>1
<1>9. /\ \A p \in 1 .. top' - 1 : p \in Slots /\ p < top' /\ p \in 1 .. n - 1
      /\ \A p \in top' + 1 .. n : p \in Slots
  BY <1>0, <1>8, Below DEF Slots
<1>2. held' \in [Lock -> Nat] /\ Balanced'
  BY UnwoundLocks
<1>3. uncaught' \in Exception \cup {NoException}
  BY DEF Unwind
<1>4. FailureHandled'
  <2>1. ASSUME top' > 0, memory'[top'].method \notin Native
        PROVE  \E i \in DOMAIN Handlers[memory'[top'].method] :
                 memory'[top'].pc = Handlers[memory'[top'].method][i].target
    <3>1. top' \in Slots
      BY <1>0, <1>1, <2>1 DEF Slots
    <3>2. memory'[top'].method = mem[top'].method
      BY <1>1, <3>1
    <3> QED BY <1>1, <2>1, <3>2
  <2> QED BY <2>1 DEF FailureHandled, InHandler, MethodOf
<1>5. CallersOffEdge'
  <2>1. ASSUME deeds = {}, NEW p \in 1 .. top' - 1, memory'[p].method \notin Native
        PROVE  OffEdge(memory'[p])
    <3>1. p \in Slots /\ p < top' /\ p \in 1 .. n - 1
      BY <1>9
    <3>2. memory'[p] = mem[p]
      BY <1>1, <3>1
    <3>3. mem[p].method \notin Native
      BY <2>1, <3>2
    <3>4. OffEdge(mem[p])
      BY <2>1, <3>1, <3>3
    <3> QED BY <3>2, <3>4
  <2> QED BY <2>1 DEF CallersOffEdge, MethodOf, OffEdge
<1>6. ASSUME NEW p \in top' + 1 .. n PROVE memory'[p].method \notin Native
  <2>1. p \in Slots
    BY <1>9
  <2> QED BY <1>1, <2>1 DEF Takes
<1>7. ASSUME NEW p \in 1 .. n, mem[p].valid = "yes"
      PROVE  memory'[p].valid = "yes" <=> p <= top'
  <2>1. p \in Slots
    BY <1>0 DEF Slots
  <2>2. memory'[p].valid = IF p \in top' + 1 .. n THEN "no" ELSE "yes"
    BY <1>1, <1>7, <2>1
  <2>3. p \in top' + 1 .. n <=> ~(p <= top')
    BY <1>0, <1>1
  <2> QED BY <2>2, <2>3
<1> QED BY <1>1, <1>2, <1>3, <1>4, <1>5, <1>6, <1>7

-----------------------------------------------------------------------------
(* Calls.                                                                  *)

\* The C++ call that runs belongs to the frame on top.
LEMMA CurrentCall ==
  ASSUME TypeOK, CallsHaveFrames, calls # <<>>
  PROVE  /\ Self = Len(calls) /\ Len(calls) \in Slots /\ Len(calls) \in Nat
         /\ BelowSelf \in Seq(Slots)
         /\ Len(BelowSelf) = Len(calls) - 1
         /\ \A i \in 1 .. Len(BelowSelf) : BelowSelf[i] = i
         /\ memory[Self].valid = "yes" <=> Len(calls) <= top
         /\ result = "ok" => Self = top
<1>1. calls \in Seq(Slots) /\ Len(calls) \in Nat /\ Len(calls) > 0
  BY DEF TypeOK
<1>2. /\ \A i \in 1 .. Len(calls) :
           calls[i] = i /\ (memory[i].valid = "yes" <=> i <= top)
      /\ result = "ok" => Len(calls) = top
  BY DEF CallsHaveFrames
<1>3. Len(calls) \in 1 .. Len(calls) /\ calls[Len(calls)] \in Slots
  BY <1>1
<1>4. Self = Len(calls) /\ Len(calls) \in Slots
  BY <1>2, <1>3 DEF Self
<1>5. /\ BelowSelf \in Seq(Slots)
      /\ Len(BelowSelf) = Len(calls) - 1
      /\ \A i \in 1 .. Len(calls) - 1 : BelowSelf[i] = calls[i]
  BY <1>1 DEF BelowSelf
<1>6. \A i \in 1 .. Len(calls) - 1 : BelowSelf[i] = i
  BY <1>1, <1>2, <1>5
<1> QED BY <1>1, <1>2, <1>3, <1>4, <1>5, <1>6

\* Locks given back by the method on top are those its frame has entered.
LEMMA ExitedRight ==
  ASSUME TypeOK, Balanced, top > 0
  PROVE  \A l \in Lock : /\ Exited(MethodOf(top))[l] = Cardinality(Entries(memory, top - 1, l))
                         /\ Exited(MethodOf(top))[l] \in Nat
<1>0. top \in Nat /\ top - 1 \in Nat /\ (top - 1) + 1 = top
  BY FramesAssumption DEF TypeOK
<1>1. ASSUME NEW l \in Lock
      PROVE  /\ Exited(MethodOf(top))[l] = Cardinality(Entries(memory, top - 1, l))
             /\ Exited(MethodOf(top))[l] \in Nat
  <2>1. Cardinality(Entries(memory, (top - 1) + 1, l)) =
          Cardinality(Entries(memory, top - 1, l))
          + IF Sync[memory[(top - 1) + 1].method] = l THEN 1 ELSE 0
    BY <1>0, EntriesPush
  <2>2. Cardinality(Entries(memory, top - 1, l)) \in Nat
    BY <1>0, EntriesFinite
  <2>3. held[l] = Cardinality(Entries(memory, top, l))
    BY DEF Balanced
  <2>4. Exited(MethodOf(top))[l] = held[l] - IF Sync[memory[top].method] = l THEN 1 ELSE 0
    BY DEF Exited, MethodOf
  <2> QED BY <1>0, <2>1, <2>2, <2>3, <2>4
<1> QED BY <1>1

-----------------------------------------------------------------------------
(* Steps that leave the frames where they are.                             *)

\* What is good does not depend on the program counter and the exception of the
\* frame on top.
LEMMA ElsewhereOnTop ==
  ASSUME Good, result = "ok", result' = result,
         memory' \in [Slots -> Frame],
         \A p \in Slots : /\ memory'[p].method = memory[p].method
                          /\ memory'[p].valid = memory[p].valid
                          /\ p < top => memory'[p] = memory[p],
         UNCHANGED <<top, calls, held, uncaught, deeds>>
  PROVE  Good'
<1>0. TypeOK /\ top \in 0 .. Depth /\ Depth \in Nat
  BY FramesAssumption DEF Good, TypeOK
<1>1. TypeOK'
  BY <1>0 DEF TypeOK
<1>2. CallsHaveFrames'
  <2>1. ASSUME NEW i \in 1 .. Len(calls)
        PROVE  calls[i] = i /\ (memory'[i].valid = "yes" <=> i <= top)
    <3>1. calls[i] = i /\ (memory[i].valid = "yes" <=> i <= top)
      BY DEF Good, CallsHaveFrames
    <3>2. calls[i] \in Slots
      BY <1>0 DEF TypeOK
    <3> QED BY <3>1, <3>2
  <2>2. Len(calls) = top
    BY DEF Good, CallsHaveFrames
  <2> QED BY <1>0, <2>1, <2>2 DEF CallsHaveFrames
<1>3. Balanced'
  <2>1. ASSUME NEW l \in Lock PROVE held'[l] = Cardinality(Entries(memory', top, l))
    <3>1. \A p \in 1 .. top : memory'[p].method = memory[p].method
      BY <1>0 DEF Slots
    <3>2. Entries(memory', top, l) = Entries(memory, top, l)
      BY <3>1 DEF Entries
    <3> QED BY <3>2 DEF Good, Balanced
  <2> QED BY <2>1 DEF Balanced
<1>4. LeftAreJava'
  <2>1. top + 1 .. Len(calls) = {}
    BY <1>0 DEF Good, CallsHaveFrames
  <2> QED BY <2>1 DEF LeftAreJava
<1>5. FailureHandled'
  BY DEF FailureHandled
<1>6. CallersOffEdge'
  <2>1. ASSUME NEW p \in 1 .. top - 1 PROVE memory'[p] = memory[p]
    BY <1>0 DEF Slots
  <2> QED BY <2>1 DEF Good, CallersOffEdge, MethodOf, OffEdge
<1> QED BY <1>1, <1>2, <1>3, <1>4, <1>5, <1>6 DEF Good

\* The frame of the running call exists, is on top and is of a method.
LEMMA OnTop ==
  ASSUME Good, calls # <<>>, result = "ok"
  PROVE  /\ Self = top /\ top \in Slots /\ top \in Nat /\ top > 0
         /\ memory[top] \in Frame /\ Len(calls) = top
<1>1. /\ Self = Len(calls) /\ Len(calls) \in Slots /\ Len(calls) \in Nat
      /\ Self = top
  BY CurrentCall DEF Good
<1>2. memory \in [Slots -> Frame] /\ Depth \in Nat
  BY FramesAssumption DEF Good, TypeOK
<1>3. top \in Slots
  BY <1>1
<1>4. top \in Nat /\ top > 0
  BY <1>2, <1>3 DEF Slots
<1> QED BY <1>1, <1>2, <1>3, <1>4

\* Reading an instruction touches the program counter of the frame on top only.
LEMMA AdvancedRight ==
  ASSUME Good, calls # <<>>, result = "ok"
  PROVE  /\ Advanced \in [Slots -> Frame]
         /\ \A p \in Slots : /\ Advanced[p].method = memory[p].method
                             /\ Advanced[p].valid = memory[p].valid
                             /\ p < top => Advanced[p] = memory[p]
         /\ Advanced[top].pc = memory[top].pc + 1
<1>1. Self = top /\ top \in Slots /\ top \in Nat
  BY OnTop
<1>2. memory \in [Slots -> Frame] /\ Depth \in Nat
  BY FramesAssumption DEF Good, TypeOK
<1>3. Advanced = [memory EXCEPT ![top] = [memory[top] EXCEPT !.pc = memory[top].pc + 1]]
  BY <1>1, <1>2 DEF Advanced
<1>4. [memory[top] EXCEPT !.pc = memory[top].pc + 1] \in Frame
  BY <1>1, <1>2 DEF Frame
<1>5. \A p \in Slots : p < top => p # top
  BY <1>1, <1>2 DEF Slots
<1>6. \A p \in Slots : memory[p] \in Frame
  BY <1>2
<1> QED BY <1>1, <1>2, <1>3, <1>4, <1>5, <1>6 DEF Frame

\* An instruction that calls nobody and throws nothing.
LEMMA StepKeeps ==
  ASSUME Good, Step
  PROVE  Good'
<1>1. calls # <<>> /\ result = "ok"
  BY DEF Step, InJava
<1>2. /\ Advanced \in [Slots -> Frame]
      /\ \A p \in Slots : /\ Advanced[p].method = memory[p].method
                          /\ Advanced[p].valid = memory[p].valid
                          /\ p < top => Advanced[p] = memory[p]
  BY <1>1, AdvancedRight
<1>3. memory' = Advanced /\ UNCHANGED <<top, calls, result, held, uncaught, deeds>>
  BY DEF Step
<1> HIDE DEF Advanced
<1> QED BY <1>1, <1>2, <1>3, ElsewhereOnTop

\* Native code that sets or clears the exception of its frame.
LEMMA NativeExceptionKeeps ==
  ASSUME Good, NEW e \in Exception \cup {NoException}, InNative,
         memory' = [memory EXCEPT ![top].exception = e],
         UNCHANGED <<top, calls, result, held, uncaught, deeds>>
  PROVE  Good'
<1>1. calls # <<>> /\ result = "ok"
  BY DEF InNative
<1>2. top \in Slots /\ top \in Nat
  BY <1>1, OnTop
<1>3. memory \in [Slots -> Frame] /\ Depth \in Nat
  BY FramesAssumption DEF Good, TypeOK
<1>4. [memory[top] EXCEPT !.exception = e] \in Frame
  BY <1>2, <1>3 DEF Frame
<1>5. memory' = [memory EXCEPT ![top] = [memory[top] EXCEPT !.exception = e]]
  BY <1>2, <1>3
<1>6. \A p \in Slots : p < top => p # top
  BY <1>2, <1>3 DEF Slots
<1>7. memory' \in [Slots -> Frame]
  BY <1>2, <1>3, <1>4, <1>5
<1>8. \A p \in Slots : /\ memory'[p].method = memory[p].method
                       /\ memory'[p].valid = memory[p].valid
                       /\ p < top => memory'[p] = memory[p]
  BY <1>2, <1>3, <1>5, <1>6 DEF Frame
<1> QED BY <1>1, <1>7, <1>8, ElsewhereOnTop

\* A method that returns, native or not.
LEMMA PopKeeps ==
  ASSUME Good, calls # <<>>, result = "ok",
         held' = Exited(MethodOf(Self)), top' = top - 1, calls' = BelowSelf,
         UNCHANGED <<memory, result, uncaught, deeds>>
  PROVE  Good'
<1>1. /\ Self = top /\ top \in Slots /\ top \in Nat /\ top > 0 /\ Len(calls) = top
  BY OnTop
<1>2. /\ BelowSelf \in Seq(Slots)
      /\ Len(BelowSelf) = Len(calls) - 1
      /\ \A i \in 1 .. Len(BelowSelf) : BelowSelf[i] = i
  BY CurrentCall DEF Good
<1> HIDE DEF BelowSelf
<1>3. \A l \in Lock : /\ Exited(MethodOf(top))[l] = Cardinality(Entries(memory, top - 1, l))
                      /\ Exited(MethodOf(top))[l] \in Nat
  BY <1>1, ExitedRight DEF Good
<1>4. top - 1 \in 0 .. Depth /\ Depth \in Nat
  BY <1>1, FramesAssumption DEF Slots
<1>5. TypeOK'
  <2>1. held' \in [Lock -> Nat]
    <3>1. held' = [l \in Lock |-> held'[l]]
      BY DEF Exited
    <3> QED BY <1>1, <1>3, <3>1
  <2> QED BY <1>2, <1>4, <2>1 DEF Good, TypeOK
<1>6. CallsHaveFrames'
  <2>1. Len(calls') = top'
    BY <1>1, <1>2
  <2>2. ASSUME NEW i \in 1 .. Len(calls')
        PROVE  calls'[i] = i /\ (memory'[i].valid = "yes" <=> i <= top')
    <3>1. i \in 1 .. Len(calls) /\ i <= top /\ i <= top'
      BY <1>1, <2>1
    <3>2. memory[i].valid = "yes"
      BY <3>1 DEF Good, CallsHaveFrames
    <3>3. calls'[i] = i
      BY <1>2
    <3> QED BY <3>1, <3>2, <3>3
  <2>3. top' >= top'
    BY <1>1
  <2> QED BY <2>1, <2>2, <2>3 DEF CallsHaveFrames
<1>7. Balanced'
  BY <1>1, <1>3 DEF Balanced
<1>8. LeftAreJava'
  <2>1. top' + 1 .. Len(calls') = {}
    BY <1>1, <1>2
  <2> QED BY <2>1 DEF LeftAreJava
<1>9. FailureHandled'
  BY DEF FailureHandled
<1>10. CallersOffEdge'
  <2>1. \A p \in 1 .. top' - 1 : p \in 1 .. top - 1
    BY <1>1
  <2> QED BY <2>1 DEF Good, CallersOffEdge, MethodOf
<1> QED BY <1>5, <1>6, <1>7, <1>8, <1>9, <1>10 DEF Good

-----------------------------------------------------------------------------
(* A call has failed.                                                      *)

\* The interpreter goes on in the frame that has the handler or returns too.
LEMMA InvokeFailedKeeps ==
  ASSUME Good, InvokeFailed
  PROVE  Good'
<1>1. /\ result = "exception" /\ calls # <<>>
      /\ UNCHANGED <<memory, top, held, uncaught, deeds>>
  BY DEF InvokeFailed
<1>2. /\ Self = Len(calls) /\ Len(calls) \in Slots /\ Len(calls) \in Nat
      /\ BelowSelf \in Seq(Slots)
      /\ Len(BelowSelf) = Len(calls) - 1
      /\ \A i \in 1 .. Len(BelowSelf) : BelowSelf[i] = i
      /\ memory[Self].valid = "yes" <=> Len(calls) <= top
  BY <1>1, CurrentCall DEF Good
<1>3. top \in Nat /\ Len(calls) >= top
  BY FramesAssumption DEF Good, TypeOK, CallsHaveFrames
<1>4. Balanced' /\ CallersOffEdge'
  BY <1>1 DEF Good, Balanced, CallersOffEdge, MethodOf
<1>5. CASE memory[Self].valid = "yes"
  <2>1. result' = "ok" /\ UNCHANGED calls
    BY <1>5 DEF InvokeFailed
  <2>2. Len(calls) = top
    BY <1>2, <1>3, <1>5
  <2>3. TypeOK' /\ CallsHaveFrames'
    BY <1>1, <2>1, <2>2 DEF Good, TypeOK, CallsHaveFrames
  <2>4. LeftAreJava' /\ FailureHandled'
    BY <1>1, <2>1 DEF Good, LeftAreJava, FailureHandled, MethodOf
  <2> QED BY <1>4, <2>3, <2>4 DEF Good
<1>6. CASE memory[Self].valid # "yes"
  <2>1. calls' = BelowSelf /\ UNCHANGED result
    BY <1>6 DEF InvokeFailed
  <2> HIDE DEF BelowSelf
  <2>2. Len(calls) > top
    BY <1>2, <1>3, <1>6
  <2>3. TypeOK'
    BY <1>1, <1>2, <2>1 DEF Good, TypeOK
  <2>4. CallsHaveFrames'
    <3>1. Len(calls') >= top'
      BY <1>1, <1>2, <1>3, <2>1, <2>2
    <3>2. ASSUME NEW i \in 1 .. Len(calls')
          PROVE  calls'[i] = i /\ (memory'[i].valid = "yes" <=> i <= top')
      <4>1. i \in 1 .. Len(calls)
        BY <1>2, <2>1
      <4>2. memory[i].valid = "yes" <=> i <= top
        BY <4>1 DEF Good, CallsHaveFrames
      <4> QED BY <1>1, <1>2, <2>1, <4>2
    <3> QED BY <1>1, <2>1, <3>1, <3>2 DEF CallsHaveFrames
  <2>5. LeftAreJava'
    <3>1. \A i \in top' + 1 .. Len(calls') : i \in top + 1 .. Len(calls)
      BY <1>1, <1>2, <1>3, <2>1
    <3> QED BY <1>1, <3>1 DEF Good, LeftAreJava, MethodOf
  <2>6. FailureHandled'
    BY <1>1, <2>1 DEF Good, FailureHandled, InHandler, MethodOf
  <2> QED BY <1>4, <2>3, <2>4, <2>5, <2>6 DEF Good
<1> QED BY <1>5, <1>6

\* Native code goes on whatever has happened: its frame is there.
LEMMA CallFailedKeeps ==
  ASSUME Good, CallFailed
  PROVE  Good'
<1>1. /\ result' = "ok"
      /\ calls # <<>> => MethodOf(Self) \in Native
      /\ UNCHANGED <<memory, top, calls, held, uncaught, deeds>>
  BY DEF CallFailed
<1>2. top \in Nat /\ Len(calls) \in Nat /\ Len(calls) >= top
  BY FramesAssumption DEF Good, TypeOK, CallsHaveFrames
<1>3. Len(calls) = top
  <2>1. CASE calls = <<>>
    BY <1>2, <2>1
  <2>2. CASE calls # <<>>
    <3>1. Self = Len(calls) /\ Len(calls) \in Slots
      BY <2>2, CurrentCall DEF Good
    <3>2. MethodOf(Len(calls)) \in Native
      BY <1>1, <2>2, <3>1
    <3>3. Len(calls) \notin top + 1 .. Len(calls)
      BY <3>2 DEF Good, LeftAreJava
    <3> QED BY <1>2, <3>3
  <2> QED BY <2>1, <2>2
<1>4. TypeOK' /\ CallsHaveFrames'
  BY <1>1, <1>3 DEF Good, TypeOK, CallsHaveFrames
<1>5. Balanced' /\ LeftAreJava' /\ FailureHandled' /\ CallersOffEdge'
  BY <1>1 DEF Good, Balanced, LeftAreJava, FailureHandled, CallersOffEdge, MethodOf
<1> QED BY <1>4, <1>5 DEF Good

\* Nobody is called and nothing is entered when the exception is cleared.
LEMMA ClearUncaughtKeeps ==
  ASSUME Good, ClearUncaught
  PROVE  Good'
<1>1. /\ uncaught' = NoException
      /\ UNCHANGED <<memory, top, calls, result, held, deeds>>
  BY DEF ClearUncaught
<1>2. TypeOK' /\ CallsHaveFrames'
  BY <1>1 DEF Good, TypeOK, CallsHaveFrames
<1>3. Balanced' /\ LeftAreJava' /\ FailureHandled' /\ CallersOffEdge'
  BY <1>1 DEF Good, Balanced, LeftAreJava, FailureHandled, InHandler, CallersOffEdge, MethodOf
<1> QED BY <1>2, <1>3 DEF Good

-----------------------------------------------------------------------------
(* Calls.                                                                  *)

\* mem is the memory when the frame on top calls: the instruction that does so
\* has been read, and does not stand at the edge of a handler's range.
AboutToCall(mem) ==
  /\ mem \in [Slots -> Frame]
  /\ \A p \in Slots : mem[p].method = memory[p].method /\ mem[p].valid = memory[p].valid
  /\ deeds = {} => \A p \in 1 .. top : mem[p].method \notin Native => OffEdge(mem[p])

\* The memory after an instruction that may throw has been read.
LEMMA InstructionMayCall ==
  ASSUME Good, MayThrow
  PROVE  AboutToCall(Advanced) /\ calls # <<>> /\ result = "ok"
<1>1. calls # <<>> /\ result = "ok"
  BY DEF MayThrow, InJava
<1>2. Self = top /\ top \in Slots /\ top \in Nat
  BY <1>1, OnTop
<1>3. /\ Advanced \in [Slots -> Frame]
      /\ \A p \in Slots : /\ Advanced[p].method = memory[p].method
                          /\ Advanced[p].valid = memory[p].valid
                          /\ p < top => Advanced[p] = memory[p]
      /\ Advanced[top].pc = memory[top].pc + 1
  BY <1>1, AdvancedRight
<1> HIDE DEF Advanced
<1>4. ASSUME deeds = {}, NEW p \in 1 .. top, Advanced[p].method \notin Native
      PROVE  OffEdge(Advanced[p])
  <2>1. p \in Slots
    BY <1>2, FramesAssumption DEF Slots
  <2>2. CASE p = top
    <3>1. ~AtEdge
      BY <1>4 DEF MayThrow
    <3>2. \A i \in DOMAIN Handlers[memory[top].method] :
            memory[top].pc + 1 # Handlers[memory[top].method][i].start
      BY <1>2, <3>1 DEF AtEdge, MethodOf
    <3> QED BY <1>2, <1>3, <2>2, <3>2 DEF OffEdge
  <2>3. CASE p # top
    <3>1. p < top /\ p \in 1 .. top - 1
      BY <1>2, <2>3
    <3>2. Advanced[p] = memory[p]
      BY <1>3, <2>1, <3>1
    <3>3. OffEdge(memory[p])
      BY <1>4, <3>1, <3>2 DEF Good, CallersOffEdge, MethodOf
    <3> QED BY <3>2, <3>3
  <2> QED BY <2>2, <2>3
<1> QED BY <1>1, <1>3, <1>4 DEF AboutToCall

\* Native code calls with the memory as it is.
LEMMA NativeMayCall ==
  ASSUME Good, InNative
  PROVE  AboutToCall(memory) /\ calls # <<>> /\ result = "ok"
<1>1. calls # <<>> /\ result = "ok"
  BY DEF InNative
<1>2. Self = top /\ top \in Nat
  BY <1>1, OnTop
<1>3. ASSUME deeds = {}, NEW p \in 1 .. top, memory[p].method \notin Native
      PROVE  OffEdge(memory[p])
  <2>1. p # top
    BY <1>2, <1>3 DEF InNative, MethodOf
  <2>2. p \in 1 .. top - 1
    BY <1>2, <2>1
  <2> QED BY <1>3, <2>2 DEF Good, CallersOffEdge, MethodOf
<1> QED BY <1>1, <1>3 DEF AboutToCall, Good, TypeOK

\* So does an empty stack.
LEMMA NobodyMayCall ==
  ASSUME Good, calls = <<>>, result = "ok"
  PROVE  AboutToCall(memory)
<1>1. top = 0
  BY DEF Good, CallsHaveFrames
<1> QED BY <1>1 DEF AboutToCall, Good, TypeOK

\* The memory with a new frame on top.
Pushed(m, mem) == [mem EXCEPT ![top + 1] = NewFrame(m)]

\* A frame more and its lock entered once more.
LEMMA EnteredRight ==
  ASSUME Good, NEW m \in Method, NEW mem, AboutToCall(mem), top < Depth
  PROVE  /\ top + 1 \in Slots
         /\ Pushed(m, mem) \in [Slots -> Frame]
         /\ Pushed(m, mem)[top + 1] = NewFrame(m)
         /\ \A p \in 1 .. top : Pushed(m, mem)[p] = mem[p] /\ p \in Slots
         /\ \A l \in Lock : /\ Entered(m)[l] = Cardinality(Entries(Pushed(m, mem), top + 1, l))
                            /\ Entered(m)[l] \in Nat
<1>1. top \in Nat /\ Depth \in Nat /\ top + 1 \in Slots
  BY FramesAssumption DEF Good, TypeOK, Slots
<1>2. mem \in [Slots -> Frame] /\ NewFrame(m) \in Frame
  BY DEF AboutToCall, NewFrame, Frame
<1>3. Pushed(m, mem) \in [Slots -> Frame] /\ Pushed(m, mem)[top + 1] = NewFrame(m)
  BY <1>1, <1>2 DEF Pushed
<1>4. \A p \in 1 .. top : p # top + 1 /\ p \in Slots
  BY <1>1 DEF Slots
<1>5. \A p \in 1 .. top : Pushed(m, mem)[p] = mem[p] /\ p \in Slots
  BY <1>2, <1>4 DEF Pushed
<1>6. ASSUME NEW l \in Lock
      PROVE  /\ Entered(m)[l] = Cardinality(Entries(Pushed(m, mem), top + 1, l))
             /\ Entered(m)[l] \in Nat
  <2>1. Entries(Pushed(m, mem), top, l) = Entries(memory, top, l)
    <3>1. \A p \in 1 .. top : Pushed(m, mem)[p].method = memory[p].method
      BY <1>5 DEF AboutToCall
    <3> HIDE DEF Slots
    <3> QED BY <3>1 DEF Entries
  <2>2. Cardinality(Entries(memory, top, l)) \in Nat
    BY <1>1, EntriesFinite
  <2>3. Cardinality(Entries(Pushed(m, mem), top + 1, l)) =
          Cardinality(Entries(Pushed(m, mem), top, l))
          + IF Sync[Pushed(m, mem)[top + 1].method] = l THEN 1 ELSE 0
    BY <1>1, EntriesPush
  <2>4. Pushed(m, mem)[top + 1].method = m
    BY <1>3 DEF NewFrame
  <2>5. held[l] = Cardinality(Entries(memory, top, l))
    BY DEF Good, Balanced
  <2>6. Entered(m)[l] = held[l] + IF Sync[m] = l THEN 1 ELSE 0
    BY DEF Entered
  <2> QED BY <2>1, <2>2, <2>3, <2>4, <2>5, <2>6
<1> QED BY <1>1, <1>3, <1>5, <1>6

\* A method is called.
LEMMA PushKeeps ==
  ASSUME Good, NEW m \in Method, NEW mem, AboutToCall(mem), result = "ok",
         Fits(m), Push(m, mem)
  PROVE  Good'
<1>1. /\ memory' = Pushed(m, mem)
      /\ top' = top + 1 /\ calls' = Append(calls, top + 1) /\ held' = Entered(m)
      /\ UNCHANGED <<result, uncaught, deeds>>
  BY DEF Push, Pushed
<1>2. /\ top + 1 \in Slots
      /\ memory' \in [Slots -> Frame]
      /\ memory'[top + 1] = NewFrame(m)
      /\ \A p \in 1 .. top : memory'[p] = mem[p] /\ p \in Slots
      /\ \A l \in Lock : /\ Entered(m)[l] = Cardinality(Entries(memory', top + 1, l))
                         /\ Entered(m)[l] \in Nat
  BY <1>1, EnteredRight DEF Fits
<1>3. /\ top \in Nat /\ Depth \in Nat /\ Len(calls) = top
      /\ calls \in Seq(Slots)
  BY FramesAssumption DEF Good, TypeOK, CallsHaveFrames
<1>4. TypeOK'
  <2>1. held' \in [Lock -> Nat]
    BY <1>1, <1>2 DEF Entered
  <2>2. top' \in 0 .. Depth
    BY <1>1, <1>2, <1>3 DEF Slots
  <2>3. calls' \in Seq(Slots)
    BY <1>1, <1>2, <1>3
  <2> QED BY <1>1, <1>2, <2>1, <2>2, <2>3 DEF Good, TypeOK
<1>5. CallsHaveFrames'
  <2>1. Len(calls') = top' /\ top' \in Nat
    BY <1>1, <1>3
  <2>2. ASSUME NEW i \in 1 .. Len(calls')
        PROVE  calls'[i] = i /\ (memory'[i].valid = "yes" <=> i <= top')
    <3>0. i <= top'
      BY <2>1
    <3>1. CASE i = top + 1
      <4>1. calls'[i] = i
        BY <1>1, <1>3, <3>1
      <4>2. memory'[i].valid = "yes"
        BY <1>2, <3>1 DEF NewFrame
      <4> QED BY <3>0, <4>1, <4>2
    <3>2. CASE i # top + 1
      <4>1. i \in 1 .. top
        BY <1>1, <1>3, <2>1, <3>2
      <4>2. calls[i] = i /\ memory[i].valid = "yes"
        BY <1>3, <4>1 DEF Good, CallsHaveFrames
      <4>3. calls'[i] = calls[i]
        BY <1>1, <1>2, <1>3, <4>1
      <4>4. memory'[i] = mem[i] /\ mem[i].valid = memory[i].valid
        BY <1>2, <4>1 DEF AboutToCall
      <4> QED BY <3>0, <4>2, <4>3, <4>4
    <3> QED BY <3>1, <3>2
  <2>3. Len(calls') >= top'
    BY <2>1
  <2> QED BY <2>1, <2>2, <2>3 DEF CallsHaveFrames
<1>6. Balanced'
  BY <1>1, <1>2 DEF Balanced
<1>7. LeftAreJava'
  <2>1. top' + 1 .. Len(calls') = {}
    BY <1>1, <1>3
  <2> QED BY <2>1 DEF LeftAreJava
<1>8. FailureHandled'
  BY <1>1 DEF FailureHandled
<1>9. CallersOffEdge'
  <2>1. \A p \in 1 .. top' - 1 : p \in 1 .. top
    BY <1>1, <1>3
  <2>2. \A p \in 1 .. top : memory'[p] = mem[p]
    BY <1>2
  <2>3. deeds' = {} => \A p \in 1 .. top : mem[p].method \notin Native => OffEdge(mem[p])
    BY <1>1 DEF AboutToCall
  <2> QED BY <2>1, <2>2, <2>3 DEF CallersOffEdge, MethodOf, OffEdge
<1> QED BY <1>4, <1>5, <1>6, <1>7, <1>8, <1>9 DEF Good

-----------------------------------------------------------------------------
(* Exceptions.                                                             *)

\* A call for which there is no space: its frame goes again, and with it all
\* frames down to one that takes the exception.
LEMMA OverflowKeeps ==
  ASSUME Good, Calm, NEW m \in Method, NEW mem, AboutToCall(mem), result = "ok",
         Overflow(m, mem)
  PROVE  Good'
<1>1. /\ m \notin Native /\ top < Depth
      /\ Matching(NewFrame(m), StackOverflow) = {}
      /\ Unwind(Pushed(m, mem), top + 1, Entered(m), StackOverflow)
      /\ result' = "exception"
      /\ UNCHANGED <<calls, deeds>>
  BY DEF Overflow, Pushed, Calm
<1>2. /\ top + 1 \in Slots
      /\ Pushed(m, mem) \in [Slots -> Frame]
      /\ Pushed(m, mem)[top + 1] = NewFrame(m)
      /\ \A p \in 1 .. top : Pushed(m, mem)[p] = mem[p] /\ p \in Slots
      /\ \A l \in Lock : Entered(m)[l] = Cardinality(Entries(Pushed(m, mem), top + 1, l))
  BY <1>1, EnteredRight
<1>3. /\ top \in Nat /\ Depth \in Nat /\ Len(calls) = top
      /\ calls \in Seq(Slots) /\ uncaught \in Exception \cup {NoException}
      /\ StackOverflow \in Exception
  BY FramesAssumption DEF Good, TypeOK, CallsHaveFrames
<1>4. top + 1 \in 0 .. Depth
  BY <1>1, <1>3
<1>5. deeds = {} => \A p \in 1 .. (top + 1) - 1 :
        Pushed(m, mem)[p].method \notin Native => OffEdge(Pushed(m, mem)[p])
  <2>1. (top + 1) - 1 = top
    BY <1>3
  <2> HIDE DEF Pushed
  <2> QED BY <1>2, <2>1 DEF AboutToCall
<1>6. /\ memory' \in [Slots -> Frame]
      /\ top' \in 0 .. top + 1
      /\ held' \in [Lock -> Nat]
      /\ uncaught' \in Exception \cup {NoException}
      /\ Balanced'
      /\ FailureHandled'
      /\ CallersOffEdge'
      /\ top' > 0 => Takes(Pushed(m, mem)[top'], StackOverflow)
      /\ \A p \in top' + 1 .. top + 1 : memory'[p].method \notin Native
      /\ \A p \in 1 .. top + 1 :
           Pushed(m, mem)[p].valid = "yes" => (memory'[p].valid = "yes" <=> p <= top')
  BY <1>1, <1>2, <1>3, <1>4, <1>5, UnwoundRight
<1>7. ~Takes(Pushed(m, mem)[top + 1], StackOverflow)
  BY <1>1, <1>2 DEF Takes, NewFrame
<1>8. top' \in 0 .. top
  <2>1. top' # top + 1
    BY <1>3, <1>6, <1>7
  <2>2. top' \in 0 .. top + 1
    BY <1>6
  <2> QED BY <1>3, <2>1, <2>2
<1>9. TypeOK'
  <2>1. top' \in 0 .. Depth
    BY <1>1, <1>3, <1>8
  <2> QED BY <1>1, <1>6, <2>1 DEF Good, TypeOK
<1>10. CallsHaveFrames'
  <2>1. ASSUME NEW i \in 1 .. Len(calls')
        PROVE  calls'[i] = i /\ (memory'[i].valid = "yes" <=> i <= top')
    <3>1. i \in 1 .. top /\ i \in 1 .. top + 1
      BY <1>1, <1>3
    <3>2. calls[i] = i /\ memory[i].valid = "yes"
      BY <1>3, <3>1 DEF Good, CallsHaveFrames
    <3>3. Pushed(m, mem)[i].valid = "yes"
      BY <1>2, <3>1, <3>2 DEF AboutToCall
    <3>4. memory'[i].valid = "yes" <=> i <= top'
      BY <1>6, <3>1, <3>3
    <3> QED BY <1>1, <3>2, <3>4
  <2>2. Len(calls') >= top'
    BY <1>1, <1>3, <1>8
  <2> QED BY <1>1, <2>1, <2>2 DEF CallsHaveFrames
<1>11. LeftAreJava'
  <2>1. PICK k : k = top'
    OBVIOUS
  <2>2. k \in 0 .. top /\ Len(calls') = top
    BY <1>1, <1>3, <1>8, <2>1
  <2>3. \A i \in k + 1 .. top : i \in k + 1 .. top + 1
    BY <1>3, <2>2
  <2> QED BY <1>6, <2>1, <2>2, <2>3 DEF LeftAreJava, MethodOf
<1> QED BY <1>6, <1>9, <1>10, <1>11 DEF Good

\* What an instruction that throws leaves behind, before anybody asks for its
\* frame.
LEMMA ThrownRight ==
  ASSUME Good, NEW e \in Exception, MayThrow, Unwind(Advanced, top, held, e),
         UNCHANGED deeds
  PROVE  /\ memory' \in [Slots -> Frame]
         /\ top' \in 0 .. top
         /\ held' \in [Lock -> Nat]
         /\ uncaught' \in Exception \cup {NoException}
         /\ Balanced'
         /\ FailureHandled'
         /\ CallersOffEdge'
         /\ top' > 0 => Takes(Advanced[top'], e)
         /\ \A p \in top' + 1 .. top : memory'[p].method \notin Native
         /\ \A p \in 1 .. top : memory'[p].valid = "yes" <=> p <= top'
<1>1. AboutToCall(Advanced) /\ calls # <<>> /\ result = "ok"
  BY InstructionMayCall
<1>2. /\ top \in 0 .. Depth /\ Depth \in Nat /\ Len(calls) = top
      /\ uncaught \in Exception \cup {NoException}
  BY <1>1, FramesAssumption DEF Good, TypeOK, CallsHaveFrames
<1> HIDE DEF Advanced
<1>3. \A p \in 1 .. top : p \in Slots /\ Advanced[p].method = memory[p].method
  BY <1>1, <1>2 DEF AboutToCall, Slots
<1>4. ASSUME NEW l \in Lock PROVE held[l] = Cardinality(Entries(Advanced, top, l))
  <2>1. Entries(Advanced, top, l) = Entries(memory, top, l)
    BY <1>3 DEF Entries
  <2> QED BY <2>1 DEF Good, Balanced
<1>5. deeds = {} => \A p \in 1 .. top - 1 :
        Advanced[p].method \notin Native => OffEdge(Advanced[p])
  <2>1. \A p \in 1 .. top - 1 : p \in 1 .. top
    BY <1>2
  <2> QED BY <1>1, <2>1 DEF AboutToCall
<1>6. Advanced \in [Slots -> Frame]
  BY <1>1 DEF AboutToCall
<1>7. ASSUME NEW p \in 1 .. top PROVE Advanced[p].valid = "yes"
  <2>1. memory[p].valid = "yes"
    BY <1>2 DEF Good, CallsHaveFrames
  <2> QED BY <1>1, <1>3, <2>1 DEF AboutToCall
<1> QED BY <1>2, <1>4, <1>5, <1>6, <1>7, UnwoundRight

\* Of what has been unwound, calls are left that have frames or are of methods
\* of Java.
LEMMA AfterUnwind ==
  ASSUME Good, NEW n \in 0 .. Depth, UNCHANGED deeds,
         memory' \in [Slots -> Frame], top' \in 0 .. n, held' \in [Lock -> Nat],
         uncaught' \in Exception \cup {NoException},
         Balanced', FailureHandled', CallersOffEdge',
         \A p \in top' + 1 .. n : memory'[p].method \notin Native,
         \A p \in 1 .. n : memory'[p].valid = "yes" <=> p <= top',
         calls' \in Seq(Slots), Len(calls') \in 0 .. n, Len(calls') >= top',
         \A i \in 1 .. Len(calls') : calls'[i] = i,
         result' \in {"ok", "exception"}, result' = "ok" => Len(calls') = top'
  PROVE  Good'
<1>0. n \in Nat /\ Depth \in Nat /\ n <= Depth
  BY FramesAssumption
<1>1. TypeOK'
  <2>1. top' \in 0 .. Depth
    BY <1>0
  <2> QED BY <2>1 DEF Good, TypeOK
<1>2. CallsHaveFrames'
  <2>1. ASSUME NEW i \in 1 .. Len(calls')
        PROVE  calls'[i] = i /\ (memory'[i].valid = "yes" <=> i <= top')
    <3>1. i \in 1 .. n
      BY <1>0
    <3> QED BY <3>1
  <2> QED BY <2>1 DEF CallsHaveFrames
<1>3. LeftAreJava'
  <2>1. PICK k, c : k = top' /\ c = Len(calls')
    OBVIOUS
  <2>2. k \in 0 .. n /\ c \in 0 .. n
    BY <2>1
  <2>3. \A i \in k + 1 .. c : i \in k + 1 .. n
    BY <1>0, <2>2
  <2> QED BY <2>1, <2>3 DEF LeftAreJava, MethodOf
<1> QED BY <1>1, <1>2, <1>3 DEF Good

\* THROW_WITH_RETURN_ON_UNWIND
LEMMA ThrowKeeps ==
  ASSUME Good, NEW e \in Exception, Throw(e)
  PROVE  Good'
<1>1. /\ MayThrow /\ Unwind(Advanced, top, held, e) /\ UNCHANGED deeds
      /\ IF memory'[Self].valid = "yes"
         THEN UNCHANGED <<calls, result>>
         ELSE calls' = BelowSelf /\ result' = "exception"
  BY DEF Throw, LeaveIfUnwound
<1>2. calls # <<>> /\ result = "ok"
  BY <1>1, InstructionMayCall
<1>3. /\ Self = top /\ top \in Nat /\ top > 0 /\ Len(calls) = top /\ top \in Slots
  BY <1>2, OnTop
<1>4. /\ memory' \in [Slots -> Frame]
      /\ top' \in 0 .. top
      /\ held' \in [Lock -> Nat]
      /\ uncaught' \in Exception \cup {NoException}
      /\ Balanced' /\ FailureHandled' /\ CallersOffEdge'
      /\ \A p \in top' + 1 .. top : memory'[p].method \notin Native
      /\ \A p \in 1 .. top : memory'[p].valid = "yes" <=> p <= top'
  BY <1>1, ThrownRight
<1>5. /\ BelowSelf \in Seq(Slots)
      /\ Len(BelowSelf) = top - 1
      /\ \A i \in 1 .. Len(BelowSelf) : BelowSelf[i] = i
  BY <1>2, <1>3, CurrentCall DEF Good
<1> HIDE DEF BelowSelf
<1>6. /\ calls \in Seq(Slots)
      /\ \A i \in 1 .. Len(calls) : calls[i] = i
      /\ top \in 0 .. Depth
  BY DEF Good, TypeOK, CallsHaveFrames
<1>7. memory'[top].valid = "yes" <=> top <= top'
  BY <1>3, <1>4
<1>8. top' \in 0 .. top
  BY <1>4
<1>9. CASE top <= top'
  <2>1. calls' = calls /\ result' = "ok"
    BY <1>1, <1>2, <1>3, <1>7, <1>9
  <2>2. top' = top
    BY <1>3, <1>8, <1>9
  <2>3. /\ Len(calls') \in 0 .. top /\ Len(calls') >= top' /\ Len(calls') = top'
    BY <1>3, <2>1, <2>2
  <2>4. result' \in {"ok", "exception"} /\ calls' \in Seq(Slots)
        /\ \A i \in 1 .. Len(calls') : calls'[i] = i
    BY <1>6, <2>1
  <2> QED BY <1>1, <1>4, <1>6, <2>3, <2>4, AfterUnwind
<1>10. CASE ~(top <= top')
  <2>1. calls' = BelowSelf /\ result' = "exception"
    BY <1>1, <1>3, <1>7, <1>10
  <2>2. /\ Len(calls') \in 0 .. top /\ Len(calls') >= top'
    BY <1>3, <1>5, <1>8, <1>10, <2>1
  <2>3. result' \in {"ok", "exception"} /\ result' # "ok" /\ calls' \in Seq(Slots)
        /\ \A i \in 1 .. Len(calls') : calls'[i] = i
    BY <1>5, <2>1
  <2> QED BY <1>1, <1>4, <1>6, <2>2, <2>3, AfterUnwind
<1> QED BY <1>9, <1>10

\* TASTORE_VALUE, where its own method has a handler.
LEMMA StoreThrowsKeeps ==
  ASSUME Good, Calm, NEW e \in Exception, StoreThrows(e)
  PROVE  Good'
<1>1. /\ MayThrow /\ Unwind(Advanced, top, held, e)
      /\ Matching(Advanced[Self], e) # {}
      /\ UNCHANGED <<calls, result, deeds>>
  BY DEF StoreThrows, Calm
<1>2. calls # <<>> /\ result = "ok"
  BY <1>1, InstructionMayCall
<1>3. /\ Self = top /\ top \in Nat /\ top > 0 /\ Len(calls) = top /\ top \in Slots
  BY <1>2, OnTop
<1>4. /\ memory' \in [Slots -> Frame]
      /\ top' \in 0 .. top
      /\ held' \in [Lock -> Nat]
      /\ uncaught' \in Exception \cup {NoException}
      /\ Balanced' /\ FailureHandled' /\ CallersOffEdge'
      /\ \A p \in top' + 1 .. top : memory'[p].method \notin Native
      /\ \A p \in 1 .. top : memory'[p].valid = "yes" <=> p <= top'
  BY <1>1, ThrownRight
<1>5. /\ calls \in Seq(Slots)
      /\ \A i \in 1 .. Len(calls) : calls[i] = i
      /\ top \in 0 .. Depth /\ Depth \in Nat
  BY FramesAssumption DEF Good, TypeOK, CallsHaveFrames
<1>6. top' = top
  <2>1. top' \in 0 .. top
    BY <1>4
  <2>2. \A p \in top' + 1 .. top : ~Takes(Advanced[p], e)
    <3>1. AboutToCall(Advanced)
      BY <1>1, InstructionMayCall
    <3>2. Advanced \in [Slots -> Frame]
      BY <3>1 DEF AboutToCall
    <3> HIDE DEF Advanced
    <3> QED BY <1>1, <1>5, <3>2, UnwoundFrames
  <2>3. Takes(Advanced[top], e)
    BY <1>1, <1>3 DEF Takes
  <2>4. PICK k \in 0 .. top : k = top'
    BY <2>1
  <2>5. top \notin k + 1 .. top
    BY <2>2, <2>3, <2>4
  <2>6. k = top
    BY <1>3, <2>5
  <2> QED BY <2>4, <2>6
<1>7. /\ Len(calls') \in 0 .. top /\ Len(calls') >= top' /\ Len(calls') = top'
  BY <1>1, <1>3, <1>6
<1>8. result' \in {"ok", "exception"} /\ calls' \in Seq(Slots)
      /\ \A i \in 1 .. Len(calls') : calls'[i] = i
  BY <1>1, <1>2, <1>5
<1> QED BY <1>1, <1>4, <1>5, <1>7, <1>8, AfterUnwind

\* A native method returns with an exception, which is thrown on.
LEMMA NativeRethrowsKeeps ==
  ASSUME Good, NativeRethrows
  PROVE  Good'
<1>1. /\ InNative /\ memory[Self].exception # NoException
      /\ Unwind(memory, top - 1, Exited(MethodOf(Self)), memory[Self].exception)
      /\ calls' = BelowSelf /\ result' = "exception" /\ UNCHANGED deeds
  BY DEF NativeRethrows
<1>2. calls # <<>> /\ result = "ok"
  BY <1>1 DEF InNative
<1>3. /\ Self = top /\ top \in Nat /\ top > 0 /\ Len(calls) = top /\ top \in Slots
      /\ memory[top] \in Frame
  BY <1>2, OnTop
<1>4. /\ memory \in [Slots -> Frame] /\ Depth \in Nat /\ top \in 0 .. Depth
      /\ uncaught \in Exception \cup {NoException}
  BY FramesAssumption DEF Good, TypeOK
<1>5. /\ BelowSelf \in Seq(Slots)
      /\ Len(BelowSelf) = top - 1
      /\ \A i \in 1 .. Len(BelowSelf) : BelowSelf[i] = i
  BY <1>2, <1>3, CurrentCall DEF Good
<1>6. PICK e \in Exception : e = memory[top].exception
  BY <1>1, <1>3 DEF Frame
<1>7. PICK n : n = top - 1
  OBVIOUS
<1>8. n \in 0 .. Depth /\ n \in Nat /\ n <= top
  BY <1>3, <1>4, <1>7
<1>9. PICK h : h = Exited(MethodOf(top))
  OBVIOUS
<1>10. \A l \in Lock : h[l] = Cardinality(Entries(memory, n, l))
  BY <1>3, <1>7, <1>9, ExitedRight DEF Good
<1>11. Unwind(memory, n, h, e)
  BY <1>1, <1>3, <1>6, <1>7, <1>9
<1>12. deeds = {} => \A p \in 1 .. n - 1 : memory[p].method \notin Native => OffEdge(memory[p])
  <2>1. \A p \in 1 .. n - 1 : p \in 1 .. top - 1
    BY <1>3, <1>7
  <2> QED BY <2>1 DEF Good, CallersOffEdge, MethodOf
<1>13. /\ memory' \in [Slots -> Frame]
       /\ top' \in 0 .. n
       /\ held' \in [Lock -> Nat]
       /\ uncaught' \in Exception \cup {NoException}
       /\ Balanced' /\ FailureHandled' /\ CallersOffEdge'
       /\ \A p \in top' + 1 .. n : memory'[p].method \notin Native
       /\ \A p \in 1 .. n :
            memory[p].valid = "yes" => (memory'[p].valid = "yes" <=> p <= top')
  BY <1>1, <1>4, <1>8, <1>10, <1>11, <1>12, UnwoundRight
<1>14. ASSUME NEW p \in 1 .. n PROVE memory'[p].valid = "yes" <=> p <= top'
  <2>1. p \in 1 .. Len(calls) /\ p <= top
    BY <1>3, <1>8
  <2>2. memory[p].valid = "yes"
    BY <2>1 DEF Good, CallsHaveFrames
  <2> QED BY <1>13, <2>2
<1>15. /\ Len(calls') \in 0 .. n /\ Len(calls') >= top'
       /\ result' \in {"ok", "exception"} /\ result' # "ok" /\ calls' \in Seq(Slots)
       /\ \A i \in 1 .. Len(calls') : calls'[i] = i
  <2>1. calls' = BelowSelf /\ result' = "exception" /\ top' \in 0 .. n
    BY <1>1, <1>13
  <2> HIDE DEF BelowSelf
  <2> QED BY <1>5, <1>7, <1>8, <2>1
<1> QED BY <1>1, <1>8, <1>13, <1>14, <1>15, AfterUnwind

-----------------------------------------------------------------------------
(* The theorems.                                                           *)

\* Nothing is entered and nobody called at the start.
LEMMA GoodAtFirst ==
  ASSUME Init
  PROVE  Good
<1>1. /\ memory = [p \in Slots |-> Unused]
      /\ top = 0 /\ calls = <<>> /\ result = "ok"
      /\ held = [l \in Lock |-> 0] /\ uncaught = NoException /\ deeds \in Programs
  BY DEF Init
<1>2. Unused \in Frame
  <2>1. (CHOOSE m \in Method : TRUE) \in Method
    BY FramesAssumption
  <2> QED BY <2>1 DEF Unused, NewFrame, Frame
<1>3. TypeOK
  BY <1>1, <1>2, FramesAssumption DEF TypeOK
<1>4. CallsHaveFrames /\ LeftAreJava /\ FailureHandled /\ CallersOffEdge
  BY <1>1 DEF CallsHaveFrames, LeftAreJava, FailureHandled, CallersOffEdge
<1>5. Balanced
  <2>1. ASSUME NEW l \in Lock PROVE Cardinality(Entries(memory, 0, l)) = 0
    <3>1. Entries(memory, 0, l) = {}
      BY DEF Entries
    <3> QED BY <3>1, FS_EmptySet
  <2> QED BY <1>1, <2>1 DEF Balanced
<1> QED BY <1>3, <1>4, <1>5 DEF Good

\* Every step keeps what is good, in a program that is calm.
LEMMA StepKeepsAll ==
  ASSUME Good, Calm, [Next]_vars
  PROVE  Good'
<1>1. ASSUME NEW m \in Method, Run(m) PROVE Good'
  <2>1. AboutToCall(memory) /\ result = "ok" /\ Fits(m) /\ Push(m, memory)
    BY <1>1, NobodyMayCall DEF Run
  <2> QED BY <2>1, PushKeeps
<1>2. ASSUME NEW m \in Method, Invoke(m) PROVE Good'
  <2>1. MayThrow /\ Fits(m) /\ Push(m, Advanced)
    BY <1>2 DEF Invoke
  <2>2. AboutToCall(Advanced) /\ result = "ok"
    BY <2>1, InstructionMayCall
  <2> HIDE DEF Advanced
  <2> QED BY <2>1, <2>2, PushKeeps
<1>3. ASSUME NEW m \in Method, InvokeFromNative(m) PROVE Good'
  <2>1. InNative /\ Fits(m) /\ Push(m, memory)
    BY <1>3 DEF InvokeFromNative
  <2>2. AboutToCall(memory) /\ result = "ok"
    BY <2>1, NativeMayCall
  <2> QED BY <2>1, <2>2, PushKeeps
<1>4. ASSUME NEW m \in Method, InvokeOverflows(m) PROVE Good'
  <2>1. MayThrow /\ Overflow(m, Advanced)
    BY <1>4 DEF InvokeOverflows
  <2>2. AboutToCall(Advanced) /\ result = "ok"
    BY <2>1, InstructionMayCall
  <2> HIDE DEF Advanced
  <2> QED BY <2>1, <2>2, OverflowKeeps
<1>5. ASSUME NEW m \in Method, NativeOverflows(m) PROVE Good'
  <2>1. InNative /\ Overflow(m, memory)
    BY <1>5 DEF NativeOverflows
  <2>2. AboutToCall(memory) /\ result = "ok"
    BY <2>1, NativeMayCall
  <2> QED BY <2>1, <2>2, OverflowKeeps
<1>6. ASSUME NEW e \in Exception, Throw(e) PROVE Good'
  BY <1>6, ThrowKeeps
<1>7. ASSUME NEW e \in Exception, StoreThrows(e) PROVE Good'
  BY <1>7, StoreThrowsKeeps
<1>8. ASSUME NEW e \in Exception, NativeThrow(e) PROVE Good'
  BY <1>8, NativeExceptionKeeps DEF NativeThrow
<1>9. ASSUME NativeClear PROVE Good'
  BY <1>9, NativeExceptionKeeps DEF NativeClear
<1>10. ASSUME Step PROVE Good'
  BY <1>10, StepKeeps
<1>11. ASSUME Return PROVE Good'
  BY <1>11, PopKeeps DEF Return, InJava
<1>12. ASSUME NativeReturns PROVE Good'
  BY <1>12, PopKeeps DEF NativeReturns, InNative
<1>13. ASSUME NativeRethrows PROVE Good'
  BY <1>13, NativeRethrowsKeeps
<1>14. ASSUME InvokeFailed PROVE Good'
  BY <1>14, InvokeFailedKeeps
<1>15. ASSUME CallFailed PROVE Good'
  BY <1>15, CallFailedKeeps
<1>16. ASSUME ClearUncaught PROVE Good'
  BY <1>16, ClearUncaughtKeeps
<1>17. ASSUME UNCHANGED vars PROVE Good'
  BY <1>17 DEF vars, Good, TypeOK, CallsHaveFrames, Balanced, LeftAreJava, FailureHandled,
               InHandler, CallersOffEdge, MethodOf
<1> QED BY <1>1, <1>2, <1>3, <1>4, <1>5, <1>6, <1>7, <1>8, <1>9, <1>10, <1>11, <1>12,
           <1>13, <1>14, <1>15, <1>16, <1>17 DEF Next

\* A program remains the program it is.
LEMMA DeedsRemain ==
  ASSUME [Next]_vars
  PROVE  deeds' = deeds
BY DEF Next, vars, Run, Invoke, InvokeFromNative, InvokeOverflows, NativeOverflows, Push,
       Overflow, Throw, StoreThrows, NativeThrow, Step, Return, NativeClear, NativeReturns,
       NativeRethrows, InvokeFailed, CallFailed, ClearUncaught

\* The invariant holds in every state of every program that is calm.
LEMMA AlwaysGood == Spec => []IInv
<1>1. Init => IInv
  <2> SUFFICES ASSUME Init PROVE Good
    BY DEF IInv
  <2> QED BY GoodAtFirst
<1>2. IInv /\ [Next]_vars => IInv'
  <2> SUFFICES ASSUME IInv, [Next]_vars, Calm' PROVE Good'
    BY DEF IInv
  <2>1. Calm
    BY DeedsRemain DEF Calm
  <2> QED BY <2>1, StepKeepsAll DEF IInv
<1> QED BY <1>1, <1>2, PTL DEF Spec

\* Every call of the interpreter or of a native method has its frame, in the
\* order of the stack; the calls above the stack's top are those being left
\* (throw_exception, RETURN_ON_UNWIND and BREAK_ON_FAIL together).
THEOREM CallsMatchFrames == Spec => []EveryCallHasItsFrame
<1>1. IInv => EveryCallHasItsFrame
  BY DEF IInv, Good, EveryCallHasItsFrame
<1> QED BY <1>1, AlwaysGood, PTL

\* A lock is held once for every frame on the stack whose method it
\* synchronizes, also when an exception has unwound some of them.
THEOREM LocksAreBalanced == Spec => []LocksBalanced
<1>1. IInv => LocksBalanced
  BY DEF IInv, Good, LocksBalanced, Balanced, Entries, MethodOf
<1> QED BY <1>1, AlwaysGood, PTL

\* The interpreter that goes on after BREAK_ON_FAIL does so where a handler of
\* its method begins.
THEOREM GoesOnRight == Spec => GoesOnInHandler
<1>1. ASSUME IInv, Calm, InvokeFailed, result' = "ok"
      PROVE  \E i \in DOMAIN Handlers[MethodOf(Self)] :
               memory[Self].pc = Handlers[MethodOf(Self)][i].target
  <2>1. Good
    BY <1>1 DEF IInv
  <2>2. result = "exception" /\ calls # <<>> /\ MethodOf(Self) \notin Native
    BY <1>1 DEF InvokeFailed
  <2>3. memory[Self].valid = "yes"
    BY <1>1, <2>2 DEF InvokeFailed
  <2>4. /\ Self = Len(calls) /\ Len(calls) \in Slots /\ Len(calls) \in Nat
        /\ memory[Self].valid = "yes" <=> Len(calls) <= top
    BY <2>1, <2>2, CurrentCall DEF Good
  <2>5. top \in Nat /\ Len(calls) >= top /\ Depth \in Nat
    BY <2>1, FramesAssumption DEF Good, TypeOK, CallsHaveFrames
  <2>6. Self = top /\ top > 0
    BY <2>3, <2>4, <2>5 DEF Slots
  <2>7. InHandler(top)
    BY <2>1, <2>2, <2>6 DEF Good, FailureHandled
  <2> QED BY <2>6, <2>7 DEF InHandler
<1>2. IInv /\ [Next]_vars =>
        [Calm /\ InvokeFailed /\ result' = "ok" =>
           \E i \in DOMAIN Handlers[MethodOf(Self)] :
             memory[Self].pc = Handlers[MethodOf(Self)][i].target]_vars
  BY <1>1
<1> QED BY <1>2, AlwaysGood, PTL DEF Spec, GoesOnInHandler

\* The table is searched with the program counter behind the instruction, which
\* is right for every frame that does not stand at the edge of a range.
LEMMA MatchingIsHandling ==
  ASSUME Good, MayThrow, deeds = {}, NEW e \in Exception, NEW p \in 1 .. top
  PROVE  /\ Advanced[p].method = MethodOf(p)
         /\ MethodOf(p) \notin Native => (Matching(Advanced[p], e) # {} <=> Handles(p, e))
<1>1. AboutToCall(Advanced) /\ calls # <<>> /\ result = "ok"
  BY InstructionMayCall
<1>2. Self = top /\ top \in Slots /\ top \in Nat /\ p \in Slots
  BY <1>1, OnTop, FramesAssumption DEF Slots
<1>3. /\ Advanced \in [Slots -> Frame]
      /\ Advanced[p].method = memory[p].method
      /\ p < top => Advanced[p] = memory[p]
      /\ Advanced[top].pc = memory[top].pc + 1
  BY <1>1, <1>2, AdvancedRight
<1>4. memory[p] \in Frame
  BY <1>2 DEF Good, TypeOK
<1> HIDE DEF Advanced
<1>5. Advanced[p].pc = Instruction(p) + 1 /\ Instruction(p) \in Int
  <2>1. memory[p].pc \in Nat
    BY <1>4 DEF Frame
  <2>2. CASE p = top
    BY <1>3, <2>1, <2>2 DEF Instruction
  <2>3. CASE p # top
    <3>1. p < top
      BY <1>2, <2>3
    <3> QED BY <1>3, <2>1, <2>3, <3>1 DEF Instruction
  <2> QED BY <2>2, <2>3
<1>6. ASSUME MethodOf(p) \notin Native
      PROVE  Matching(Advanced[p], e) # {} <=> Handles(p, e)
  <2>1. OffEdge(Advanced[p])
    BY <1>1, <1>3, <1>6 DEF AboutToCall, MethodOf
  <2> DEFINE H == Handlers[MethodOf(p)]
  <2>2. H \in Seq(Handler)
    BY <1>4, FramesAssumption DEF Frame, MethodOf
  <2>3. ASSUME NEW i \in DOMAIN H
        PROVE  Covers(H[i], Advanced[p].pc) <=> Instruction(p) \in H[i].start .. H[i].end - 1
    <3>1. H[i] \in Handler
      <4> HIDE DEF H
      <4> QED BY <2>2
    <3>2. H[i].start \in Nat /\ H[i].end \in Nat
      BY <3>1 DEF Handler
    <3>3. Advanced[p].pc # H[i].start
      BY <1>3, <2>1 DEF OffEdge, MethodOf
    <3> HIDE DEF H
    <3> QED BY <1>5, <3>2, <3>3 DEF Covers
  <2>4. Matching(Advanced[p], e) =
          {i \in DOMAIN H : Covers(H[i], Advanced[p].pc) /\ e \in H[i].catches}
    BY <1>3 DEF Matching, MethodOf
  <2>5. Handles(p, e) <=>
          \E i \in DOMAIN H :
            e \in H[i].catches /\ Instruction(p) \in H[i].start .. H[i].end - 1
    BY DEF Handles
  <2> HIDE DEF H
  <2> QED BY <2>3, <2>4, <2>5
<1> QED BY <1>3, <1>6 DEF MethodOf

\* What throw_exception looks for with the advanced program counters is the
\* innermost frame that shall receive the exception.
THEOREM HandlersAreRight == Spec => RightHandler
<1>1. ASSUME IInv, deeds = {}, NEW e \in Exception, Throw(e) \/ StoreThrows(e)
      PROVE  /\ top' > 0 => Receives(top', e)
             /\ \A p \in top' + 1 .. top : ~Receives(p, e)
  <2>1. Good
    BY <1>1 DEF IInv, Calm
  <2>2. MayThrow /\ Unwind(Advanced, top, held, e)
    BY <1>1 DEF Throw, StoreThrows
  <2>3. AboutToCall(Advanced)
    BY <2>1, <2>2, InstructionMayCall
  <2>4. Advanced \in [Slots -> Frame] /\ top \in 0 .. Depth /\ top \in Nat
    BY <2>1, <2>3, FramesAssumption DEF AboutToCall, Good, TypeOK
  <2> HIDE DEF Advanced
  <2>5. /\ top' \in 0 .. top
        /\ top' > 0 => Takes(Advanced[top'], e)
        /\ \A p \in top' + 1 .. top : ~Takes(Advanced[p], e)
    BY <2>2, <2>4, UnwoundFrames
  <2>6. ASSUME NEW p \in 1 .. top PROVE Takes(Advanced[p], e) <=> Receives(p, e)
    BY <1>1, <2>1, <2>2, MatchingIsHandling DEF Takes, Receives
  <2>7. PICK k \in 0 .. top : k = top'
    BY <2>5
  <2>8. k > 0 => k \in 1 .. top
    BY <2>4
  <2>9. \A p \in k + 1 .. top : p \in 1 .. top
    BY <2>4
  <2> QED BY <2>5, <2>6, <2>7, <2>8, <2>9
<1>2. IInv /\ [Next]_vars =>
        [deeds = {} => \A e \in Exception : Throw(e) \/ StoreThrows(e) =>
           /\ top' > 0 => Receives(top', e)
           /\ \A p \in top' + 1 .. top : ~Receives(p, e)]_vars
  BY <1>1
<1> QED BY <1>2, AlwaysGood, PTL DEF Spec, RightHandler
=============================================================================
