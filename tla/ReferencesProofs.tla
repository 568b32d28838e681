-------------------------- MODULE ReferencesProofs --------------------------
(***************************************************************************)
(* Theorems about module References, for any number of threads, objects,   *)
(* frames and references.                                                  *)
(*                                                                         *)
(* The invariant is stated for a container h of objects and a set u of     *)
(* unlisted ones, because a step does two things at most: it changes the   *)
(* container (Allocate, a collection), after which all that is held must   *)
(* still be there, and it changes what is held, out of what is there.      *)
(***************************************************************************)
EXTENDS References, SequenceTheorems, FiniteSetTheorems, TLAPS

\* Bags of references to some objects.
RefsTo(S) == UNION {[D -> Nat \ {0}] : D \in SUBSET S}

\* What a reference may name: an object that is there, or one not listed.
There(h, u) == h \cup u \cup {Null}

FrameOf(h, u) ==
  [type : {"java", "native"}, localReferences : RefsTo(h \cup u), held : RefsTo(h \cup u),
   local : There(h, u), exception : There(h, u), wanted : BOOLEAN]

\* A list has no more of an object than is held, and no less if it is listed.
Lists(o, listed, held, u) == listed <= held /\ (o \notin u => listed = held)

\* A frame of which all that it holds is there, and listed in it.
Good(h, u) ==
  {f \in FrameOf(h, u) :
     /\ f.type = "java" => f.localReferences = EmptyBag /\ f.held = EmptyBag
     /\ f.type = "native" => f.local = Null
     /\ \A o \in Object : Lists(o, Copies(o, f.localReferences), Copies(o, f.held), u)}

FramesInv(h, u) ==
  /\ frames \in [Thread -> Seq(Good(h, u))]
  /\ \A t \in Thread : Len(frames[t]) <= Depth[t]

OutsideInv(h, u) ==
  /\ vmLocals \in RefsTo(h \cup u) /\ base \in [Thread -> RefsTo(h \cup u)]
  /\ \A o \in Object : /\ IsFiniteSet(HeldOutside(o))
                      /\ Lists(o, Copies(o, vmLocals), Cardinality(HeldOutside(o)), u)

RestInv(h, u) ==
  /\ place \in There(h, u) /\ globals \in RefsTo(h \cup u)
  /\ uncaught \in [Thread -> There(h, u)]
  /\ doing \in [Thread -> [what : Doings, object : There(h, u)]]

Inv(h, u) == FramesInv(h, u) /\ OutsideInv(h, u) /\ RestInv(h, u)

IInv == heap \subseteq Object /\ unlisted \subseteq Object /\ Inv(heap, unlisted)

-----------------------------------------------------------------------------
(* Bags of references.                                                     *)

\* The empty bag is one, and so is that of a single reference.
LEMMA FirstBags ==
  ASSUME NEW S
  PROVE  /\ EmptyBag \in RefsTo(S) /\ \A o : Copies(o, EmptyBag) = 0
         /\ \A o \in S : SetToBag({o}) \in RefsTo(S)
<1>1. EmptyBag \in [{} -> Nat \ {0}] /\ \A o : Copies(o, EmptyBag) = 0
  BY DEF EmptyBag, SetToBag, Copies, BagIn, BagToSet
<1>2. ASSUME NEW o \in S PROVE SetToBag({o}) \in [{o} -> Nat \ {0}]
  BY DEF SetToBag
<1>3. EmptyBag \in RefsTo(S)
  BY <1>1 DEF RefsTo
<1>4. ASSUME NEW o \in S PROVE SetToBag({o}) \in RefsTo(S)
  <2>1. {o} \in SUBSET S
    OBVIOUS
  <2> QED BY <1>2, <2>1 DEF RefsTo
<1> QED BY <1>1, <1>3, <1>4

\* What the parts of a bag are.
LEMMA BagParts ==
  ASSUME NEW S, NEW B \in RefsTo(S)
  PROVE  /\ IsABag(B) /\ BagToSet(B) \subseteq S
         /\ B \in [DOMAIN B -> Nat \ {0}] /\ DOMAIN B \subseteq S
         /\ \A o : Copies(o, B) \in Nat /\ (Copies(o, B) > 0 <=> o \in BagToSet(B))
<1>1. PICK D \in SUBSET S : B \in [D -> Nat \ {0}]
  BY DEF RefsTo
<1>2. DOMAIN B = D
  BY <1>1
<1> QED BY <1>1, <1>2 DEF IsABag, BagToSet, Copies, BagIn

\* A bag of references to some objects is one of references to more.
LEMMA BagMore ==
  ASSUME NEW S, NEW T, S \subseteq T PROVE RefsTo(S) \subseteq RefsTo(T)
BY DEF RefsTo

\* ... and to all those of them that it has.
LEMMA BagLess ==
  ASSUME NEW S, NEW T, NEW B \in RefsTo(S), BagToSet(B) \subseteq T PROVE B \in RefsTo(T)
<1>1. B \in [DOMAIN B -> Nat \ {0}]
  BY BagParts
<1> QED BY <1>1 DEF RefsTo, BagToSet

\* A reference more is one copy more of its object.
LEMMA BagAdds ==
  ASSUME NEW S, NEW B \in RefsTo(S), NEW x \in S
  PROVE  /\ B (+) SetToBag({x}) \in RefsTo(S)
         /\ \A o : Copies(o, B (+) SetToBag({x})) = Copies(o, B) + IF o = x THEN 1 ELSE 0
<1> DEFINE C == B (+) SetToBag({x})
<1>1. B \in [DOMAIN B -> Nat \ {0}] /\ DOMAIN B \subseteq S
  BY BagParts
<1>2. C = [e \in DOMAIN B \cup {x} |->
            (IF e \in DOMAIN B THEN B[e] ELSE 0) + (IF e = x THEN 1 ELSE 0)]
  BY DEF (+), SetToBag
<1> HIDE DEF C
<1>3. C \in [DOMAIN B \cup {x} -> Nat \ {0}]
  BY <1>1, <1>2
<1>4. ASSUME NEW o PROVE Copies(o, C) = Copies(o, B) + IF o = x THEN 1 ELSE 0
  BY <1>1, <1>2 DEF Copies, BagIn, BagToSet
<1>5. C \in RefsTo(S)
  BY <1>1, <1>3 DEF RefsTo
<1> QED BY <1>4, <1>5 DEF C

\* A reference less is one copy less, if there was one.
LEMMA BagRemoves ==
  ASSUME NEW S, NEW B \in RefsTo(S), NEW x
  PROVE  /\ B (-) SetToBag({x}) \in RefsTo(S)
         /\ \A o : Copies(o, B (-) SetToBag({x})) =
                     IF o = x /\ Copies(x, B) > 0 THEN Copies(o, B) - 1 ELSE Copies(o, B)
<1> DEFINE less == [e \in DOMAIN B |-> IF e = x THEN B[e] - 1 ELSE B[e]]
           C == B (-) SetToBag({x})
<1>1. B \in [DOMAIN B -> Nat \ {0}] /\ DOMAIN B \subseteq S
  BY BagParts
<1>2. C = [e \in {d \in DOMAIN B : less[d] > 0} |-> less[e]]
  BY DEF (-), SetToBag
<1> HIDE DEF C
<1>3. /\ \A e : e \in DOMAIN C <=> e \in DOMAIN B /\ (e = x => B[e] > 1)
      /\ \A e \in DOMAIN C : C[e] = IF e = x THEN B[e] - 1 ELSE B[e]
  BY <1>1, <1>2
<1>4. ASSUME NEW o
      PROVE  Copies(o, C) =
               IF o = x /\ Copies(x, B) > 0 THEN Copies(o, B) - 1 ELSE Copies(o, B)
  <2>1. CASE o \in DOMAIN B
    BY <1>1, <1>3, <2>1 DEF Copies, BagIn, BagToSet
  <2>2. CASE o \notin DOMAIN B
    BY <1>1, <1>3, <2>2 DEF Copies, BagIn, BagToSet
  <2> QED BY <2>1, <2>2
<1>5. C \in [DOMAIN C -> Nat \ {0}] /\ DOMAIN C \subseteq S
  BY <1>1, <1>2
<1>6. C \in RefsTo(S)
  BY <1>5 DEF RefsTo
<1> QED BY <1>4, <1>6 DEF C

-----------------------------------------------------------------------------
(* Frames that hold what is there.                                         *)

\* What the parts of a good frame are.
LEMMA GoodParts ==
  ASSUME NEW h, NEW u, NEW f \in Good(h, u)
  PROVE  /\ f \in FrameOf(h, u)
         /\ f.type \in {"java", "native"} /\ f.wanted \in BOOLEAN
         /\ f.localReferences \in RefsTo(h \cup u) /\ f.held \in RefsTo(h \cup u)
         /\ f.local \in There(h, u) /\ f.exception \in There(h, u)
         /\ f.type = "java" => f.localReferences = EmptyBag /\ f.held = EmptyBag
         /\ f.type = "native" => f.local = Null
         /\ \A o \in Object : Lists(o, Copies(o, f.localReferences), Copies(o, f.held), u)
BY DEF Good, FrameOf

\* A frame that gets an exception, or a Java frame that gets a value.
LEMMA GoodValues ==
  ASSUME NEW h, NEW u, NEW f \in Good(h, u), NEW v \in There(h, u)
  PROVE  /\ [f EXCEPT !.exception = v] \in Good(h, u)
         /\ f.type = "java" => [f EXCEPT !.local = v] \in Good(h, u)
<1>0. f \in FrameOf(h, u)
  BY GoodParts
<1>1. /\ f.type = "native" => f.local = Null
      /\ f.type = "java" => f.localReferences = EmptyBag /\ f.held = EmptyBag
      /\ \A o \in Object : Lists(o, Copies(o, f.localReferences), Copies(o, f.held), u)
  BY GoodParts
<1>2. [f EXCEPT !.exception = v] \in FrameOf(h, u)
  BY <1>0 DEF FrameOf
<1>3. [f EXCEPT !.local = v] \in FrameOf(h, u)
  BY <1>0 DEF FrameOf
<1>4. [f EXCEPT !.exception = v] \in Good(h, u)
  BY <1>0, <1>1, <1>2 DEF Good, FrameOf
<1>5. f.type = "java" => [f EXCEPT !.local = v] \in Good(h, u)
  BY <1>0, <1>1, <1>3 DEF Good, FrameOf
<1> QED BY <1>4, <1>5

\* A frame whose list and whose code get a reference.
LEMMA GoodAdds ==
  ASSUME NEW h, NEW u, NEW f \in Good(h, u), f.type = "native", NEW x \in h \cup u
  PROVE  [f EXCEPT !.localReferences = @ (+) SetToBag({x}), !.held = @ (+) SetToBag({x})]
           \in Good(h, u)
<1> DEFINE a == f.localReferences (+) SetToBag({x})
           b == f.held (+) SetToBag({x})
<1>0. /\ f \in FrameOf(h, u) /\ f.local = Null
      /\ f.localReferences \in RefsTo(h \cup u) /\ f.held \in RefsTo(h \cup u)
  BY GoodParts
<1>1. /\ a \in RefsTo(h \cup u)
      /\ \A o : Copies(o, a) = Copies(o, f.localReferences) + IF o = x THEN 1 ELSE 0
  BY <1>0, BagAdds
<1>2. /\ b \in RefsTo(h \cup u)
      /\ \A o : Copies(o, b) = Copies(o, f.held) + IF o = x THEN 1 ELSE 0
  BY <1>0, BagAdds
<1> HIDE DEF a, b
<1>3. ASSUME NEW o \in Object PROVE Lists(o, Copies(o, a), Copies(o, b), u)
  <2>1. Lists(o, Copies(o, f.localReferences), Copies(o, f.held), u)
    BY GoodParts
  <2>2. Copies(o, f.localReferences) \in Nat /\ Copies(o, f.held) \in Nat
    BY <1>0, BagParts
  <2> QED BY <1>1, <1>2, <2>1, <2>2 DEF Lists
<1>4. [f EXCEPT !.localReferences = a, !.held = b] \in FrameOf(h, u)
  BY <1>0, <1>1, <1>2 DEF FrameOf
<1>5. [f EXCEPT !.localReferences = a, !.held = b] \in Good(h, u)
  BY <1>0, <1>3, <1>4 DEF Good, FrameOf
<1> QED BY <1>5 DEF a, b

\* A frame whose code gets a reference to an object that is not listed.
LEMMA GoodHolds ==
  ASSUME NEW h, NEW u, NEW f \in Good(h, u), f.type = "native", NEW x \in u
  PROVE  [f EXCEPT !.held = @ (+) SetToBag({x})] \in Good(h, u)
<1> DEFINE b == f.held (+) SetToBag({x})
<1>0. /\ f \in FrameOf(h, u) /\ f.local = Null
      /\ f.localReferences \in RefsTo(h \cup u) /\ f.held \in RefsTo(h \cup u)
  BY GoodParts
<1>1. /\ b \in RefsTo(h \cup u)
      /\ \A o : Copies(o, b) = Copies(o, f.held) + IF o = x THEN 1 ELSE 0
  BY <1>0, BagAdds
<1> HIDE DEF b
<1>2. ASSUME NEW o \in Object PROVE Lists(o, Copies(o, f.localReferences), Copies(o, b), u)
  <2>1. Lists(o, Copies(o, f.localReferences), Copies(o, f.held), u)
    BY GoodParts
  <2>2. Copies(o, f.localReferences) \in Nat /\ Copies(o, f.held) \in Nat
    BY <1>0, BagParts
  <2> QED BY <1>1, <2>1, <2>2 DEF Lists
<1>3. [f EXCEPT !.held = b] \in FrameOf(h, u)
  BY <1>0, <1>1 DEF FrameOf
<1>4. [f EXCEPT !.held = b] \in Good(h, u)
  BY <1>0, <1>2, <1>3 DEF Good, FrameOf
<1> QED BY <1>4 DEF b

\* A frame whose list and whose code give a reference back.
LEMMA GoodRemoves ==
  ASSUME NEW h, NEW u, NEW f \in Good(h, u), f.type = "native", NEW x \in BagToSet(f.held)
  PROVE  [f EXCEPT !.localReferences = @ (-) SetToBag({x}), !.held = @ (-) SetToBag({x})]
           \in Good(h, u)
<1> DEFINE a == f.localReferences (-) SetToBag({x})
           b == f.held (-) SetToBag({x})
<1>0. /\ f \in FrameOf(h, u) /\ f.local = Null
      /\ f.localReferences \in RefsTo(h \cup u) /\ f.held \in RefsTo(h \cup u)
  BY GoodParts
<1>1. /\ a \in RefsTo(h \cup u)
      /\ \A o : Copies(o, a) = IF o = x /\ Copies(x, f.localReferences) > 0
                                THEN Copies(o, f.localReferences) - 1
                                ELSE Copies(o, f.localReferences)
  BY <1>0, BagRemoves
<1>2. /\ b \in RefsTo(h \cup u)
      /\ \A o : Copies(o, b) = IF o = x /\ Copies(x, f.held) > 0
                                THEN Copies(o, f.held) - 1 ELSE Copies(o, f.held)
  BY <1>0, BagRemoves
<1>3. Copies(x, f.held) > 0
  BY <1>0, BagParts
<1> HIDE DEF a, b
<1>4. ASSUME NEW o \in Object PROVE Lists(o, Copies(o, a), Copies(o, b), u)
  <2>1. Lists(o, Copies(o, f.localReferences), Copies(o, f.held), u)
    BY GoodParts
  <2>2. Copies(o, f.localReferences) \in Nat /\ Copies(o, f.held) \in Nat
    BY <1>0, BagParts
  <2> QED BY <1>1, <1>2, <1>3, <2>1, <2>2 DEF Lists
<1>5. [f EXCEPT !.localReferences = a, !.held = b] \in FrameOf(h, u)
  BY <1>0, <1>1, <1>2 DEF FrameOf
<1>6. [f EXCEPT !.localReferences = a, !.held = b] \in Good(h, u)
  BY <1>0, <1>4, <1>5 DEF Good, FrameOf
<1> QED BY <1>6 DEF a, b

\* The frame of a method that is called with an object.
LEMMA GoodCalls ==
  ASSUME NEW h, NEW u, NEW w \in BOOLEAN
  PROVE  /\ \A x \in There(h, u) : JavaFrame(x, w) \in Good(h, u)
         /\ NativeFrame(w) \in Good(h, u)
<1>0. /\ EmptyBag \in RefsTo(h \cup u) /\ \A o : Copies(o, EmptyBag) = 0
      /\ Null \in There(h, u)
  BY FirstBags DEF There
<1>1. ASSUME NEW x \in There(h, u) PROVE JavaFrame(x, w) \in Good(h, u)
  <2>1. JavaFrame(x, w) \in FrameOf(h, u)
    BY <1>0 DEF JavaFrame, FrameOf
  <2> QED BY <1>0, <2>1 DEF JavaFrame, Good, Lists
<1>2. NativeFrame(w) \in Good(h, u)
  <2>1. NativeFrame(w) \in FrameOf(h, u)
    BY <1>0 DEF NativeFrame, FrameOf
  <2> QED BY <1>0, <2>1 DEF NativeFrame, Good, Lists
<1> QED BY <1>1, <1>2

-----------------------------------------------------------------------------
(* What a step does to the frames of its thread.                           *)

\* Another sequence of good frames for t, no longer than t may have.
LEMMA FramesChange ==
  ASSUME NEW h, NEW u, FramesInv(h, u), NEW t \in Thread,
         NEW s \in Seq(Good(h, u)), Len(s) <= Depth[t], frames' = [frames EXCEPT ![t] = s]
  PROVE  FramesInv(h, u)'
BY DEF FramesInv

\* The frame on top is a good one.
LEMMA TopIsGood ==
  ASSUME NEW h, NEW u, FramesInv(h, u), NEW t \in Thread, frames[t] # <<>>
  PROVE  /\ frames[t] \in Seq(Good(h, u)) /\ Top(t) \in Good(h, u)
         /\ Len(frames[t]) \in 1 .. Depth[t]
         /\ \A i \in 1 .. Len(frames[t]) : frames[t][i] \in Good(h, u)
<1>1. frames[t] \in Seq(Good(h, u)) /\ Len(frames[t]) <= Depth[t] /\ Depth[t] \in Nat
  BY ReferencesAssumption DEF FramesInv
<1>2. Len(frames[t]) \in Nat \ {0}
  BY <1>1, EmptySeq
<1>3. \A i \in 1 .. Len(frames[t]) : frames[t][i] \in Good(h, u)
  BY <1>1, ElementOfSeq
<1> QED BY <1>1, <1>2, <1>3 DEF Top, Last

\* Another good frame on top.
LEMMA SetTopKeeps ==
  ASSUME NEW h, NEW u, FramesInv(h, u), NEW t \in Thread, frames[t] # <<>>,
         NEW f \in Good(h, u), frames' = SetTop(t, f)
  PROVE  FramesInv(h, u)'
<1> DEFINE s == [frames[t] EXCEPT ![Len(frames[t])] = f]
<1>1. frames[t] \in Seq(Good(h, u)) /\ Len(frames[t]) \in 1 .. Len(frames[t])
  BY TopIsGood
<1>2. s \in Seq(Good(h, u)) /\ Len(s) = Len(frames[t])
  BY <1>1, ExceptSeq
<1>3. frames' = [frames EXCEPT ![t] = s]
  BY DEF SetTop
<1> HIDE DEF s
<1> QED BY <1>2, <1>3, FramesChange DEF FramesInv

\* A call of a method with an object.
LEMMA PushKeeps ==
  ASSUME NEW h, NEW u, FramesInv(h, u), NEW t \in Thread, NEW x \in There(h, u),
         NEW type, NEW w \in BOOLEAN, Push(t, x, type, w)
  PROVE  /\ FramesInv(h, u)'
         /\ \E v \in There(h, u), d \in Doings :
              doing' = [doing EXCEPT ![t] = [what |-> d, object |-> v]]
<1>1. PICK f \in Good(h, u) : frames' = [frames EXCEPT ![t] = Append(@, f)]
  BY GoodCalls DEF Push
<1>2. frames[t] \in Seq(Good(h, u)) /\ Len(frames[t]) \in Nat
  BY LenProperties DEF FramesInv
<1>3. /\ Append(frames[t], f) \in Seq(Good(h, u))
      /\ Len(Append(frames[t], f)) = Len(frames[t]) + 1
  BY <1>2, AppendProperties
<1>4. Len(frames[t]) + 1 <= Depth[t]
  BY <1>2, ReferencesAssumption DEF Push
<1>5. frames' = [frames EXCEPT ![t] = Append(frames[t], f)]
  BY <1>1
<1>6. FramesInv(h, u)'
  BY <1>3, <1>4, <1>5, FramesChange
<1>7. \E v \in There(h, u), d \in Doings :
        doing' = [doing EXCEPT ![t] = [what |-> d, object |-> v]]
  <2>1. Null \in There(h, u) /\ "enter" \in Doings /\ "code" \in Doings
    BY DEF There, Doings
  <2>2. \/ doing' = [doing EXCEPT ![t] = [what |-> "enter", object |-> x]]
        \/ doing' = [doing EXCEPT ![t] = [what |-> "code", object |-> Null]]
    BY DEF Push, Then, Code
  <2> QED BY <2>1, <2>2
<1> QED BY <1>6, <1>7

\* Fewer frames are good frames.
LEMMA FrontIsGood ==
  ASSUME NEW h, NEW u, FramesInv(h, u), NEW t \in Thread, frames[t] # <<>>
  PROVE  /\ Front(frames[t]) \in Seq(Good(h, u))
         /\ Len(Front(frames[t])) = Len(frames[t]) - 1
         /\ Len(Front(frames[t])) < Depth[t]
<1>1. /\ Len(frames[t]) \in 1 .. Depth[t] /\ Depth[t] \in Nat
      /\ \A i \in 1 .. Len(frames[t]) : frames[t][i] \in Good(h, u)
  BY TopIsGood, ReferencesAssumption
<1>2. /\ SubSeq(frames[t], 1, Len(frames[t]) - 1) \in Seq(Good(h, u))
      /\ Len(SubSeq(frames[t], 1, Len(frames[t]) - 1)) =
           IF 1 <= Len(frames[t]) - 1 THEN Len(frames[t]) - 1 - 1 + 1 ELSE 0
  BY <1>1, SubSeqProperties
<1> QED BY <1>1, <1>2 DEF Front

\* A good frame on top of the first ones of a sequence.
LEMMA CutIsGood ==
  ASSUME NEW S, NEW s \in Seq(S), NEW i \in 1 .. Len(s), NEW f \in S
  PROVE  /\ Append(SubSeq(s, 1, i - 1), f) \in Seq(S)
         /\ Len(Append(SubSeq(s, 1, i - 1), f)) = i
<1>1. \A j \in 1 .. i - 1 : s[j] \in S
  BY ElementOfSeq, LenProperties
<1>2. /\ SubSeq(s, 1, i - 1) \in Seq(S)
      /\ Len(SubSeq(s, 1, i - 1)) = IF 1 <= i - 1 THEN i - 1 - 1 + 1 ELSE 0
  BY <1>1, LenProperties, SubSeqProperties
<1>3. Len(SubSeq(s, 1, i - 1)) = i - 1
  BY <1>2, LenProperties
<1> QED BY <1>2, <1>3, AppendProperties, LenProperties

\* The result of a method goes to the frame below, if there is a Java one.
LEMMA DeliverKeeps ==
  ASSUME NEW h, NEW u, FramesInv(h, u), NEW t \in Thread, frames[t] # <<>>,
         NEW v \in There(h, u), NEW w, Deliver(t, Front(frames[t]), w, v)
  PROVE  FramesInv(h, u)'
<1> DEFINE r == Front(frames[t])
<1>1. /\ r \in Seq(Good(h, u)) /\ Len(r) = Len(frames[t]) - 1 /\ Len(r) < Depth[t]
      /\ Len(r) \in Nat /\ Depth[t] \in Nat
  BY FrontIsGood, LenProperties, ReferencesAssumption
<1> HIDE DEF r
<1>2. CASE r # <<>> /\ Last(r).type = "java"
  <2>1. /\ Len(r) \in 1 .. Len(r) /\ r[Len(r)] \in Good(h, u) /\ r[Len(r)].type = "java"
    BY <1>1, <1>2, EmptySeq, ElementOfSeq DEF Last
  <2> DEFINE f == [r[Len(r)] EXCEPT !.local = v]
  <2>2. f \in Good(h, u)
    BY <2>1, GoodValues
  <2> HIDE DEF f
  <2>3. /\ SubSeq(r, 1, Len(r) - 1) \in Seq(Good(h, u))
        /\ Len(SubSeq(r, 1, Len(r) - 1)) = Len(r) - 1
    <3>1. \A i \in 1 .. Len(r) - 1 : r[i] \in Good(h, u)
      BY <1>1, ElementOfSeq
    <3>2. /\ SubSeq(r, 1, Len(r) - 1) \in Seq(Good(h, u))
          /\ Len(SubSeq(r, 1, Len(r) - 1)) = IF 1 <= Len(r) - 1 THEN Len(r) - 1 - 1 + 1 ELSE 0
      BY <1>1, <3>1, SubSeqProperties
    <3> QED BY <1>1, <2>1, <3>2
  <2>4. <<f>> \in Seq(Good(h, u)) /\ Len(<<f>>) = 1
    BY <2>2
  <2> DEFINE s == SubSeq(r, 1, Len(r) - 1) \o <<f>>
  <2>5. s \in Seq(Good(h, u)) /\ Len(s) = Len(r)
    BY <1>1, <2>3, <2>4, ConcatProperties
  <2>6. frames' = [frames EXCEPT ![t] = s]
    BY <1>2 DEF Deliver, Front, Last, r, f
  <2> HIDE DEF s
  <2>7. Len(s) <= Depth[t]
    BY <1>1, <2>5
  <2> QED BY <2>5, <2>6, <2>7, FramesChange
<1>3. CASE ~(r # <<>> /\ Last(r).type = "java")
  <2>1. frames' = [frames EXCEPT ![t] = r]
    BY <1>3 DEF Deliver, r
  <2>2. Len(r) <= Depth[t]
    BY <1>1
  <2> QED BY <1>1, <2>1, <2>2, FramesChange
<1> QED BY <1>2, <1>3

\* The frames that t could have.
MayBeFrames(r, t, h, u) == r \in Seq(Good(h, u)) /\ Len(r) <= Depth[t]

\* Frames are left until one takes the exception, which gets it.
LEMMA UnwindKeeps ==
  ASSUME NEW h, NEW u, FramesInv(h, u), NEW t \in Thread,
         NEW r, MayBeFrames(r, t, h, u), NEW v \in There(h, u), Unwind(t, r, v)
  PROVE  /\ FramesInv(h, u)'
         /\ UNCHANGED uncaught \/ uncaught' = [uncaught EXCEPT ![t] = v]
<1>0. r \in Seq(Good(h, u)) /\ Len(r) \in Nat /\ Depth[t] \in Nat /\ Len(r) <= Depth[t]
  BY LenProperties, ReferencesAssumption DEF MayBeFrames
<1>1. ASSUME NEW i \in 1 .. Len(r), NEW f \in Good(h, u),
             frames' = [frames EXCEPT ![t] = Append(SubSeq(r, 1, i - 1), f)]
      PROVE  FramesInv(h, u)'
  <2> DEFINE s == Append(SubSeq(r, 1, i - 1), f)
  <2>1. s \in Seq(Good(h, u)) /\ Len(s) = i
    BY <1>0, CutIsGood
  <2>2. frames' = [frames EXCEPT ![t] = s]
    BY <1>1
  <2> HIDE DEF s
  <2>3. Len(s) <= Depth[t]
    BY <1>0, <2>1
  <2> QED BY <2>1, <2>2, <2>3, FramesChange
<1>2. ASSUME NEW i \in 1 .. Len(r), \A j \in i .. Len(r) : r[j].type = "java",
             frames' = [frames EXCEPT ![t] =
                          Append(SubSeq(r, 1, i - 1), [r[i] EXCEPT !.local = v])]
      PROVE  FramesInv(h, u)'
  <2>1. r[i] \in Good(h, u) /\ r[i].type = "java"
    BY <1>0, <1>2, ElementOfSeq
  <2>2. [r[i] EXCEPT !.local = v] \in Good(h, u)
    BY <2>1, GoodValues
  <2> QED BY <1>1, <1>2, <2>2
<1>3. ASSUME NEW i \in 1 .. Len(r),
             frames' = [frames EXCEPT ![t] =
                          Append(SubSeq(r, 1, i - 1), [r[i] EXCEPT !.exception = v])]
      PROVE  FramesInv(h, u)'
  <2>1. [r[i] EXCEPT !.exception = v] \in Good(h, u)
    BY <1>0, ElementOfSeq, GoodValues
  <2> QED BY <1>1, <1>3, <2>1
<1>4. ASSUME frames' = [frames EXCEPT ![t] = <<>>] PROVE FramesInv(h, u)'
  <2>1. <<>> \in Seq(Good(h, u)) /\ Len(<<>>) <= Depth[t]
    BY <1>0, EmptySeq
  <2> QED BY <1>4, <2>1, FramesChange
<1> QED BY <1>2, <1>3, <1>4 DEF Unwind

-----------------------------------------------------------------------------
(* What code outside frames holds, and the list of the virtual machine.    *)

\* The references to o that code outside frames holds where b is what it holds.
OutsideOf(b, o) == UNION {{t} \X (1 .. Copies(o, b[t])) : t \in Thread}

\* HeldOutside is that of base.
LEMMA OutsideIs ==
  ASSUME NEW o
  PROVE  HeldOutside(o) = OutsideOf(base, o) /\ HeldOutside(o)' = OutsideOf(base', o)
BY DEF HeldOutside, OutsideOf

\* The references that a thread counts.
LEMMA OutsideParts ==
  ASSUME NEW b, NEW o
  PROVE  \A e : e \in OutsideOf(b, o) <=>
           \E t \in Thread : \E n \in 1 .. Copies(o, b[t]) : e = <<t, n>>
BY DEF OutsideOf

\* The other threads hold as many references to o in b as in c.
SameElsewhere(b, c, t, o) ==
  \A r \in Thread \ {t} : Copies(o, c[r]) = Copies(o, b[r])

\* A thread has a reference more to o.
LEMMA OutsideMore ==
  ASSUME NEW b, NEW c, NEW t \in Thread, NEW o, IsFiniteSet(OutsideOf(b, o)),
         Copies(o, b[t]) \in Nat, Copies(o, c[t]) = Copies(o, b[t]) + 1,
         SameElsewhere(b, c, t, o)
  PROVE  /\ IsFiniteSet(OutsideOf(c, o))
         /\ Cardinality(OutsideOf(c, o)) = Cardinality(OutsideOf(b, o)) + 1
<1> DEFINE new == <<t, Copies(o, b[t]) + 1>>
<1>1. 1 .. Copies(o, c[t]) = (1 .. Copies(o, b[t])) \cup {Copies(o, b[t]) + 1}
  OBVIOUS
<1>2. ASSUME NEW r \in Thread, NEW n
      PROVE  n \in 1 .. Copies(o, c[r]) <=>
               n \in 1 .. Copies(o, b[r]) \/ <<r, n>> = new
  BY <1>1 DEF SameElsewhere
<1>3. OutsideOf(c, o) = OutsideOf(b, o) \cup {new}
  <2>1. \A e : e \in OutsideOf(b, o) <=>
          \E r \in Thread : \E n \in 1 .. Copies(o, b[r]) : e = <<r, n>>
    BY OutsideParts
  <2>2. \A e : e \in OutsideOf(c, o) <=>
          \E r \in Thread : \E n \in 1 .. Copies(o, c[r]) : e = <<r, n>>
    BY OutsideParts
  <2>3. Copies(o, b[t]) + 1 \in 1 .. Copies(o, c[t])
    BY <1>1
  <2> QED BY <1>2, <2>1, <2>2, <2>3
<1>4. new \notin OutsideOf(b, o)
  BY OutsideParts
<1> HIDE DEF new
<1> QED BY <1>3, <1>4, FS_AddElement
\* A thread has a reference less to o: the other way around.
LEMMA OutsideLess ==
  ASSUME NEW b, NEW c, NEW t \in Thread, NEW o, IsFiniteSet(OutsideOf(b, o)),
         Copies(o, c[t]) \in Nat, Copies(o, b[t]) = Copies(o, c[t]) + 1,
         SameElsewhere(b, c, t, o)
  PROVE  /\ IsFiniteSet(OutsideOf(c, o))
         /\ Cardinality(OutsideOf(c, o)) = Cardinality(OutsideOf(b, o)) - 1
<1>1. \A n : n \in 1 .. Copies(o, c[t]) => n \in 1 .. Copies(o, b[t])
  OBVIOUS
<1>2. OutsideOf(c, o) \subseteq OutsideOf(b, o)
  <2>1. \A e : e \in OutsideOf(b, o) <=>
          \E r \in Thread : \E n \in 1 .. Copies(o, b[r]) : e = <<r, n>>
    BY OutsideParts
  <2>2. \A e : e \in OutsideOf(c, o) <=>
          \E r \in Thread : \E n \in 1 .. Copies(o, c[r]) : e = <<r, n>>
    BY OutsideParts
  <2> QED BY <1>1, <2>1, <2>2 DEF SameElsewhere
<1>3. IsFiniteSet(OutsideOf(c, o))
  BY <1>2, FS_Subset
<1>4. Cardinality(OutsideOf(b, o)) = Cardinality(OutsideOf(c, o)) + 1
  <2>1. SameElsewhere(c, b, t, o)
    BY DEF SameElsewhere
  <2> QED BY <1>3, <2>1, OutsideMore
<1>5. Cardinality(OutsideOf(c, o)) \in Nat
  BY <1>3, FS_CardinalityType
<1> QED BY <1>3, <1>4, <1>5

\* Threads that have as many as before.
LEMMA OutsideSame ==
  ASSUME NEW b, NEW c, NEW o, \A r \in Thread : Copies(o, c[r]) = Copies(o, b[r])
  PROVE  OutsideOf(c, o) = OutsideOf(b, o)
<1>1. \A e : e \in OutsideOf(b, o) <=>
        \E r \in Thread : \E n \in 1 .. Copies(o, b[r]) : e = <<r, n>>
  BY OutsideParts
<1>2. \A e : e \in OutsideOf(c, o) <=>
        \E r \in Thread : \E n \in 1 .. Copies(o, c[r]) : e = <<r, n>>
  BY OutsideParts
<1> QED BY <1>1, <1>2

\* Thread t goes from b[t] to B, and the others do not move.
Step(b, c, t, B) == c[t] = B /\ \A r \in Thread \ {t} : c[r] = b[r]

\* What a thread holds outside frames, and the list of the virtual machine,
\* when both get a reference, or the former one to an unlisted object.
LEMMA HoldsMore ==
  ASSUME NEW S, NEW u, NEW b \in [Thread -> RefsTo(S)], NEW l \in RefsTo(S),
         NEW t \in Thread, NEW x \in S,
         NEW c \in [Thread -> RefsTo(S)], Step(b, c, t, b[t] (+) SetToBag({x})),
         NEW k, k = l (+) SetToBag({x}) \/ (k = l /\ x \in u),
         NEW o, IsFiniteSet(OutsideOf(b, o)),
         Lists(o, Copies(o, l), Cardinality(OutsideOf(b, o)), u)
  PROVE  /\ IsFiniteSet(OutsideOf(c, o))
         /\ Lists(o, Copies(o, k), Cardinality(OutsideOf(c, o)), u)
<1>1. /\ b[t] (+) SetToBag({x}) \in RefsTo(S)
      /\ Copies(o, b[t] (+) SetToBag({x})) = Copies(o, b[t]) + IF o = x THEN 1 ELSE 0
  BY BagAdds
<1>2. /\ l (+) SetToBag({x}) \in RefsTo(S)
      /\ Copies(o, l (+) SetToBag({x})) = Copies(o, l) + IF o = x THEN 1 ELSE 0
  BY BagAdds
<1>4. \A r \in Thread : c[r] = IF r = t THEN b[t] (+) SetToBag({x}) ELSE b[r]
  BY DEF Step
<1>5. Copies(o, b[t]) \in Nat /\ Copies(o, l) \in Nat
  BY BagParts
<1>6. Cardinality(OutsideOf(b, o)) \in Nat
  BY FS_CardinalityType
<1>7. CASE o = x
  <2>1. Copies(o, c[t]) = Copies(o, b[t]) + 1
    BY <1>1, <1>4, <1>7
  <2>2. SameElsewhere(b, c, t, o)
    BY <1>4 DEF SameElsewhere
  <2>3. /\ IsFiniteSet(OutsideOf(c, o))
        /\ Cardinality(OutsideOf(c, o)) = Cardinality(OutsideOf(b, o)) + 1
    BY <1>5, <2>1, <2>2, OutsideMore
  <2>4. Copies(o, k) = Copies(o, l) + 1 \/ (Copies(o, k) = Copies(o, l) /\ o \in u)
    BY <1>2, <1>7
  <2> QED BY <1>5, <1>6, <2>3, <2>4 DEF Lists
<1>8. CASE o # x
  <2>1. \A r \in Thread : Copies(o, c[r]) = Copies(o, b[r])
    BY <1>1, <1>4, <1>5, <1>8
  <2>2. OutsideOf(c, o) = OutsideOf(b, o)
    BY <2>1, OutsideSame
  <2>3. Copies(o, k) = Copies(o, l)
    BY <1>2, <1>5, <1>8
  <2> QED BY <2>2, <2>3
<1> QED BY <1>7, <1>8

\* ... and when both give one back.
LEMMA HoldsLess ==
  ASSUME NEW S, NEW u, NEW b \in [Thread -> RefsTo(S)], NEW l \in RefsTo(S),
         NEW t \in Thread, NEW x \in BagToSet(b[t]),
         NEW c \in [Thread -> RefsTo(S)], Step(b, c, t, b[t] (-) SetToBag({x})),
         NEW k, k = l (-) SetToBag({x}),
         NEW o, IsFiniteSet(OutsideOf(b, o)),
         Lists(o, Copies(o, l), Cardinality(OutsideOf(b, o)), u)
  PROVE  /\ IsFiniteSet(OutsideOf(c, o))
         /\ Lists(o, Copies(o, k), Cardinality(OutsideOf(c, o)), u)
<1>1. /\ b[t] (-) SetToBag({x}) \in RefsTo(S)
      /\ Copies(o, b[t] (-) SetToBag({x})) =
           IF o = x /\ Copies(x, b[t]) > 0 THEN Copies(o, b[t]) - 1 ELSE Copies(o, b[t])
  BY BagRemoves
<1>2. /\ k \in RefsTo(S)
      /\ Copies(o, k) =
           IF o = x /\ Copies(x, l) > 0 THEN Copies(o, l) - 1 ELSE Copies(o, l)
  BY BagRemoves
<1>4. \A r \in Thread : c[r] = IF r = t THEN b[t] (-) SetToBag({x}) ELSE b[r]
  BY DEF Step
<1>5. Copies(o, b[t]) \in Nat /\ Copies(o, l) \in Nat /\ Copies(x, b[t]) > 0
  BY BagParts
<1>6. Cardinality(OutsideOf(b, o)) \in Nat
  BY FS_CardinalityType
<1>7. CASE o = x
  <2>1. Copies(o, b[t]) > 0 /\ Copies(o, c[t]) = Copies(o, b[t]) - 1
    BY <1>1, <1>4, <1>5, <1>7
  <2>2. Copies(o, c[t]) \in Nat /\ Copies(o, b[t]) = Copies(o, c[t]) + 1
    BY <1>5, <2>1
  <2>3. SameElsewhere(b, c, t, o)
    BY <1>4 DEF SameElsewhere
  <2>4. /\ IsFiniteSet(OutsideOf(c, o))
        /\ Cardinality(OutsideOf(c, o)) = Cardinality(OutsideOf(b, o)) - 1
    BY <2>2, <2>3, OutsideLess
  <2>5. Cardinality(OutsideOf(c, o)) \in Nat
    BY <2>4, FS_CardinalityType
  <2>6. Copies(o, k) = IF Copies(o, l) > 0 THEN Copies(o, l) - 1 ELSE 0
    BY <1>2, <1>5, <1>7
  <2> QED BY <1>2, <1>5, <1>6, <2>4, <2>5, <2>6 DEF Lists
<1>8. CASE o # x
  <2>1. \A r \in Thread : Copies(o, c[r]) = Copies(o, b[r])
    BY <1>1, <1>4, <1>5, <1>8
  <2>2. OutsideOf(c, o) = OutsideOf(b, o)
    BY <2>1, OutsideSame
  <2>3. Copies(o, k) = Copies(o, l)
    BY <1>2, <1>5, <1>8
  <2> QED BY <2>2, <2>3
<1> QED BY <1>7, <1>8

\* A thread without frames gets a reference.
LEMMA OutsideAdds ==
  ASSUME NEW h, NEW u, OutsideInv(h, u), NEW t \in Thread, NEW x \in h \cup u,
         base' = [base EXCEPT ![t] = @ (+) SetToBag({x})],
         \/ vmLocals' = vmLocals (+) SetToBag({x})
         \/ vmLocals' = vmLocals /\ x \in u
  PROVE  OutsideInv(h, u)'
<1>1. PICK c, k : c = base' /\ k = vmLocals'
  OBVIOUS
<1>2. base \in [Thread -> RefsTo(h \cup u)] /\ vmLocals \in RefsTo(h \cup u)
  BY DEF OutsideInv
<1>3. /\ base[t] (+) SetToBag({x}) \in RefsTo(h \cup u)
      /\ vmLocals (+) SetToBag({x}) \in RefsTo(h \cup u)
  BY <1>2, BagAdds
<1>4. /\ c \in [Thread -> RefsTo(h \cup u)] /\ k \in RefsTo(h \cup u)
      /\ Step(base, c, t, base[t] (+) SetToBag({x}))
  BY <1>1, <1>2, <1>3 DEF Step
<1>5. ASSUME NEW o \in Object
      PROVE  /\ IsFiniteSet(OutsideOf(c, o))
             /\ Lists(o, Copies(o, k), Cardinality(OutsideOf(c, o)), u)
  <2>1. /\ IsFiniteSet(OutsideOf(base, o))
        /\ Lists(o, Copies(o, vmLocals), Cardinality(OutsideOf(base, o)), u)
    BY OutsideIs DEF OutsideInv
  <2>2. k = vmLocals (+) SetToBag({x}) \/ (k = vmLocals /\ x \in u)
    BY <1>1
  <2> QED BY <1>2, <1>4, <2>1, <2>2, HoldsMore
<1>6. ASSUME NEW o \in Object
      PROVE  /\ IsFiniteSet(HeldOutside(o)')
             /\ Lists(o, Copies(o, vmLocals'), Cardinality(HeldOutside(o)'), u)
  BY <1>1, <1>5, OutsideIs
<1> QED BY <1>1, <1>4, <1>6 DEF OutsideInv

\* A thread without frames gives a reference back.
LEMMA OutsideRemoves ==
  ASSUME NEW h, NEW u, OutsideInv(h, u), NEW t \in Thread, NEW x \in BagToSet(base[t]),
         base' = [base EXCEPT ![t] = @ (-) SetToBag({x})],
         vmLocals' = vmLocals (-) SetToBag({x})
  PROVE  OutsideInv(h, u)'
<1>1. PICK c, k : c = base' /\ k = vmLocals'
  OBVIOUS
<1>2. base \in [Thread -> RefsTo(h \cup u)] /\ vmLocals \in RefsTo(h \cup u)
  BY DEF OutsideInv
<1>3. /\ base[t] (-) SetToBag({x}) \in RefsTo(h \cup u)
      /\ vmLocals (-) SetToBag({x}) \in RefsTo(h \cup u)
  BY <1>2, BagRemoves
<1>4. /\ c \in [Thread -> RefsTo(h \cup u)] /\ k \in RefsTo(h \cup u)
      /\ Step(base, c, t, base[t] (-) SetToBag({x}))
  BY <1>1, <1>2, <1>3 DEF Step
<1>5. ASSUME NEW o \in Object
      PROVE  /\ IsFiniteSet(OutsideOf(c, o))
             /\ Lists(o, Copies(o, k), Cardinality(OutsideOf(c, o)), u)
  <2>1. /\ IsFiniteSet(OutsideOf(base, o))
        /\ Lists(o, Copies(o, vmLocals), Cardinality(OutsideOf(base, o)), u)
    BY OutsideIs DEF OutsideInv
  <2>2. k = vmLocals (-) SetToBag({x})
    BY <1>1
  <2>3. /\ IsFiniteSet(OutsideOf(c, o))
        /\ Lists(o, Copies(o, vmLocals (-) SetToBag({x})), Cardinality(OutsideOf(c, o)), u)
    BY <1>2, <1>4, <2>1, HoldsLess
  <2> QED BY <2>2, <2>3
<1>6. ASSUME NEW o \in Object
      PROVE  /\ IsFiniteSet(HeldOutside(o)')
             /\ Lists(o, Copies(o, vmLocals'), Cardinality(HeldOutside(o)'), u)
  BY <1>1, <1>5, OutsideIs
<1> QED BY <1>1, <1>4, <1>6 DEF OutsideInv
-----------------------------------------------------------------------------
(* The functions that change lists.                                        *)

\* What the code outside frames holds stays where only frames change.
LEMMA OutsideStays ==
  ASSUME NEW h, NEW u, OutsideInv(h, u), UNCHANGED <<base, vmLocals>>
  PROVE  OutsideInv(h, u)'
BY DEF OutsideInv, HeldOutside

\* The list of the virtual machine may lose entries of what is unlisted.
LEMMA ListLoses ==
  ASSUME NEW h, NEW u, OutsideInv(h, u), NEW x \in u,
         vmLocals' = vmLocals (-) SetToBag({x}), UNCHANGED base
  PROVE  OutsideInv(h, u)'
<1>1. vmLocals \in RefsTo(h \cup u)
  BY DEF OutsideInv
<1>2. /\ vmLocals' \in RefsTo(h \cup u)
      /\ \A o : Copies(o, vmLocals') =
                  IF o = x /\ Copies(x, vmLocals) > 0
                  THEN Copies(o, vmLocals) - 1 ELSE Copies(o, vmLocals)
  BY <1>1, BagRemoves
<1>3. ASSUME NEW o \in Object
      PROVE  /\ IsFiniteSet(HeldOutside(o)')
             /\ Lists(o, Copies(o, vmLocals'), Cardinality(HeldOutside(o)'), u)
  <2>1. /\ IsFiniteSet(HeldOutside(o))
        /\ Lists(o, Copies(o, vmLocals), Cardinality(HeldOutside(o)), u)
    BY DEF OutsideInv
  <2>2. HeldOutside(o)' = HeldOutside(o)
    BY DEF HeldOutside
  <2>3. Copies(o, vmLocals) \in Nat /\ Cardinality(HeldOutside(o)) \in Nat
    BY <1>1, <2>1, BagParts, FS_CardinalityType
  <2>4. \/ Copies(o, vmLocals') = Copies(o, vmLocals)
        \/ o \in u /\ Copies(o, vmLocals') = Copies(o, vmLocals) - 1
    BY <1>2, <2>3
  <2>5. Lists(o, Copies(o, vmLocals'), Cardinality(HeldOutside(o)), u)
    BY <2>1, <2>3, <2>4 DEF Lists
  <2> QED BY <2>1, <2>2, <2>5
<1> QED BY <1>2, <1>3 DEF OutsideInv

\* A list gets what the code gets.
LEMMA AddKeeps ==
  ASSUME NEW h, NEW u, FramesInv(h, u), OutsideInv(h, u), NEW t \in Thread,
         NEW x \in There(h, u), AddLocalRef(t, x)
  PROVE  FramesInv(h, u)' /\ OutsideInv(h, u)'
<1>1. CASE x = Null
  <2>1. UNCHANGED <<vmLocals, frames, base>>
    BY <1>1 DEF AddLocalRef
  <2> QED BY <2>1, OutsideStays DEF FramesInv
<1>2. CASE x # Null /\ frames[t] = <<>>
  <2>1. /\ vmLocals' = vmLocals (+) SetToBag({x}) /\ UNCHANGED frames
        /\ base' = [base EXCEPT ![t] = @ (+) SetToBag({x})]
    BY <1>2 DEF AddLocalRef
  <2>2. x \in h \cup u
    BY <1>2 DEF There
  <2>3. OutsideInv(h, u)'
    BY <2>1, <2>2, OutsideAdds
  <2> QED BY <2>1, <2>3 DEF FramesInv
<1>3. CASE x # Null /\ frames[t] # <<>>
  <2> DEFINE f == [Top(t) EXCEPT !.localReferences = @ (+) SetToBag({x}),
                                 !.held = @ (+) SetToBag({x})]
  <2>1. Top(t).type = "native" /\ frames' = SetTop(t, f) /\ UNCHANGED <<vmLocals, base>>
    BY <1>3 DEF AddLocalRef
  <2>2. x \in h \cup u /\ Top(t) \in Good(h, u)
    BY <1>3, TopIsGood DEF There
  <2>3. f \in Good(h, u)
    BY <2>1, <2>2, GoodAdds
  <2> HIDE DEF f
  <2> QED BY <1>3, <2>1, <2>3, SetTopKeeps, OutsideStays
<1> QED BY <1>1, <1>2, <1>3

\* A list gives back what the code gives back.
LEMMA RemoveKeeps ==
  ASSUME NEW h, NEW u, FramesInv(h, u), OutsideInv(h, u), h \cup u \subseteq Object,
         NEW t \in Thread, frames[t] # <<>> => Top(t).type = "native",
         NEW x \in HeldHere(t), RemoveLocalRef(t, x)
  PROVE  FramesInv(h, u)' /\ OutsideInv(h, u)'
<1>1. CASE frames[t] = <<>>
  <2>1. /\ vmLocals' = vmLocals (-) SetToBag({x}) /\ UNCHANGED frames
        /\ base' = [base EXCEPT ![t] = @ (-) SetToBag({x})]
    BY <1>1 DEF RemoveLocalRef
  <2>2. x \in BagToSet(base[t])
    BY <1>1 DEF HeldHere
  <2>3. OutsideInv(h, u)'
    BY <2>1, <2>2, OutsideRemoves
  <2> QED BY <2>1, <2>3 DEF FramesInv
<1>2. CASE frames[t] # <<>>
  <2> DEFINE f == [Top(t) EXCEPT !.localReferences = @ (-) SetToBag({x}),
                                 !.held = @ (-) SetToBag({x})]
  <2>1. /\ frames' = SetTop(t, f) /\ UNCHANGED base
        /\ vmLocals' = IF BagIn(x, Top(t).localReferences) THEN vmLocals
                       ELSE vmLocals (-) SetToBag({x})
    BY <1>2 DEF RemoveLocalRef
  <2>2. Top(t) \in Good(h, u) /\ x \in BagToSet(Top(t).held)
    BY <1>2, TopIsGood DEF HeldHere
  <2>3. f \in Good(h, u)
    BY <1>2, <2>2, GoodRemoves
  <2> HIDE DEF f
  <2>4. FramesInv(h, u)'
    BY <1>2, <2>1, <2>3, SetTopKeeps
  <2>5. CASE BagIn(x, Top(t).localReferences)
    BY <2>1, <2>4, <2>5, OutsideStays
  <2>6. CASE ~BagIn(x, Top(t).localReferences)
    <3>1. /\ Top(t).localReferences \in RefsTo(h \cup u) /\ Top(t).held \in RefsTo(h \cup u)
          /\ \A o \in Object :
               Lists(o, Copies(o, Top(t).localReferences), Copies(o, Top(t).held), u)
      BY <2>2, GoodParts
    <3>2. Copies(x, Top(t).held) > 0 /\ x \in Object
      BY <2>2, <3>1, BagParts
    <3>3. Copies(x, Top(t).localReferences) = 0
      BY <2>6 DEF Copies
    <3>4. x \in u
      BY <3>1, <3>2, <3>3 DEF Lists
    <3> QED BY <2>1, <2>4, <2>6, <3>4, ListLoses
  <2> QED BY <2>5, <2>6
<1> QED BY <1>1, <1>2
-----------------------------------------------------------------------------
(* What names objects, and what a change of the container must leave it.   *)

\* All names of objects but those in static fields.
LEMMA NamesAre ==
  /\ BagToSet(globals) \subseteq Named /\ BagToSet(vmLocals) \subseteq Named
  /\ \A t \in Thread :
       /\ uncaught[t] \in Named /\ doing[t].object \in Named /\ BagToSet(base[t]) \subseteq Named
       /\ \A i \in DOMAIN frames[t] :
            /\ BagToSet(frames[t][i].localReferences) \subseteq Named
            /\ BagToSet(frames[t][i].held) \subseteq Named
            /\ frames[t][i].local \in Named /\ frames[t][i].exception \in Named
<1>1. BagToSet(globals) \subseteq Listed /\ BagToSet(vmLocals) \subseteq Listed
  BY DEF Listed
<1>2. ASSUME NEW t \in Thread, NEW i \in DOMAIN frames[t]
      PROVE  /\ BagToSet(frames[t][i].localReferences) \subseteq Listed
             /\ BagToSet(frames[t][i].held) \subseteq Holds(t)
             /\ frames[t][i].local \in Holds(t) /\ frames[t][i].exception \in Holds(t)
  BY DEF Listed, Holds, HeldBy
<1>3. ASSUME NEW t \in Thread
      PROVE  uncaught[t] \in Holds(t) /\ BagToSet(base[t]) \subseteq Holds(t)
  BY DEF Holds, HeldBy
<1>4. /\ Listed \subseteq Named
      /\ \A t \in Thread : Holds(t) \subseteq Named /\ doing[t].object \in Named
  BY DEF Named
<1> QED BY <1>1, <1>2, <1>3, <1>4

\* The container and the unlisted objects may become h and u, if all that is
\* named is there and what was not listed is not held for listed now.
Carries(h, u) ==
  /\ h \cup u \subseteq Object
  /\ Named \cup {place} \subseteq There(h, u)
  /\ \A o \in Named : o \in unlisted => o \in u

\* A list that has what is held has it for h and u as well.
LEMMA CarryLists ==
  ASSUME NEW h, NEW u, Carries(h, u), NEW o \in Object,
         NEW m \in Nat, NEW n \in Nat, n > 0 => o \in Named, Lists(o, m, n, unlisted)
  PROVE  Lists(o, m, n, u)
<1>1. CASE n = 0
  BY <1>1 DEF Lists
<1>2. CASE n > 0
  BY <1>2 DEF Lists, Carries
<1> QED BY <1>1, <1>2

\* A bag of what is named is one of what is there.
LEMMA CarryBags ==
  ASSUME NEW h, NEW u, Carries(h, u), heap \cup unlisted \subseteq Object,
         NEW B \in RefsTo(heap \cup unlisted), BagToSet(B) \subseteq Named
  PROVE  B \in RefsTo(h \cup u)
<1>1. BagToSet(B) \subseteq heap \cup unlisted
  BY BagParts
<1>2. Null \notin BagToSet(B)
  BY <1>1, ReferencesAssumption
<1>3. BagToSet(B) \subseteq h \cup u
  BY <1>2 DEF Carries, There
<1> QED BY <1>3, BagLess

\* A good frame stays one.
LEMMA CarryFrame ==
  ASSUME NEW h, NEW u, Carries(h, u), heap \cup unlisted \subseteq Object,
         NEW f \in Good(heap, unlisted),
         BagToSet(f.localReferences) \subseteq Named, BagToSet(f.held) \subseteq Named,
         f.local \in Named, f.exception \in Named
  PROVE  f \in Good(h, u)
<1>1. /\ f \in FrameOf(heap, unlisted)
      /\ f.localReferences \in RefsTo(heap \cup unlisted)
      /\ f.held \in RefsTo(heap \cup unlisted)
      /\ f.type = "java" => f.localReferences = EmptyBag /\ f.held = EmptyBag
      /\ f.type = "native" => f.local = Null
      /\ \A o \in Object :
           Lists(o, Copies(o, f.localReferences), Copies(o, f.held), unlisted)
  BY GoodParts
<1>2. f.localReferences \in RefsTo(h \cup u) /\ f.held \in RefsTo(h \cup u)
  BY <1>1, CarryBags
<1>3. f.local \in There(h, u) /\ f.exception \in There(h, u)
  BY DEF Carries
<1>4. f \in FrameOf(h, u)
  BY <1>1, <1>2, <1>3 DEF FrameOf
<1>5. ASSUME NEW o \in Object
      PROVE  Lists(o, Copies(o, f.localReferences), Copies(o, f.held), u)
  <2>1. /\ Copies(o, f.localReferences) \in Nat /\ Copies(o, f.held) \in Nat
        /\ Copies(o, f.held) > 0 => o \in Named
    BY <1>1, BagParts
  <2> QED BY <1>1, <2>1, CarryLists
<1> QED BY <1>1, <1>4, <1>5 DEF Good

\* The invariant of another container.
LEMMA Carry ==
  ASSUME IInv, NEW h, NEW u, Carries(h, u)
  PROVE  Inv(h, u)
<1>0. heap \cup unlisted \subseteq Object
  BY DEF IInv
<1>1. FramesInv(h, u)
  <2>1. ASSUME NEW t \in Thread PROVE frames[t] \in Seq(Good(h, u))
    <3>1. frames[t] \in Seq(Good(heap, unlisted))
      BY DEF IInv, Inv, FramesInv
    <3>2. /\ frames[t] \in [1 .. Len(frames[t]) -> Good(heap, unlisted)]
          /\ Len(frames[t]) \in Nat /\ DOMAIN frames[t] = 1 .. Len(frames[t])
      BY <3>1, LenProperties
    <3>3. ASSUME NEW i \in 1 .. Len(frames[t]) PROVE frames[t][i] \in Good(h, u)
      <4>1. frames[t][i] \in Good(heap, unlisted) /\ i \in DOMAIN frames[t]
        BY <3>2
      <4> QED BY <1>0, <4>1, NamesAre, CarryFrame
    <3>4. frames[t] \in [1 .. Len(frames[t]) -> Good(h, u)]
      BY <3>2, <3>3
    <3> QED BY <3>2, <3>4, SeqDef
  <2>2. /\ frames = [t \in Thread |-> frames[t]]
        /\ \A t \in Thread : Len(frames[t]) <= Depth[t]
    BY DEF IInv, Inv, FramesInv
  <2>3. frames \in [Thread -> Seq(Good(h, u))]
    BY <2>1, <2>2
  <2> QED BY <2>2, <2>3 DEF FramesInv
<1>2. OutsideInv(h, u)
  <2>1. /\ vmLocals \in RefsTo(heap \cup unlisted)
        /\ base \in [Thread -> RefsTo(heap \cup unlisted)]
    BY DEF IInv, Inv, OutsideInv
  <2>2. vmLocals \in RefsTo(h \cup u) /\ \A t \in Thread : base[t] \in RefsTo(h \cup u)
    BY <1>0, <2>1, CarryBags, NamesAre
  <2>3. ASSUME NEW o \in Object
        PROVE  /\ IsFiniteSet(HeldOutside(o))
               /\ Lists(o, Copies(o, vmLocals), Cardinality(HeldOutside(o)), u)
    <3>1. /\ IsFiniteSet(HeldOutside(o))
          /\ Lists(o, Copies(o, vmLocals), Cardinality(HeldOutside(o)), unlisted)
      BY DEF IInv, Inv, OutsideInv
    <3>2. Copies(o, vmLocals) \in Nat /\ Cardinality(HeldOutside(o)) \in Nat
      BY <2>1, <3>1, BagParts, FS_CardinalityType
    <3>3. Cardinality(HeldOutside(o)) > 0 => o \in Named
      <4>1. SUFFICES ASSUME Cardinality(HeldOutside(o)) > 0 PROVE o \in Named
        OBVIOUS
      <4>2. HeldOutside(o) # {}
        BY <4>1, FS_EmptySet
      <4>3. PICK t \in Thread : 1 .. Copies(o, base[t]) # {}
        BY <4>2 DEF HeldOutside
      <4>4. base[t] \in RefsTo(heap \cup unlisted)
        BY <2>1
      <4>5. Copies(o, base[t]) \in Nat /\ Copies(o, base[t]) > 0
        BY <4>3, <4>4, BagParts
      <4>6. o \in BagToSet(base[t])
        BY <4>4, <4>5, BagParts
      <4> QED BY <4>6, NamesAre
    <3> QED BY <3>1, <3>2, <3>3, CarryLists
  <2> QED BY <2>1, <2>2, <2>3 DEF OutsideInv
<1>3. RestInv(h, u)
  <2>1. /\ globals \in RefsTo(heap \cup unlisted)
        /\ DOMAIN uncaught = Thread /\ uncaught = [t \in DOMAIN uncaught |-> uncaught[t]]
        /\ doing \in [Thread -> [what : Doings, object : There(heap, unlisted)]]
    BY DEF IInv, Inv, RestInv
  <2>2. place \in There(h, u) /\ \A o \in Named : o \in There(h, u)
    BY DEF Carries
  <2>3. globals \in RefsTo(h \cup u)
    BY <1>0, <2>1, CarryBags, NamesAre
  <2>4. uncaught \in [Thread -> There(h, u)]
    BY <2>1, <2>2, NamesAre
  <2>5. ASSUME NEW t \in Thread
        PROVE  doing[t] \in [what : Doings, object : There(h, u)]
    <3>1. doing[t].object \in There(h, u)
      BY <2>2, NamesAre
    <3> QED BY <2>1, <3>1
  <2>6. doing \in [Thread -> [what : Doings, object : There(h, u)]]
    BY <2>1, <2>5
  <2> QED BY <2>2, <2>3, <2>4, <2>6 DEF RestInv
<1> QED BY <1>1, <1>2, <1>3 DEF Inv
-----------------------------------------------------------------------------
(* What the collector marks and what the program holds.                    *)

\* Code outside frames holds o if and only if a thread does.
LEMMA OutsideHolds ==
  ASSUME IInv, NEW o
  PROVE  /\ (\E t \in Thread : o \in BagToSet(base[t])) <=> HeldOutside(o) # {}
         /\ o \in BagToSet(vmLocals) <=> Copies(o, vmLocals) > 0
         /\ o \in Object => /\ Cardinality(HeldOutside(o)) > 0 <=> HeldOutside(o) # {}
                            /\ Lists(o, Copies(o, vmLocals), Cardinality(HeldOutside(o)),
                                     unlisted)
<1>1. /\ base \in [Thread -> RefsTo(heap \cup unlisted)]
      /\ vmLocals \in RefsTo(heap \cup unlisted)
  BY DEF IInv, Inv, OutsideInv
<1>2. ASSUME NEW t \in Thread
      PROVE  o \in BagToSet(base[t]) <=> 1 .. Copies(o, base[t]) # {}
  <2>1. Copies(o, base[t]) \in Nat /\ (Copies(o, base[t]) > 0 <=> o \in BagToSet(base[t]))
    BY <1>1, BagParts
  <2> QED BY <2>1
<1>3. HeldOutside(o) # {} <=> \E t \in Thread : 1 .. Copies(o, base[t]) # {}
  <2>1. \A e : e \in HeldOutside(o) <=>
          \E t \in Thread : \E n \in 1 .. Copies(o, base[t]) : e = <<t, n>>
    BY OutsideIs, OutsideParts
  <2>2. ASSUME NEW t \in Thread, 1 .. Copies(o, base[t]) # {} PROVE HeldOutside(o) # {}
    <3>1. PICK n : n \in 1 .. Copies(o, base[t])
      BY <2>2
    <3>2. <<t, n>> \in HeldOutside(o)
      BY <2>1, <3>1
    <3> QED BY <3>2
  <2>3. ASSUME HeldOutside(o) # {} PROVE \E t \in Thread : 1 .. Copies(o, base[t]) # {}
    <3>1. PICK e : e \in HeldOutside(o)
      BY <2>3
    <3> QED BY <2>1, <3>1
  <2> QED BY <2>2, <2>3
<1>4. o \in BagToSet(vmLocals) <=> Copies(o, vmLocals) > 0
  BY <1>1, BagParts
<1>5. ASSUME o \in Object
      PROVE  /\ Cardinality(HeldOutside(o)) > 0 <=> HeldOutside(o) # {}
             /\ Lists(o, Copies(o, vmLocals), Cardinality(HeldOutside(o)), unlisted)
  <2>1. /\ IsFiniteSet(HeldOutside(o))
        /\ Lists(o, Copies(o, vmLocals), Cardinality(HeldOutside(o)), unlisted)
    BY <1>5 DEF IInv, Inv, OutsideInv
  <2>2. /\ Cardinality(HeldOutside(o)) \in Nat
        /\ Cardinality(HeldOutside(o)) = 0 <=> HeldOutside(o) = {}
    BY <2>1, FS_CardinalityType, FS_EmptySet
  <2> QED BY <2>1, <2>2
<1> QED BY <1>2, <1>3, <1>4, <1>5

\* A frame of the invariant.
LEMMA FramesAreGood ==
  ASSUME IInv, NEW t \in Thread, NEW i \in DOMAIN frames[t]
  PROVE  frames[t][i] \in Good(heap, unlisted)
<1>1. frames[t] \in Seq(Good(heap, unlisted))
  BY DEF IInv, Inv, FramesInv
<1> QED BY <1>1, LenProperties

\* What a frame holds is marked for it, and nothing else is.
LEMMA FrameRootsAre ==
  ASSUME IInv, NEW f \in Good(heap, unlisted), NEW o \in Object
  PROVE  /\ o \in FrameRoots(f) => o \in {f.local, f.exception} \cup BagToSet(f.held)
         /\ o \in {f.local, f.exception} \cup BagToSet(f.held) /\ o \notin unlisted =>
              o \in FrameRoots(f)
<1>1. /\ f.type \in {"java", "native"}
      /\ f.localReferences \in RefsTo(heap \cup unlisted)
      /\ f.held \in RefsTo(heap \cup unlisted)
      /\ f.type = "java" => f.localReferences = EmptyBag /\ f.held = EmptyBag
      /\ f.type = "native" => f.local = Null
      /\ Lists(o, Copies(o, f.localReferences), Copies(o, f.held), unlisted)
  BY GoodParts
<1>2. /\ Copies(o, f.localReferences) \in Nat /\ Copies(o, f.held) \in Nat
      /\ Copies(o, f.localReferences) > 0 <=> o \in BagToSet(f.localReferences)
      /\ Copies(o, f.held) > 0 <=> o \in BagToSet(f.held)
  BY <1>1, BagParts
<1>3. /\ o \in BagToSet(f.localReferences) => o \in BagToSet(f.held)
      /\ o \notin unlisted /\ o \in BagToSet(f.held) => o \in BagToSet(f.localReferences)
  BY <1>1, <1>2 DEF Lists
<1>4. BagToSet(EmptyBag) = {} /\ o # Null
  BY ReferencesAssumption DEF EmptyBag, BagToSet, SetToBag
<1> QED BY <1>1, <1>3, <1>4 DEF FrameRoots

\* All that is marked is held.
LEMMA RootsAreHeld ==
  ASSUME IInv, NEW o \in Object, o \in Roots
  PROVE  o \in HeldRoots
<1>1. CASE o \in {place} \cup BagToSet(globals)
  BY <1>1 DEF HeldRoots
<1>2. CASE o \in BagToSet(vmLocals)
  <2>1. Copies(o, vmLocals) \in Nat /\ Cardinality(HeldOutside(o)) \in Nat
    <3>1. IsFiniteSet(HeldOutside(o)) /\ vmLocals \in RefsTo(heap \cup unlisted)
      BY DEF IInv, Inv, OutsideInv
    <3> QED BY <3>1, BagParts, FS_CardinalityType
  <2>2. Cardinality(HeldOutside(o)) > 0
    BY <1>2, <2>1, OutsideHolds DEF Lists
  <2>3. PICK t \in Thread : o \in BagToSet(base[t])
    BY <2>2, OutsideHolds
  <2>4. o \in Holds(t)
    BY <2>3 DEF Holds, HeldBy
  <2> QED BY <2>4 DEF HeldRoots
<1>3. ASSUME NEW t \in Thread,
             o \in {uncaught[t]} \cup
                   UNION {FrameRoots(frames[t][i]) : i \in DOMAIN frames[t]}
      PROVE  o \in HeldRoots
  <2>1. o \in Holds(t)
    <3>1. CASE o = uncaught[t]
      BY <3>1 DEF Holds
    <3>2. ASSUME NEW i \in DOMAIN frames[t], o \in FrameRoots(frames[t][i])
          PROVE  o \in Holds(t)
      <4>1. o \in {frames[t][i].local, frames[t][i].exception} \cup BagToSet(frames[t][i].held)
        BY <3>2, FramesAreGood, FrameRootsAre
      <4> QED BY <4>1 DEF Holds, HeldBy
    <3> QED BY <1>3, <3>1, <3>2
  <2> QED BY <2>1 DEF HeldRoots
<1> QED BY <1>1, <1>2, <1>3 DEF Roots

\* All that is held and was listed is marked.
LEMMA HeldIsMarked ==
  ASSUME IInv, NEW o \in Object \ unlisted, o \in HeldRoots
  PROVE  o \in Roots
<1>1. CASE o \in {place} \cup BagToSet(globals)
  BY <1>1 DEF Roots
<1>2. ASSUME NEW t \in Thread, o \in Holds(t)
      PROVE  o \in Roots
  <2>1. CASE o = uncaught[t]
    BY <2>1 DEF Roots
  <2>2. CASE o \in BagToSet(base[t])
    <3>1. Copies(o, vmLocals) = Cardinality(HeldOutside(o)) /\ HeldOutside(o) # {}
      BY <2>2, OutsideHolds DEF Lists
    <3>2. o \in BagToSet(vmLocals)
      BY <3>1, OutsideHolds
    <3> QED BY <3>2 DEF Roots
  <2>3. ASSUME NEW i \in DOMAIN frames[t],
               o \in {frames[t][i].local, frames[t][i].exception}
                     \cup BagToSet(frames[t][i].held)
        PROVE  o \in Roots
    <3>1. o \in FrameRoots(frames[t][i])
      BY <2>3, FramesAreGood, FrameRootsAre
    <3> QED BY <3>1 DEF Roots
  <2> QED BY <1>2, <2>1, <2>2, <2>3 DEF Holds, HeldBy
<1> QED BY <1>1, <1>2 DEF HeldRoots
\* All that is listed is held.
LEMMA ListedIsHeld ==
  ASSUME IInv, NEW o \in Object, o \in Listed
  PROVE  o \in HeldRoots
<1>1. CASE o \in BagToSet(globals) \cup BagToSet(vmLocals)
  <2>1. o \in Roots
    BY <1>1 DEF Roots
  <2> QED BY <2>1, RootsAreHeld
<1>2. ASSUME NEW t \in Thread, NEW i \in DOMAIN frames[t],
             o \in BagToSet(frames[t][i].localReferences)
      PROVE  o \in HeldRoots
  <2> DEFINE f == frames[t][i]
  <2>1. f \in Good(heap, unlisted)
    BY FramesAreGood
  <2> HIDE DEF f
  <2>2. /\ f.localReferences \in RefsTo(heap \cup unlisted)
        /\ f.held \in RefsTo(heap \cup unlisted)
        /\ Lists(o, Copies(o, f.localReferences), Copies(o, f.held), unlisted)
    BY <2>1, GoodParts
  <2>3. /\ Copies(o, f.localReferences) \in Nat /\ Copies(o, f.held) \in Nat
        /\ Copies(o, f.localReferences) > 0 <=> o \in BagToSet(f.localReferences)
        /\ Copies(o, f.held) > 0 <=> o \in BagToSet(f.held)
    BY <2>2, BagParts
  <2>4. o \in BagToSet(f.held)
    BY <1>2, <2>2, <2>3 DEF Lists, f
  <2>5. o \in Holds(t)
    BY <2>4 DEF Holds, HeldBy, f
  <2> QED BY <2>5 DEF HeldRoots
<1> QED BY <1>1, <1>2 DEF Listed

\* All names are of objects that are there or are not listed.
LEMMA NamesAreKnown ==
  ASSUME IInv
  PROVE  Named \cup HeldRoots \subseteq There(heap, unlisted)
<1>1. /\ globals \in RefsTo(heap \cup unlisted) /\ vmLocals \in RefsTo(heap \cup unlisted)
      /\ place \in There(heap, unlisted)
      /\ \A t \in Thread : /\ base[t] \in RefsTo(heap \cup unlisted)
                           /\ uncaught[t] \in There(heap, unlisted)
                           /\ doing[t].object \in There(heap, unlisted)
  BY DEF IInv, Inv, OutsideInv, RestInv
<1>2. ASSUME NEW t \in Thread, NEW i \in DOMAIN frames[t]
      PROVE  /\ frames[t][i].localReferences \in RefsTo(heap \cup unlisted)
             /\ frames[t][i].held \in RefsTo(heap \cup unlisted)
             /\ frames[t][i].local \in There(heap, unlisted)
             /\ frames[t][i].exception \in There(heap, unlisted)
  BY FramesAreGood, GoodParts
<1>3. \A B \in RefsTo(heap \cup unlisted) : BagToSet(B) \subseteq There(heap, unlisted)
  BY BagParts DEF There
<1>4. ASSUME NEW t \in Thread, NEW i \in DOMAIN frames[t]
      PROVE  /\ BagToSet(frames[t][i].localReferences) \subseteq There(heap, unlisted)
             /\ BagToSet(frames[t][i].held) \subseteq There(heap, unlisted)
  BY <1>2, <1>3
<1>5. ASSUME NEW t \in Thread PROVE BagToSet(base[t]) \subseteq There(heap, unlisted)
  BY <1>1, <1>3
<1>6. ASSUME NEW t \in Thread PROVE Holds(t) \subseteq There(heap, unlisted)
  <2>1. HeldBy(t) \subseteq There(heap, unlisted)
    BY <1>4, <1>5 DEF HeldBy
  <2> QED BY <1>1, <1>2, <2>1 DEF Holds
<1>7. Listed \subseteq There(heap, unlisted)
  <2>1. BagToSet(globals) \subseteq There(heap, unlisted)
    BY <1>1, <1>3
  <2>2. BagToSet(vmLocals) \subseteq There(heap, unlisted)
    BY <1>1, <1>3
  <2> QED BY <1>4, <2>1, <2>2 DEF Listed
<1>8. HeldRoots \subseteq There(heap, unlisted)
  BY <1>1, <1>3, <1>6 DEF HeldRoots
<1>9. Named \subseteq There(heap, unlisted)
  BY <1>1, <1>6, <1>7 DEF Named
<1> QED BY <1>8, <1>9

\* A new object where nothing names the old one of its address.
LEMMA CarryAllocate ==
  ASSUME IInv, Defined, NEW o \in Fresh
  PROVE  Carries(heap \cup {o}, unlisted \ {o})
<1>1. o \in Object /\ o \notin heap /\ o \notin Named
  BY DEF Fresh
<1>2. place \in heap \cup {Null}
  BY DEF Defined, HeldRoots
<1>3. Named \subseteq There(heap \cup {o}, unlisted \ {o})
  BY <1>1, NamesAreKnown DEF There
<1>4. place \in There(heap \cup {o}, unlisted \ {o})
  BY <1>2 DEF There
<1> QED BY <1>1, <1>3, <1>4 DEF Carries, IInv

\* A new object that is not listed.
LEMMA CarryString ==
  ASSUME IInv, NEW o \in Object
  PROVE  Carries(heap \cup {o}, unlisted \cup {o})
<1>1. place \in HeldRoots
  BY DEF HeldRoots
<1>2. Named \cup {place} \subseteq There(heap \cup {o}, unlisted \cup {o})
  BY <1>1, NamesAreKnown DEF There
<1> QED BY <1>2 DEF Carries, IInv

\* What a collection leaves.
LEMMA CarryCollect ==
  ASSUME IInv, Defined, NEW h, NEW u, h = heap \cap Roots,
         u = (unlisted \cup ({doing[t].object : t \in Thread} \ (h \cup {Null})))
             \cap (h \cup Named)
  PROVE  Carries(h, u)
<1>1. heap \subseteq Object /\ unlisted \subseteq Object
  BY DEF IInv
<1>2. ASSUME NEW o \in HeldRoots, o \notin unlisted, o # Null PROVE o \in h
  <2>1. o \in heap
    BY <1>2 DEF Defined
  <2> QED BY <1>1, <1>2, <2>1, HeldIsMarked
<1>3. ASSUME NEW o \in Named PROVE o \in There(h, u)
  <2>1. o \in heap \cup unlisted \cup {Null}
    BY NamesAreKnown DEF There
  <2>2. o \in unlisted => o \in u
    OBVIOUS
  <2>3. ASSUME o \notin unlisted, o # Null PROVE o \in h \cup u
    <3>1. CASE o \in HeldRoots
      BY <1>2, <2>3, <3>1
    <3>2. ASSUME NEW t \in Thread, o = doing[t].object PROVE o \in h \cup u
      BY <2>3, <3>2
    <3>3. o \in Listed => o \in HeldRoots
      BY <1>1, <2>1, <2>3, ListedIsHeld
    <3>4. \A t \in Thread : Holds(t) \subseteq HeldRoots
      BY DEF HeldRoots
    <3> QED BY <3>1, <3>2, <3>3, <3>4 DEF Named
  <2> QED BY <2>2, <2>3 DEF There
<1>4. place \in There(h, u)
  <2>1. place \in heap \cup {Null} /\ (place # Null => place \in Roots)
    BY DEF Defined, HeldRoots, Roots
  <2> QED BY <2>1 DEF There
<1>5. h \cup u \subseteq Object
  <2>1. \A t \in Thread : doing[t].object \in Object \cup {Null}
    BY <1>1, NamesAreKnown, NamesAre DEF There
  <2> QED BY <1>1, <2>1
<1>6. \A o \in Named : o \in unlisted => o \in u
  OBVIOUS
<1> QED BY <1>3, <1>4, <1>5, <1>6 DEF Carries
-----------------------------------------------------------------------------
(* Every step keeps the invariant.                                         *)

\* The invariant of the next state, of what the container becomes.
LEMMA Primed ==
  ASSUME NEW h, NEW u, h = heap', u = unlisted', h \cup u \subseteq Object, Inv(h, u)'
  PROVE  IInv'
BY DEF IInv, Inv, FramesInv, OutsideInv, RestInv
\* Fields, global references, uncaught exceptions and what threads do get
\* nothing but objects that are there.
RestStep(t, h, u) ==
  /\ place' \in There(h, u) /\ globals' \in RefsTo(h \cup u)
  /\ \/ UNCHANGED uncaught
     \/ \E v \in There(h, u) : uncaught' = [uncaught EXCEPT ![t] = v]
  /\ \/ UNCHANGED doing
     \/ \E v \in There(h, u), w \in Doings :
          doing' = [doing EXCEPT ![t] = [what |-> w, object |-> v]]

\* Such a step keeps their part of the invariant.
LEMMA RestKeeps ==
  ASSUME NEW h, NEW u, RestInv(h, u), NEW t \in Thread, RestStep(t, h, u)
  PROVE  RestInv(h, u)'
<1>1. uncaught' \in [Thread -> There(h, u)]
  BY DEF RestInv, RestStep
<1>2. doing' \in [Thread -> [what : Doings, object : There(h, u)]]
  BY DEF RestInv, RestStep
<1> QED BY <1>1, <1>2 DEF RestInv, RestStep

\* The values that a step finds are there.
LEMMA ValuesAre ==
  ASSUME NEW h, NEW u, Inv(h, u), heap \subseteq h, NEW t \in Thread
  PROVE  /\ Usable(t) \subseteq h /\ Null \in There(h, u) /\ h \subseteq There(h, u)
         /\ place \in There(h, u) /\ globals \in RefsTo(h \cup u)
         /\ uncaught[t] \in There(h, u) /\ doing[t].object \in There(h, u)
         /\ frames[t] # <<>> => Top(t) \in Good(h, u) /\ Top(t).exception \in There(h, u)
                                /\ Top(t).local \in There(h, u) /\ Top(t).wanted \in BOOLEAN
<1>1. frames[t] # <<>> => Top(t) \in Good(h, u)
  BY TopIsGood DEF Inv
<1> QED BY <1>1, GoodParts DEF Inv, RestInv, Usable, There

\* An exception in the frame on top.
LEMMA SetExceptionKeeps ==
  ASSUME NEW h, NEW u, FramesInv(h, u), NEW t \in Thread, NEW v \in There(h, u),
         SetException(t, v)
  PROVE  FramesInv(h, u)'
<1>1. CASE frames[t] = <<>>
  BY <1>1 DEF SetException, FramesInv
<1>2. CASE frames[t] # <<>>
  <2>1. Top(t) \in Good(h, u) /\ frames' = SetTop(t, [Top(t) EXCEPT !.exception = v])
    BY <1>2, TopIsGood DEF SetException
  <2> QED BY <1>2, <2>1, GoodValues, SetTopKeeps
<1> QED BY <1>1, <1>2
\* The functions about references.
LEMMA ReferenceSteps ==
  ASSUME NEW h, NEW u, Inv(h, u), h \cup u \subseteq Object, heap \subseteq h, NEW t \in Thread,
         \/ NewLocalRef(t) \/ NewGlobalRef(t) \/ DeleteGlobalRef(t) \/ DeleteLocalRef(t)
         \/ GetObjectArrayElement(t) \/ MakeRef(t)
  PROVE  Inv(h, u)'
<1>0. FramesInv(h, u) /\ OutsideInv(h, u) /\ RestInv(h, u)
  BY DEF Inv
<1>1. /\ Usable(t) \subseteq h /\ Null \in There(h, u) /\ h \subseteq There(h, u)
      /\ place \in There(h, u) /\ globals \in RefsTo(h \cup u)
      /\ doing[t].object \in There(h, u)
  BY ValuesAre
<1>2. ASSUME NEW x \in There(h, u), AddLocalRef(t, x), RestStep(t, h, u)
      PROVE  Inv(h, u)'
  BY <1>0, <1>2, AddKeeps, RestKeeps DEF Inv
<1>3. ASSUME RestStep(t, h, u), UNCHANGED <<vmLocals, stack>> PROVE Inv(h, u)'
  <2>1. FramesInv(h, u)' /\ OutsideInv(h, u)'
    BY <1>0, <1>3, OutsideStays DEF FramesInv, stack
  <2> QED BY <1>0, <1>3, <2>1, RestKeeps DEF Inv
<1>4. ASSUME NewLocalRef(t) PROVE Inv(h, u)'
  <2>1. PICK o \in Usable(t) : AddLocalRef(t, o)
    BY <1>4 DEF NewLocalRef
  <2>2. RestStep(t, h, u)
    BY <1>1, <1>4 DEF NewLocalRef, RestStep, graph
  <2> QED BY <1>1, <1>2, <2>1, <2>2
<1>5. ASSUME NewGlobalRef(t) PROVE Inv(h, u)'
  <2>1. PICK o \in Usable(t) : globals' = globals (+) SetToBag({o})
    BY <1>5 DEF NewGlobalRef, AddGlobalRef
  <2>2. globals' \in RefsTo(h \cup u)
    BY <1>1, <2>1, BagAdds
  <2>3. RestStep(t, h, u) /\ UNCHANGED <<vmLocals, stack>>
    BY <1>1, <1>5, <2>2 DEF NewGlobalRef, RestStep, graph, stack
  <2> QED BY <1>3, <2>3
<1>6. ASSUME DeleteGlobalRef(t) PROVE Inv(h, u)'
  <2>1. PICK o : globals' = globals (-) SetToBag({o})
    BY <1>6 DEF DeleteGlobalRef, RemoveGlobalRef
  <2>2. globals' \in RefsTo(h \cup u)
    BY <1>1, <2>1, BagRemoves
  <2>3. RestStep(t, h, u) /\ UNCHANGED <<vmLocals, stack>>
    BY <1>1, <1>6, <2>2 DEF DeleteGlobalRef, RestStep, graph, stack
  <2> QED BY <1>3, <2>3
<1>7. ASSUME DeleteLocalRef(t) PROVE Inv(h, u)'
  <2>1. PICK o \in HeldHere(t) : RemoveLocalRef(t, o)
    BY <1>7 DEF DeleteLocalRef
  <2>2. RestStep(t, h, u) /\ (frames[t] # <<>> => Top(t).type = "native")
    BY <1>1, <1>7 DEF DeleteLocalRef, RestStep, graph, InNative
  <2> QED BY <1>0, <2>1, <2>2, RemoveKeeps, RestKeeps DEF Inv
<1>8. ASSUME GetObjectArrayElement(t) PROVE Inv(h, u)'
  <2>1. RestStep(t, h, u) /\ AddLocalRef(t, place)
    BY <1>1, <1>8 DEF GetObjectArrayElement, RestStep, graph
  <2> QED BY <1>1, <1>2, <2>1
<1>9. ASSUME MakeRef(t) PROVE Inv(h, u)'
  <2>1. RestStep(t, h, u) /\ AddLocalRef(t, doing[t].object)
    BY <1>1, <1>9 DEF MakeRef, RestStep, graph, Code, Doings
  <2> QED BY <1>1, <1>2, <2>1
<1> QED BY <1>4, <1>5, <1>6, <1>7, <1>8, <1>9

\* Those about fields and exceptions, and the instructions about fields.
LEMMA ValueSteps ==
  ASSUME NEW h, NEW u, Inv(h, u), h \cup u \subseteq Object, heap \subseteq h, NEW t \in Thread,
         \/ GetObjectField(t) \/ SetObjectField(t) \/ Throw(t) \/ ThrowIt(t)
         \/ ExceptionOccurred(t) \/ ExceptionClear(t) \/ JavaGetStatic(t) \/ JavaPutStatic(t)
  PROVE  Inv(h, u)'
<1>0. FramesInv(h, u) /\ OutsideInv(h, u) /\ RestInv(h, u)
  BY DEF Inv
<1>1. /\ Usable(t) \subseteq h /\ Null \in There(h, u) /\ h \subseteq There(h, u)
      /\ place \in There(h, u) /\ globals \in RefsTo(h \cup u)
      /\ uncaught[t] \in There(h, u) /\ doing[t].object \in There(h, u)
      /\ frames[t] # <<>> => Top(t) \in Good(h, u) /\ Top(t).exception \in There(h, u)
                             /\ Top(t).local \in There(h, u)
  BY ValuesAre
<1>2. ASSUME RestStep(t, h, u), UNCHANGED <<vmLocals, stack>> PROVE Inv(h, u)'
  <2>1. FramesInv(h, u)' /\ OutsideInv(h, u)'
    BY <1>0, <1>2, OutsideStays DEF FramesInv, stack
  <2> QED BY <1>0, <1>2, <2>1, RestKeeps DEF Inv
<1>3. ASSUME NEW v \in There(h, u), SetException(t, v), RestStep(t, h, u),
             UNCHANGED <<vmLocals, base>>
      PROVE  Inv(h, u)'
  BY <1>0, <1>3, SetExceptionKeeps, RestKeeps, OutsideStays DEF Inv
<1>4. ASSUME GetObjectField(t) PROVE Inv(h, u)'
  <2>1. RestStep(t, h, u) /\ UNCHANGED <<vmLocals, stack>>
    BY <1>1, <1>4 DEF GetObjectField, Then, Doings, RestStep, graph, stack
  <2> QED BY <1>2, <2>1
<1>5. ASSUME SetObjectField(t) PROVE Inv(h, u)'
  <2>1. RestStep(t, h, u) /\ UNCHANGED <<vmLocals, stack>>
    BY <1>1, <1>5 DEF SetObjectField, RestStep, stack
  <2> QED BY <1>2, <2>1
<1>6. ASSUME Throw(t) PROVE Inv(h, u)'
  <2>1. PICK o \in Usable(t) : SetException(t, o)
    BY <1>6 DEF Throw
  <2>2. RestStep(t, h, u) /\ UNCHANGED <<vmLocals, base>>
    BY <1>1, <1>6 DEF Throw, RestStep, graph
  <2> QED BY <1>1, <1>3, <2>1, <2>2
<1>7. ASSUME ThrowIt(t) PROVE Inv(h, u)'
  <2>1. RestStep(t, h, u) /\ UNCHANGED <<vmLocals, base>>
    BY <1>1, <1>7 DEF ThrowIt, RestStep, graph, Code, Doings
  <2> QED BY <1>1, <1>3, <1>7, <2>1 DEF ThrowIt
<1>8. ASSUME ExceptionOccurred(t) PROVE Inv(h, u)'
  <2>1. OccurredException(t) \in There(h, u)
    BY <1>1 DEF OccurredException
  <2>2. RestStep(t, h, u) /\ UNCHANGED <<vmLocals, stack>>
    BY <1>1, <1>8, <2>1 DEF ExceptionOccurred, Then, Doings, RestStep, graph, stack
  <2> QED BY <1>2, <2>2
<1>9. ASSUME ExceptionClear(t) PROVE Inv(h, u)'
  <2>1. RestStep(t, h, u) /\ UNCHANGED <<vmLocals, base>>
    BY <1>1, <1>9 DEF ExceptionClear, RestStep, graph
  <2>2. SetException(t, Null)
    BY <1>9 DEF ExceptionClear, SetException
  <2> QED BY <1>1, <1>3, <2>1, <2>2
<1>10. ASSUME JavaGetStatic(t) PROVE Inv(h, u)'
  <2>1. /\ frames' = SetTop(t, [Top(t) EXCEPT !.local = place])
        /\ frames[t] # <<>> /\ Top(t).type = "java"
    BY <1>10 DEF JavaGetStatic, InJava
  <2>2. [Top(t) EXCEPT !.local = place] \in Good(h, u)
    BY <1>1, <2>1, GoodValues
  <2>3. FramesInv(h, u)'
    BY <1>0, <2>1, <2>2, SetTopKeeps
  <2>4. RestStep(t, h, u) /\ UNCHANGED <<vmLocals, base>>
    BY <1>1, <1>10 DEF JavaGetStatic, RestStep, graph
  <2> QED BY <1>0, <2>3, <2>4, RestKeeps, OutsideStays DEF Inv
<1>11. ASSUME JavaPutStatic(t) PROVE Inv(h, u)'
  <2>1. RestStep(t, h, u) /\ UNCHANGED <<vmLocals, stack>>
    BY <1>1, <1>11 DEF JavaPutStatic, InJava, RestStep, stack
  <2> QED BY <1>2, <2>1
<1> QED BY <1>4, <1>5, <1>6, <1>7, <1>8, <1>9, <1>10, <1>11
\* Calls and returns.
LEMMA CallSteps ==
  ASSUME NEW h, NEW u, Inv(h, u), h \cup u \subseteq Object, heap \subseteq h, NEW t \in Thread,
         \/ CallMethod(t) \/ CallConstructor(t) \/ SetLocalReferences(t)
         \/ NativeReturn(t) \/ PushResult(t) \/ Rethrow(t)
         \/ JavaReturn(t) \/ JavaThrow(t) \/ JavaCall(t)
  PROVE  Inv(h, u)'
<1>0. FramesInv(h, u) /\ OutsideInv(h, u) /\ RestInv(h, u)
  BY DEF Inv
<1>1. /\ Usable(t) \subseteq h /\ Null \in There(h, u) /\ h \subseteq There(h, u)
      /\ place \in There(h, u) /\ globals \in RefsTo(h \cup u)
      /\ doing[t].object \in There(h, u)
      /\ frames[t] # <<>> => Top(t) \in Good(h, u) /\ Top(t).exception \in There(h, u)
                             /\ Top(t).local \in There(h, u)
  BY ValuesAre
<1>2. ASSUME FramesInv(h, u)', RestStep(t, h, u), UNCHANGED <<vmLocals, base>>
      PROVE  Inv(h, u)'
  BY <1>0, <1>2, RestKeeps, OutsideStays DEF Inv
<1>3. ASSUME CallMethod(t) PROVE Inv(h, u)'
  <2>1. PICK o \in Usable(t), type \in {"java", "native"}, wanted \in BOOLEAN :
          Push(t, o, type, wanted)
    BY <1>3 DEF CallMethod
  <2>2. o \in There(h, u)
    BY <1>1
  <2>3. /\ FramesInv(h, u)'
        /\ \E v \in There(h, u), d \in Doings :
             doing' = [doing EXCEPT ![t] = [what |-> d, object |-> v]]
    BY <1>0, <2>1, <2>2, PushKeeps
  <2>4. RestStep(t, h, u) /\ UNCHANGED <<vmLocals, base>>
    BY <1>1, <1>3, <2>3 DEF CallMethod, RestStep, graph
  <2> QED BY <1>2, <2>3, <2>4
<1>4. ASSUME CallConstructor(t) PROVE Inv(h, u)'
  <2>1. PICK o \in There(h, u), type \in {"java"}, wanted \in BOOLEAN :
          Push(t, o, type, wanted)
    BY <1>1, <1>4 DEF CallConstructor
  <2>2. /\ FramesInv(h, u)'
        /\ \E v \in There(h, u), d \in Doings :
             doing' = [doing EXCEPT ![t] = [what |-> d, object |-> v]]
    BY <1>0, <2>1, PushKeeps
  <2>3. RestStep(t, h, u) /\ UNCHANGED <<vmLocals, base>>
    BY <1>1, <1>4, <2>2 DEF CallConstructor, RestStep, graph
  <2> QED BY <1>2, <2>2, <2>3
<1>5. ASSUME SetLocalReferences(t) PROVE Inv(h, u)'
  <2>1. RestStep(t, h, u) /\ AddLocalRef(t, doing[t].object)
    BY <1>1, <1>5 DEF SetLocalReferences, RestStep, graph, Code, Doings
  <2>2. FramesInv(h, u)' /\ OutsideInv(h, u)'
    BY <1>0, <1>1, <2>1, AddKeeps
  <2> QED BY <1>0, <2>1, <2>2, RestKeeps DEF Inv
<1>9. ASSUME NativeReturn(t) PROVE Inv(h, u)'
  <2>0. /\ frames[t] # <<>> /\ UNCHANGED <<vmLocals, base, place, globals, uncaught>>
        /\ frames' = [frames EXCEPT ![t] = Front(frames[t])]
    BY <1>9 DEF NativeReturn, graph
  <2>1. FramesInv(h, u)'
    <3>1. /\ Front(frames[t]) \in Seq(Good(h, u)) /\ Len(Front(frames[t])) < Depth[t]
          /\ Len(Front(frames[t])) \in Nat /\ Depth[t] \in Nat
      BY <1>0, <2>0, FrontIsGood, LenProperties, ReferencesAssumption
    <3>2. Len(Front(frames[t])) <= Depth[t]
      BY <3>1
    <3> QED BY <1>0, <2>0, <3>1, <3>2, FramesChange
  <2>2. PICK r \in Usable(t) \cup {Null} :
          \/ doing' = [doing EXCEPT ![t] = [what |-> "rethrow", object |-> Top(t).exception]]
          \/ doing' = [doing EXCEPT ![t] = [what |-> "result", object |-> r]]
          \/ doing' = [doing EXCEPT ![t] = [what |-> "ref", object |-> r]]
          \/ UNCHANGED doing
    <3> DEFINE NR(r) ==
          LET rest == Front(frames[t]) IN
          IF Top(t).exception # Null THEN rest # <<>> /\ Then(t, "rethrow", Top(t).exception)
          ELSE IF rest # <<>> /\ Last(rest).type = "java" THEN Then(t, "result", r)
          ELSE IF Top(t).wanted THEN Then(t, "ref", r)
          ELSE UNCHANGED doing
    <3>1. \E r \in Usable(t) \cup {Null} : NR(r)
      BY <1>9 DEF NativeReturn
    <3>2. ASSUME NEW r, NR(r)
          PROVE  \/ Then(t, "rethrow", Top(t).exception)
                 \/ Then(t, "result", r) \/ Then(t, "ref", r) \/ UNCHANGED doing
      <4>1. CASE Top(t).exception # Null
        BY <3>2, <4>1
      <4>2. CASE Top(t).exception = Null
        BY <3>2, <4>2
      <4> QED BY <4>1, <4>2
    <3> HIDE DEF NR
    <3> QED BY <3>1, <3>2 DEF Then
  <2>3. r \in There(h, u) /\ {"rethrow", "result", "ref"} \subseteq Doings
    BY <1>1 DEF Doings
  <2>4. RestStep(t, h, u)
    BY <1>1, <2>0, <2>2, <2>3 DEF RestStep
  <2> QED BY <1>2, <2>0, <2>1, <2>4
<1>10. ASSUME PushResult(t) PROVE Inv(h, u)'
  <2>1. /\ frames' = SetTop(t, [Top(t) EXCEPT !.local = doing[t].object])
        /\ RestStep(t, h, u) /\ UNCHANGED <<vmLocals, base>>
    BY <1>1, <1>10 DEF PushResult, RestStep, graph, Code, Doings
  <2>2. frames[t] # <<>> /\ Top(t).type = "java"
    BY <1>10 DEF PushResult
  <2>3. [Top(t) EXCEPT !.local = doing[t].object] \in Good(h, u)
    BY <1>1, <2>2, GoodValues
  <2>4. FramesInv(h, u)'
    BY <1>0, <2>1, <2>2, <2>3, SetTopKeeps
  <2> QED BY <1>2, <2>1, <2>4
<1>11. ASSUME Rethrow(t) PROVE Inv(h, u)'
  <2>1. /\ Unwind(t, frames[t], doing[t].object)
        /\ UNCHANGED <<vmLocals, base, place, globals>>
        /\ doing' = [doing EXCEPT ![t] = [what |-> "code", object |-> Null]]
    BY <1>11 DEF Rethrow, graph, Code
  <2>2. MayBeFrames(frames[t], t, h, u)
    BY <1>0 DEF FramesInv, MayBeFrames
  <2>3. /\ FramesInv(h, u)'
        /\ UNCHANGED uncaught \/ uncaught' = [uncaught EXCEPT ![t] = doing[t].object]
    BY <1>0, <1>1, <2>1, <2>2, UnwindKeeps
  <2>4. RestStep(t, h, u)
    BY <1>1, <2>1, <2>3 DEF RestStep, Doings
  <2> QED BY <1>2, <2>1, <2>3, <2>4
<1>6. ASSUME JavaReturn(t) PROVE Inv(h, u)'
  <2>1. /\ frames[t] # <<>> /\ UNCHANGED <<vmLocals, base, place, globals, uncaught>>
        /\ Deliver(t, Front(frames[t]), Top(t).wanted, Top(t).local)
    BY <1>6 DEF JavaReturn, InJava, graph
  <2>2. FramesInv(h, u)'
    BY <1>0, <1>1, <2>1, DeliverKeeps
  <2>3. RestStep(t, h, u)
    BY <1>1, <2>1 DEF Deliver, Then, Doings, RestStep
  <2> QED BY <1>2, <2>1, <2>2, <2>3
<1>7. ASSUME JavaThrow(t) PROVE Inv(h, u)'
  <2>1. /\ frames[t] # <<>> /\ UNCHANGED <<vmLocals, base, place, globals, doing>>
        /\ Unwind(t, frames[t], Top(t).local)
    BY <1>7 DEF JavaThrow, InJava, graph
  <2>2. MayBeFrames(frames[t], t, h, u)
    BY <1>0 DEF FramesInv, MayBeFrames
  <2>3. /\ FramesInv(h, u)'
        /\ UNCHANGED uncaught \/ uncaught' = [uncaught EXCEPT ![t] = Top(t).local]
    BY <1>0, <1>1, <2>1, <2>2, UnwindKeeps
  <2>4. RestStep(t, h, u)
    BY <1>1, <2>1, <2>3 DEF RestStep
  <2> QED BY <1>2, <2>1, <2>3, <2>4
<1>8. ASSUME JavaCall(t) PROVE Inv(h, u)'
  <2>1. PICK type \in {"java", "native"} : Push(t, Top(t).local, type, FALSE)
    BY <1>8 DEF JavaCall
  <2>2. Top(t).local \in There(h, u) /\ FALSE \in BOOLEAN
    BY <1>1, <1>8 DEF JavaCall, InJava
  <2>3. /\ FramesInv(h, u)'
        /\ \E v \in There(h, u), d \in Doings :
             doing' = [doing EXCEPT ![t] = [what |-> d, object |-> v]]
    BY <1>0, <2>1, <2>2, PushKeeps
  <2>4. RestStep(t, h, u) /\ UNCHANGED <<vmLocals, base>>
    BY <1>1, <1>8, <2>3 DEF JavaCall, RestStep, graph
  <2> QED BY <1>2, <2>3, <2>4
<1> QED BY <1>3, <1>4, <1>5, <1>6, <1>7, <1>8, <1>9, <1>10, <1>11

\* Functions and instructions that create an object.
LEMMA NewSteps ==
  ASSUME NEW h, NEW u, Inv(h, u), h \cup u \subseteq Object, heap \subseteq h, NEW t \in Thread,
         heap' \subseteq h, unlisted' \subseteq u,
         \/ AllocObject(t) \/ NewObject(t) \/ CreateOutside(t) \/ NewString(t)
         \/ ThrowNew(t) \/ JavaNew(t)
  PROVE  Inv(h, u)'
<1>0. FramesInv(h, u) /\ OutsideInv(h, u) /\ RestInv(h, u)
  BY DEF Inv
<1>1. /\ Null \in There(h, u) /\ h \subseteq There(h, u)
      /\ place \in There(h, u) /\ globals \in RefsTo(h \cup u)
      /\ frames[t] # <<>> => Top(t) \in Good(h, u)
  BY ValuesAre
<1>2. \A o : Allocate(o) => o \in h
  BY DEF Allocate
<1>3. ASSUME NEW x \in There(h, u), AddLocalRef(t, x), RestStep(t, h, u)
      PROVE  Inv(h, u)'
  BY <1>0, <1>3, AddKeeps, RestKeeps DEF Inv
<1>4. ASSUME RestStep(t, h, u), UNCHANGED <<vmLocals, stack>> PROVE Inv(h, u)'
  <2>1. FramesInv(h, u)' /\ OutsideInv(h, u)'
    BY <1>0, <1>4, OutsideStays DEF FramesInv, stack
  <2> QED BY <1>0, <1>4, <2>1, RestKeeps DEF Inv
<1>5. ASSUME AllocObject(t) PROVE Inv(h, u)'
  <2>1. PICK o \in Fresh : Allocate(o) /\ AddLocalRef(t, o)
    BY <1>5 DEF AllocObject
  <2>2. RestStep(t, h, u)
    BY <1>1, <1>5 DEF AllocObject, RestStep
  <2> QED BY <1>1, <1>2, <1>3, <2>1, <2>2
<1>6. ASSUME NewObject(t) PROVE Inv(h, u)'
  <2>1. PICK o \in Fresh : Allocate(o) /\ AddLocalRef(t, o) /\ Then(t, "construct", o)
    BY <1>6 DEF NewObject
  <2>2. o \in There(h, u)
    BY <1>1, <1>2, <2>1
  <2>3. RestStep(t, h, u)
    BY <1>1, <1>6, <2>1, <2>2 DEF NewObject, Then, Doings, RestStep
  <2> QED BY <1>3, <2>1, <2>2, <2>3
<1>7. ASSUME CreateOutside(t) PROVE Inv(h, u)'
  <2>1. PICK o \in Fresh : Allocate(o) /\ Then(t, "ref", o)
    BY <1>7 DEF CreateOutside
  <2>2. o \in There(h, u)
    BY <1>1, <1>2, <2>1
  <2>3. RestStep(t, h, u) /\ UNCHANGED <<vmLocals, stack>>
    BY <1>1, <1>7, <2>1, <2>2 DEF CreateOutside, Then, Doings, RestStep, stack
  <2> QED BY <1>4, <2>3
<1>8. ASSUME ThrowNew(t) PROVE Inv(h, u)'
  <2>1. PICK o \in Fresh : Allocate(o) /\ Then(t, "throw", o)
    BY <1>8 DEF ThrowNew
  <2>2. o \in There(h, u)
    BY <1>1, <1>2, <2>1
  <2>3. RestStep(t, h, u) /\ UNCHANGED <<vmLocals, stack>>
    BY <1>1, <1>8, <2>1, <2>2 DEF ThrowNew, Then, Doings, RestStep, stack
  <2> QED BY <1>4, <2>3
<1>9. ASSUME JavaNew(t) PROVE Inv(h, u)'
  <2>1. PICK o \in Fresh : Allocate(o) /\ frames' = SetTop(t, [Top(t) EXCEPT !.local = o])
    BY <1>9 DEF JavaNew
  <2>2. o \in There(h, u) /\ frames[t] # <<>> /\ Top(t).type = "java"
    BY <1>1, <1>2, <1>9, <2>1 DEF JavaNew, InJava
  <2>3. [Top(t) EXCEPT !.local = o] \in Good(h, u)
    BY <1>1, <2>2, GoodValues
  <2>4. FramesInv(h, u)'
    BY <1>0, <2>1, <2>2, <2>3, SetTopKeeps
  <2>5. RestStep(t, h, u) /\ UNCHANGED <<vmLocals, base>>
    BY <1>1, <1>9 DEF JavaNew, RestStep
  <2> QED BY <1>0, <2>4, <2>5, RestKeeps, OutsideStays DEF Inv
<1>10. ASSUME NewString(t) PROVE Inv(h, u)'
  <2>1. PICK o \in Fresh :
          /\ unlisted' = unlisted \cup {o}
          /\ IF frames[t] = <<>>
             THEN base' = [base EXCEPT ![t] = @ (+) SetToBag({o})] /\ UNCHANGED frames
             ELSE /\ frames' = SetTop(t, [Top(t) EXCEPT !.held = @ (+) SetToBag({o})])
                  /\ UNCHANGED base
    BY <1>10 DEF NewString
  <2>2. o \in u
    BY <2>1
  <2>3. RestStep(t, h, u) /\ UNCHANGED vmLocals
    BY <1>1, <1>10 DEF NewString, RestStep
  <2>4. RestInv(h, u)'
    BY <1>0, <2>3, RestKeeps
  <2>5. CASE frames[t] = <<>>
    <3>1. base' = [base EXCEPT ![t] = @ (+) SetToBag({o})] /\ UNCHANGED frames
      BY <2>1, <2>5
    <3>2. OutsideInv(h, u)'
      BY <1>0, <2>2, <2>3, <3>1, OutsideAdds
    <3> QED BY <1>0, <2>4, <3>1, <3>2 DEF Inv, FramesInv
  <2>6. CASE frames[t] # <<>>
    <3>1. /\ frames' = SetTop(t, [Top(t) EXCEPT !.held = @ (+) SetToBag({o})])
          /\ UNCHANGED base /\ Top(t).type = "native"
      BY <1>10, <2>1, <2>6 DEF NewString, InNative
    <3>2. [Top(t) EXCEPT !.held = @ (+) SetToBag({o})] \in Good(h, u)
      BY <1>1, <2>2, <2>6, <3>1, GoodHolds
    <3>3. FramesInv(h, u)'
      BY <1>0, <2>6, <3>1, <3>2, SetTopKeeps
    <3> QED BY <1>0, <2>3, <2>4, <3>1, <3>3, OutsideStays DEF Inv
  <2> QED BY <2>5, <2>6
<1> QED BY <1>5, <1>6, <1>7, <1>8, <1>9, <1>10
\* Nothing is there and nothing is held in the beginning.
LEMMA InitHolds == Init => IInv
<1> SUFFICES ASSUME Init PROVE IInv
  OBVIOUS
<1>1. /\ heap = {} /\ unlisted = {} /\ place = Null /\ globals = EmptyBag
      /\ vmLocals = EmptyBag /\ frames = [t \in Thread |-> <<>>]
      /\ base = [t \in Thread |-> EmptyBag] /\ uncaught = [t \in Thread |-> Null]
      /\ doing = [t \in Thread |-> Code]
  BY DEF Init
<1>2. /\ EmptyBag \in RefsTo(heap \cup unlisted) /\ \A o : Copies(o, EmptyBag) = 0
      /\ Null \in There(heap, unlisted)
  BY FirstBags DEF There
<1>3. FramesInv(heap, unlisted)
  <2>1. /\ <<>> \in Seq(Good(heap, unlisted)) /\ Len(<<>>) = 0
        /\ \A t \in Thread : Depth[t] \in Nat
    BY EmptySeq, ReferencesAssumption
  <2> QED BY <1>1, <2>1 DEF FramesInv
<1>4. OutsideInv(heap, unlisted)
  <2>1. ASSUME NEW o PROVE HeldOutside(o) = {}
    <3>1. \A e : e \in HeldOutside(o) <=>
            \E t \in Thread : \E n \in 1 .. Copies(o, base[t]) : e = <<t, n>>
      BY OutsideIs, OutsideParts
    <3>2. \A t \in Thread : 1 .. Copies(o, base[t]) = {}
      BY <1>1, <1>2
    <3> QED BY <3>1, <3>2
  <2>2. ASSUME NEW o
        PROVE  /\ IsFiniteSet(HeldOutside(o))
               /\ Lists(o, Copies(o, vmLocals), Cardinality(HeldOutside(o)), unlisted)
    <3>1. IsFiniteSet(HeldOutside(o)) /\ Cardinality(HeldOutside(o)) = 0
      BY <2>1, FS_EmptySet
    <3> QED BY <1>1, <1>2, <3>1 DEF Lists
  <2> QED BY <1>1, <1>2, <2>2 DEF OutsideInv
<1>5. RestInv(heap, unlisted)
  BY <1>1, <1>2 DEF RestInv, Code, Doings
<1> QED BY <1>1, <1>3, <1>4, <1>5 DEF IInv, Inv

\* A collection changes nothing but the container.
LEMMA RestStays ==
  ASSUME NEW h, NEW u, Inv(h, u),
         UNCHANGED <<place, globals, vmLocals, frames, base, uncaught, doing>>
  PROVE  Inv(h, u)'
BY DEF Inv, FramesInv, OutsideInv, RestInv, HeldOutside

\* Every step keeps the invariant.
LEMMA StepKeeps == IInv /\ [Next]_vars => IInv'
<1> SUFFICES ASSUME IInv, [Next]_vars PROVE IInv'
  OBVIOUS
<1>0. heap \subseteq Object /\ unlisted \subseteq Object /\ Inv(heap, unlisted)
  BY DEF IInv
<1>1. CASE UNCHANGED vars
  BY <1>1 DEF vars, IInv, Inv, FramesInv, OutsideInv, RestInv, HeldOutside
<1>2. CASE Defined /\ Collect
  <2> SUFFICES ASSUME NEW h, NEW u, h = heap', u = unlisted' PROVE IInv'
    OBVIOUS
  <2>1. /\ h = heap \cap Roots
        /\ u = (unlisted \cup ({doing[t].object : t \in Thread} \ (h \cup {Null})))
               \cap (h \cup Named)
        /\ UNCHANGED <<place, globals, vmLocals, frames, base, uncaught, doing>>
    BY <1>2 DEF Collect, stack
  <2>2. Carries(h, u)
    BY <1>2, <2>1, CarryCollect
  <2>3. Inv(h, u) /\ h \cup u \subseteq Object
    BY <2>2, Carry DEF Carries
  <2>4. Inv(h, u)'
    BY <2>1, <2>3, RestStays
  <2> QED BY <2>3, <2>4, Primed
<1>3. ASSUME NEW t \in Thread, UNCHANGED <<heap, unlisted>>,
             \A h, u : Inv(h, u) /\ h \cup u \subseteq Object /\ heap \subseteq h => Inv(h, u)'
      PROVE  IInv'
  <2>1. PICK h, u : h = heap /\ u = unlisted
    OBVIOUS
  <2>2. Inv(h, u) /\ h \cup u \subseteq Object /\ heap \subseteq h
    BY <1>0, <2>1
  <2>3. h = heap' /\ u = unlisted' /\ Inv(h, u)'
    BY <1>3, <2>1, <2>2
  <2> QED BY <2>2, <2>3, Primed
<1>4. ASSUME NEW t \in Thread,
             \/ NewLocalRef(t) \/ NewGlobalRef(t) \/ DeleteGlobalRef(t) \/ DeleteLocalRef(t)
             \/ GetObjectArrayElement(t) \/ MakeRef(t)
      PROVE  IInv'
  <2>1. UNCHANGED <<heap, unlisted>>
    BY <1>4 DEF NewLocalRef, NewGlobalRef, DeleteGlobalRef, DeleteLocalRef,
                GetObjectArrayElement, MakeRef, graph
  <2> QED BY <1>3, <1>4, <2>1, ReferenceSteps
<1>5. ASSUME NEW t \in Thread,
             \/ GetObjectField(t) \/ SetObjectField(t) \/ Throw(t) \/ ThrowIt(t)
             \/ ExceptionOccurred(t) \/ ExceptionClear(t)
             \/ JavaGetStatic(t) \/ JavaPutStatic(t)
      PROVE  IInv'
  <2>1. UNCHANGED <<heap, unlisted>>
    BY <1>5 DEF GetObjectField, SetObjectField, Throw, ThrowIt, ExceptionOccurred,
                ExceptionClear, JavaGetStatic, JavaPutStatic, graph
  <2> QED BY <1>3, <1>5, <2>1, ValueSteps
<1>6. ASSUME NEW t \in Thread,
             \/ CallMethod(t) \/ CallConstructor(t) \/ SetLocalReferences(t)
             \/ NativeReturn(t) \/ PushResult(t) \/ Rethrow(t)
             \/ JavaReturn(t) \/ JavaThrow(t) \/ JavaCall(t)
      PROVE  IInv'
  <2>1. UNCHANGED <<heap, unlisted>>
    BY <1>6 DEF CallMethod, CallConstructor, SetLocalReferences, NativeReturn, PushResult,
                Rethrow, JavaReturn, JavaThrow,
                JavaCall, graph
  <2> QED BY <1>3, <1>6, <2>1, CallSteps
<1>7. ASSUME Defined, NEW t \in Thread, NEW o \in Fresh,
             heap' = heap \cup {o},
             unlisted' = unlisted \ {o} \/ unlisted' = unlisted \cup {o},
             \/ AllocObject(t) \/ NewObject(t) \/ CreateOutside(t) \/ NewString(t)
             \/ ThrowNew(t) \/ JavaNew(t)
      PROVE  IInv'
  <2>1. Carries(heap', unlisted')
    BY <1>7, CarryAllocate, CarryString DEF Fresh
  <2>2. PICK h, u : h = heap' /\ u = unlisted'
    OBVIOUS
  <2>3. Carries(h, u)
    BY <2>1, <2>2
  <2>4. heap \subseteq h /\ heap' \subseteq h /\ unlisted' \subseteq u
    BY <1>7, <2>2
  <2>5. Inv(h, u) /\ h \cup u \subseteq Object
    BY <2>3, Carry DEF Carries
  <2>6. Inv(h, u)'
    BY <1>7, <2>4, <2>5, NewSteps
  <2> QED BY <2>2, <2>5, <2>6, Primed
<1>8. ASSUME Defined, NEW t \in Thread,
             \/ AllocObject(t) \/ NewObject(t) \/ CreateOutside(t) \/ NewString(t)
             \/ ThrowNew(t) \/ JavaNew(t)
      PROVE  IInv'
  <2>1. PICK o \in Fresh : /\ heap' = heap \cup {o}
                           /\ unlisted' = unlisted \ {o} \/ unlisted' = unlisted \cup {o}
    BY <1>8 DEF AllocObject, NewObject, CreateOutside, NewString, ThrowNew, JavaNew, Allocate
  <2> QED BY <1>7, <1>8, <2>1
<1> QED BY <1>1, <1>2, <1>4, <1>5, <1>6, <1>8 DEF Next, NewObjectArray, JVM_Clone

-----------------------------------------------------------------------------
(* What it says about every behaviour.                                     *)

\* The invariant holds in every state.
LEMMA AlwaysIInv == Spec => []IInv
BY InitHolds, StepKeeps, PTL DEF Spec

\* Every variable is of its type and every list, that of a native frame and the
\* one of the virtual machine for code outside frames, has exactly the
\* references that JNI has given out through it and not taken back
\* (addLocalRef, removeLocalRef, Method::invokeNative), but for the objects
\* that were given out without one.
THEOREM ListsAreRight == Spec => []ListsHoldTheHeld
<1>1. IInv => ListsHoldTheHeld
  <2> SUFFICES ASSUME IInv PROVE ListsHoldTheHeld
    OBVIOUS
  <2>1. heap \cup unlisted \subseteq Object
    BY DEF IInv
  <2>2. ASSUME NEW B \in RefsTo(heap \cup unlisted) PROVE IsRefs(B)
    BY <2>1, BagParts DEF IsRefs
  <2>3. ASSUME NEW t \in Thread, NEW i \in DOMAIN frames[t]
        PROVE  /\ frames[t][i].type \in {"java", "native"} /\ frames[t][i].wanted \in BOOLEAN
               /\ IsRefs(frames[t][i].localReferences) /\ IsRefs(frames[t][i].held)
               /\ {frames[t][i].local, frames[t][i].exception} \subseteq Optional
               /\ \A o \in Object : Lists(o, Copies(o, frames[t][i].localReferences),
                                          Copies(o, frames[t][i].held), unlisted)
    <3>1. PICK f \in Good(heap, unlisted) : f = frames[t][i]
      BY FramesAreGood
    <3>2. /\ f.type \in {"java", "native"} /\ f.wanted \in BOOLEAN
          /\ IsRefs(f.localReferences) /\ IsRefs(f.held)
          /\ \A o \in Object : Lists(o, Copies(o, f.localReferences), Copies(o, f.held), unlisted)
      BY <2>2, GoodParts
    <3>3. {f.local, f.exception} \subseteq Optional
      <4>1. f.local \in There(heap, unlisted) /\ f.exception \in There(heap, unlisted)
        BY GoodParts
      <4> QED BY <2>1, <4>1 DEF There, Optional
    <3> QED BY <3>1, <3>2, <3>3
  <2>4. /\ place \in Optional /\ uncaught \in [Thread -> Optional]
        /\ \A t \in Thread : /\ doing[t].object \in Optional
                             /\ doing[t].what \in Doings
    <3>1. There(heap, unlisted) \subseteq Optional
      BY <2>1 DEF There, Optional
    <3> QED BY <3>1 DEF IInv, Inv, RestInv
  <2>5. IsRefs(globals) /\ IsRefs(vmLocals) /\ \A t \in Thread : IsRefs(base[t])
    BY <2>2 DEF IInv, Inv, OutsideInv, RestInv
  <2>6. TypeOK
    BY <2>1, <2>3, <2>4, <2>5 DEF TypeOK, IInv, Inv, FramesInv
  <2>7. ASSUME NEW o \in Object \ unlisted
        PROVE  Copies(o, vmLocals) = Cardinality(HeldOutside(o))
    BY OutsideHolds DEF Lists
  <2> QED BY <2>3, <2>6, <2>7 DEF ListsHoldTheHeld, Lists
<1> QED BY <1>1, AlwaysIInv, PTL

\* What the program holds names an object that is there, or one whose
\* reference was given out before, or without, an entry in a list, or that a
\* native method returned or threw while a collection fell between the pop of
\* its frame and what its caller gets (Method::invokeNative).
THEOREM HeldIsAlive == Spec => []HeldStaysAlive
<1>1. IInv => HeldStaysAlive
  BY NamesAreKnown DEF HeldStaysAlive, There
<1> QED BY <1>1, AlwaysIInv, PTL

\* A collection (collectGarbage) keeps every object that the program holds a
\* listed reference to and keeps nothing that is not held.
THEOREM CollectionIsExact == Spec => CollectsExactly
<1>1. IInv /\ [Next]_vars =>
        [Collect => /\ (heap \cap HeldRoots) \ unlisted \subseteq heap'
                    /\ heap' \subseteq HeldRoots]_vars
  <2> SUFFICES ASSUME IInv, Collect
               PROVE  /\ (heap \cap HeldRoots) \ unlisted \subseteq heap'
                      /\ heap' \subseteq HeldRoots
    OBVIOUS
  <2>1. heap' = heap \cap Roots /\ heap \subseteq Object
    BY DEF Collect, IInv
  <2>2. ASSUME NEW o \in (heap \cap HeldRoots) \ unlisted PROVE o \in heap'
    BY <2>1, HeldIsMarked
  <2>3. ASSUME NEW o \in heap' PROVE o \in HeldRoots
    BY <2>1, RootsAreHeld
  <2> QED BY <2>2, <2>3
<1> QED BY <1>1, AlwaysIInv, PTL DEF Spec, CollectsExactly
=============================================================================
