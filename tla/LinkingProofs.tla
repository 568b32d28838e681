--------------------------- MODULE LinkingProofs ---------------------------
(***************************************************************************)
(* Theorems about module Linking.                                          *)
(***************************************************************************)
EXTENDS Linking, SequenceTheorems, FiniteSetTheorems, NaturalsInduction, TLAPS

-----------------------------------------------------------------------------
(* The invariant, in named parts.                                          *)

TheClass == <<Boot, Class>>
Quiet == {"method", "register", "resolved", "sweep"}

\* Where a call stands, and the loader that it asks there.
StepOf(c) == Steps(c)[c.at]

AskedBy(c) ==
  IF StepOf(c).name \in Primitive \/ StepOf(c).what = "object"
     \/ (c.kind = "array" /\ StepOf(c).what # "component")
    THEN Boot
    ELSE c.id[1]

\* Each kind of call is for names of its kind.
Fits(kind, id) ==
  CASE kind = "link" -> IsClass(id[2]) /\ id[2] \in DOMAIN program.files
    [] kind = "array" -> id[2] \in Array
    [] kind = "primitive" -> id[1] = Boot /\ id[2] \in Primitive
    [] OTHER -> kind = "java" /\ id[1] # Boot /\ IsClass(id[2])

\* A class is in the table while it is linked, and after Java has defined it.
CallOK(c) ==
  /\ c.id \in Id /\ c.at \in Nat \ {0} /\ Fits(c.kind, c.id)
  /\ c.kind = "java" => c.at <= 3
  /\ c.kind # "java" => c.at <= Len(Steps(c))
  /\ c.kind \in {"link", "primitive"} => c.id \in DOMAIN class
  /\ c.kind = "java" /\ c.at = 3 => c.id \in DOMAIN class
  /\ c.kind = "array" =>
       /\ c.got \in Seq(DOMAIN class)
       /\ c.at < Len(Steps(c)) => Len(c.got) = c.at - 1
       /\ c.at = Len(Steps(c)) => c.id \in DOMAIN class
  /\ c.kind = "link" => (class[c.id].resolved <=> c.at = Len(Steps(c)))

Fields == {"name", "kind", "super", "interfaces", "component", "acc_super", "declared",
           "object_size", "fields", "pool", "resolved", "static_memory", "object"}

\* A class of the table; arrays and primitive types are entered resolved.
ClassOK(c, id) ==
  /\ DOMAIN c = Fields
  /\ c.kind \in {"class", "interface", "array", "primitive"}
  /\ (c.kind = "array" <=> id[2] \in Array) /\ (c.kind = "primitive" <=> id[2] \in Primitive)
  /\ c.super \in DOMAIN class \cup {None}
  /\ c.interfaces \subseteq DOMAIN class
  /\ c.component \in DOMAIN class \cup {None}
  /\ \A i \in DOMAIN c.fields : c.fields[i].type \in DOMAIN class
  /\ \E T : c.fields \in Seq(T)
  /\ \A n \in DOMAIN c.pool : c.pool[n] \in DOMAIN class /\ c.pool[n][2] = n
  /\ c.resolved \in BOOLEAN /\ c.object \in Nat /\ c.object_size \in Nat
  /\ c.kind \in {"class", "interface"} => id[2] \in DOMAIN program.files
  /\ c.kind \in {"array", "primitive"} => c.resolved

HasClass == TheClass \in DOMAIN class /\ class[TheClass].resolved

\* What a call has returned is what its caller has asked for.
Returned(s) ==
  /\ ret \in Id \cup {None, Failed}
  /\ ret \in Id => ret \in DOMAIN class
  /\ s # <<>> /\ ret # None =>
       IF s[1].kind = "java"
         THEN s[1].at # 1 /\ (ret \in Id => ret[2] = s[1].id[2])
         ELSE /\ StepOf(s[1]).what \notin Quiet
              /\ ret \in Id => ret[2] = StepOf(s[1]).name
              /\ StepOf(s[1]).what = "object" => IF ret = Failed THEN ~HasClass ELSE ret = TheClass

CallsOK(s) == (\E T : s \in Seq(T)) /\ \A i \in 1 .. Len(s) : CallOK(s[i])

Table ==
  /\ program \in Programs
  /\ DOMAIN class \subseteq Id
  /\ \A id \in DOMAIN class : ClassOK(class[id], id)
  /\ early \subseteq DOMAIN class /\ broken \subseteq DOMAIN class

\* The call d was made by the call c.
Called(c, d) ==
  IF c.kind = "java"
    THEN c.at \in {2, 3} /\ d.kind = "link" /\ d.id[2] = c.id[2]
    ELSE StepOf(c).what \notin Quiet /\ d.id = <<AskedBy(c), StepOf(c).name>>

InOrder(s) == \A i \in 2 .. Len(s) : Called(s[i], s[i - 1])

\* A Java loader that has asked the bootstrap loader waits for that one alone.
Delegates(s) ==
  \A i, j \in 1 .. Len(s) :
    i < j /\ s[j].kind = "java" /\ s[j].at = 2 => s[i].id[1] = Boot

\* The dimensions of an array.
Dimensions ==
  CHOOSE dimensions \in [Array -> 1 .. 255] :
    \A a \in Array : ElementOf[a] \in Array => dimensions[ElementOf[a]] < dimensions[a]

\* Arrays ask for their components down to a class.
NoLink(s, i, j) == \A k \in i + 1 .. j - 1 : s[k].kind # "link"

Descends(s) ==
  \A i, j \in 1 .. Len(s) :
    i < j /\ s[i].kind = "array" /\ s[j].kind = "array" /\ NoLink(s, i, j)
      => Dimensions[s[i].id[2]] < Dimensions[s[j].id[2]]

\* No other call is under way twice.
OnlyArraysAgain(s) ==
  \A i, j \in 1 .. Len(s) :
    i < j /\ s[i].id = s[j].id /\ s[i].kind = s[j].kind => s[i].kind = "array"

Nested(s) == InOrder(s) /\ Delegates(s) /\ Descends(s) /\ OnlyArraysAgain(s)

\* How far a class has come when linking is at a step.
Upto(n, least, most) == IF n < least THEN least ELSE IF n > most THEN most ELSE n

MethodsBefore(steps, at) ==
  {steps[k].name : k \in {j \in 1 .. at - 1 : steps[j].what = "method"}}

FirstNames(f, i) == {f.interfaces[j] : j \in 1 .. i}

SuperSteps(f) == IF f.super = None THEN 0 ELSE 1

Come(f, steps, c, at) ==
  LET s == SuperSteps(f)
      i == Upto(at - 1 - s, 0, Len(f.interfaces))
  IN  /\ c.super = None <=> (s = 0 \/ at = 1)
      /\ IsFiniteSet(c.interfaces) /\ Cardinality(c.interfaces) = i
      /\ {d[2] : d \in c.interfaces} = FirstNames(f, i)
      /\ Len(c.fields) = Upto(at - 1 - s - Len(f.interfaces), 0, Len(f.fields))
      /\ c.declared = MethodsBefore(steps, at)

Progress(id, at) == Come(File(id), LinkSteps(id), class[id], at)

Finished(id) == class[id].resolved /\ Progress(id, Len(LinkSteps(id)))

LinkedBy(s) == {s[i].id : i \in {j \in 1 .. Len(s) : s[j].kind = "link"}}

Progresses(s) ==
  /\ \A i \in 1 .. Len(s) : s[i].kind = "link" => Progress(s[i].id, s[i].at)
  /\ \A id \in DOMAIN class :
       class[id].kind \in {"class", "interface"} /\ id \notin LinkedBy(s) \cup broken =>
         Finished(id)

\* Once java/lang/Class is linked, a class is without its instance of it only
\* while a call is there that creates it.
Creates(c) == c.kind \in {"link", "primitive"} \/ (c.kind = "array" /\ c.at = Len(Steps(c)))

CreatedBy(s) == {s[i].id : i \in {j \in 1 .. Len(s) : Creates(s[j])}}

Instances(s) ==
  HasClass /\ TheClass \notin LinkedBy(s) =>
    \A id \in DOMAIN class : id \notin broken \cup CreatedBy(s) => class[id].object > 0

Good(s) == Table /\ CallsOK(s) /\ Nested(s) /\ Progresses(s) /\ Instances(s)

LinkingInv == Good(stack) /\ Returned(stack)

-----------------------------------------------------------------------------
(* Sequences.                                                              *)

\* A set of natural numbers has a least one.
LEMMA LeastNat ==
  ASSUME NEW T \in SUBSET Nat, T # {}
  PROVE  \E m \in T : \A n \in T : m <= n
<1> DEFINE R == OpToRel(<, Nat)
<1>1. IsWellFoundedOn(R, Nat)
  BY NatLessThanWellFounded
<1>2. \A x, y \in Nat : <<x, y>> \in R <=> x < y
  BY DEF OpToRel
<1> HIDE DEF R
<1>3. PICK m \in T : \A n \in T : ~(<<n, m>> \in R)
  BY <1>1, WFMin
<1>4. ASSUME NEW n \in T PROVE m <= n
  <2>1. m \in Nat /\ n \in Nat
    OBVIOUS
  <2>2. ~(n < m)
    BY <1>2, <1>3, <2>1
  <2> QED BY <2>1, <2>2
<1> QED BY <1>4

\* FlattenSeq is computed by a function, which exists.
Flattens(f, ss, n) == f = [i \in 1 .. n |-> IF i = 1 THEN ss[i] ELSE f[i - 1] \o ss[i]]

\* Over any sequence of sequences.
LEMMA FlattensExists ==
  ASSUME NEW ss, NEW n \in Nat \ {0}
  PROVE  \E f : Flattens(f, ss, n)
<1> SUFFICES ASSUME ~ \E f : Flattens(f, ss, n) PROVE FALSE
  OBVIOUS
<1> DEFINE T == {m \in 1 .. n : ~ \E f : Flattens(f, ss, m)}
<1>1. n \in T /\ T \in SUBSET Nat
  OBVIOUS
<1>2. PICK m \in T : \A k \in T : m <= k
  BY <1>1, LeastNat
<1>3. m \in 1 .. n /\ ~ \E f : Flattens(f, ss, m)
  OBVIOUS
<1>4. m # 1
  <2>1. SUFFICES ASSUME m = 1 PROVE FALSE
    OBVIOUS
  <2> DEFINE g == [i \in 1 .. 1 |-> ss[i]]
  <2>2. Flattens(g, ss, 1)
    BY DEF Flattens
  <2> HIDE DEF g
  <2> QED BY <1>3, <2>1, <2>2
<1>5. m - 1 \in 1 .. n /\ ~(m <= m - 1)
  BY <1>3, <1>4
<1>6. PICK f : Flattens(f, ss, m - 1)
  BY <1>2, <1>5
<1> DEFINE g == [i \in 1 .. m |-> IF i = m THEN f[m - 1] \o ss[m] ELSE f[i]]
<1>7. Flattens(g, ss, m)
  <2>1. ASSUME NEW i \in 1 .. m
        PROVE  g[i] = IF i = 1 THEN ss[i] ELSE g[i - 1] \o ss[i]
    <3>1. CASE i = m
      <4>1. m - 1 \in 1 .. m /\ m - 1 # m
        BY <1>3, <1>4
      <4> QED BY <1>4, <3>1, <4>1
    <3>2. CASE i # m
      <4>1. i \in 1 .. m - 1 /\ (i # 1 => i - 1 \in 1 .. m /\ i - 1 # m)
        BY <1>3, <3>2
      <4>2. f[i] = IF i = 1 THEN ss[i] ELSE f[i - 1] \o ss[i]
        BY <1>6, <4>1 DEF Flattens
      <4> QED BY <3>2, <4>1, <4>2
    <3> QED BY <3>1, <3>2
  <2> QED BY <2>1 DEF Flattens
<1> HIDE DEF g
<1> QED BY <1>3, <1>7

\* What is in a sequence.
In(x, s) == \E k \in 1 .. Len(s) : s[k] = x

\* In a concatenation is what is in one of its parts.
LEMMA InConcat ==
  ASSUME NEW S, NEW s \in Seq(S), NEW t \in Seq(S), NEW x
  PROVE  In(x, s \o t) <=> In(x, s) \/ In(x, t)
<1>1. /\ Len(s) \in Nat /\ Len(t) \in Nat /\ Len(s \o t) = Len(s) + Len(t)
      /\ \A k \in 1 .. Len(s) + Len(t) :
           (s \o t)[k] = IF k <= Len(s) THEN s[k] ELSE t[k - Len(s)]
  BY ConcatProperties
<1>2. ASSUME NEW k \in 1 .. Len(s) + Len(t), (s \o t)[k] = x PROVE In(x, s) \/ In(x, t)
  <2>1. k <= Len(s) => k \in 1 .. Len(s)
    BY <1>1
  <2>2. ~(k <= Len(s)) => k - Len(s) \in 1 .. Len(t)
    BY <1>1
  <2> QED BY <1>1, <1>2, <2>1, <2>2 DEF In
<1>3. ASSUME NEW k \in 1 .. Len(s), s[k] = x PROVE In(x, s \o t)
  <2>1. k \in 1 .. Len(s) + Len(t) /\ k <= Len(s)
    BY <1>1
  <2> QED BY <1>1, <1>3, <2>1 DEF In
<1>4. ASSUME NEW k \in 1 .. Len(t), t[k] = x PROVE In(x, s \o t)
  <2>1. k + Len(s) \in 1 .. Len(s) + Len(t) /\ ~(k + Len(s) <= Len(s)) /\ k + Len(s) - Len(s) = k
    BY <1>1
  <2> QED BY <1>1, <1>4, <2>1 DEF In
<1> QED BY <1>1, <1>2, <1>3, <1>4 DEF In

\* FlattenSeq concatenates sequences: what is in it is in one of them.
LEMMA Flattened ==
  ASSUME NEW S, NEW ss \in Seq(Seq(S))
  PROVE  /\ FlattenSeq(ss) \in Seq(S)
         /\ \A x : In(x, FlattenSeq(ss)) <=> \E i \in 1 .. Len(ss) : In(x, ss[i])
<1> DEFINE n == Len(ss)
<1>1. n \in Nat /\ \A i \in 1 .. n : ss[i] \in Seq(S)
  OBVIOUS
<1>2. CASE n = 0
  <2>1. ss = <<>> /\ FlattenSeq(ss) = ss
    BY <1>2 DEF FlattenSeq
  <2>2. FlattenSeq(ss) = <<>> /\ Len(ss) = 0 /\ \A k : k \notin 1 .. 0
    BY <2>1
  <2>3. \A x : ~In(x, <<>>)
    BY DEF In
  <2> QED BY <2>2, <2>3
<1>3. CASE n # 0
  <2> DEFINE f == CHOOSE g : Flattens(g, ss, n)
             Whole(m) == /\ f[m] \in Seq(S)
                         /\ \A x : In(x, f[m]) <=> \E i \in 1 .. m : In(x, ss[i])
  <2>1. FlattenSeq(ss) = f[n]
    BY <1>3, Zenon DEF FlattenSeq, Flattens
  <2>2. Flattens(f, ss, n)
    BY <1>1, <1>3, FlattensExists
  <2> HIDE DEF f
  <2>3. \A m \in 1 .. n : f[m] = IF m = 1 THEN ss[m] ELSE f[m - 1] \o ss[m]
    BY <2>2 DEF Flattens
  <2> DEFINE T == {m \in 1 .. n : ~Whole(m)}
  <2>4. T = {}
    <3> SUFFICES ASSUME T # {} PROVE FALSE
      OBVIOUS
    <3>1. T \in SUBSET Nat
      OBVIOUS
    <3>2. PICK m \in T : \A k \in T : m <= k
      BY <3>1, LeastNat
    <3>3. m \in 1 .. n /\ ~Whole(m)
      OBVIOUS
    <3>4. m # 1
      <4>1. SUFFICES ASSUME m = 1 PROVE FALSE
        OBVIOUS
      <4>2. f[1] = ss[1] /\ ss[1] \in Seq(S)
        BY <1>1, <2>3, <3>3, <4>1
      <4>3. \A x : In(x, f[1]) <=> \E i \in 1 .. 1 : In(x, ss[i])
        BY <4>2
      <4> QED BY <3>3, <4>1, <4>2, <4>3
    <3>5. m - 1 \in 1 .. n /\ m - 1 \notin T /\ Whole(m - 1)
      <4>1. m - 1 \in 1 .. n /\ ~(m <= m - 1)
        BY <3>3, <3>4
      <4> HIDE DEF T, Whole
      <4>2. m - 1 \notin T
        BY <3>2, <4>1
      <4> QED BY <4>1, <4>2 DEF T
    <3>6. f[m] = f[m - 1] \o ss[m] /\ f[m - 1] \in Seq(S) /\ ss[m] \in Seq(S)
      BY <1>1, <2>3, <3>3, <3>4, <3>5
    <3>7. \A x : In(x, f[m]) <=> In(x, f[m - 1]) \/ In(x, ss[m])
      BY <3>6, InConcat
    <3>8. \A i : i \in 1 .. m <=> i \in 1 .. m - 1 \/ i = m
      BY <3>3, <3>4
    <3>9. \A x : In(x, f[m]) <=> \E i \in 1 .. m : In(x, ss[i])
      BY <3>5, <3>7, <3>8
    <3>10. f[m] \in Seq(S)
      BY <3>6, ConcatProperties
    <3> QED BY <3>3, <3>9, <3>10
  <2>5. n \in 1 .. n
    BY <1>1, <1>3
  <2> HIDE DEF Whole
  <2>6. Whole(n)
    BY <2>4, <2>5
  <2> QED BY <2>1, <2>6 DEF Whole
<1> QED BY <1>2, <1>3
\* Where the two parts of a concatenation are.
LEMMA TwoParts ==
  ASSUME NEW T, NEW s \in Seq(T), NEW t \in Seq(T), NEW u, u = s \o t
  PROVE  /\ u \in Seq(T) /\ Len(s) \in Nat /\ Len(t) \in Nat /\ Len(u) = Len(s) + Len(t)
         /\ \A k \in 1 .. Len(s) : k \in 1 .. Len(u) /\ u[k] = s[k]
         /\ \A k \in 1 .. Len(t) : Len(s) + k \in 1 .. Len(u) /\ u[Len(s) + k] = t[k]
<1>1. /\ Len(s) \in Nat /\ Len(t) \in Nat /\ u \in Seq(T) /\ Len(u) = Len(s) + Len(t)
      /\ \A k \in 1 .. Len(u) : u[k] = IF k <= Len(s) THEN s[k] ELSE t[k - Len(s)]
  BY ConcatProperties
<1>2. ASSUME NEW k \in 1 .. Len(s) PROVE k \in 1 .. Len(u) /\ u[k] = s[k]
  <2>1. k \in 1 .. Len(u) /\ k <= Len(s)
    BY <1>1
  <2> QED BY <1>1, <2>1
<1>3. ASSUME NEW k \in 1 .. Len(t) PROVE Len(s) + k \in 1 .. Len(u) /\ u[Len(s) + k] = t[k]
  <2>1. Len(s) + k \in 1 .. Len(u) /\ ~(Len(s) + k <= Len(s)) /\ (Len(s) + k) - Len(s) = k
    BY <1>1
  <2> QED BY <1>1, <2>1
<1> QED BY <1>1, <1>2, <1>3

\* Where the parts of the steps of linking are.
AreParts(T, s, a, b, c, d, e, g) ==
  /\ s \in Seq(T) /\ Len(s) = Len(a) + Len(b) + Len(c) + Len(d) + 2
  /\ \A k \in 1 .. Len(a) : s[k] = a[k]
  /\ \A k \in 1 .. Len(b) : s[Len(a) + k] = b[k]
  /\ \A k \in 1 .. Len(c) : s[Len(a) + Len(b) + k] = c[k]
  /\ \A k \in 1 .. Len(d) : s[Len(a) + Len(b) + Len(c) + k] = d[k]
  /\ s[Len(s) - 1] = e /\ s[Len(s)] = g

\* They are there in a concatenation of four sequences and two steps.
LEMMA Parts ==
  ASSUME NEW T, NEW a \in Seq(T), NEW b \in Seq(T), NEW c \in Seq(T), NEW d \in Seq(T),
         NEW e \in T, NEW g \in T,
         NEW s, s = a \o b \o c \o d \o <<e>> \o <<g>>
  PROVE  AreParts(T, s, a, b, c, d, e, g)
<1> DEFINE ab == a \o b
           abc == ab \o c
           abcd == abc \o d
           all == abcd \o <<e>>
<1>1. /\ <<e>> \in Seq(T) /\ <<g>> \in Seq(T) /\ Len(<<e>>) = 1 /\ Len(<<g>>) = 1
      /\ <<e>>[1] = e /\ <<g>>[1] = g
  OBVIOUS
<1>2. /\ ab \in Seq(T) /\ Len(a) \in Nat /\ Len(b) \in Nat /\ Len(ab) = Len(a) + Len(b)
      /\ \A k \in 1 .. Len(a) : k \in 1 .. Len(ab) /\ ab[k] = a[k]
      /\ \A k \in 1 .. Len(b) : Len(a) + k \in 1 .. Len(ab) /\ ab[Len(a) + k] = b[k]
  BY TwoParts
<1> HIDE DEF ab
<1>3. /\ abc \in Seq(T) /\ Len(ab) \in Nat /\ Len(c) \in Nat /\ Len(abc) = Len(ab) + Len(c)
      /\ \A k \in 1 .. Len(ab) : k \in 1 .. Len(abc) /\ abc[k] = ab[k]
      /\ \A k \in 1 .. Len(c) : Len(ab) + k \in 1 .. Len(abc) /\ abc[Len(ab) + k] = c[k]
  <2>1. ab \in Seq(T)
    BY <1>2
  <2> QED BY <2>1, TwoParts
<1> HIDE DEF abc
<1>4. /\ abcd \in Seq(T) /\ Len(abc) \in Nat /\ Len(d) \in Nat /\ Len(abcd) = Len(abc) + Len(d)
      /\ \A k \in 1 .. Len(abc) : k \in 1 .. Len(abcd) /\ abcd[k] = abc[k]
      /\ \A k \in 1 .. Len(d) : Len(abc) + k \in 1 .. Len(abcd) /\ abcd[Len(abc) + k] = d[k]
  <2>1. abc \in Seq(T)
    BY <1>3
  <2> QED BY <2>1, TwoParts
<1> HIDE DEF abcd
<1>5. /\ all \in Seq(T) /\ Len(abcd) \in Nat /\ Len(all) = Len(abcd) + 1
      /\ \A k \in 1 .. Len(abcd) : k \in 1 .. Len(all) /\ all[k] = abcd[k]
      /\ Len(abcd) + 1 \in 1 .. Len(all) /\ all[Len(abcd) + 1] = e
  <2>1. abcd \in Seq(T) /\ 1 \in 1 .. 1
    BY <1>4
  <2>2. /\ all \in Seq(T) /\ Len(abcd) \in Nat /\ Len(all) = Len(abcd) + Len(<<e>>)
        /\ \A k \in 1 .. Len(abcd) : k \in 1 .. Len(all) /\ all[k] = abcd[k]
        /\ \A k \in 1 .. Len(<<e>>) :
             Len(abcd) + k \in 1 .. Len(all) /\ all[Len(abcd) + k] = <<e>>[k]
    BY <1>1, <2>1, TwoParts
  <2> QED BY <1>1, <2>1, <2>2
<1>6. s = all \o <<g>>
  BY DEF all, abcd, abc, ab
<1> HIDE DEF all
<1>7. /\ s \in Seq(T) /\ Len(all) \in Nat /\ Len(s) = Len(all) + 1
      /\ \A k \in 1 .. Len(all) : s[k] = all[k]
      /\ s[Len(all) + 1] = g
  <2>1. all \in Seq(T) /\ 1 \in 1 .. 1
    BY <1>5
  <2> DEFINE u == all \o <<g>>
  <2>2. /\ u \in Seq(T) /\ Len(all) \in Nat /\ Len(u) = Len(all) + Len(<<g>>)
        /\ \A k \in 1 .. Len(all) : k \in 1 .. Len(u) /\ u[k] = all[k]
        /\ \A k \in 1 .. Len(<<g>>) : Len(all) + k \in 1 .. Len(u) /\ u[Len(all) + k] = <<g>>[k]
    BY <1>1, <2>1, TwoParts
  <2> HIDE DEF u
  <2>3. s = u
    BY <1>6 DEF u
  <2> QED BY <1>1, <2>1, <2>2, <2>3
<1>8. /\ Len(s) = Len(a) + Len(b) + Len(c) + Len(d) + 2
      /\ Len(s) - 1 = Len(abcd) + 1 /\ Len(s) = Len(all) + 1
  BY <1>2, <1>3, <1>4, <1>5, <1>7
<1>9. s[Len(s) - 1] = e /\ s[Len(s)] = g
  BY <1>5, <1>7, <1>8
<1>10. \A k \in 1 .. Len(abcd) : s[k] = abcd[k]
  BY <1>5, <1>7
<1>11. \A k \in 1 .. Len(a) : s[k] = a[k]
  BY <1>2, <1>3, <1>4, <1>10
<1>12. \A k \in 1 .. Len(b) : s[Len(a) + k] = b[k]
  BY <1>2, <1>3, <1>4, <1>10
<1>13. \A k \in 1 .. Len(c) : s[Len(a) + Len(b) + k] = c[k]
  <2>1. \A k \in 1 .. Len(c) : s[Len(ab) + k] = c[k]
    BY <1>3, <1>4, <1>10
  <2> QED BY <1>2, <2>1
<1>14. \A k \in 1 .. Len(d) : s[Len(a) + Len(b) + Len(c) + k] = d[k]
  <2>1. \A k \in 1 .. Len(d) : s[Len(abc) + k] = d[k]
    BY <1>4, <1>10
  <2> QED BY <1>2, <1>3, <2>1
<1> QED BY <1>7, <1>8, <1>9, <1>11, <1>12, <1>13, <1>14 DEF AreParts

-----------------------------------------------------------------------------
(* The steps of linking.                                                   *)

MethodSteps(m) ==
  [i \in DOMAIN m.handlers |-> Step("handler", m.handlers[i])]
  \o [i \in DOMAIN m.types |-> Step("type", m.types[i])]
  \o <<Step("method", m.signature)>>

Whats == {"super", "interface", "field", "handler", "type", "method", "resolved", "sweep", "object"}
OfMethods == {"handler", "type", "method"}

\* The steps of a method ask for classes of the program.
LEMMA StepsOfMethods ==
  ASSUME NEW N, NEW G, NEW m, m.handlers \in Seq(N), m.types \in Seq(N), m.signature \in G
  PROVE  /\ MethodSteps(m) \in Seq([what : OfMethods, name : N \cup G])
         /\ \A x : In(x, MethodSteps(m)) =>
              /\ x.what = "method" => x.name = m.signature
              /\ x.what # "method" => x.name \in N
         /\ In(Step("method", m.signature), MethodSteps(m))
<1> DEFINE T == [what : OfMethods, name : N \cup G]
           h == [i \in DOMAIN m.handlers |-> Step("handler", m.handlers[i])]
           t == [i \in DOMAIN m.types |-> Step("type", m.types[i])]
           l == <<Step("method", m.signature)>>
<1>0. ASSUME NEW w \in {"handler", "type"}, NEW s \in Seq(N)
      PROVE  LET q == [i \in DOMAIN s |-> Step(w, s[i])]
             IN  q \in Seq(T) /\ \A x : In(x, q) => x.what # "method" /\ x.name \in N
  <2> DEFINE q == [i \in DOMAIN s |-> Step(w, s[i])]
  <2>1. DOMAIN s = 1 .. Len(s) /\ Len(s) \in Nat /\ \A i \in 1 .. Len(s) : s[i] \in N
    OBVIOUS
  <2>2. \A i \in 1 .. Len(s) : Step(w, s[i]) \in T
    BY <2>1 DEF Step, OfMethods
  <2>3. q \in [1 .. Len(s) -> T]
    BY <2>1, <2>2
  <2>4. q \in Seq(T) /\ Len(q) = Len(s)
    BY <2>1, <2>3
  <2>5. \A i \in 1 .. Len(s) : q[i].what = w /\ q[i].name = s[i]
    BY <2>1 DEF Step
  <2> QED BY <2>1, <2>4, <2>5 DEF In
<1>1. h \in Seq(T) /\ \A x : In(x, h) => x.what # "method" /\ x.name \in N
  BY <1>0
<1>2. t \in Seq(T) /\ \A x : In(x, t) => x.what # "method" /\ x.name \in N
  BY <1>0
<1>3. /\ l \in Seq(T) /\ In(Step("method", m.signature), l)
      /\ \A x : In(x, l) => x.what = "method" /\ x.name = m.signature
  BY DEF Step, In, OfMethods
<1> HIDE DEF h, t, l, T
<1>4. h \o t \in Seq(T) /\ \A x : In(x, h \o t) <=> In(x, h) \/ In(x, t)
  BY <1>1, <1>2, InConcat, ConcatProperties
<1>5. /\ (h \o t) \o l \in Seq(T)
      /\ \A x : In(x, (h \o t) \o l) <=> In(x, h \o t) \/ In(x, l)
  <2>1. PICK ht \in Seq(T) : ht = h \o t
    BY <1>4
  <2>2. l \in Seq(T)
    BY <1>3
  <2>3. ht \o l \in Seq(T)
    BY <2>1, <2>2, ConcatProperties
  <2>4. \A x : In(x, ht \o l) <=> In(x, ht) \/ In(x, l)
    BY <2>1, <2>2, InConcat
  <2> QED BY <2>1, <2>3, <2>4
<1>6. MethodSteps(m) = (h \o t) \o l
  BY DEF MethodSteps, h, t, l
<1> QED BY <1>1, <1>2, <1>3, <1>4, <1>5, <1>6 DEF T

MembersFrom(f) == SuperSteps(f) + Len(f.interfaces) + Len(f.fields)
Signatures(f) == {f.methods[j].signature : j \in 1 .. Len(f.methods)}

\* What linking does, by its places.
LinkShape(f, n, L) ==
  /\ L \in Seq([what : Whats, name : Names(program) \cup Signatures(f) \cup {None}])
  /\ Len(L) >= MembersFrom(f) + 2
  /\ f.super # None => L[1] = Step("super", f.super)
  /\ \A k \in 1 .. Len(f.interfaces) :
       L[SuperSteps(f) + k] = Step("interface", f.interfaces[k])
  /\ \A k \in 1 .. Len(f.fields) :
       L[SuperSteps(f) + Len(f.interfaces) + k] = Step("field", f.fields[k].type)
  /\ \A k \in MembersFrom(f) + 1 .. Len(L) - 2 :
       /\ L[k].what \in OfMethods
       /\ L[k].what = "method" => L[k].name \in Signatures(f)
       /\ L[k].what # "method" => L[k].name \in Names(program)
  /\ \A g \in Signatures(f) :
       \E k \in MembersFrom(f) + 1 .. Len(L) - 2 : L[k] = Step("method", g)
  /\ L[Len(L) - 1] = Step("resolved", None)
  /\ L[Len(L)] = IF n = Class THEN Step("sweep", None) ELSE Step("object", Class)
\* The class files that the classes of a program have.
LEMMA FileIs ==
  ASSUME program \in Programs, NEW id, id[2] \in DOMAIN program.files
  PROVE  LET f == File(id)
             N == Names(program)
         IN  /\ f.super \in N \cup {None}
             /\ f.interfaces \in Seq(N)
             /\ \A j, k \in 1 .. Len(f.interfaces) :
                  f.interfaces[j] = f.interfaces[k] => j = k
             /\ f.fields \in Seq([type : N, static : BOOLEAN])
             /\ f.methods \in Seq([signature : Signatures(f), handlers : Seq(N), types : Seq(N)])
             /\ \A j, k \in 1 .. Len(f.methods) :
                  f.methods[j].signature = f.methods[k].signature => j = k
<1> DEFINE f == File(id)
           N == Names(program)
<1>1. IsFile(f, N)
  BY ProgramsAssumption DEF IsProgram, File
<1> HIDE DEF f, N
<1>2. /\ f.super \in N \cup {None} /\ f.interfaces \in Seq(N) /\ IsInjective(f.interfaces)
      /\ f.fields \in Seq([type : N, static : BOOLEAN])
      /\ f.methods \in Seq([signature : {m.signature : m \in ToSet(f.methods)},
                            handlers : Seq(N), types : Seq(N)])
      /\ \A i, j \in DOMAIN f.methods :
           f.methods[i].signature = f.methods[j].signature => i = j
  BY <1>1 DEF IsFile
<1>3. \A j, k \in 1 .. Len(f.interfaces) : f.interfaces[j] = f.interfaces[k] => j = k
  BY <1>2 DEF IsInjective
<1>4. DOMAIN f.methods = 1 .. Len(f.methods)
  BY <1>2
<1>5. {m.signature : m \in ToSet(f.methods)} = Signatures(f)
  BY <1>4 DEF ToSet, Signatures
<1> QED BY <1>2, <1>3, <1>4, <1>5 DEF f, N

\* What the assumptions say of the names.
LEMMA NamesAre ==
  ASSUME program \in Programs
  PROVE  /\ {Object, Class} \cup OfArrays \subseteq DOMAIN program.files
         /\ DOMAIN program.files \subseteq Names(program)
         /\ DOMAIN program.files \cap (Array \cup Primitive) = {}
         /\ Array \cap Primitive = {}
         /\ \A a \in Array : ElementOf[a] \in Names(program)
         /\ \A n \in Names(program) : IsClass(n) => n \in DOMAIN program.place
         /\ \A n \in DOMAIN program.place :
              program.place[n] # "nowhere" => n \in DOMAIN program.files
         /\ None \notin Names(program) /\ None \notin Id /\ Failed \notin Id /\ Failed # None
         /\ Boot \notin Loader
<1>1. /\ IsProgram(program) /\ {Object, Class} \cup OfArrays \subseteq DOMAIN program.files
      /\ DOMAIN program.place \cap (Array \cup Primitive) = {}
      /\ ElementOf \in [Array -> Names(program)]
      /\ None \notin Names(program)
      /\ {None, Failed} \cap ((Loader \cup {Boot}) \X Names(program)) = {}
  BY ProgramsAssumption
<1>2. /\ \A n \in DOMAIN program.place : program.place[n] # "nowhere" => n \in DOMAIN program.files
      /\ DOMAIN program.files \subseteq DOMAIN program.place
  BY <1>1 DEF IsProgram
<1>3. None \notin Id /\ Failed \notin Id
  BY <1>1 DEF Id
<1>4. Array \cap Primitive = {} /\ Failed # None /\ Boot \notin Loader
  BY ArraysAssumption, LoadersAssumption
<1> QED BY <1>1, <1>2, <1>3, <1>4 DEF Names, IsClass

\* A step has a name and says what it is.
LEMMA StepIn ==
  ASSUME NEW W, NEW M, NEW w \in W, NEW n \in M
  PROVE  Step(w, n) \in [what : W, name : M] /\ Step(w, n).what = w /\ Step(w, n).name = n
BY DEF Step

\* The elements of a sequence are from its set.
LEMMA SeqHas ==
  ASSUME NEW T, NEW s \in Seq(T)
  PROVE  DOMAIN s = 1 .. Len(s) /\ Len(s) \in Nat /\ \A k \in 1 .. Len(s) : s[k] \in T
OBVIOUS

\* A function from the first numbers is a sequence.
LEMMA SeqFrom ==
  ASSUME NEW T, NEW n \in Nat, NEW s \in [1 .. n -> T]
  PROVE  s \in Seq(T) /\ Len(s) = n
OBVIOUS

\* The steps of linking are in these places.
LEMMA LinkStepsAre ==
  ASSUME program \in Programs, NEW id, id[2] \in DOMAIN program.files
  PROVE  LinkShape(File(id), id[2], LinkSteps(id))
<1> DEFINE f == File(id)
           N == Names(program)
           G == Signatures(f)
           T == [what : Whats, name : N \cup G \cup {None}]
           a == IF f.super = None THEN <<>> ELSE <<Step("super", f.super)>>
           b == [i \in DOMAIN f.interfaces |-> Step("interface", f.interfaces[i])]
           c == [i \in DOMAIN f.fields |-> Step("field", f.fields[i].type)]
           ms == [i \in DOMAIN f.methods |-> MethodSteps(f.methods[i])]
           d == FlattenSeq(ms)
           e == Step("resolved", None)
           g == IF id[2] = Class THEN Step("sweep", None) ELSE Step("object", Class)
<1>0. {"super", "interface", "field", "resolved", "sweep", "object"} \subseteq Whats
  BY DEF Whats
<1>1. LinkSteps(id) = a \o b \o c \o d \o <<e>> \o <<g>>
  BY Zenon DEF LinkSteps, StepsOf, MethodSteps
<1>2. /\ f.super \in N \cup {None}
      /\ f.interfaces \in Seq(N)
      /\ f.fields \in Seq([type : N, static : BOOLEAN])
      /\ f.methods \in Seq([signature : G, handlers : Seq(N), types : Seq(N)])
  BY FileIs
<1>3. Class \in N
  BY NamesAre
<1> HIDE DEF f, N, G
<1>4. a \in Seq(T) /\ Len(a) = SuperSteps(f) /\ (f.super # None => a[1] = Step("super", f.super))
  <2>1. CASE f.super = None
    BY <2>1 DEF SuperSteps
  <2>2. CASE f.super # None
    <3>1. Step("super", f.super) \in T
      BY <1>0, <1>2, <2>2, StepIn
    <3>2. a = <<Step("super", f.super)>>
      BY <2>2
    <3> HIDE DEF T, a
    <3> QED BY <2>2, <3>1, <3>2 DEF SuperSteps
  <2> QED BY <2>1, <2>2
<1>5. /\ b \in Seq(T) /\ Len(b) = Len(f.interfaces)
      /\ \A k \in 1 .. Len(f.interfaces) : b[k] = Step("interface", f.interfaces[k])
  <2>1. /\ DOMAIN f.interfaces = 1 .. Len(f.interfaces) /\ Len(f.interfaces) \in Nat
        /\ \A k \in 1 .. Len(f.interfaces) : f.interfaces[k] \in N
    BY <1>2, SeqHas
  <2> HIDE DEF T
  <2>2. \A k \in 1 .. Len(f.interfaces) : f.interfaces[k] \in N \cup G \cup {None}
    BY <2>1
  <2>2a. ASSUME NEW x \in N \cup G \cup {None} PROVE Step("interface", x) \in T
    <3>1. "interface" \in Whats
      BY <1>0
    <3> QED BY <3>1, StepIn DEF T
  <2>2b. \A k \in 1 .. Len(f.interfaces) : Step("interface", f.interfaces[k]) \in T
    BY <2>2, <2>2a
  <2>3. b \in [1 .. Len(f.interfaces) -> T]
    BY <2>1, <2>2b
  <2>4. b \in Seq(T) /\ Len(b) = Len(f.interfaces)
    BY <2>1, <2>3, SeqFrom
  <2> QED BY <2>1, <2>4
<1>6. /\ c \in Seq(T) /\ Len(c) = Len(f.fields)
      /\ \A k \in 1 .. Len(f.fields) : c[k] = Step("field", f.fields[k].type)
  <2>1. /\ DOMAIN f.fields = 1 .. Len(f.fields) /\ Len(f.fields) \in Nat
        /\ \A k \in 1 .. Len(f.fields) : f.fields[k] \in [type : N, static : BOOLEAN]
    BY <1>2, SeqHas
  <2> HIDE DEF T
  <2>2. \A k \in 1 .. Len(f.fields) : f.fields[k].type \in N \cup G \cup {None}
    BY <2>1
  <2>2a. ASSUME NEW x \in N \cup G \cup {None} PROVE Step("field", x) \in T
    <3>1. "field" \in Whats
      BY <1>0
    <3> QED BY <3>1, StepIn DEF T
  <2>3. \A k \in 1 .. Len(f.fields) : Step("field", f.fields[k].type) \in T
    BY <2>2, <2>2a
  <2>4. c \in [1 .. Len(f.fields) -> T]
    BY <2>1, <2>3
  <2>5. c \in Seq(T) /\ Len(c) = Len(f.fields)
    BY <2>1, <2>4, SeqFrom
  <2> QED BY <2>1, <2>5
<1>7. e \in T /\ g \in T
  <2>1. Step("resolved", None) \in T /\ Step("sweep", None) \in T
    BY <1>0, StepIn
  <2>2. Step("object", Class) \in T
    BY <1>0, <1>3, StepIn
  <2> QED BY <2>1, <2>2
<1> DEFINE M == [what : OfMethods, name : N \cup G]
<1>8. /\ DOMAIN f.methods = 1 .. Len(f.methods) /\ Len(f.methods) \in Nat
      /\ \A i \in 1 .. Len(f.methods) :
           /\ f.methods[i].handlers \in Seq(N) /\ f.methods[i].types \in Seq(N)
           /\ f.methods[i].signature \in G
  <2> DEFINE R == [signature : G, handlers : Seq(N), types : Seq(N)]
  <2>1. /\ DOMAIN f.methods = 1 .. Len(f.methods) /\ Len(f.methods) \in Nat
        /\ \A i \in 1 .. Len(f.methods) : f.methods[i] \in R
    BY <1>2, SeqHas
  <2> QED BY <2>1
<1>9. \A i \in 1 .. Len(f.methods) :
        /\ MethodSteps(f.methods[i]) \in Seq(M)
        /\ \A x : In(x, MethodSteps(f.methods[i])) =>
             /\ x.what = "method" => x.name = f.methods[i].signature
             /\ x.what # "method" => x.name \in N
        /\ In(Step("method", f.methods[i].signature), MethodSteps(f.methods[i]))
  BY <1>8, StepsOfMethods
<1> HIDE DEF M
<1>10. /\ ms \in Seq(Seq(M)) /\ Len(ms) = Len(f.methods)
       /\ \A i \in 1 .. Len(ms) : ms[i] = MethodSteps(f.methods[i])
  <2>1. ms \in [1 .. Len(f.methods) -> Seq(M)]
    BY <1>8, <1>9
  <2> QED BY <1>8, <2>1
<1> HIDE DEF ms
<1>11. d \in Seq(M) /\ \A x : In(x, d) <=> \E i \in 1 .. Len(ms) : In(x, ms[i])
  BY <1>10, Flattened
<1> HIDE DEF d
<1>12. \A k \in 1 .. Len(d) :
         /\ d[k].what \in OfMethods
         /\ d[k].what = "method" => d[k].name \in G
         /\ d[k].what # "method" => d[k].name \in N
  <2>1. ASSUME NEW k \in 1 .. Len(d)
        PROVE  /\ d[k] \in M
               /\ d[k].what = "method" => d[k].name \in G
               /\ d[k].what # "method" => d[k].name \in N
    <3>1. d[k] \in M /\ In(d[k], d)
      BY <1>11, SeqHas DEF In
    <3>2. PICK i \in 1 .. Len(ms) : In(d[k], ms[i])
      BY <1>11, <3>1
    <3>3. i \in 1 .. Len(f.methods) /\ In(d[k], MethodSteps(f.methods[i]))
      BY <1>10, <3>2
    <3> QED BY <1>8, <1>9, <3>1, <3>3
  <2>2. \A x \in M : x.what \in OfMethods
    BY DEF M
  <2> QED BY <2>1, <2>2
<1>13. \A q \in G : \E k \in 1 .. Len(d) : d[k] = Step("method", q)
  <2>1. ASSUME NEW q \in G PROVE In(Step("method", q), d)
    <3>1. PICK i \in 1 .. Len(f.methods) : q = f.methods[i].signature
      BY <2>1 DEF G, Signatures
    <3> QED BY <1>9, <1>10, <1>11, <3>1
  <2> QED BY <2>1 DEF In
<1>14. d \in Seq(T) /\ Len(d) \in Nat
  <2>1. \A x \in M : x = [what |-> x.what, name |-> x.name] /\ x.what \in Whats
                       /\ x.name \in N \cup G \cup {None}
    BY DEF M, OfMethods, Whats
  <2>2. \A x \in M : x \in T
    BY <2>1
  <2> HIDE DEF T
  <2>3. M \subseteq T
    BY <2>2
  <2>4. d \in Seq(M) /\ Len(d) \in Nat
    BY <1>11, SeqHas
  <2>5. d \in Seq(T)
    BY <2>3, <2>4, SeqMonotonic
  <2> QED BY <2>4, <2>5
<1> DEFINE L == LinkSteps(id)
<1>15. /\ L \in Seq(T) /\ Len(L) = Len(a) + Len(b) + Len(c) + Len(d) + 2
       /\ \A k \in 1 .. Len(a) : L[k] = a[k]
       /\ \A k \in 1 .. Len(b) : L[Len(a) + k] = b[k]
       /\ \A k \in 1 .. Len(c) : L[Len(a) + Len(b) + k] = c[k]
       /\ \A k \in 1 .. Len(d) : L[Len(a) + Len(b) + Len(c) + k] = d[k]
       /\ L[Len(L) - 1] = e /\ L[Len(L)] = g
  <2> HIDE DEF a, b, c, e, g, L, T
  <2>1. L = a \o b \o c \o d \o <<e>> \o <<g>>
    BY <1>1 DEF L
  <2>2. a \in Seq(T) /\ b \in Seq(T) /\ c \in Seq(T) /\ d \in Seq(T) /\ e \in T /\ g \in T
    BY <1>4, <1>5, <1>6, <1>7, <1>14
  <2>3. AreParts(T, L, a, b, c, d, e, g)
    BY <2>1, <2>2, Parts
  <2> QED BY <2>3 DEF AreParts
<1> HIDE DEF a, b, c, L
<1>16. /\ Len(f.interfaces) \in Nat /\ Len(f.fields) \in Nat /\ SuperSteps(f) \in 0 .. 1
       /\ f.super # None => SuperSteps(f) = 1
  BY <1>2 DEF SuperSteps
<1>17. Len(a) + Len(b) + Len(c) = MembersFrom(f) /\ Len(L) = MembersFrom(f) + Len(d) + 2
  BY <1>4, <1>5, <1>6, <1>15 DEF MembersFrom
<1>18. \A k \in MembersFrom(f) + 1 .. Len(L) - 2 :
         k - MembersFrom(f) \in 1 .. Len(d) /\ MembersFrom(f) + (k - MembersFrom(f)) = k
  <2>1. MembersFrom(f) \in Nat
    BY <1>16 DEF MembersFrom
  <2>2. ASSUME NEW m \in Nat, NEW n \in Nat, NEW l, l = m + n + 2
        PROVE  \A k \in m + 1 .. l - 2 : k - m \in 1 .. n /\ m + (k - m) = k
    BY <2>2
  <2>3. Len(d) \in Nat /\ Len(L) = MembersFrom(f) + Len(d) + 2
    BY <1>14, <1>17
  <2> HIDE DEF T, e, g
  <2> QED BY <2>1, <2>2, <2>3
<1>19. \A k \in 1 .. Len(d) :
         /\ MembersFrom(f) + k \in MembersFrom(f) + 1 .. Len(L) - 2
         /\ L[MembersFrom(f) + k] = d[k]
  <2>1. MembersFrom(f) \in Nat
    BY <1>16 DEF MembersFrom
  <2>2. ASSUME NEW m \in Nat, NEW n \in Nat, NEW l, l = m + n + 2, NEW k \in 1 .. n
        PROVE  m + k \in m + 1 .. l - 2
    BY <2>2
  <2>3. Len(d) \in Nat /\ Len(L) = MembersFrom(f) + Len(d) + 2
    BY <1>14, <1>17
  <2>4. \A k \in 1 .. Len(d) : L[MembersFrom(f) + k] = d[k]
    BY <1>15, <1>17
  <2> HIDE DEF T, e, g
  <2> QED BY <2>1, <2>2, <2>3, <2>4
<1>20. \A k \in MembersFrom(f) + 1 .. Len(L) - 2 :
         /\ L[k].what \in OfMethods
         /\ L[k].what = "method" => L[k].name \in G
         /\ L[k].what # "method" => L[k].name \in N
  <2>1. ASSUME NEW k \in MembersFrom(f) + 1 .. Len(L) - 2
        PROVE  \E j \in 1 .. Len(d) : L[k] = d[j]
    BY <1>18, <1>19
  <2> QED BY <1>12, <2>1
<1>21. \A q \in G : \E k \in MembersFrom(f) + 1 .. Len(L) - 2 : L[k] = Step("method", q)
  BY <1>13, <1>19
<1>22. f.super # None => L[1] = Step("super", f.super)
  BY <1>4, <1>15, <1>16
<1>23. /\ \A k \in 1 .. Len(f.interfaces) :
            L[SuperSteps(f) + k] = Step("interface", f.interfaces[k])
       /\ \A k \in 1 .. Len(f.fields) :
            L[SuperSteps(f) + Len(f.interfaces) + k] = Step("field", f.fields[k].type)
  <2>1. ASSUME NEW k \in 1 .. Len(f.interfaces)
        PROVE  L[SuperSteps(f) + k] = Step("interface", f.interfaces[k])
    BY <1>4, <1>5, <1>15
  <2>2. ASSUME NEW k \in 1 .. Len(f.fields)
        PROVE  L[SuperSteps(f) + Len(f.interfaces) + k] = Step("field", f.fields[k].type)
    BY <1>4, <1>5, <1>6, <1>15
  <2> QED BY <2>1, <2>2
<1>24. Len(L) >= MembersFrom(f) + 2
  BY <1>14, <1>16, <1>17 DEF MembersFrom
<1> QED BY <1>15, <1>20, <1>21, <1>22, <1>23, <1>24, Zenon DEF LinkShape, L, f, N, G, T, e, g
\* What a step of linking is tells where it is.
LinkStep(f, n, k, last, step) ==
  /\ step.what \in Whats
  /\ step.what = "super" => k = 1 /\ f.super # None /\ step.name = f.super
  /\ step.what = "interface" =>
       k - SuperSteps(f) \in 1 .. Len(f.interfaces) /\ step.name = f.interfaces[k - SuperSteps(f)]
  /\ step.what = "field" => k - SuperSteps(f) - Len(f.interfaces) \in 1 .. Len(f.fields)
  /\ step.what \in OfMethods => k \in MembersFrom(f) + 1 .. last - 2
  /\ step.what = "method" => step.name \in Signatures(f)
  /\ step.what = "resolved" <=> k = last - 1
  /\ step.what \in {"sweep", "object"} <=> k = last
  /\ k = last => step.what = IF n = Class THEN "sweep" ELSE "object"
  /\ step.what = "object" => step.name = Class
  /\ step.what \notin Quiet => step.name \in Names(program)

\* This holds for all steps of linking.
LEMMA LinkStepIs ==
  ASSUME program \in Programs, NEW id, id[2] \in DOMAIN program.files,
         NEW k \in 1 .. Len(LinkSteps(id))
  PROVE  LinkStep(File(id), id[2], k, Len(LinkSteps(id)), LinkSteps(id)[k])
<1> DEFINE f == File(id)
           n == id[2]
           L == LinkSteps(id)
           last == Len(L)
           i == Len(f.interfaces)
           m == Len(f.fields)
           s == SuperSteps(f)
<1>1. LinkShape(f, n, L)
  BY LinkStepsAre
<1>2. /\ f.super \in Names(program) \cup {None} /\ i \in Nat /\ m \in Nat
      /\ \A j \in 1 .. i : f.interfaces[j] \in Names(program)
      /\ \A j \in 1 .. m : f.fields[j].type \in Names(program)
  <2>1. /\ f.super \in Names(program) \cup {None} /\ f.interfaces \in Seq(Names(program))
        /\ f.fields \in Seq([type : Names(program), static : BOOLEAN])
    BY FileIs
  <2> HIDE DEF f
  <2>2. \A j \in 1 .. m : f.fields[j] \in [type : Names(program), static : BOOLEAN]
    BY <2>1, SeqHas
  <2> QED BY <2>1, <2>2, SeqHas
<1>3. Class \in Names(program)
  BY NamesAre
<1> HIDE DEF f, L, n
<1> DEFINE w == MembersFrom(f)
<1>4. /\ s \in 0 .. 1 /\ (s = 1 <=> f.super # None) /\ w = s + i + m
      /\ last \in Nat /\ last >= w + 2 /\ i \in Nat /\ m \in Nat
  <2>1. last \in Nat /\ last >= w + 2
    BY <1>1, SeqHas DEF LinkShape
  <2>2. w = s + i + m
    BY DEF MembersFrom
  <2>3. s \in 0 .. 1 /\ (s = 1 <=> f.super # None)
    BY DEF SuperSteps
  <2> HIDE DEF w, s
  <2> QED BY <1>2, <2>1, <2>2, <2>3
<1>5. /\ f.super # None => L[1] = Step("super", f.super)
      /\ \A j \in 1 .. i : L[s + j] = Step("interface", f.interfaces[j])
      /\ \A j \in 1 .. m : L[s + i + j] = Step("field", f.fields[j].type)
      /\ \A j \in w + 1 .. last - 2 :
           /\ L[j].what \in OfMethods
           /\ L[j].what = "method" => L[j].name \in Signatures(f)
           /\ L[j].what # "method" => L[j].name \in Names(program)
      /\ L[last - 1] = Step("resolved", None)
      /\ L[last] = IF n = Class THEN Step("sweep", None) ELSE Step("object", Class)
      /\ k \in 1 .. last
  BY <1>1 DEF LinkShape, L
<1> DEFINE Goal ==
      /\ L[k].what \in Whats
      /\ L[k].what = "super" => k = 1 /\ f.super # None /\ L[k].name = f.super
      /\ L[k].what = "interface" => k - s \in 1 .. i /\ L[k].name = f.interfaces[k - s]
      /\ L[k].what = "field" => k - s - i \in 1 .. m
      /\ L[k].what \in OfMethods => k \in w + 1 .. last - 2
      /\ L[k].what = "method" => L[k].name \in Signatures(f)
      /\ L[k].what = "resolved" <=> k = last - 1
      /\ L[k].what \in {"sweep", "object"} <=> k = last
      /\ k = last => L[k].what = IF n = Class THEN "sweep" ELSE "object"
      /\ L[k].what = "object" => L[k].name = Class
      /\ L[k].what \notin Quiet => L[k].name \in Names(program)
<1>5a. Goal => LinkStep(File(id), id[2], k, Len(LinkSteps(id)), LinkSteps(id)[k])
  BY DEF LinkStep, f, n, L
<1> SUFFICES Goal
  BY <1>5a
<1> HIDE DEF s, i, m, w, last
<1>6. CASE s = 1 /\ k = 1
  <2>1. L[k].what = "super" /\ L[k].name = f.super /\ f.super # None /\ k # last /\ k # last - 1
    BY <1>4, <1>5, <1>6 DEF Step
  <2> QED BY <1>2, <1>6, <2>1 DEF Whats, OfMethods, Quiet
<1>7. CASE k \in s + 1 .. s + i
  <2>1. k - s \in 1 .. i /\ s + (k - s) = k /\ k # last /\ k # last - 1
    BY <1>4, <1>7
  <2>2. L[k] = Step("interface", f.interfaces[k - s])
    BY <1>5, <2>1
  <2>3. f.interfaces[k - s] \in Names(program)
    BY <1>2, <2>1 DEF i
  <2> QED BY <2>1, <2>2, <2>3 DEF Step, Whats, OfMethods, Quiet
<1>8. CASE k \in s + i + 1 .. s + i + m
  <2>1. k - s - i \in 1 .. m /\ s + i + (k - s - i) = k /\ k # last /\ k # last - 1
    BY <1>4, <1>8
  <2>2. L[k] = Step("field", f.fields[k - s - i].type)
    BY <1>5, <2>1
  <2>3. f.fields[k - s - i].type \in Names(program)
    BY <1>2, <2>1 DEF m
  <2> QED BY <2>1, <2>2, <2>3 DEF Step, Whats, OfMethods, Quiet
<1>9. CASE k \in w + 1 .. last - 2
  <2>1. /\ L[k].what \in OfMethods
        /\ L[k].what = "method" => L[k].name \in Signatures(f)
        /\ L[k].what # "method" => L[k].name \in Names(program)
    BY <1>5, <1>9
  <2>2. k # last /\ k # last - 1
    BY <1>4, <1>9
  <2> QED BY <1>9, <2>1, <2>2 DEF Whats, OfMethods, Quiet
<1>10. CASE k = last - 1
  <2>1. L[k] = Step("resolved", None) /\ k # last
    BY <1>4, <1>5, <1>10
  <2> QED BY <1>10, <2>1 DEF Step, Whats, OfMethods, Quiet
<1>11. CASE k = last
  <2>1. L[k] = (IF n = Class THEN Step("sweep", None) ELSE Step("object", Class)) /\ k # last - 1
    BY <1>4, <1>5, <1>11
  <2> QED BY <1>3, <1>11, <2>1 DEF Step, Whats, OfMethods, Quiet
<1>12. \/ (s = 1 /\ k = 1) \/ k \in s + 1 .. s + i \/ k \in s + i + 1 .. s + i + m
       \/ k \in w + 1 .. last - 2 \/ k = last - 1 \/ k = last
  <2>1. k \in 1 .. last
    BY <1>5
  <2> QED BY <1>4, <2>1
<1> HIDE DEF Goal
<1> QED BY <1>6, <1>7, <1>8, <1>9, <1>10, <1>11, <1>12
\* The steps of loading an array, by their places.
ArrayStep(n, k, last, step) ==
  /\ step.what \in {"component", "super", "interface", "register", "object"}
  /\ step.what = "component" <=> k = 1
  /\ step.what = "component" => step.name = ElementOf[n]
  /\ step.what = "register" <=> k = last - 1
  /\ step.what = "object" <=> k = last
  /\ step.what = "object" => step.name = Class
  /\ step.what \in {"super", "interface"} => step.name \in {Object} \cup OfArrays

\* The interfaces of arrays, in a sequence.
LEMMA InterfacesOfArrays ==
  /\ Cardinality(OfArrays) \in Nat
  /\ SetToSeq(OfArrays) \in [1 .. Cardinality(OfArrays) -> OfArrays]
<1>1. IsFiniteSet(OfArrays)
  BY ArraysAssumption
<1>2. Cardinality(OfArrays) \in Nat
  BY <1>1, FS_CardinalityType
<1>3. PICK f : f \in Bijection(1 .. Cardinality(OfArrays), OfArrays)
  BY <1>1, <1>2, FS_CardinalityType DEF ExistsBijection
<1>4. f \in [1 .. Cardinality(OfArrays) -> OfArrays] /\ IsInjective(f)
  BY <1>3 DEF Bijection, Injection, IsInjective
<1> QED BY <1>2, <1>4, Zenon DEF SetToSeq

\* This holds for all steps of loading an array.
LEMMA ArrayStepIs ==
  ASSUME NEW id
  PROVE  /\ Len(ArraySteps(id)) = Cardinality(OfArrays) + 4
         /\ \A k \in 1 .. Len(ArraySteps(id)) :
              ArrayStep(id[2], k, Len(ArraySteps(id)), ArraySteps(id)[k])
<1> DEFINE c == Cardinality(OfArrays)
           s == SetToSeq(OfArrays)
           a == <<Step("component", ElementOf[id[2]]), Step("super", Object)>>
           b == [i \in 1 .. c |-> Step("interface", s[i])]
           d == <<Step("register", None), Step("object", Class)>>
           T == {a[1], a[2], d[1], d[2]} \cup {Step("interface", x) : x \in OfArrays}
           L == ArraySteps(id)
<1>1. c \in Nat /\ \A i \in 1 .. c : s[i] \in OfArrays
  BY InterfacesOfArrays
<1> HIDE DEF c, s
<1>2. b \in Seq(T) /\ Len(b) = c /\ \A i \in 1 .. c : b[i] = Step("interface", s[i])
  <2> HIDE DEF T
  <2>1. \A i \in 1 .. c : Step("interface", s[i]) \in T
    BY <1>1 DEF T
  <2>2. b \in [1 .. c -> T]
    BY <2>1
  <2> QED BY <1>1, <2>2, SeqFrom
<1>3. a \in Seq(T) /\ Len(a) = 2 /\ d \in Seq(T) /\ Len(d) = 2
  <2> DEFINE a1 == a[1]
             a2 == a[2]
             d1 == d[1]
             d2 == d[2]
  <2>1. a1 \in T /\ a2 \in T /\ d1 \in T /\ d2 \in T /\ a = <<a1, a2>> /\ d = <<d1, d2>>
    OBVIOUS
  <2> HIDE DEF T, a1, a2, d1, d2
  <2>2. <<a1, a2>> \in Seq(T) /\ <<d1, d2>> \in Seq(T)
    BY <2>1
  <2> QED BY <2>1, <2>2
<1>4. L = (a \o b) \o d
  BY DEF ArraySteps, c, s
<1>5. /\ a[1] = Step("component", ElementOf[id[2]]) /\ a[2] = Step("super", Object)
      /\ d[1] = Step("register", None) /\ d[2] = Step("object", Class)
  OBVIOUS
<1> HIDE DEF a, b, d, T, L
<1> DEFINE ab == a \o b
<1>40. ab = a \o b
  OBVIOUS
<1> HIDE DEF ab
<1>6. /\ ab \in Seq(T) /\ Len(ab) = 2 + c
      /\ \A k \in 1 .. 2 : ab[k] = a[k]
      /\ \A k \in 1 .. c : ab[2 + k] = b[k]
  <2>0. a \in Seq(T) /\ b \in Seq(T)
    BY <1>2, <1>3
  <2>1. /\ ab \in Seq(T) /\ Len(ab) = Len(a) + Len(b)
        /\ \A k \in 1 .. Len(a) : k \in 1 .. Len(ab) /\ ab[k] = a[k]
        /\ \A k \in 1 .. Len(b) : Len(a) + k \in 1 .. Len(ab) /\ ab[Len(a) + k] = b[k]
    BY <2>0, <1>40, TwoParts
  <2> QED BY <1>2, <1>3, <2>1
<1>7. L = ab \o d
  BY <1>4, <1>40
<1>8. /\ Len(L) = c + 4
      /\ \A k \in 1 .. 2 + c : L[k] = ab[k]
      /\ \A k \in 1 .. 2 : L[2 + c + k] = d[k]
  <2>1. ab \in Seq(T) /\ d \in Seq(T)
    BY <1>3, <1>6
  <2>2. /\ Len(L) = Len(ab) + Len(d)
        /\ \A k \in 1 .. Len(ab) : k \in 1 .. Len(L) /\ L[k] = ab[k]
        /\ \A k \in 1 .. Len(d) : Len(ab) + k \in 1 .. Len(L) /\ L[Len(ab) + k] = d[k]
    BY <1>7, <2>1, TwoParts
  <2> QED BY <1>1, <1>3, <1>6, <2>2
<1>9. /\ L[1] = Step("component", ElementOf[id[2]]) /\ L[2] = Step("super", Object)
      /\ L[c + 3] = Step("register", None) /\ L[c + 4] = Step("object", Class)
  <2>1. /\ 1 \in 1 .. 2 /\ 2 \in 1 .. 2 /\ 1 \in 1 .. 2 + c /\ 2 \in 1 .. 2 + c
        /\ 2 + c + 1 = c + 3 /\ 2 + c + 2 = c + 4
    BY <1>1
  <2> QED BY <1>5, <1>6, <1>8, <2>1
<1>10. ASSUME NEW k \in 3 .. c + 2 PROVE k - 2 \in 1 .. c /\ L[k] = Step("interface", s[k - 2])
  <2>1. k - 2 \in 1 .. c /\ 2 + (k - 2) = k /\ k \in 1 .. 2 + c
    BY <1>1
  <2> QED BY <1>2, <1>6, <1>8, <2>1
<1>11. ASSUME NEW k \in 1 .. c + 4 PROVE ArrayStep(id[2], k, c + 4, L[k])
  <2>1. CASE k = 1
    <3>1. k # c + 3 /\ k # c + 4
      BY <1>1, <2>1
    <3> QED BY <1>9, <2>1, <3>1 DEF ArrayStep, Step
  <2>2. CASE k = 2
    <3>1. k # c + 3 /\ k # c + 4 /\ k # 1
      BY <1>1, <2>2
    <3> QED BY <1>1, <1>9, <2>2, <3>1 DEF ArrayStep, Step
  <2>3. CASE k \in 3 .. c + 2
    <3>1. k # c + 3 /\ k # c + 4 /\ k # 1
      BY <1>1, <2>3
    <3>2. s[k - 2] \in OfArrays /\ L[k] = Step("interface", s[k - 2])
      BY <1>1, <1>10, <2>3
    <3>3. L[k].what = "interface" /\ L[k].name \in OfArrays
      BY <3>2 DEF Step
    <3>4. k # (c + 4) - 1
      BY <1>1, <3>1
    <3> QED BY <3>1, <3>3, <3>4 DEF ArrayStep
  <2>4. CASE k = c + 3
    <3>1. k = (c + 4) - 1 /\ k # c + 4 /\ k # 1
      BY <1>1, <2>4
    <3> QED BY <1>9, <2>4, <3>1 DEF ArrayStep, Step
  <2>5. CASE k = c + 4
    <3>1. k # (c + 4) - 1 /\ k # 1
      BY <1>1, <2>5
    <3> QED BY <1>9, <2>5, <3>1 DEF ArrayStep, Step
  <2>6. k = 1 \/ k = 2 \/ k \in 3 .. c + 2 \/ k = c + 3 \/ k = c + 4
    BY <1>1
  <2> QED BY <2>1, <2>2, <2>3, <2>4, <2>5, <2>6
<1> QED BY <1>8, <1>11 DEF L, c
-----------------------------------------------------------------------------
(* The calls that are under way.                                           *)

\* The dimensions of arrays, as they are assumed.
LEMMA DimensionsAre ==
  /\ Dimensions \in [Array -> 1 .. 255]
  /\ \A a \in Array : ElementOf[a] \in Array => Dimensions[ElementOf[a]] < Dimensions[a]
BY ArraysAssumption, Zenon DEF Dimensions

\* A call goes on, or a Java loader with it: its place among the others stays.
LEMMA GoesOn ==
  ASSUME NEW T, NEW s \in Seq(T), s # <<>>, Nested(s),
         NEW y, y.kind = s[1].kind, y.id = s[1].id
  PROVE  Nested(<<y>> \o Tail(s))
<1> DEFINE u == <<y>> \o Tail(s)
<1>1. /\ Len(u) = Len(s) /\ Len(s) \in Nat /\ Len(s) >= 1
      /\ u[1] = y /\ \A i \in 2 .. Len(s) : u[i] = s[i]
  OBVIOUS
<1> HIDE DEF u
<1>2. \A i \in 1 .. Len(s) : u[i].kind = s[i].kind /\ u[i].id = s[i].id
  <2>1. ASSUME NEW i \in 1 .. Len(s) PROVE u[i].kind = s[i].kind /\ u[i].id = s[i].id
    <3>1. i = 1 \/ i \in 2 .. Len(s)
      OBVIOUS
    <3> QED BY <1>1, <3>1
  <2> QED BY <2>1
<1>3. InOrder(u)
  <2>1. ASSUME NEW i \in 2 .. Len(s) PROVE Called(u[i], u[i - 1])
    <3>1. i - 1 \in 1 .. Len(s) /\ u[i] = s[i]
      BY <1>1
    <3>2. Called(s[i], s[i - 1])
      BY DEF Nested, InOrder
    <3> QED BY <1>2, <3>1, <3>2 DEF Called
  <2> QED BY <1>1, <2>1 DEF InOrder
<1>4. Delegates(u)
  <2>1. ASSUME NEW i \in 1 .. Len(s), NEW j \in 1 .. Len(s), i < j,
               u[j].kind = "java", u[j].at = 2
        PROVE  u[i].id[1] = Boot
    <3>1. u[j] = s[j]
      BY <1>1, <2>1
    <3>2. s[i].id[1] = Boot
      BY <2>1, <3>1 DEF Nested, Delegates
    <3> QED BY <1>2, <3>2
  <2> QED BY <1>1, <2>1 DEF Delegates
<1>5. Descends(u)
  <2>1. ASSUME NEW i \in 1 .. Len(s), NEW j \in 1 .. Len(s), NoLink(u, i, j)
        PROVE  NoLink(s, i, j)
    <3>1. \A k \in i + 1 .. j - 1 : k \in 1 .. Len(s)
      BY <1>1
    <3> QED BY <1>2, <2>1, <3>1 DEF NoLink
  <2> QED BY <1>1, <1>2, <2>1 DEF Nested, Descends
<1>6. OnlyArraysAgain(u)
  BY <1>1, <1>2 DEF Nested, OnlyArraysAgain
<1> QED BY <1>3, <1>4, <1>5, <1>6 DEF Nested, u

\* A call returns.
LEMMA Returns ==
  ASSUME NEW T, NEW s \in Seq(T), s # <<>>, Nested(s)
  PROVE  Nested(Tail(s))
<1> DEFINE u == Tail(s)
<1>1. /\ Len(u) = Len(s) - 1 /\ Len(s) \in Nat /\ Len(s) >= 1
      /\ \A i \in 1 .. Len(u) : i + 1 \in 1 .. Len(s) /\ u[i] = s[i + 1]
  OBVIOUS
<1> HIDE DEF u
<1>2. InOrder(u)
  <2>1. ASSUME NEW i \in 2 .. Len(u) PROVE Called(u[i], u[i - 1])
    <3>1. /\ i + 1 \in 2 .. Len(s) /\ i \in 1 .. Len(u) /\ i - 1 \in 1 .. Len(u)
          /\ (i + 1) - 1 = i /\ (i - 1) + 1 = i
      BY <1>1
    <3>2. u[i] = s[i + 1] /\ u[i - 1] = s[i]
      BY <1>1, <3>1
    <3> QED BY <3>1, <3>2 DEF Nested, InOrder
  <2> QED BY <2>1 DEF InOrder
<1>3. \A i, j \in 1 .. Len(u) : i < j => i + 1 < j + 1
  BY <1>1
<1>4. Delegates(u)
  BY <1>1, <1>3 DEF Nested, Delegates
<1>5. Descends(u)
  <2>1. ASSUME NEW i \in 1 .. Len(u), NEW j \in 1 .. Len(u), NoLink(u, i, j)
        PROVE  NoLink(s, i + 1, j + 1)
    <3>1. \A k \in i + 1 + 1 .. j + 1 - 1 :
            k - 1 \in i + 1 .. j - 1 /\ k - 1 \in 1 .. Len(u) /\ (k - 1) + 1 = k
      BY <1>1
    <3>2. \A k \in i + 1 + 1 .. j + 1 - 1 : u[k - 1] = s[k] /\ k - 1 \in i + 1 .. j - 1
      BY <1>1, <3>1
    <3> QED BY <2>1, <3>2 DEF NoLink
  <2>2. ASSUME NEW i \in 1 .. Len(u), NEW j \in 1 .. Len(u), i < j,
               u[i].kind = "array", u[j].kind = "array", NoLink(u, i, j)
        PROVE  Dimensions[u[i].id[2]] < Dimensions[u[j].id[2]]
    <3>1. i + 1 < j + 1 /\ u[i] = s[i + 1] /\ u[j] = s[j + 1]
          /\ i + 1 \in 1 .. Len(s) /\ j + 1 \in 1 .. Len(s)
      BY <1>1, <1>3, <2>2
    <3>2. NoLink(s, i + 1, j + 1)
      BY <2>1, <2>2
    <3> QED BY <2>2, <3>1, <3>2 DEF Nested, Descends
  <2> QED BY <2>2 DEF Descends
<1>6. OnlyArraysAgain(u)
  BY <1>1, <1>3 DEF Nested, OnlyArraysAgain
<1> QED BY <1>2, <1>4, <1>5, <1>6 DEF Nested, u

\* A call is made: conditions under which the calls stay in order.
MayCall(s, x) ==
  /\ s # <<>> => Called(s[1], x)
  /\ \A j \in 1 .. Len(s) : s[j].kind = "java" /\ s[j].at = 2 => x.id[1] = Boot
  /\ x.kind = "array" /\ s # <<>> =>
       \/ s[1].kind = "link"
       \/ s[1].kind = "array" /\ Dimensions[x.id[2]] < Dimensions[s[1].id[2]]
  /\ x.kind # "array" => \A j \in 1 .. Len(s) : ~(s[j].kind = x.kind /\ s[j].id = x.id)
\* The array calls are for arrays.
ArraysNamed(s) == \A i \in 1 .. Len(s) : s[i].kind = "array" => s[i].id[2] \in Array

\* Under these conditions a call is put among the others.
LEMMA Calls ==
  ASSUME NEW T, NEW s \in Seq(T), Nested(s), ArraysNamed(s),
         NEW x, x.kind = "array" => x.id[2] \in Array, MayCall(s, x)
  PROVE  Nested(<<x>> \o s)
<1> DEFINE u == <<x>> \o s
<1>1. /\ Len(u) = Len(s) + 1 /\ Len(s) \in Nat /\ u[1] = x
      /\ \A i \in 2 .. Len(u) : i - 1 \in 1 .. Len(s) /\ u[i] = s[i - 1]
  OBVIOUS
<1>1a. s # <<>> <=> Len(s) # 0
  OBVIOUS
<1> HIDE DEF u
<1>2. InOrder(u)
  <2>1. ASSUME NEW i \in 2 .. Len(u) PROVE Called(u[i], u[i - 1])
    <3>1. CASE i = 2
      <4>1. s # <<>> /\ u[2] = s[1] /\ u[2 - 1] = x
        BY <1>1, <1>1a, <3>1
      <4> QED BY <3>1, <4>1 DEF MayCall
    <3>2. CASE i # 2
      <4>1. i - 1 \in 2 .. Len(u) /\ i - 1 \in 2 .. Len(s)
        BY <1>1, <3>2
      <4>2. u[i] = s[i - 1] /\ u[i - 1] = s[(i - 1) - 1]
        BY <1>1, <4>1
      <4> QED BY <4>1, <4>2 DEF Nested, InOrder
    <3> QED BY <3>1, <3>2
  <2> QED BY <2>1 DEF InOrder
<1>3. \A i, j \in 1 .. Len(u) :
        i < j => /\ j - 1 \in 1 .. Len(s) /\ u[j] = s[j - 1]
                 /\ \/ i = 1 /\ u[i] = x
                    \/ i - 1 \in 1 .. Len(s) /\ u[i] = s[i - 1] /\ i - 1 < j - 1
  <2>1. ASSUME NEW i \in 1 .. Len(u), NEW j \in 1 .. Len(u), i < j
        PROVE  /\ j - 1 \in 1 .. Len(s) /\ u[j] = s[j - 1]
               /\ \/ i = 1 /\ u[i] = x
                  \/ i - 1 \in 1 .. Len(s) /\ u[i] = s[i - 1] /\ i - 1 < j - 1
    <3>1. j \in 2 .. Len(u) /\ (i = 1 \/ i \in 2 .. Len(u)) /\ i - 1 < j - 1
      BY <1>1, <2>1
    <3> QED BY <1>1, <3>1
  <2> QED BY <2>1
<1>4. Delegates(u)
  <2>1. ASSUME NEW i \in 1 .. Len(u), NEW j \in 1 .. Len(u), i < j,
               u[j].kind = "java", u[j].at = 2
        PROVE  u[i].id[1] = Boot
    <3>1. j - 1 \in 1 .. Len(s) /\ u[j] = s[j - 1]
      BY <1>3, <2>1
    <3>2. CASE u[i] = x
      BY <2>1, <3>1, <3>2 DEF MayCall
    <3>3. CASE i - 1 \in 1 .. Len(s) /\ u[i] = s[i - 1] /\ i - 1 < j - 1
      BY <2>1, <3>1, <3>3 DEF Nested, Delegates
    <3> QED BY <1>3, <2>1, <3>2, <3>3
  <2> QED BY <2>1 DEF Delegates
<1>5. OnlyArraysAgain(u)
  <2>1. ASSUME NEW i \in 1 .. Len(u), NEW j \in 1 .. Len(u), i < j,
               u[i].id = u[j].id, u[i].kind = u[j].kind
        PROVE  u[i].kind = "array"
    <3>1. j - 1 \in 1 .. Len(s) /\ u[j] = s[j - 1]
      BY <1>3, <2>1
    <3>2. CASE u[i] = x
      BY <2>1, <3>1, <3>2 DEF MayCall
    <3>3. CASE i - 1 \in 1 .. Len(s) /\ u[i] = s[i - 1] /\ i - 1 < j - 1
      BY <2>1, <3>1, <3>3 DEF Nested, OnlyArraysAgain
    <3> QED BY <1>3, <2>1, <3>2, <3>3
  <2> QED BY <2>1 DEF OnlyArraysAgain
<1>6. Descends(u)
  <2>1. ASSUME NEW i \in 1 .. Len(u), NEW j \in 1 .. Len(u), i < j,
               u[i].kind = "array", u[j].kind = "array", NoLink(u, i, j)
        PROVE  Dimensions[u[i].id[2]] < Dimensions[u[j].id[2]]
    <3>1. j - 1 \in 1 .. Len(s) /\ u[j] = s[j - 1]
      BY <1>3, <2>1
    <3>2. \A k \in 1 .. Len(s) : k + 1 \in 2 .. Len(u) /\ (k + 1) - 1 = k
      BY <1>1
    <3>3. \A k \in 1 .. Len(s) : u[k + 1] = s[k]
      BY <1>1, <3>2
    <3>4. CASE i = 1
      <4>1. \A k \in 1 .. (j - 1) - 1 : k + 1 \in i + 1 .. j - 1 /\ k \in 1 .. Len(s)
        BY <3>1, <3>4, <1>1
      <4>2. \A k \in 1 .. (j - 1) - 1 : s[k].kind # "link"
        BY <2>1, <3>3, <4>1 DEF NoLink
      <4>3. s # <<>> /\ 1 \in 1 .. Len(s)
        BY <1>1, <1>1a, <3>1
      <4>4. j - 1 = 1 \/ (1 < j - 1 /\ 1 \in 1 .. (j - 1) - 1)
        BY <3>1
      <4>5. s[1].kind # "link"
        BY <2>1, <3>1, <4>2, <4>4
      <4>6. s[1].kind = "array" /\ Dimensions[x.id[2]] < Dimensions[s[1].id[2]] /\ u[1] = x
        BY <1>1, <2>1, <3>4, <4>3, <4>5 DEF MayCall
      <4>7. CASE j - 1 = 1
        BY <3>1, <3>4, <4>6, <4>7
      <4>8. CASE 1 < j - 1
        <5>1. NoLink(s, 1, j - 1)
          <6>1. \A k \in 1 + 1 .. (j - 1) - 1 : k \in 1 .. (j - 1) - 1
            BY <3>1
          <6> QED BY <4>2, <6>1 DEF NoLink
        <5>2. Dimensions[s[1].id[2]] < Dimensions[s[j - 1].id[2]]
          BY <2>1, <3>1, <4>3, <4>6, <4>8, <5>1 DEF Nested, Descends
        <5>3. /\ Dimensions[x.id[2]] \in 1 .. 255 /\ Dimensions[s[1].id[2]] \in 1 .. 255
              /\ Dimensions[s[j - 1].id[2]] \in 1 .. 255
          <6>1. x.id[2] \in Array /\ s[1].id[2] \in Array /\ s[j - 1].id[2] \in Array
            BY <2>1, <3>1, <3>4, <4>3, <4>6 DEF ArraysNamed
          <6> QED BY <6>1, DimensionsAre
        <5>4. ASSUME NEW a \in 1 .. 255, NEW b \in 1 .. 255, NEW c \in 1 .. 255, a < b, b < c
              PROVE  a < c
          BY <5>4
        <5>5. Dimensions[x.id[2]] < Dimensions[s[j - 1].id[2]]
          <6>1. PICK a \in 1 .. 255, b \in 1 .. 255, c \in 1 .. 255 :
                  /\ a = Dimensions[x.id[2]] /\ b = Dimensions[s[1].id[2]]
                  /\ c = Dimensions[s[j - 1].id[2]]
            BY <5>3
          <6>2. a < b /\ b < c
            BY <4>6, <5>2, <6>1
          <6>3. a < c
            BY <5>4, <6>2
          <6> QED BY <6>1, <6>3
        <5> QED BY <3>1, <3>4, <4>6, <5>5
      <4> QED BY <4>4, <4>7, <4>8
    <3>5. CASE i # 1
      <4>1. i - 1 \in 1 .. Len(s) /\ u[i] = s[i - 1] /\ i - 1 < j - 1
        BY <1>3, <2>1, <3>5
      <4>2. NoLink(s, i - 1, j - 1)
        <5>1. \A k \in (i - 1) + 1 .. (j - 1) - 1 : k + 1 \in i + 1 .. j - 1 /\ k \in 1 .. Len(s)
          BY <3>1, <4>1
        <5>2. \A k \in i + 1 .. j - 1 : u[k].kind # "link"
          BY <2>1 DEF NoLink
        <5> QED BY <3>3, <5>1, <5>2 DEF NoLink
      <4> QED BY <2>1, <3>1, <4>1, <4>2 DEF Nested, Descends
    <3> QED BY <3>4, <3>5
  <2> QED BY <2>1 DEF Descends
<1> QED BY <1>2, <1>4, <1>5, <1>6 DEF Nested, u

\* What is in order has no class inside itself.
LEMMA NestedNone ==
  ASSUME NEW T, stack \in Seq(T), Nested(stack), ArraysNamed(stack)
  PROVE  NoneInItself
<1>1. DOMAIN stack = 1 .. Len(stack)
  OBVIOUS
<1>2. ASSUME NEW i \in 1 .. Len(stack), NEW j \in 1 .. Len(stack), i < j,
             stack[i].id = stack[j].id, stack[i].kind = stack[j].kind
      PROVE  /\ stack[i].kind = "array"
             /\ \E k \in i + 1 .. j - 1 : stack[k].kind = "link"
  <2>1. stack[i].kind = "array"
    BY <1>2 DEF Nested, OnlyArraysAgain
  <2>2. ASSUME NoLink(stack, i, j) PROVE FALSE
    <3>1. Dimensions[stack[i].id[2]] < Dimensions[stack[j].id[2]]
      BY <1>2, <2>1, <2>2 DEF Nested, Descends
    <3>2. Dimensions[stack[i].id[2]] \in 1 .. 255
      BY <2>1, DimensionsAre DEF ArraysNamed
    <3>3. PICK n \in 1 .. 255 : n = Dimensions[stack[i].id[2]]
      BY <3>2
    <3>4. n = Dimensions[stack[j].id[2]]
      BY <1>2, <3>3
    <3>5. n < n
      BY <3>1, <3>3, <3>4
    <3> QED BY <3>5
  <2> QED BY <2>1, <2>2 DEF NoLink
<1> QED BY <1>1, <1>2 DEF NoneInItself
-----------------------------------------------------------------------------
(* The step where a call stands.                                           *)

\* A call that is not one of Java stands at one of its steps.
LEMMA StepIs ==
  ASSUME program \in Programs, NEW c, CallOK(c), c.kind # "java"
  PROVE  /\ Len(Steps(c)) \in Nat /\ c.at \in 1 .. Len(Steps(c))
         /\ c.kind \in {"link", "array", "primitive"}
         /\ c.kind = "link" =>
              /\ Steps(c) = LinkSteps(c.id) /\ c.id[2] \in DOMAIN program.files
              /\ LinkStep(File(c.id), c.id[2], c.at, Len(Steps(c)), StepOf(c))
         /\ c.kind = "array" => ArrayStep(c.id[2], c.at, Len(Steps(c)), StepOf(c))
         /\ c.kind = "primitive" =>
              StepOf(c) = Step("object", Class) /\ c.at = 1 /\ Len(Steps(c)) = 1
<1>1. c.at \in Nat \ {0} /\ c.at <= Len(Steps(c)) /\ Fits(c.kind, c.id)
  BY DEF CallOK
<1>2. c.kind \in {"link", "array", "primitive"}
  BY <1>1 DEF Fits
<1>3. CASE c.kind = "link"
  <2>1. Steps(c) = LinkSteps(c.id) /\ c.id[2] \in DOMAIN program.files
    BY <1>1, <1>3 DEF Steps, Fits
  <2>2. LinkShape(File(c.id), c.id[2], LinkSteps(c.id))
    BY <2>1, LinkStepsAre
  <2>3. Len(LinkSteps(c.id)) \in Nat
    BY <2>2, SeqHas DEF LinkShape
  <2>4. c.at \in 1 .. Len(LinkSteps(c.id))
    BY <1>1, <2>1, <2>3
  <2>5. LinkStep(File(c.id), c.id[2], c.at, Len(LinkSteps(c.id)), LinkSteps(c.id)[c.at])
    BY <2>1, <2>4, LinkStepIs
  <2> QED BY <1>3, <2>1, <2>3, <2>4, <2>5 DEF StepOf
<1>4. CASE c.kind = "array"
  <2>1. Steps(c) = ArraySteps(c.id)
    BY <1>4 DEF Steps
  <2>2. Len(ArraySteps(c.id)) = Cardinality(OfArrays) + 4 /\ Cardinality(OfArrays) \in Nat
    BY ArrayStepIs, InterfacesOfArrays
  <2>3. c.at \in 1 .. Len(ArraySteps(c.id)) /\ Len(ArraySteps(c.id)) \in Nat
    BY <1>1, <2>1, <2>2
  <2>4. ArrayStep(c.id[2], c.at, Len(ArraySteps(c.id)), ArraySteps(c.id)[c.at])
    BY <2>3, ArrayStepIs
  <2> QED BY <1>4, <2>1, <2>3, <2>4 DEF StepOf
<1>5. CASE c.kind = "primitive"
  <2>1. Steps(c) = <<Step("object", Class)>>
    BY <1>5 DEF Steps
  <2>2. Len(Steps(c)) = 1 /\ Steps(c)[1] = Step("object", Class)
    BY <2>1
  <2>3. c.at = 1
    BY <1>1, <2>2
  <2> QED BY <1>5, <2>2, <2>3 DEF StepOf
<1> QED BY <1>2, <1>3, <1>4, <1>5

\* What the steps have in common.
LEMMA StepHas ==
  ASSUME program \in Programs, NEW c, CallOK(c), c.kind # "java"
  PROVE  /\ StepOf(c).what \in {"object", "sweep"} <=> c.at = Len(Steps(c))
         /\ StepOf(c).what = "sweep" => c.kind = "link" /\ c.id[2] = Class
         /\ c.kind = "link" /\ StepOf(c).what = "object" => c.id[2] # Class
         /\ StepOf(c).what = "object" =>
              StepOf(c).name = Class /\ <<AskedBy(c), StepOf(c).name>> = TheClass
         /\ StepOf(c).what \notin Quiet =>
              /\ StepOf(c).name \in Names(program)
              /\ <<AskedBy(c), StepOf(c).name>> \in Id
              /\ StepOf(c).name \in Primitive => AskedBy(c) = Boot
              /\ StepOf(c).name \in Array =>
                   \/ c.kind = "link"
                   \/ c.kind = "array" /\ Dimensions[StepOf(c).name] < Dimensions[c.id[2]]
<1>1. /\ {Object, Class} \cup OfArrays \subseteq DOMAIN program.files
      /\ DOMAIN program.files \subseteq Names(program)
      /\ DOMAIN program.files \cap (Array \cup Primitive) = {}
      /\ \A a \in Array : ElementOf[a] \in Names(program)
  BY NamesAre
<1>2. c.id \in Id /\ c.id[1] \in Loader \cup {Boot} /\ Fits(c.kind, c.id)
  BY DEF CallOK, Id
<1>3. AskedBy(c) \in Loader \cup {Boot}
  BY <1>2 DEF AskedBy
<1>4. /\ StepOf(c).name \in Primitive => AskedBy(c) = Boot
      /\ StepOf(c).what = "object" => AskedBy(c) = Boot
  BY DEF AskedBy
<1>5. CASE c.kind = "link"
  <2>1. /\ LinkStep(File(c.id), c.id[2], c.at, Len(Steps(c)), StepOf(c))
    BY <1>5, StepIs
  <2>2. StepOf(c).what = "object" => StepOf(c).name = Class
    BY <2>1 DEF LinkStep
  <2>3. StepOf(c).what \notin Quiet => StepOf(c).name \in Names(program)
    BY <2>1 DEF LinkStep
  <2>4. /\ StepOf(c).what \in {"object", "sweep"} <=> c.at = Len(Steps(c))
        /\ c.at = Len(Steps(c)) => StepOf(c).what = IF c.id[2] = Class THEN "sweep" ELSE "object"
    BY <2>1 DEF LinkStep
  <2> QED BY <1>3, <1>4, <1>5, <2>2, <2>3, <2>4 DEF TheClass, Id
<1>6. CASE c.kind = "array"
  <2>1. ArrayStep(c.id[2], c.at, Len(Steps(c)), StepOf(c))
    BY <1>6, StepIs
  <2>2. c.id[2] \in Array
    BY <1>2, <1>6 DEF Fits
  <2>3. StepOf(c).what \notin Quiet =>
          /\ StepOf(c).name \in Names(program)
          /\ StepOf(c).name \in Array => StepOf(c).name = ElementOf[c.id[2]]
    BY <1>1, <2>1, <2>2 DEF ArrayStep, Quiet
  <2>4. StepOf(c).what \notin Quiet /\ StepOf(c).name \in Array =>
          Dimensions[StepOf(c).name] < Dimensions[c.id[2]]
    BY <2>2, <2>3, DimensionsAre
  <2>5. StepOf(c).what = "object" => StepOf(c).name = Class
    BY <2>1 DEF ArrayStep
  <2>6. /\ StepOf(c).what \in {"object", "sweep"} <=> c.at = Len(Steps(c))
        /\ StepOf(c).what # "sweep"
    BY <2>1 DEF ArrayStep
  <2> QED BY <1>3, <1>4, <1>6, <2>3, <2>4, <2>5, <2>6 DEF TheClass, Id
<1>7. CASE c.kind = "primitive"
  <2>1. StepOf(c).what = "object" /\ StepOf(c).name = Class /\ c.at = 1 /\ Len(Steps(c)) = 1
    BY <1>7, StepIs DEF Step
  <2>2. Class \in Names(program) /\ Class \notin Array
    BY <1>1
  <2> QED BY <1>3, <1>4, <1>7, <2>1, <2>2 DEF TheClass, Id
<1>8. c.kind \in {"link", "array", "primitive"}
  BY StepIs
<1> QED BY <1>5, <1>6, <1>7, <1>8
-----------------------------------------------------------------------------
(* What a step of the others leaves alone.                                 *)

\* What is asked of the program stays.
LEMMA ProgramStays ==
  ASSUME program' = program
  PROVE  /\ Id' = Id /\ \A id : File(id)' = File(id)
         /\ \A id : LinkSteps(id)' = LinkSteps(id)
         /\ \A c : Steps(c)' = Steps(c) /\ StepOf(c)' = StepOf(c) /\ AskedBy(c)' = AskedBy(c)
         /\ \A kind, id : Fits(kind, id)' <=> Fits(kind, id)
         /\ \A s : Nested(s)' <=> Nested(s)
         /\ \A s, x : MayCall(s, x)' <=> MayCall(s, x)
<1>1. Id' = Id /\ \A id : File(id)' = File(id)
  BY DEF Id, File
<1>2. \A id : LinkSteps(id)' = LinkSteps(id)
  BY <1>1 DEF LinkSteps
<1>3. \A c : Steps(c)' = Steps(c)
  BY <1>2, Zenon DEF Steps
<1>4. \A c : StepOf(c)' = StepOf(c)
  BY <1>3 DEF StepOf
<1>5. \A c : AskedBy(c)' = AskedBy(c)
  BY <1>4 DEF AskedBy
<1>6. \A kind, id : Fits(kind, id)' <=> Fits(kind, id)
  BY DEF Fits
<1>7. \A c, d : Called(c, d)' <=> Called(c, d)
  BY <1>4, <1>5 DEF Called
<1>8. \A s : InOrder(s)' <=> InOrder(s)
  BY <1>7 DEF InOrder
<1>9. \A s : Nested(s)' <=> Nested(s)
  BY <1>8 DEF Nested, Delegates, Descends, OnlyArraysAgain, NoLink
<1>10. \A s, x : MayCall(s, x)' <=> MayCall(s, x)
  BY <1>7 DEF MayCall
<1> QED BY <1>1, <1>2, <1>3, <1>4, <1>5, <1>6, <1>9, <1>10

\* A call stays as it is while the table grows, if its class does.
LEMMA CallStays ==
  ASSUME NEW c, CallOK(c), program' = program, DOMAIN class \subseteq DOMAIN class',
         c.kind = "link" => class'[c.id].resolved = class[c.id].resolved
  PROVE  CallOK(c)'
<1>1. /\ Id' = Id /\ Steps(c)' = Steps(c) /\ (Fits(c.kind, c.id)' <=> Fits(c.kind, c.id))
  BY ProgramStays
<1>2. c.kind = "array" => c.got \in Seq(DOMAIN class)'
  BY SeqMonotonic DEF CallOK
<1>3. /\ (c.id \in Id /\ c.at \in Nat \ {0} /\ Fits(c.kind, c.id))'
      /\ (c.kind = "java" => c.at <= 3)
      /\ (c.kind # "java" => c.at <= Len(Steps(c)))'
  BY <1>1 DEF CallOK
<1>4. /\ (c.kind \in {"link", "primitive"} => c.id \in DOMAIN class)'
      /\ (c.kind = "java" /\ c.at = 3 => c.id \in DOMAIN class)'
  BY DEF CallOK
<1>5. (c.kind = "array" =>
         /\ c.got \in Seq(DOMAIN class)
         /\ c.at < Len(Steps(c)) => Len(c.got) = c.at - 1
         /\ c.at = Len(Steps(c)) => c.id \in DOMAIN class)'
  BY <1>1, <1>2 DEF CallOK
<1>6. (c.kind = "link" => (class[c.id].resolved <=> c.at = Len(Steps(c))))'
  BY <1>1 DEF CallOK
<1> QED BY <1>3, <1>4, <1>5, <1>6 DEF CallOK

\* So does a class.
LEMMA ClassStays ==
  ASSUME NEW c, NEW id, ClassOK(c, id), program' = program, DOMAIN class \subseteq DOMAIN class'
  PROVE  ClassOK(c, id)'
BY DEF ClassOK

\* How far a class has come depends on the class alone.
LEMMA ProgressStays ==
  ASSUME NEW id, NEW at, Progress(id, at), program' = program,
         class'[id].super = class[id].super, class'[id].interfaces = class[id].interfaces,
         class'[id].fields = class[id].fields, class'[id].declared = class[id].declared
  PROVE  Progress(id, at)'
<1>1. File(id)' = File(id) /\ LinkSteps(id)' = LinkSteps(id)
  BY ProgramStays
<1> QED BY <1>1 DEF Progress, Come
-----------------------------------------------------------------------------
(* Classes are entered in the table.                                       *)

\* What is entered is found, and the others stay.
LEMMA Registers ==
  ASSUME NEW id, NEW c, Register(id, c)
  PROVE  /\ DOMAIN class' = DOMAIN class \cup {id} /\ class'[id] = c
         /\ \A d \in DOMAIN class : d # id => class'[d] = class[d]
BY DEF Register, With

\* A class as it is entered, by a call that will link it or is for a primitive type.
Fresh(c, kind) ==
  /\ DOMAIN c = Fields
  /\ kind = "link" => c.kind \in {"class", "interface"} /\ c.resolved = FALSE
  /\ kind = "primitive" => c.kind = "primitive" /\ c.resolved = TRUE
  /\ c.super = None /\ c.interfaces = {} /\ c.component = None /\ c.fields = <<>>
  /\ c.pool = <<>> /\ c.declared = {} /\ c.object = 0 /\ c.object_size \in Nat

\* What loading a class does when it is called: kinds are those of the calls that
\* it may make.
Loaded(id, calls, kinds) ==
  \/ id \in DOMAIN class /\ ret' = id /\ stack' = calls /\ class' = class
  \/ /\ id \notin DOMAIN class
     /\ \/ ret' = Failed /\ stack' = calls /\ class' = class
        \/ \E kind \in kinds :
             /\ ret' = None /\ stack' = <<Call(kind, id)>> \o calls /\ Fits(kind, id)
             /\ \/ kind \in {"array", "java"} /\ class' = class
                \/ /\ kind \in {"link", "primitive"}
                   /\ \E c : Fresh(c, kind) /\ Register(id, c)

\* define_class is such a call,
LEMMA DefineIs ==
  ASSUME program \in Programs, NEW id \in Id, NEW calls, IsClass(id[2]), Define(id, calls)
  PROVE  Loaded(id, calls, {"link"})
<1>1. CASE id \in DOMAIN class
  BY <1>1 DEF Define, Known, Hit, Loaded
<1>2. CASE id \notin DOMAIN class /\ ~Found(id)
  BY <1>2 DEF Define, Known, DefineNew, Loaded
<1>3. CASE id \notin DOMAIN class /\ Found(id)
  <2> DEFINE c == NewClass(IF File(id).interface THEN "interface" ELSE "class", id[2])
  <2>1. Register(id, c) /\ stack' = <<Call("link", id)>> \o calls /\ ret' = None
    BY <1>3 DEF Define, Known, DefineNew
  <2>2. c.kind \in {"class", "interface"} /\ Fresh(c, "link")
    BY DEF NewClass, Fresh, Fields
  <2>3. Fits("link", id)
    <3>1. id[2] \in Names(program)
      BY DEF Id
    <3>2. id[2] \in DOMAIN program.place
      BY <3>1, NamesAre
    <3>3. program.place[id[2]] # "nowhere"
      BY <1>3 DEF Found
    <3> QED BY <3>2, <3>3, NamesAre DEF Fits
  <2> HIDE DEF c
  <2> QED BY <1>3, <2>1, <2>2, <2>3 DEF Loaded
<1> QED BY <1>1, <1>2, <1>3

\* and so is load_class, for a class, an array or a primitive type.
LEMMA LoadIs ==
  ASSUME program \in Programs, NEW n \in Names(program), NEW loader \in Loader \cup {Boot},
         n \in Primitive => loader = Boot, NEW calls, Load(n, loader, calls)
  PROVE  Loaded(<<loader, n>>, calls, {"link", "array", "primitive", "java"})
<1> DEFINE id == <<loader, n>>
           kinds == {"link", "array", "primitive", "java"}
<1>0. id \in Id /\ id[1] = loader /\ id[2] = n
  BY DEF Id
<1> SUFFICES Loaded(id, calls, kinds)
  OBVIOUS
<1>1. CASE n \in Array
  <2>1. LoadArray(id, calls)
    BY <1>1, NamesAre DEF Load
  <2>2. Fits("array", id)
    BY <1>0, <1>1 DEF Fits
  <2> HIDE DEF id
  <2> QED BY <2>1, <2>2 DEF LoadArray, Known, Hit, Loaded
<1>2. CASE n \in Primitive
  <2>0. n \notin Array
    BY <1>2, NamesAre
  <2>1. LoadPrimitive(id, calls)
    BY <1>2, <2>0 DEF Load
  <2>2. Fits("primitive", id)
    BY <1>0, <1>2 DEF Fits
  <2> DEFINE c == [NewClass("primitive", id[2]) EXCEPT !.object_size = TypeSize(id[2])]
  <2>3. Fresh(c, "primitive")
    BY DEF NewClass, Fresh, Fields, TypeSize
  <2>4. id \in DOMAIN class => Loaded(id, calls, kinds)
    BY <2>1 DEF LoadPrimitive, Known, Hit, Loaded
  <2>5. id \notin DOMAIN class =>
          Register(id, c) /\ stack' = <<Call("primitive", id)>> \o calls /\ ret' = None
    BY <2>1 DEF LoadPrimitive, Known
  <2> HIDE DEF id, c
  <2> QED BY <2>2, <2>3, <2>4, <2>5 DEF Loaded
<1>3. CASE n \notin Array \cup Primitive
  <2>1. LoadClass(id, calls)
    BY <1>3 DEF Load
  <2>2. IsClass(id[2])
    BY <1>0, <1>3 DEF IsClass
  <2> HIDE DEF id
  <2>3. CASE id \in DOMAIN class
    BY <2>1, <2>3 DEF LoadClass, Known, Hit, Loaded
  <2>4. CASE id \notin DOMAIN class /\ id[1] = Boot
    <3>1. Define(id, calls)
      BY <2>1, <2>4 DEF LoadClass, Known
    <3>2. Loaded(id, calls, {"link"})
      BY <1>0, <2>2, <3>1, DefineIs
    <3> QED BY <3>2 DEF Loaded
  <2>5. CASE id \notin DOMAIN class /\ id[1] # Boot
    <3>1. stack' = <<Call("java", id)>> \o calls /\ ret' = None /\ class' = class
      BY <2>1, <2>5 DEF LoadClass, Known
    <3>2. Fits("java", id)
      BY <2>2, <2>5 DEF Fits
    <3> QED BY <2>5, <3>1, <3>2 DEF Loaded
  <2> QED BY <2>3, <2>4, <2>5
<1> QED BY <1>1, <1>2, <1>3
\* The calls u are those of s and x on top of them.
IsOneMore(T, s, x, u) ==
  /\ LinkedBy(u) = LinkedBy(s) \cup {y \in {x.id} : x.kind = "link"}
  /\ CreatedBy(u) = CreatedBy(s) \cup {y \in {x.id} : Creates(x)}
  /\ \A i \in 1 .. Len(u) : u[i] = x \/ \E j \in 1 .. Len(s) : u[i] = s[j]
  /\ \A i \in 1 .. Len(s) : i + 1 \in 1 .. Len(u) /\ u[i + 1] = s[i]
  /\ u[1] = x /\ u # <<>> /\ 1 \in 1 .. Len(u) /\ Tail(u) = s
  /\ u \in Seq(T \cup {x})

\* The classes that calls link and those that they create, with one call more.
LEMMA OneMore ==
  ASSUME NEW T, NEW s \in Seq(T), NEW x
  PROVE  IsOneMore(T, s, x, <<x>> \o s)
<1> DEFINE u == <<x>> \o s
<1>0. Tail(u) = s
  OBVIOUS
<1>1. /\ Len(u) = Len(s) + 1 /\ Len(s) \in Nat /\ u[1] = x /\ u \in Seq(T \cup {x}) /\ u # <<>>
      /\ \A i \in 2 .. Len(u) : i - 1 \in 1 .. Len(s) /\ u[i] = s[i - 1]
      /\ \A i \in 1 .. Len(s) : i + 1 \in 1 .. Len(u) /\ u[i + 1] = s[i]
  <2>1. s \in Seq(T \cup {x}) /\ <<x>> \in Seq(T \cup {x}) /\ Len(<<x>>) = 1
    OBVIOUS
  <2>2. u \in Seq(T \cup {x})
    BY <2>1, ConcatProperties
  <2> QED BY <2>2
<1> HIDE DEF u
<1>2. \A i \in 1 .. Len(u) : i = 1 \/ i \in 2 .. Len(u)
  BY <1>1
<1>3. 1 \in 1 .. Len(u)
  BY <1>1
<1>4. \A y : y \in LinkedBy(u) <=> (y = x.id /\ x.kind = "link") \/ y \in LinkedBy(s)
  <2>1. ASSUME NEW y \in LinkedBy(u) PROVE (y = x.id /\ x.kind = "link") \/ y \in LinkedBy(s)
    <3>1. PICK i \in 1 .. Len(u) : u[i].kind = "link" /\ y = u[i].id
      BY DEF LinkedBy
    <3>2. i = 1 \/ (i - 1 \in 1 .. Len(s) /\ u[i] = s[i - 1])
      BY <1>1, <1>2
    <3> QED BY <1>1, <3>1, <3>2 DEF LinkedBy
  <2>2. ASSUME NEW y \in LinkedBy(s) PROVE y \in LinkedBy(u)
    <3>1. PICK i \in 1 .. Len(s) : s[i].kind = "link" /\ y = s[i].id
      BY DEF LinkedBy
    <3>2. i + 1 \in 1 .. Len(u) /\ u[i + 1] = s[i]
      BY <1>1
    <3> QED BY <3>1, <3>2 DEF LinkedBy
  <2>3. x.kind = "link" => x.id \in LinkedBy(u)
    BY <1>1, <1>3 DEF LinkedBy
  <2> QED BY <2>1, <2>2, <2>3
<1>5. \A y : y \in CreatedBy(u) <=> (y = x.id /\ Creates(x)) \/ y \in CreatedBy(s)
  <2>1. ASSUME NEW y \in CreatedBy(u) PROVE (y = x.id /\ Creates(x)) \/ y \in CreatedBy(s)
    <3>1. PICK i \in 1 .. Len(u) : Creates(u[i]) /\ y = u[i].id
      BY DEF CreatedBy
    <3>2. i = 1 \/ (i - 1 \in 1 .. Len(s) /\ u[i] = s[i - 1])
      BY <1>1, <1>2
    <3> QED BY <1>1, <3>1, <3>2 DEF CreatedBy
  <2>2. ASSUME NEW y \in CreatedBy(s) PROVE y \in CreatedBy(u)
    <3>1. PICK i \in 1 .. Len(s) : Creates(s[i]) /\ y = s[i].id
      BY DEF CreatedBy
    <3>2. i + 1 \in 1 .. Len(u) /\ u[i + 1] = s[i]
      BY <1>1
    <3> QED BY <3>1, <3>2 DEF CreatedBy
  <2>3. Creates(x) => x.id \in CreatedBy(u)
    BY <1>1, <1>3 DEF CreatedBy
  <2> QED BY <2>1, <2>2, <2>3
<1>6. /\ LinkedBy(u) = LinkedBy(s) \cup {y \in {x.id} : x.kind = "link"}
      /\ CreatedBy(u) = CreatedBy(s) \cup {y \in {x.id} : Creates(x)}
  BY <1>4, <1>5
<1>7. \A i \in 1 .. Len(u) : u[i] = x \/ \E j \in 1 .. Len(s) : u[i] = s[j]
  BY <1>1, <1>2
<1> QED BY <1>0, <1>1, <1>3, <1>6, <1>7 DEF u, IsOneMore

\* A class that is entered to be linked is at the beginning of it.
LEMMA ProgressBegins ==
  ASSUME NEW id, program \in Programs, id[2] \in DOMAIN program.files, program' = program,
         class'[id].super = None, class'[id].interfaces = {}, class'[id].fields = <<>>,
         class'[id].declared = {}
  PROVE  Progress(id, 1)'
<1> DEFINE f == File(id)
           s == SuperSteps(f)
           n == Len(f.interfaces)
           m == Len(f.fields)
<1>1. n \in Nat /\ m \in Nat
  BY FileIs
<1>2. s \in 0 .. 1 /\ s = IF f.super = None THEN 0 ELSE 1
  BY DEF SuperSteps
<1> HIDE DEF f, s, n, m
<1>3. Upto(1 - 1 - s, 0, n) = 0 /\ Upto(1 - 1 - s - n, 0, m) = 0
  <2>1. \A k \in Int, l \in Nat : k <= 0 => Upto(k, 0, l) = 0
    BY DEF Upto
  <2>2. 1 - 1 - s \in Int /\ 1 - 1 - s <= 0 /\ 1 - 1 - s - n \in Int /\ 1 - 1 - s - n <= 0
    BY <1>1, <1>2
  <2> QED BY <1>1, <2>1, <2>2
<1>4. FirstNames(f, 0) = {} /\ MethodsBefore(LinkSteps(id), 1) = {}
  BY DEF FirstNames, MethodsBefore
<1>5. IsFiniteSet({}) /\ Cardinality({}) = 0 /\ Len(<<>>) = 0 /\ {d[2] : d \in {}} = {}
  BY FS_EmptySet
<1>6. File(id)' = f /\ LinkSteps(id)' = LinkSteps(id)
  BY ProgramStays DEF f
<1> QED BY <1>2, <1>3, <1>4, <1>5, <1>6 DEF Progress, Come, n, m, s
\* What a call has asked for, if it has asked for a class.
Expects(s, id) ==
  s # <<>> =>
    IF s[1].kind = "java"
      THEN s[1].at # 1 /\ id[2] = s[1].id[2]
      ELSE /\ StepOf(s[1]).what \notin Quiet /\ id[2] = StepOf(s[1]).name
           /\ StepOf(s[1]).what = "object" => id = TheClass

\* What is returned to a call that has asked for it.
LEMMA ReturnedAsAsked ==
  ASSUME NEW s, NEW id \in Id, Expects(s, id), program' = program, program \in Programs,
         \/ ret' = id /\ id \in DOMAIN class'
         \/ ret' = Failed /\ (id = TheClass => ~HasClass')
         \/ ret' = None
  PROVE  Returned(s)'
<1>1. /\ Id' = Id /\ \A c : StepOf(c)' = StepOf(c)
  BY ProgramStays
<1>2. None \notin Id /\ Failed \notin Id /\ Failed # None
  BY NamesAre
<1>3. ret' \in Id \cup {None, Failed} /\ (ret' \in Id => ret' = id /\ id \in DOMAIN class')
  BY <1>2
<1>4. ret' = Failed => (id = TheClass => ~HasClass')
  BY <1>2
<1>5. TheClass' = TheClass
  BY DEF TheClass
<1>6. s # <<>> /\ ret' # None =>
        IF s[1].kind = "java"
          THEN s[1].at # 1 /\ (ret' \in Id => ret'[2] = s[1].id[2])
          ELSE /\ StepOf(s[1]).what \notin Quiet
               /\ ret' \in Id => ret'[2] = StepOf(s[1]).name
               /\ StepOf(s[1]).what = "object" =>
                    IF ret' = Failed THEN ~HasClass' ELSE ret' = TheClass
  BY <1>2, <1>3, <1>4 DEF Expects
<1> QED BY <1>1, <1>3, <1>5, <1>6 DEF Returned

\* A class that has just been entered.
LEMMA FreshOK ==
  ASSUME Table, NEW id \in Id, NEW kind \in {"link", "primitive"}, Fits(kind, id),
         NEW c, Fresh(c, kind)
  PROVE  ClassOK(c, id)
<1>1. c.fields \in Seq({}) /\ DOMAIN c.fields = {} /\ DOMAIN c.pool = {}
  BY DEF Fresh
<1>2. /\ kind = "link" => id[2] \in DOMAIN program.files /\ id[2] \notin Array \cup Primitive
      /\ kind = "primitive" => id[2] \in Primitive /\ id[2] \notin Array
  BY NamesAre DEF Fits, IsClass, Table
<1>3. /\ DOMAIN c = Fields /\ c.super = None /\ c.interfaces = {} /\ c.component = None
      /\ c.object = 0 /\ c.object_size \in Nat /\ c.resolved \in BOOLEAN
      /\ kind = "link" => c.kind \in {"class", "interface"}
      /\ kind = "primitive" => c.kind = "primitive" /\ c.resolved = TRUE
  BY DEF Fresh
<1>4. \E T : c.fields \in Seq(T)
  BY <1>1
<1> QED BY <1>1, <1>2, <1>3, <1>4 DEF ClassOK

\* A call that has just been made.
LEMMA CallBegins ==
  ASSUME program \in Programs, program' = program, NEW kind, NEW id \in Id, Fits(kind, id),
         kind \in {"link", "primitive"} => id \in DOMAIN class',
         kind = "link" => class'[id].resolved = FALSE
  PROVE  CallOK(Call(kind, id))'
<1> DEFINE c == Call(kind, id)
<1>1. c.kind = kind /\ c.id = id /\ c.at = 1 /\ c.got = <<>>
  BY DEF Call
<1> SUFFICES CallOK(c)'
  OBVIOUS
<1> HIDE DEF c
<1>1a. /\ Id' = Id /\ Steps(c)' = Steps(c) /\ (Fits(kind, id)' <=> Fits(kind, id))
  BY ProgramStays
<1>2. CASE kind = "link"
  <2>1. Steps(c) = LinkSteps(id) /\ id[2] \in DOMAIN program.files
    BY <1>1, <1>2 DEF Steps, Fits
  <2>2. LinkShape(File(id), id[2], LinkSteps(id))
    BY <2>1, LinkStepsAre
  <2>3. Len(File(id).interfaces) \in Nat /\ Len(File(id).fields) \in Nat
    BY <2>1, FileIs
  <2>4. /\ Len(LinkSteps(id)) >= MembersFrom(File(id)) + 2 /\ Len(LinkSteps(id)) \in Nat
        /\ SuperSteps(File(id)) \in Nat
    BY <2>2, SeqHas DEF LinkShape, SuperSteps
  <2>6. MembersFrom(File(id)) \in Nat
    BY <2>3, <2>4 DEF MembersFrom
  <2>5. 1 <= Len(LinkSteps(id)) /\ 1 # Len(LinkSteps(id))
    <3>1. \A l, m \in Nat : l >= m + 2 => 1 <= l /\ 1 # l
      OBVIOUS
    <3> QED BY <2>4, <2>6, <3>1
  <2> QED BY <1>1, <1>1a, <1>2, <2>1, <2>5 DEF CallOK
<1>3. CASE kind = "array"
  <2>1. Steps(c) = ArraySteps(id)
    BY <1>1, <1>3 DEF Steps
  <2>2. Len(ArraySteps(id)) = Cardinality(OfArrays) + 4 /\ Cardinality(OfArrays) \in Nat
    BY ArrayStepIs, InterfacesOfArrays
  <2>3. 1 <= Len(Steps(c)) /\ 1 # Len(Steps(c))
    BY <2>1, <2>2
  <2>4. Len(<<>>) = 1 - 1 /\ <<>> \in Seq(DOMAIN class')
    OBVIOUS
  <2> QED BY <1>1, <1>1a, <1>3, <2>3, <2>4 DEF CallOK
<1>4. CASE kind = "primitive"
  <2>1. Steps(c) = <<Step("object", Class)>>
    BY <1>1, <1>4 DEF Steps
  <2>2. 1 <= Len(Steps(c))
    BY <2>1
  <2> QED BY <1>1, <1>1a, <1>4, <2>2 DEF CallOK
<1>5. CASE kind = "java"
  BY <1>1, <1>1a, <1>5 DEF CallOK
<1>6. kind \in {"link", "array", "primitive", "java"}
  BY DEF Fits
<1> QED BY <1>2, <1>3, <1>4, <1>5, <1>6

\* The kinds of calls that are under way.
LEMMA Named ==
  ASSUME NEW s, CallsOK(s)
  PROVE  ArraysNamed(s)
BY DEF CallsOK, CallOK, Fits, ArraysNamed
-----------------------------------------------------------------------------
(* A step is about few classes, seldom more than one, and about one call.  *)

\* What holds of calls that are under way and of classes that are not among X.
Rest(s, X) ==
  /\ Table /\ CallsOK(s) /\ Nested(s) /\ X \in SUBSET Id /\ X \cap LinkedBy(s) = {}
  /\ \A i \in 1 .. Len(s) : s[i].kind = "link" => Progress(s[i].id, s[i].at)
  /\ \A id \in DOMAIN class :
       class[id].kind \in {"class", "interface"} /\ id \notin LinkedBy(s) \cup broken \cup X =>
         Finished(id)

\* The step is about X: all that it does to other classes is to give them objects.
About(X) ==
  /\ program' = program
  /\ DOMAIN class \subseteq DOMAIN class' /\ DOMAIN class' \subseteq DOMAIN class \cup X
  /\ \A d \in DOMAIN class : d \notin X => class'[d] \in {class[d], WithObject(class[d])}
  /\ broken \subseteq broken'

\* A class with an object more.
LEMMA ObjectsOnly ==
  ASSUME NEW c, NEW id, ClassOK(c, id)
  PROVE  /\ ClassOK(WithObject(c), id)
         /\ WithObject(c).kind = c.kind /\ WithObject(c).super = c.super
         /\ WithObject(c).interfaces = c.interfaces /\ WithObject(c).fields = c.fields
         /\ WithObject(c).declared = c.declared /\ WithObject(c).resolved = c.resolved
         /\ WithObject(c).object_size = c.object_size /\ WithObject(c).pool = c.pool
         /\ WithObject(c).object = c.object + 1 /\ c.object \in Nat
<1> DEFINE e == WithObject(c)
<1>1. DOMAIN c = Fields /\ "object" \in Fields /\ c.object \in Nat
  BY DEF ClassOK, Fields
<1>2. DOMAIN e = DOMAIN c /\ \A w \in Fields : e[w] = IF w = "object" THEN c.object + 1 ELSE c[w]
  BY <1>1 DEF WithObject
<1>3. {"name", "kind", "super", "interfaces", "component", "acc_super", "declared",
       "object_size", "fields", "pool", "resolved", "static_memory", "object"} \subseteq Fields
  BY DEF Fields
<1> HIDE DEF e, Fields
<1>4. /\ e.kind = c.kind /\ e.super = c.super /\ e.interfaces = c.interfaces
      /\ e.component = c.component /\ e.fields = c.fields /\ e.declared = c.declared
      /\ e.resolved = c.resolved /\ e.object_size = c.object_size /\ e.pool = c.pool
      /\ e.object = c.object + 1 /\ e.object \in Nat
  BY <1>1, <1>2, <1>3
<1>5. ClassOK(e, id)
  BY <1>1, <1>2, <1>4 DEF ClassOK
<1> QED BY <1>1, <1>4, <1>5 DEF e

\* A class that the step is not about.
LEMMA ClassKept ==
  ASSUME Table, NEW X, About(X), NEW id \in DOMAIN class, id \notin X
  PROVE  /\ ClassOK(class'[id], id) /\ class'[id].resolved = class[id].resolved
         /\ class'[id].kind = class[id].kind /\ class'[id].super = class[id].super
         /\ class'[id].interfaces = class[id].interfaces
         /\ class'[id].fields = class[id].fields /\ class'[id].declared = class[id].declared
         /\ class'[id].object_size = class[id].object_size
         /\ class'[id].object >= class[id].object /\ class[id].object \in Nat
         /\ Finished(id) => Finished(id)'
<1>1. class'[id] = class[id] \/ class'[id] = WithObject(class[id])
  BY DEF About
<1>2. ClassOK(class[id], id)
  BY DEF Table
<1>3. class[id].object \in Nat /\ class[id].object >= class[id].object
  BY <1>2 DEF ClassOK
<1>4. class[id].object + 1 >= class[id].object
  BY <1>3
<1>5. /\ ClassOK(class'[id], id) /\ class'[id].resolved = class[id].resolved
      /\ class'[id].kind = class[id].kind /\ class'[id].super = class[id].super
      /\ class'[id].interfaces = class[id].interfaces
      /\ class'[id].fields = class[id].fields /\ class'[id].declared = class[id].declared
      /\ class'[id].object_size = class[id].object_size
      /\ class'[id].object >= class[id].object /\ class[id].object \in Nat
  <2>1. CASE class'[id] = class[id]
    BY <1>2, <1>3, <2>1
  <2>2. CASE class'[id] = WithObject(class[id])
    BY <1>2, <1>3, <1>4, <2>2, ObjectsOnly
  <2> QED BY <1>1, <2>1, <2>2
<1>6. ASSUME Finished(id) PROVE Finished(id)'
  <2>1. Len(LinkSteps(id))' = Len(LinkSteps(id)) /\ program' = program
    BY ProgramStays DEF About
  <2>2. Progress(id, Len(LinkSteps(id)))
    BY <1>6 DEF Finished
  <2> DEFINE n == Len(LinkSteps(id))
  <2>3. \A at : Progress(id, at) => Progress(id, at)'
    BY <1>5, <2>1, ProgressStays
  <2>4. PICK at : at = n
    OBVIOUS
  <2>5. Progress(id, at)' /\ at = n'
    BY <2>1, <2>2, <2>3, <2>4
  <2>6. Progress(id, Len(LinkSteps(id)))'
    BY <2>5
  <2>7. class'[id].resolved
    BY <1>5, <1>6 DEF Finished
  <2> QED BY <2>6, <2>7 DEF Finished
<1> QED BY <1>5, <1>6

\* What waits stays as it is.
LEMMA RestStays ==
  ASSUME NEW s, NEW X, Rest(s, X), About(X),
         \A x \in X \cap DOMAIN class' : ClassOK(class'[x], x),
         early' \subseteq DOMAIN class', broken' \subseteq DOMAIN class'
  PROVE  Rest(s, X)'
<1>1. Table /\ program' = program /\ DOMAIN class \subseteq DOMAIN class'
  BY DEF Rest, About
<1>2. Id' = Id /\ X \in SUBSET Id
  BY <1>1, ProgramStays DEF Rest
<1>3. LinkedBy(s)' = LinkedBy(s) /\ X \cap LinkedBy(s) = {}
  BY DEF LinkedBy, Rest
<1>4. \A id \in DOMAIN class' : ClassOK(class'[id], id)
  <2>1. \A id \in DOMAIN class' : id \in X \/ id \in DOMAIN class
    BY DEF About
  <2> QED BY <1>1, <2>1, ClassKept
<1>5. Table'
  <2>1. \A id \in DOMAIN class' : \A c : ClassOK(c, id) => ClassOK(c, id)'
    BY <1>1, ClassStays
  <2>2. \A id \in DOMAIN class' : ClassOK(class[id], id)'
    BY <1>4, <2>1
  <2>3. DOMAIN class' \subseteq Id'
    BY <1>1, <1>2 DEF Table, About
  <2>4. program' \in Programs
    BY <1>1 DEF Table
  <2> QED BY <2>2, <2>3, <2>4 DEF Table
<1>6. ASSUME NEW i \in 1 .. Len(s)
      PROVE  /\ CallOK(s[i])'
             /\ s[i].kind = "link" => Progress(s[i].id, s[i].at)'
  <2>1. CallOK(s[i])
    BY DEF Rest, CallsOK
  <2>2. s[i].kind = "link" => s[i].id \in DOMAIN class /\ s[i].id \notin X
    BY <1>3, <2>1 DEF CallOK, LinkedBy
  <2>3. s[i].kind = "link" => class'[s[i].id].resolved = class[s[i].id].resolved
    BY <1>1, <2>2, ClassKept
  <2>4. CallOK(s[i])'
    BY <1>1, <2>1, <2>3, CallStays
  <2>5. s[i].kind = "link" => Progress(s[i].id, s[i].at)
    BY DEF Rest
  <2>6. s[i].kind = "link" => Progress(s[i].id, s[i].at)'
    BY <1>1, <2>2, <2>5, ClassKept, ProgressStays
  <2> QED BY <2>4, <2>6
<1>7. CallsOK(s)' /\ Nested(s)'
  <2>1. Nested(s)'
    BY <1>1, ProgramStays DEF Rest
  <2> QED BY <1>6, <2>1 DEF Rest, CallsOK
<1>8. ASSUME NEW id \in DOMAIN class', class'[id].kind \in {"class", "interface"},
             id \notin LinkedBy(s) \cup broken' \cup X
      PROVE  Finished(id)'
  <2>1. id \in DOMAIN class /\ id \notin X /\ id \notin broken
    BY <1>8 DEF About
  <2>2. class'[id].kind = class[id].kind
    BY <1>1, <2>1, ClassKept
  <2>3. Finished(id)
    BY <1>8, <2>1, <2>2 DEF Rest
  <2> QED BY <1>1, <2>1, <2>3, ClassKept
<1> QED BY <1>2, <1>3, <1>5, <1>6, <1>7, <1>8 DEF Rest

\* The invariant in these terms, of the calls that are under way,
LEMMA RestIs ==
  ASSUME NEW s, Good(s)
  PROVE  Rest(s, {})
BY DEF Good, Rest, Progresses

\* of those that will be,
LEMMA GoodAgain ==
  ASSUME NEW s, Rest(s, {})', Instances(s)'
  PROVE  Good(s)'
BY DEF Good, Rest, Progresses

\* and of those that wait for one call.
LEMMA Below ==
  ASSUME NEW T, NEW s \in Seq(T), NEW t, Good(<<t>> \o s)
  PROVE  /\ CallOK(t) /\ t.kind \in {"link", "array", "primitive", "java"}
         /\ t.kind = "link" => Progress(t.id, t.at)
         /\ t.kind # "java" => Rest(s, {t.id})
         /\ t.kind # "link" => Rest(s, {})
<1> DEFINE u == <<t>> \o s
<1>1. /\ LinkedBy(u) = LinkedBy(s) \cup {y \in {t.id} : t.kind = "link"}
      /\ u[1] = t /\ 1 \in 1 .. Len(u) /\ u # <<>> /\ u \in Seq(T \cup {t})
      /\ \A i \in 1 .. Len(s) : i + 1 \in 1 .. Len(u) /\ u[i + 1] = s[i]
  <2>1. IsOneMore(T, s, t, u)
    BY OneMore
  <2> QED BY <2>1 DEF IsOneMore
<1>2. Tail(u) = s
  OBVIOUS
<1> HIDE DEF u
<1>3. Good(u)
  BY DEF u
<1>4. CallOK(t)
  BY <1>1, <1>3 DEF Good, CallsOK
<1>5. t.kind \in {"link", "array", "primitive", "java"}
  BY <1>4 DEF CallOK, Fits
<1>6. t.kind = "link" => Progress(t.id, t.at)
  BY <1>1, <1>3 DEF Good, Progresses
<1>7. CallsOK(s)
  BY <1>1, <1>3 DEF Good, CallsOK
<1>8. Nested(s)
  BY <1>1, <1>2, <1>3, Returns DEF Good
<1>9. \A i \in 1 .. Len(s) : s[i].kind = "link" => Progress(s[i].id, s[i].at)
  BY <1>1, <1>3 DEF Good, Progresses
<1>10. \A id \in DOMAIN class :
         class[id].kind \in {"class", "interface"} /\ id \notin LinkedBy(u) \cup broken =>
           Finished(id)
  BY <1>3 DEF Good, Progresses
<1>11. t.kind # "java" => {t.id} \in SUBSET Id /\ {t.id} \cap LinkedBy(s) = {}
  <2>1. t.id \in Id
    BY <1>4 DEF CallOK
  <2>2. ASSUME t.kind # "java", t.id \in LinkedBy(s) PROVE FALSE
    <3>1. PICK i \in 1 .. Len(s) : s[i].kind = "link" /\ s[i].id = t.id
      BY <2>2 DEF LinkedBy
    <3>2. i + 1 \in 1 .. Len(u) /\ u[i + 1] = s[i] /\ 1 < i + 1
      BY <1>1
    <3>3. t.kind = "link" => FALSE
      BY <1>1, <1>3, <3>1, <3>2 DEF Good, Nested, OnlyArraysAgain
    <3>4. CallOK(s[i])
      BY <1>7 DEF CallsOK
    <3>5. program \in Programs
      BY <1>3 DEF Good, Table
    <3>6. Fits("link", t.id) /\ Fits(t.kind, t.id)
      BY <1>4, <3>1, <3>4 DEF CallOK
    <3> QED BY <1>5, <2>2, <3>3, <3>6 DEF Fits, IsClass
  <2> QED BY <2>1, <2>2
<1>12. Table
  BY <1>3 DEF Good
<1>13. t.kind # "java" => Rest(s, {t.id})
  BY <1>1, <1>7, <1>8, <1>9, <1>10, <1>11, <1>12 DEF Rest
<1>14. t.kind # "link" => Rest(s, {})
  BY <1>1, <1>7, <1>8, <1>9, <1>10, <1>12 DEF Rest
<1> QED BY <1>4, <1>5, <1>6, <1>13, <1>14

\* One call more.
LEMMA OnTop ==
  ASSUME NEW T, NEW s \in Seq(T), NEW y, NEW X \in SUBSET {y.id}, Rest(s, X)', CallOK(y)',
         Nested(<<y>> \o s)', y.kind = "link" => Progress(y.id, y.at)',
         y.kind # "link" =>
           \A x \in X \cap DOMAIN class' : class'[x].kind \notin {"class", "interface"}
  PROVE  Rest(<<y>> \o s, {})'
<1> DEFINE u == <<y>> \o s
<1>1. /\ LinkedBy(u) = LinkedBy(s) \cup {z \in {y.id} : y.kind = "link"}
      /\ \A i \in 1 .. Len(u) : u[i] = y \/ \E j \in 1 .. Len(s) : u[i] = s[j]
      /\ u \in Seq(T \cup {y})
  <2>1. IsOneMore(T, s, y, u)
    BY OneMore
  <2> QED BY <2>1 DEF IsOneMore
<1>2. Nested(u)'
  OBVIOUS
<1> HIDE DEF u
<1>3. CallsOK(u)'
  BY <1>1 DEF Rest, CallsOK
<1>4. \A i \in 1 .. Len(u) : u[i].kind = "link" => Progress(u[i].id, u[i].at)'
  BY <1>1 DEF Rest
<1>5. LinkedBy(u)' = LinkedBy(u) /\ LinkedBy(s)' = LinkedBy(s)
  BY DEF LinkedBy
<1>6. \A id \in DOMAIN class' :
         class'[id].kind \in {"class", "interface"} /\ id \notin LinkedBy(u) \cup broken' =>
           Finished(id)'
  BY <1>1, <1>5 DEF Rest
<1> QED BY <1>2, <1>3, <1>4, <1>5, <1>6 DEF Rest, u

\* loadClass goes on.
LEMMA JavaGoesOn ==
  ASSUME NEW T, NEW s \in Seq(T), NEW t, NEW y, t.kind = "java", y.kind = "java",
         y.id = t.id, y.at \in {2, 3}, y.at = 3 => y.id \in DOMAIN class',
         NEW X, Rest(<<t>> \o s, X)', program' = program
  PROVE  Rest(<<y>> \o s, X)'
<1> DEFINE u == <<t>> \o s
           v == <<y>> \o s
<1>1. /\ LinkedBy(u) = LinkedBy(s) \cup {z \in {t.id} : t.kind = "link"}
      /\ u \in Seq(T \cup {t}) /\ u # <<>> /\ u[1] = t
      /\ Tail(u) = s /\ 1 \in 1 .. Len(u)
      /\ \A i \in 1 .. Len(s) : i + 1 \in 1 .. Len(u) /\ u[i + 1] = s[i]
  <2>1. IsOneMore(T, s, t, u)
    BY OneMore
  <2> QED BY <2>1 DEF IsOneMore
<1>2. /\ LinkedBy(v) = LinkedBy(s) \cup {z \in {y.id} : y.kind = "link"}
      /\ v \in Seq(T \cup {y})
      /\ \A i \in 1 .. Len(v) : v[i] = y \/ \E j \in 1 .. Len(s) : v[i] = s[j]
  <2>1. IsOneMore(T, s, y, v)
    BY OneMore
  <2> QED BY <2>1 DEF IsOneMore
<1> HIDE DEF u
<1>4. Rest(u, X)'
  BY DEF u
<1>5. Nested(u)
  BY <1>4, ProgramStays DEF Rest
<1>6. Nested(v)
  BY <1>1, <1>5, GoesOn
<1> HIDE DEF v
<1>7. Nested(v)'
  BY <1>6, ProgramStays
<1>8. CallOK(t)' /\ \A j \in 1 .. Len(s) : CallOK(s[j])'
  BY <1>1, <1>4 DEF Rest, CallsOK
<1>9. CallOK(y)'
  BY <1>8 DEF CallOK
<1>10. CallsOK(v)'
  BY <1>2, <1>8, <1>9 DEF CallsOK
<1>11. \A j \in 1 .. Len(s) : s[j].kind = "link" => Progress(s[j].id, s[j].at)'
  BY <1>1, <1>4 DEF Rest
<1>12. \A i \in 1 .. Len(v) : v[i].kind = "link" => Progress(v[i].id, v[i].at)'
  BY <1>2, <1>11
<1>13. LinkedBy(v)' = LinkedBy(u)'
  BY <1>1, <1>2 DEF LinkedBy
<1> QED BY <1>4, <1>7, <1>10, <1>12, <1>13 DEF Rest, v

\* A class is loaded, or a call to load it is made: calls are those that wait for
\* it then, before those under way now.
LEMMA LoadKeeps ==
  ASSUME NEW T, NEW before \in Seq(T), Good(before), NEW S, NEW calls \in Seq(S),
         LinkedBy(calls) = LinkedBy(before), CreatedBy(calls) = CreatedBy(before),
         \A X : Rest(before, X)' => Rest(calls, X)',
         program' = program, early' = early, broken' = broken,
         NEW x \in Id, NEW kinds, Loaded(x, calls, kinds), Expects(calls, x),
         \A kind \in kinds :
           Fits(kind, x) /\ x \notin DOMAIN class => MayCall(calls, Call(kind, x))
  PROVE  LinkingInv'
<1>0. Table /\ program \in Programs /\ Rest(before, {}) /\ Instances(before)
  BY RestIs DEF Good, Table
<1>1. /\ \A s : LinkedBy(s)' = LinkedBy(s) /\ CreatedBy(s)' = CreatedBy(s)
      /\ TheClass' = TheClass
  <2>1. \A c : Creates(c)' <=> Creates(c)
    BY ProgramStays DEF Creates
  <2> QED BY <2>1 DEF LinkedBy, CreatedBy, TheClass
<1>2. None \notin Id /\ Id' = Id
  BY <1>0, NamesAre, ProgramStays
<1>3. CASE stack' = calls /\ class' = class
  <2>1. About({})
    BY <1>3 DEF About
  <2>2. early' \subseteq DOMAIN class' /\ broken' \subseteq DOMAIN class'
    BY <1>0, <1>3 DEF Table
  <2>3. Rest(before, {})'
    BY <1>0, <2>1, <2>2, RestStays
  <2>4. Rest(calls, {})'
    BY <2>3
  <2>5. Instances(calls)'
    BY <1>0, <1>1, <1>3 DEF Instances, HasClass
  <2>6. Good(stack)'
    BY <1>3, <2>4, <2>5, GoodAgain
  <2>7. Returned(calls)'
    <3>1. \/ ret' = x /\ x \in DOMAIN class'
          \/ ret' = Failed /\ x \notin DOMAIN class'
          \/ ret' = None
      BY <1>3 DEF Loaded
    <3>2. x = TheClass /\ x \notin DOMAIN class' => ~HasClass'
      BY <1>1 DEF HasClass
    <3> QED BY <1>0, <3>1, <3>2, ReturnedAsAsked
  <2>8. Returned(stack)'
    BY <1>3, <2>7
  <2> QED BY <2>6, <2>8 DEF LinkingInv
<1>4. CASE x \notin DOMAIN class /\ \E kind \in kinds :
             /\ ret' = None /\ stack' = <<Call(kind, x)>> \o calls /\ Fits(kind, x)
             /\ \/ kind \in {"array", "java"} /\ class' = class
                \/ /\ kind \in {"link", "primitive"}
                   /\ \E c : Fresh(c, kind) /\ Register(x, c)
  <2>1. PICK kind \in kinds :
             /\ ret' = None /\ stack' = <<Call(kind, x)>> \o calls /\ Fits(kind, x)
             /\ \/ kind \in {"array", "java"} /\ class' = class
                \/ /\ kind \in {"link", "primitive"}
                   /\ \E c : Fresh(c, kind) /\ Register(x, c)
    BY <1>4
  <2> DEFINE y == Call(kind, x)
             u == <<y>> \o calls
  <2>2. y.kind = kind /\ y.id = x /\ y.at = 1 /\ stack' = u
    BY <2>1 DEF Call
  <2>3. MayCall(calls, y)
    BY <1>4, <2>1
  <2>4. x \notin LinkedBy(before)
    <3>1. \A i \in 1 .. Len(before) : before[i].kind = "link" => before[i].id \in DOMAIN class
      BY DEF Good, CallsOK, CallOK
    <3> QED BY <1>4, <3>1 DEF LinkedBy
  <2> DEFINE X == {z \in {x} : kind \in {"link", "primitive"}}
  <2>5. Rest(before, X)
    BY <1>0, <2>4 DEF Rest
  <2>6. /\ X \in SUBSET {y.id} /\ (kind \in {"link", "primitive"} => X = {x})
        /\ (kind \notin {"link", "primitive"} => X = {})
    BY <2>2
  <2> HIDE DEF y, u, X
  <2>7. /\ DOMAIN class' = DOMAIN class \cup X
        /\ \A d \in DOMAIN class : class'[d] = class[d]
        /\ kind \in {"link", "primitive"} => Fresh(class'[x], kind)
    <3>1. CASE kind \in {"array", "java"} /\ class' = class
      <4>1. kind \notin {"link", "primitive"}
        BY <3>1
      <4> QED BY <2>6, <3>1, <4>1
    <3>2. CASE kind \in {"link", "primitive"} /\ \E c : Fresh(c, kind) /\ Register(x, c)
      BY <1>4, <2>6, <3>2, Registers
    <3> QED BY <2>1, <3>1, <3>2
  <2>8. About(X)
    BY <2>7 DEF About
  <2>9. \A d \in X \cap DOMAIN class' : ClassOK(class'[d], d)
    BY <1>0, <2>1, <2>6, <2>7, FreshOK
  <2>10. early' \subseteq DOMAIN class' /\ broken' \subseteq DOMAIN class'
    BY <1>0, <2>7 DEF Table
  <2>11. Rest(calls, X)'
    BY <2>5, <2>8, <2>9, <2>10, RestStays
  <2>12. CallOK(y)'
    <3>1. kind \in {"link", "primitive"} => x \in DOMAIN class'
      BY <2>6, <2>7
    <3>2. kind = "link" => class'[x].resolved = FALSE
      BY <2>7 DEF Fresh
    <3> QED BY <1>0, <2>1, <3>1, <3>2, CallBegins DEF y
  <2>13. Nested(u)'
    <3>1. Nested(calls) /\ ArraysNamed(calls)
      BY <2>11, ProgramStays DEF Rest, CallsOK, CallOK, Fits, ArraysNamed
    <3>2. y.kind = "array" => y.id[2] \in Array
      BY <2>1, <2>2 DEF Fits
    <3>3. Nested(u)
      BY <2>3, <3>1, <3>2, Calls DEF u
    <3> QED BY <3>3, ProgramStays
  <2>14. y.kind = "link" => Progress(y.id, y.at)'
    <3>1. SUFFICES ASSUME kind = "link" PROVE Progress(x, 1)'
      BY <2>2
    <3>2. x[2] \in DOMAIN program.files
      BY <2>1, <3>1 DEF Fits
    <3> QED BY <1>0, <2>7, <3>1, <3>2, ProgressBegins DEF Fresh
  <2>15. y.kind # "link" =>
           \A d \in X \cap DOMAIN class' : class'[d].kind \notin {"class", "interface"}
    BY <2>2, <2>6, <2>7 DEF Fresh
  <2>16. Rest(u, {})'
    BY <2>6, <2>11, <2>12, <2>13, <2>14, <2>15, OnTop DEF u
  <2>17. Instances(u)'
    <3>1. /\ LinkedBy(u) = LinkedBy(calls) \cup {z \in {y.id} : y.kind = "link"}
          /\ CreatedBy(u) = CreatedBy(calls) \cup {z \in {y.id} : Creates(y)}
      <4>1. IsOneMore(S, calls, y, u)
        BY OneMore DEF u
      <4> QED BY <4>1 DEF IsOneMore
    <3>2. SUFFICES ASSUME HasClass', TheClass \notin LinkedBy(u), NEW id \in DOMAIN class',
                          id \notin broken \cup CreatedBy(u)
                   PROVE  class'[id].object > 0
      BY <1>1 DEF Instances
    <3>3. id \in DOMAIN class
      <4>1. kind \in {"link", "primitive"} => Creates(y)
        BY <2>2 DEF Creates
      <4> QED BY <2>2, <2>6, <2>7, <3>1, <3>2, <4>1
    <3>4. TheClass \in DOMAIN class
      <4>1. TheClass \in X => kind = "primitive"
        BY <2>2, <2>6, <3>1, <3>2
      <4>2. TheClass[2] \notin Primitive
        BY <1>0, NamesAre DEF TheClass
      <4>3. TheClass \notin X
        BY <2>1, <2>6, <4>1, <4>2 DEF Fits
      <4> QED BY <1>1, <2>7, <3>2, <4>3 DEF HasClass
    <3>5. HasClass
      BY <1>1, <2>7, <3>2, <3>4 DEF HasClass
    <3>6. class[id].object > 0
      BY <1>0, <3>1, <3>2, <3>3, <3>5 DEF Instances
    <3> QED BY <2>7, <3>3, <3>6
  <2>18. Good(stack)'
    BY <2>2, <2>16, <2>17, GoodAgain
  <2>19. Returned(stack)'
    BY <1>2, <2>1 DEF Returned
  <2> QED BY <2>18, <2>19 DEF LinkingInv
<1> QED BY <1>3, <1>4 DEF Loaded
-----------------------------------------------------------------------------
(* The actions that load.                                                  *)

\* The calls stay when nothing else changes.
LEMMA GoodStays ==
  ASSUME NEW s, Good(s), UNCHANGED <<program, class, early, broken>>
  PROVE  Good(s)'
<1>1. Rest(s, {}) /\ About({}) /\ Table
  BY RestIs DEF About, Good
<1>2. early' \subseteq DOMAIN class' /\ broken' \subseteq DOMAIN class'
  BY <1>1 DEF Table
<1>3. Rest(s, {})'
  BY <1>1, <1>2, RestStays
<1>4. \A c : Creates(c)' <=> Creates(c)
  BY ProgramStays DEF Creates
<1>5. CreatedBy(s)' = CreatedBy(s)
  BY <1>4 DEF CreatedBy
<1>6. Instances(s)'
  BY <1>5 DEF Good, Instances, HasClass, TheClass, LinkedBy
<1> QED BY <1>3, <1>6, GoodAgain

\* The program asks for a class, or defines it.
LEMMA Requests ==
  ASSUME LinkingInv, NEW n \in Names(program), NEW loader \in Loader \cup {Boot},
         Request(n, loader) \/ DefineClass(n, loader)
  PROVE  LinkingInv'
<1> DEFINE x == <<loader, n>>
           kinds == {"link", "array", "primitive", "java"}
<1>1. program \in Programs /\ x \in Id /\ x[2] = n
  BY DEF LinkingInv, Good, Table, Id
<1>2. /\ stack = <<>> /\ UNCHANGED <<program, early, broken>>
      /\ \/ (n \in Primitive => loader = Boot) /\ Load(n, loader, <<>>)
         \/ Define(x, <<>>) /\ IsClass(n)
  BY DEF Request, DefineClass, OfLoader
<1>3. Loaded(x, <<>>, kinds)
  <2>1. CASE (n \in Primitive => loader = Boot) /\ Load(n, loader, <<>>)
    BY <1>1, <2>1, LoadIs
  <2>2. CASE Define(x, <<>>) /\ IsClass(n)
    <3>1. x \in Id /\ IsClass(x[2])
      BY <1>1, <2>2
    <3> HIDE DEF x
    <3>2. Loaded(x, <<>>, {"link"})
      BY <1>1, <2>2, <3>1, DefineIs
    <3> QED BY <3>2 DEF Loaded
  <2> QED BY <1>2, <2>1, <2>2
<1> HIDE DEF x, kinds
<1>4. Good(<<>>) /\ <<>> \in Seq({}) /\ Len(<<>>) = 0 /\ Expects(<<>>, x)
  BY <1>2 DEF LinkingInv, Expects
<1>6. \A c : MayCall(<<>>, c)
  BY <1>4 DEF MayCall
<1>7. CreatedBy(<<>>) = CreatedBy(<<>>) /\ \A X : Rest(<<>>, X)' => Rest(<<>>, X)'
  OBVIOUS
<1> QED BY <1>1, <1>2, <1>3, <1>4, <1>6, <1>7, LoadKeeps

\* A class, an array or a primitive type asks for the class that its step names.
LEMMA Asks ==
  ASSUME LinkingInv, Ask
  PROVE  LinkingInv'
<1>1. PICK s : s = stack
  OBVIOUS
<1>2. /\ Good(s) /\ program \in Programs /\ s # <<>> /\ CallsOK(s) /\ Nested(s) /\ Table
  BY <1>1 DEF LinkingInv, Good, Table, Ask, Running
<1>3. PICK T : s \in Seq(T)
  BY <1>2 DEF CallsOK
<1>4. PICK t : t = s[1]
  OBVIOUS
<1>5. /\ 1 \in 1 .. Len(s) /\ Head(s) = t /\ Len(s) \in Nat /\ \A j \in 1 .. Len(s) : j = 1 \/ 1 < j
  BY <1>2, <1>3, <1>4
<1>6. CallOK(t) /\ t.kind \in {"link", "array", "primitive"} /\ t.kind # "java"
  BY <1>1, <1>2, <1>4, <1>5 DEF CallsOK, Ask, Running, Top
<1>7. Top = t /\ Now = StepOf(t) /\ Asked = AskedBy(t)
  BY <1>1, <1>5 DEF Top, Now, StepOf, Asked, AskedBy
<1> DEFINE x == <<AskedBy(t), StepOf(t).name>>
<1>8. /\ StepOf(t).what \notin Quiet
      /\ StepOf(t).name \in Names(program) /\ x \in Id /\ x[1] = AskedBy(t) /\ x[2] = StepOf(t).name
      /\ StepOf(t).what = "object" => x = TheClass
      /\ StepOf(t).name \in Primitive => AskedBy(t) = Boot
      /\ StepOf(t).name \in Array =>
           \/ t.kind = "link"
           \/ t.kind = "array" /\ Dimensions[StepOf(t).name] < Dimensions[t.id[2]]
  <2>1. StepOf(t).what \notin Quiet
    BY <1>7 DEF Ask, Quiet
  <2> QED BY <1>2, <1>6, <2>1, StepHas
<1>9. AskedBy(t) = Boot \/ AskedBy(t) = t.id[1]
  BY DEF AskedBy
<1>10. AskedBy(t) \in Loader \cup {Boot}
  BY <1>8 DEF Id
<1>11. UNCHANGED <<program, early, broken>>
  BY DEF Ask
<1>12. Expects(s, x)
  BY <1>4, <1>6, <1>8 DEF Expects
<1>13. CASE InPool(Now.what) /\ Now.name \in DOMAIN class[Top.id].pool
  <2>1. ret' = class[t.id].pool[StepOf(t).name] /\ class' = class /\ stack' = s
    BY <1>1, <1>7, <1>13 DEF Ask
  <2>2. t.kind = "link" /\ StepOf(t).what # "object" /\ StepOf(t).name \in DOMAIN class[t.id].pool
    BY <1>7, <1>13 DEF InPool
  <2>3. t.id \in DOMAIN class
    BY <1>6, <2>2 DEF CallOK
  <2>4. ret' \in DOMAIN class /\ ret'[2] = StepOf(t).name
    BY <1>2, <2>1, <2>2, <2>3 DEF Table, ClassOK
  <2>5. ret' \in Id /\ ret' \in DOMAIN class'
    BY <1>2, <2>1, <2>4 DEF Table
  <2>6. Good(s)'
    BY <1>2, <1>11, <2>1, GoodStays
  <2>7. Id' = Id /\ StepOf(t)' = StepOf(t)
    BY <1>11, ProgramStays
  <2>8. Returned(s)'
    BY <1>4, <1>6, <1>8, <2>2, <2>4, <2>5, <2>7 DEF Returned
  <2> QED BY <2>1, <2>6, <2>8 DEF LinkingInv
<1>14. CASE ~(InPool(Now.what) /\ Now.name \in DOMAIN class[Top.id].pool)
  <2> DEFINE kinds == {"link", "array", "primitive", "java"}
  <2>1. Load(StepOf(t).name, AskedBy(t), s)
    BY <1>1, <1>7, <1>14 DEF Ask
  <2>2. Loaded(x, s, kinds)
    BY <1>2, <1>8, <1>10, <2>1, LoadIs
  <2> HIDE DEF x
  <2>3. ASSUME NEW kind \in kinds, Fits(kind, x), x \notin DOMAIN class
        PROVE  MayCall(s, Call(kind, x))
    <3> DEFINE c == Call(kind, x)
    <3>1. c.kind = kind /\ c.id = x
      BY DEF Call
    <3> HIDE DEF c
    <3>2. Called(t, c)
      BY <1>6, <1>8, <3>1 DEF Called, x
    <3>3. ASSUME NEW j \in 1 .. Len(s), s[j].kind = "java", s[j].at = 2
          PROVE  x[1] = Boot
      <4>1. 1 < j
        BY <1>4, <1>5, <1>6, <3>3
      <4>2. t.id[1] = Boot
        BY <1>2, <1>4, <1>5, <3>3, <4>1 DEF Nested, Delegates
      <4> QED BY <1>8, <1>9, <4>2
    <3>4. kind = "array" => \/ t.kind = "link"
                            \/ t.kind = "array" /\ Dimensions[x[2]] < Dimensions[t.id[2]]
      BY <1>8, <2>3 DEF Fits
    <3>5. ASSUME NEW j \in 1 .. Len(s), kind # "array", s[j].kind = kind, s[j].id = x
          PROVE  FALSE
      <4>1. CallOK(s[j])
        BY <1>2 DEF CallsOK
      <4>2. kind = "java"
        BY <2>3, <3>5, <4>1 DEF CallOK
      <4>3. 1 < j
        BY <1>4, <1>5, <1>6, <3>5, <4>2
      <4>4. j \in 2 .. Len(s)
        BY <1>5, <4>3
      <4>5. s[j].at \in {2, 3}
        BY <1>2, <3>5, <4>2, <4>4 DEF Nested, InOrder, Called
      <4>6. s[j].at = 2
        BY <2>3, <3>5, <4>1, <4>2, <4>5 DEF CallOK
      <4>7. x[1] = Boot
        BY <3>3, <3>5, <4>2, <4>6
      <4> QED BY <2>3, <4>2, <4>7 DEF Fits
    <3>6. MayCall(s, c)
      BY <1>4, <3>1, <3>2, <3>3, <3>4, <3>5 DEF MayCall
    <3> QED BY <3>6 DEF c
  <2> HIDE DEF kinds
  <2>4. \A X : Rest(s, X)' => Rest(s, X)'
    OBVIOUS
  <2> QED BY <1>2, <1>3, <1>8, <1>11, <1>12, <2>2, <2>3, <2>4, LoadKeeps
<1> QED BY <1>13, <1>14

\* A Java loader asks the bootstrap loader, or defines the class itself.
LEMMA JavaLoads ==
  ASSUME LinkingInv, JavaDelegates \/ JavaDefines
  PROVE  LinkingInv'
<1>1. PICK u, t, s : u = stack /\ t = Head(stack) /\ s = Tail(stack)
  OBVIOUS
<1>2. /\ Good(u) /\ program \in Programs /\ stack # <<>> /\ CallsOK(u) /\ Nested(u) /\ Table
      /\ UNCHANGED <<program, early, broken>>
  BY <1>1 DEF LinkingInv, Good, Table, JavaDelegates, JavaDefines, Running
<1>3. PICK T : u \in Seq(T)
  BY <1>2 DEF CallsOK
<1>4. /\ u = <<t>> \o s /\ s \in Seq(T) /\ Len(s) \in Nat
      /\ 1 \in 1 .. Len(u) /\ u[1] = t
      /\ \A i \in 1 .. Len(s) : i + 1 \in 1 .. Len(u) /\ u[i + 1] = s[i] /\ 1 < i + 1
  BY <1>1, <1>2, <1>3
<1>5. Top = t /\ t.kind = "java" /\ CallOK(t)
  BY <1>1, <1>2, <1>4 DEF Top, CallsOK, JavaDelegates, JavaDefines, Running
<1>6. t.id \in Id /\ t.id[1] # Boot /\ IsClass(t.id[2]) /\ t.id[2] \in Names(program)
  BY <1>5 DEF CallOK, Fits, Id
<1>7. /\ \A i \in 1 .. Len(s) : CallOK(s[i])
      /\ \A i \in 1 .. Len(s) : s[i].kind = "java" /\ s[i].at = 2 => FALSE
  <2>1. ASSUME NEW i \in 1 .. Len(s), s[i].kind = "java", s[i].at = 2 PROVE t.id[1] = Boot
    BY <1>2, <1>4, <2>1 DEF Nested, Delegates
  <2> QED BY <1>2, <1>4, <1>6, <2>1 DEF CallsOK
<1>8. ASSUME NEW x \in Id, x[2] = t.id[2], NEW y, y.kind = "java", y.id = t.id, y.at \in {2, 3},
             y.at = 2 => x[1] = Boot, y.at = 3 => x \in DOMAIN class' /\ x = t.id,
             Loaded(x, <<y>> \o s, {"link"})
      PROVE  LinkingInv'
  <2> DEFINE v == <<y>> \o s
  <2>1. /\ LinkedBy(v) = LinkedBy(s) \cup {z \in {y.id} : y.kind = "link"}
        /\ CreatedBy(v) = CreatedBy(s) \cup {z \in {y.id} : Creates(y)}
        /\ \A i \in 1 .. Len(v) : v[i] = y \/ \E j \in 1 .. Len(s) : v[i] = s[j]
        /\ v[1] = y /\ v # <<>> /\ v \in Seq(T \cup {y})
    <3>1. IsOneMore(T, s, y, v)
      BY <1>4, OneMore
    <3> QED BY <3>1 DEF IsOneMore
  <2>2. /\ LinkedBy(u) = LinkedBy(s) \cup {z \in {t.id} : t.kind = "link"}
        /\ CreatedBy(u) = CreatedBy(s) \cup {z \in {t.id} : Creates(t)}
    <3>1. IsOneMore(T, s, t, u)
      BY <1>4, OneMore
    <3> QED BY <3>1 DEF IsOneMore
  <2>3. LinkedBy(v) = LinkedBy(u) /\ CreatedBy(v) = CreatedBy(u)
    BY <1>5, <1>8, <2>1, <2>2 DEF Creates
  <2>4. \A X : Rest(u, X)' => Rest(v, X)'
    BY <1>2, <1>4, <1>5, <1>8, JavaGoesOn
  <2>5. Loaded(x, v, {"link"})
    BY <1>8
  <2> HIDE DEF v
  <2>6. ASSUME NEW kind \in {"link"}, Fits(kind, x), x \notin DOMAIN class
        PROVE  MayCall(v, Call(kind, x))
    <3> DEFINE c == Call("link", x)
    <3>1. c.kind = "link" /\ c.id = x
      BY DEF Call
    <3> HIDE DEF c
    <3>2. Called(y, c)
      BY <1>8, <3>1 DEF Called
    <3>3. \A j \in 1 .. Len(v) : v[j].kind = "java" /\ v[j].at = 2 => x[1] = Boot
      BY <1>7, <1>8, <2>1
    <3>4. \A j \in 1 .. Len(v) : ~(v[j].kind = "link" /\ v[j].id = x)
      <4>1. \A j \in 1 .. Len(s) : ~(s[j].kind = "link" /\ s[j].id = x)
        BY <1>7, <2>6 DEF CallOK
      <4> QED BY <1>8, <2>1, <4>1
    <3>5. MayCall(v, c)
      BY <2>1, <3>1, <3>2, <3>3, <3>4 DEF MayCall
    <3> QED BY <3>5 DEF c
  <2>7. Expects(v, x)
    BY <1>8, <2>1 DEF Expects
  <2> QED BY <1>2, <1>3, <1>8, <2>1, <2>3, <2>4, <2>5, <2>6, <2>7, LoadKeeps
<1>9. CASE JavaDelegates
  <2> DEFINE x == <<Boot, t.id[2]>>
             y == [t EXCEPT !.at = t.at + 1]
             kinds == {"link", "array", "primitive", "java"}
  <2>1. t.at = 1 /\ Load(t.id[2], Boot, <<y>> \o s)
    BY <1>1, <1>5, <1>9 DEF JavaDelegates, Advance
  <2>2. Loaded(x, <<y>> \o s, kinds)
    <3> HIDE DEF y
    <3> QED BY <1>2, <1>6, <2>1, LoadIs
  <2>3. x \in Id /\ x[1] = Boot /\ x[2] = t.id[2]
    BY <1>6 DEF Id
  <2>4. y.kind = "java" /\ y.id = t.id /\ y.at = 2
    BY <1>5, <2>1
  <2> HIDE DEF x, y
  <2>5. Loaded(x, <<y>> \o s, {"link"})
    <3>1. \A kind \in kinds : Fits(kind, x) => kind = "link"
      BY <1>6, <2>3 DEF Fits, IsClass
    <3>2. "link" \in kinds
      OBVIOUS
    <3> HIDE DEF kinds
    <3> QED BY <2>2, <3>1, <3>2 DEF Loaded
  <2> QED BY <1>8, <2>3, <2>4, <2>5
<1>10. CASE JavaDefines
  <2> DEFINE y == [t EXCEPT !.at = 3]
  <2>1. Define(t.id, <<y>> \o s) /\ program.place[t.id[2]] = "own"
    BY <1>1, <1>5, <1>10 DEF JavaDefines
  <2>2. y.kind = "java" /\ y.id = t.id /\ y.at = 3
    <3>1. t.at \in {1, 2}
      BY <1>5, <1>10 DEF JavaDefines
    <3> QED BY <1>5, <3>1
  <2> HIDE DEF y
  <2>3. Loaded(t.id, <<y>> \o s, {"link"})
    BY <1>2, <1>6, <2>1, DefineIs
  <2>4. t.id \in DOMAIN class'
    <3>1. Found(t.id)
      BY <1>6, <2>1 DEF Found
    <3> QED BY <2>1, <3>1 DEF Define, Known, Hit, DefineNew, Register, With
  <2> QED BY <1>6, <1>8, <2>2, <2>3, <2>4
<1> QED BY <1>9, <1>10
-----------------------------------------------------------------------------
(* The steps of linking.                                                   *)

\* The innermost call t, and those that wait for it.
IsOpen(T, t, s) ==
  /\ s \in Seq(T) /\ stack = <<t>> \o s /\ Tail(stack) = s /\ Good(<<t>> \o s)
  /\ Top = t /\ Now = StepOf(t)
  /\ Table /\ program \in Programs /\ CallOK(t) /\ t.kind \in {"link", "array", "primitive", "java"}
  /\ t.kind = "link" => Progress(t.id, t.at)
  /\ t.kind # "java" => Rest(s, {t.id})
  /\ t.kind # "link" => Rest(s, {})
  /\ ret \in Id \cup {None, Failed}
  /\ ret \in Id => ret \in DOMAIN class
  /\ ret # None =>
       IF t.kind = "java"
         THEN t.at # 1 /\ (ret \in Id => ret[2] = t.id[2])
         ELSE /\ StepOf(t).what \notin Quiet
              /\ ret \in Id => ret[2] = StepOf(t).name
              /\ StepOf(t).what = "object" => IF ret = Failed THEN ~HasClass ELSE ret = TheClass

\* They are there when something is under way.
LEMMA Opened ==
  ASSUME LinkingInv, stack # <<>>
  PROVE  \E T, t, s : IsOpen(T, t, s)
<1>1. Good(stack) /\ Returned(stack)
  BY DEF LinkingInv
<1>2. PICK T : stack \in Seq(T)
  BY <1>1 DEF Good, CallsOK
<1>3. /\ stack = <<Head(stack)>> \o Tail(stack) /\ Tail(stack) \in Seq(T)
      /\ stack[1] = Head(stack)
  BY <1>2
<1>4. PICK t, s : t = Head(stack) /\ s = Tail(stack)
  OBVIOUS
<1>5. s \in Seq(T) /\ stack = <<t>> \o s /\ Good(<<t>> \o s) /\ stack[1] = t
  BY <1>1, <1>3, <1>4
<1>6. /\ CallOK(t) /\ t.kind \in {"link", "array", "primitive", "java"}
      /\ t.kind = "link" => Progress(t.id, t.at)
      /\ t.kind # "java" => Rest(s, {t.id})
      /\ t.kind # "link" => Rest(s, {})
  BY <1>5, Below
<1>7. Top = t /\ Now = StepOf(t)
  BY <1>4 DEF Top, Now, StepOf
<1>8. Table /\ program \in Programs
  BY <1>1 DEF Good, Table
<1>9. IsOpen(T, t, s)
  BY <1>1, <1>4, <1>5, <1>6, <1>7, <1>8 DEF IsOpen, Returned
<1> QED BY <1>9

\* The class that is linked gets further, and with it the call.
LEMMA LinkGoesOn ==
  ASSUME NEW T, NEW t, NEW s, IsOpen(T, t, s), t.kind = "link", t.at # Len(Steps(t)),
         program' = program, broken' = broken, early' \subseteq DOMAIN class, ret' = None,
         NEW y, y.kind = "link", y.id = t.id, y.at = t.at + 1, stack' = <<y>> \o s,
         DOMAIN class' = DOMAIN class, \A d \in DOMAIN class : d # t.id => class'[d] = class[d],
         ClassOK(class'[t.id], t.id), class'[t.id].resolved <=> t.at + 1 = Len(Steps(t)),
         Progress(t.id, t.at + 1)'
  PROVE  LinkingInv'
<1>1. /\ s \in Seq(T) /\ Good(<<t>> \o s) /\ Table /\ program \in Programs /\ CallOK(t)
      /\ Rest(s, {t.id})
  BY DEF IsOpen
<1>2. About({t.id})
  BY DEF About
<1>3. early' \subseteq DOMAIN class' /\ broken' \subseteq DOMAIN class'
  BY <1>1 DEF Table
<1>4. Rest(s, {t.id})'
  <2>1. \A d \in {t.id} \cap DOMAIN class' : ClassOK(class'[d], d)
    OBVIOUS
  <2>2. PICK X : X = {t.id}
    OBVIOUS
  <2>3. Rest(s, X)'
    BY <1>1, <1>2, <1>3, <2>1, <2>2, RestStays
  <2> QED BY <2>2, <2>3
<1>5. t.id \in DOMAIN class /\ t.at \in 1 .. Len(Steps(t)) /\ Len(Steps(t)) \in Nat
  BY <1>1, StepIs DEF CallOK
<1>6. t.at + 1 \in Nat \ {0} /\ t.at + 1 <= Len(Steps(t))
  BY <1>5
<1>7. Steps(y) = Steps(t)
  <2>1. Steps(y) = LinkSteps(y.id) /\ Steps(t) = LinkSteps(t.id)
    BY DEF Steps
  <2> QED BY <2>1
<1>8. /\ Steps(y)' = Steps(y) /\ Id' = Id
      /\ Fits(y.kind, y.id)' <=> Fits(y.kind, y.id)
  BY ProgramStays
<1>9. CallOK(y)'
  <2>1. (y.id \in Id /\ y.at \in Nat \ {0} /\ Fits(y.kind, y.id))'
    BY <1>1, <1>6, <1>8 DEF CallOK
  <2>2. y.at <= Len(Steps(y))'
    BY <1>6, <1>7, <1>8
  <2>3. class'[y.id].resolved <=> y.at = Len(Steps(y))'
    BY <1>7, <1>8
  <2> QED BY <1>5, <2>1, <2>2, <2>3 DEF CallOK
<1> DEFINE u == <<t>> \o s
           v == <<y>> \o s
<1>10. /\ LinkedBy(u) = LinkedBy(s) \cup {z \in {t.id} : t.kind = "link"}
       /\ CreatedBy(u) = CreatedBy(s) \cup {z \in {t.id} : Creates(t)}
       /\ u # <<>> /\ u[1] = t /\ Tail(u) = s /\ u \in Seq(T \cup {t})
  <2>1. IsOneMore(T, s, t, u)
    BY <1>1, OneMore
  <2> QED BY <2>1 DEF IsOneMore
<1>11. /\ LinkedBy(v) = LinkedBy(s) \cup {z \in {y.id} : y.kind = "link"}
       /\ CreatedBy(v) = CreatedBy(s) \cup {z \in {y.id} : Creates(y)}
  <2>1. IsOneMore(T, s, y, v)
    BY <1>1, OneMore
  <2> QED BY <2>1 DEF IsOneMore
<1> HIDE DEF u
<1>12. Nested(v)
  BY <1>1, <1>10, GoesOn DEF u, Good
<1>13. Nested(v)' /\ stack' = v
  <2> HIDE DEF v
  <2>1. Nested(v)'
    BY <1>12, ProgramStays
  <2> QED BY <2>1 DEF v
<1>14. Rest(v, {})'
  BY <1>1, <1>4, <1>9, <1>13, OnTop
<1>15. /\ LinkedBy(v) = LinkedBy(u) /\ CreatedBy(v) = CreatedBy(u) /\ t.id \in LinkedBy(u)
  BY <1>10, <1>11 DEF Creates
<1> HIDE DEF v
<1>16. LinkedBy(v)' = LinkedBy(v) /\ CreatedBy(v)' = CreatedBy(v) /\ TheClass' = TheClass
  <2>1. \A c : Creates(c)' <=> Creates(c)
    BY ProgramStays DEF Creates
  <2> QED BY <2>1 DEF LinkedBy, CreatedBy, TheClass
<1>17. Instances(v)'
  <2>1. SUFFICES ASSUME HasClass', TheClass \notin LinkedBy(u), NEW id \in DOMAIN class',
                        id \notin broken \cup CreatedBy(u)
                 PROVE  class'[id].object > 0
    BY <1>15, <1>16 DEF Instances
  <2>2. TheClass # t.id /\ id # t.id
    BY <1>10, <1>15, <2>1 DEF Creates
  <2>3. HasClass
    BY <1>16, <2>1, <2>2 DEF HasClass
  <2>4. Instances(u)
    BY <1>1 DEF Good, u
  <2> QED BY <2>1, <2>2, <2>3, <2>4 DEF Instances
<1>18. Good(stack)'
  BY <1>13, <1>14, <1>17, GoodAgain
<1>19. Returned(stack)'
  BY <1>1, <1>8, NamesAre DEF Returned
<1> QED BY <1>18, <1>19 DEF LinkingInv

\* How many interfaces and fields a class has after a step, of n and m.
CountsAre(n, m, s, at) ==
  /\ at - s \in 1 .. n =>
       /\ Upto(at - 1 - s, 0, n) = at - s - 1 /\ Upto((at + 1) - 1 - s, 0, n) = at - s
       /\ Upto((at + 1) - 1 - s - n, 0, m) = Upto(at - 1 - s - n, 0, m)
  /\ at - s - n \in 1 .. m =>
       /\ Upto((at + 1) - 1 - s, 0, n) = Upto(at - 1 - s, 0, n)
       /\ Upto((at + 1) - 1 - s - n, 0, m) = Upto(at - 1 - s - n, 0, m) + 1
  /\ (s = 1 /\ at = 1) \/ at > s + n + m =>
       /\ Upto((at + 1) - 1 - s, 0, n) = Upto(at - 1 - s, 0, n)
       /\ Upto((at + 1) - 1 - s - n, 0, m) = Upto(at - 1 - s - n, 0, m)

\* So it is.
LEMMA Counts ==
  ASSUME NEW n \in Nat, NEW m \in Nat, NEW s \in 0 .. 1, NEW at \in Nat \ {0}
  PROVE  CountsAre(n, m, s, at)
BY DEF CountsAre, Upto

\* The methods that are resolved after a step.
LEMMA OneMethodMore ==
  ASSUME NEW L, NEW at \in Nat \ {0}
  PROVE  MethodsBefore(L, at + 1)
           = MethodsBefore(L, at) \cup (IF L[at].what = "method" THEN {L[at].name} ELSE {})
<1>1. \A k : k \in 1 .. (at + 1) - 1 <=> k \in 1 .. at - 1 \/ k = at
  OBVIOUS
<1>2. \A n, x : x \in MethodsBefore(L, n) <=>
                  \E k \in 1 .. n - 1 : L[k].what = "method" /\ x = L[k].name
  BY DEF MethodsBefore
<1>3. \A x : x \in MethodsBefore(L, at + 1) <=>
               x \in MethodsBefore(L, at) \/ (L[at].what = "method" /\ x = L[at].name)
  BY <1>1, <1>2
<1> QED BY <1>3

\* What a step of linking makes of the class c, with the class r that it has got.
OneFurther(step, c, e, r) ==
  /\ IF step.what = "super" THEN e.super # None ELSE e.super = c.super
  /\ IF step.what = "interface"
       THEN e.interfaces = c.interfaces \cup {r} /\ r[2] = step.name
       ELSE e.interfaces = c.interfaces
  /\ Len(e.fields) = Len(c.fields) + (IF step.what = "field" THEN 1 ELSE 0)
  /\ e.declared = c.declared \cup (IF step.what = "method" THEN {step.name} ELSE {})

\* How far a class has come after a step.
LEMMA Further ==
  ASSUME program \in Programs, program' = program, NEW t, CallOK(t), t.kind = "link",
         t.at # Len(Steps(t)), Progress(t.id, t.at),
         NEW c, c = class[t.id], NEW e, e = class'[t.id], NEW r, OneFurther(StepOf(t), c, e, r)
  PROVE  Progress(t.id, t.at + 1)'
<1> USE DEF OneFurther
<1> DEFINE id == t.id
           f == File(id)
           n == Len(f.interfaces)
           m == Len(f.fields)
           s == SuperSteps(f)
           L == LinkSteps(id)
           w == StepOf(t).what
<1>1. /\ t.at \in 1 .. Len(L) /\ Len(L) \in Nat /\ id[2] \in DOMAIN program.files
      /\ LinkStep(f, id[2], t.at, Len(L), StepOf(t)) /\ Steps(t) = L
  BY StepIs
<1>2. /\ n \in Nat /\ m \in Nat /\ DOMAIN f.interfaces = 1 .. n
      /\ \A j, k \in 1 .. n : f.interfaces[j] = f.interfaces[k] => j = k
  <2>1. /\ f.interfaces \in Seq(Names(program))
        /\ \A j, k \in 1 .. n : f.interfaces[j] = f.interfaces[k] => j = k
        /\ f.fields \in Seq([type : Names(program), static : BOOLEAN])
    BY <1>1, FileIs
  <2> HIDE DEF f
  <2> QED BY <2>1, SeqHas
<1>3. s \in 0 .. 1 /\ s = (IF f.super = None THEN 0 ELSE 1)
  BY DEF SuperSteps
<1>4. StepOf(t) = L[t.at]
  BY <1>1 DEF StepOf
<1>5. /\ w = "super" => t.at = 1 /\ s = 1
      /\ w = "interface" => t.at - s \in 1 .. n /\ StepOf(t).name = f.interfaces[t.at - s]
      /\ w = "field" => t.at - s - n \in 1 .. m
      /\ w \notin {"super", "interface", "field"} => t.at > s + n + m
      /\ t.at = 1 => (s = 1 => w = "super")
  <2>1. LinkShape(f, id[2], L)
    BY <1>1, LinkStepsAre
  <2>2. f.super # None => L[1].what = "super"
    BY <2>1 DEF LinkShape, Step
  <2>3. Len(L) >= MembersFrom(f) + 2 /\ MembersFrom(f) = s + n + m
    BY <2>1 DEF LinkShape, MembersFrom
  <2>4. /\ w \in Whats
        /\ w = "super" => t.at = 1 /\ f.super # None
        /\ w = "interface" => t.at - s \in 1 .. n /\ StepOf(t).name = f.interfaces[t.at - s]
        /\ w = "field" => t.at - s - n \in 1 .. m
        /\ w \in OfMethods => t.at \in MembersFrom(f) + 1 .. Len(L) - 2
        /\ w = "resolved" <=> t.at = Len(L) - 1
        /\ w \in {"sweep", "object"} <=> t.at = Len(L)
    BY <1>1 DEF LinkStep
  <2>5. w \notin {"super", "interface", "field"} => w \in OfMethods \/ w = "resolved"
    <3>1. w \in Whats /\ w \notin {"sweep", "object"}
      BY <1>1, <2>4
    <3> HIDE DEF w
    <3> QED BY <3>1 DEF Whats, OfMethods
  <2> HIDE DEF f, L, n, m, s, w
  <2>6. w \in OfMethods \/ w = "resolved" => t.at > s + n + m
    BY <1>1, <1>2, <1>3, <2>3, <2>4
  <2> QED BY <1>3, <1>4, <2>2, <2>4, <2>5, <2>6 DEF w
<1> DEFINE i == Upto(t.at - 1 - s, 0, n)
           j == Upto((t.at + 1) - 1 - s, 0, n)
<1>6. /\ w = "interface" => i = t.at - s - 1 /\ j = t.at - s
      /\ w # "interface" => j = i
      /\ Upto((t.at + 1) - 1 - s - n, 0, m)
           = Upto(t.at - 1 - s - n, 0, m) + (IF w = "field" THEN 1 ELSE 0)
  <2>1. t.at \in Nat \ {0}
    BY <1>1
  <2>2. Upto(t.at - 1 - s - n, 0, m) + 0 = Upto(t.at - 1 - s - n, 0, m)
    <3>1. Upto(t.at - 1 - s - n, 0, m) \in Nat
      BY <1>2, <1>3, <2>1 DEF Upto
    <3> QED BY <3>1
  <2>3. w = "interface" \/ w = "field" \/ (s = 1 /\ t.at = 1) \/ t.at > s + n + m
    BY <1>5
  <2>4. /\ t.at - s \in 1 .. n =>
             /\ i = t.at - s - 1 /\ j = t.at - s
             /\ Upto((t.at + 1) - 1 - s - n, 0, m) = Upto(t.at - 1 - s - n, 0, m)
        /\ t.at - s - n \in 1 .. m =>
             /\ j = i
             /\ Upto((t.at + 1) - 1 - s - n, 0, m) = Upto(t.at - 1 - s - n, 0, m) + 1
        /\ (s = 1 /\ t.at = 1) \/ t.at > s + n + m =>
             /\ j = i
             /\ Upto((t.at + 1) - 1 - s - n, 0, m) = Upto(t.at - 1 - s - n, 0, m)
    <3> HIDE DEF n, m, s, w, f
    <3>1. CountsAre(n, m, s, t.at)
      BY <1>2, <1>3, <2>1, Counts
    <3> QED BY <3>1 DEF CountsAre
  <2>5. w = "interface" => w # "field"
    OBVIOUS
  <2> HIDE DEF w, i, j, n, m, s, f
  <2>6. CASE w = "interface"
    BY <1>5, <2>2, <2>4, <2>5, <2>6
  <2>7. CASE w = "field"
    BY <1>5, <2>4, <2>5, <2>7
  <2>8. CASE w # "interface" /\ w # "field"
    <3>1. j = i /\ Upto((t.at + 1) - 1 - s - n, 0, m) = Upto(t.at - 1 - s - n, 0, m)
      BY <2>3, <2>4, <2>8
    <3> QED BY <2>2, <2>8, <3>1
  <2> QED BY <2>6, <2>7, <2>8
<1>7. /\ c.super = None <=> (s = 0 \/ t.at = 1)
      /\ IsFiniteSet(c.interfaces) /\ Cardinality(c.interfaces) = i
      /\ {d[2] : d \in c.interfaces} = FirstNames(f, i)
      /\ Len(c.fields) = Upto(t.at - 1 - s - n, 0, m)
      /\ c.declared = MethodsBefore(L, t.at)
  <2>1. Progress(id, t.at) /\ c = class[id]
    OBVIOUS
  <2> QED BY <2>1, Zenon DEF Progress, Come, f, i, L, n, m, s
<1>8. e.super = None <=> (s = 0 \/ t.at + 1 = 1)
  BY <1>1, <1>3, <1>5, <1>7
<1>9. /\ IsFiniteSet(e.interfaces) /\ Cardinality(e.interfaces) = j
      /\ {d[2] : d \in e.interfaces} = FirstNames(f, j)
  <2>1. CASE w # "interface"
    BY <1>6, <1>7, <2>1
  <2>2. CASE w = "interface"
    <3>1. /\ e.interfaces = c.interfaces \cup {r} /\ r[2] = f.interfaces[i + 1]
          /\ j = i + 1 /\ i \in Nat /\ i + 1 \in 1 .. n
      <4>1. t.at - s - 1 + 1 = t.at - s /\ t.at - s - 1 \in Nat
        BY <1>1, <1>3, <1>5, <2>2
      <4> QED BY <1>5, <1>6, <2>2, <4>1
    <3> HIDE DEF f, i, j, n
    <3>2. r[2] \notin FirstNames(f, i)
      <4>1. \A k \in 1 .. i : k \in 1 .. n /\ k # i + 1
        BY <1>2, <3>1
      <4> QED BY <1>2, <3>1, <4>1 DEF FirstNames
    <3>3. r \notin c.interfaces
      BY <1>7, <3>2
    <3>4. IsFiniteSet(e.interfaces) /\ Cardinality(e.interfaces) = i + 1
      <4> DEFINE S == c.interfaces
      <4>1. IsFiniteSet(S) /\ Cardinality(S) = i /\ r \notin S /\ e.interfaces = S \cup {r}
        BY <1>7, <3>1, <3>3
      <4> HIDE DEF S
      <4> QED BY <4>1, FS_AddElement
    <3>5. FirstNames(f, i + 1) = FirstNames(f, i) \cup {f.interfaces[i + 1]}
      <4>1. \A k : k \in 1 .. i + 1 <=> k \in 1 .. i \/ k = i + 1
        BY <3>1
      <4> QED BY <4>1 DEF FirstNames
    <3>6. {d[2] : d \in e.interfaces} = {d[2] : d \in c.interfaces} \cup {r[2]}
      BY <3>1
    <3> QED BY <1>7, <3>1, <3>4, <3>5, <3>6
  <2> QED BY <2>1, <2>2
<1>10. Len(e.fields) = Upto((t.at + 1) - 1 - s - n, 0, m)
  BY <1>6, <1>7
<1>11. e.declared = MethodsBefore(L, t.at + 1)
  <2>2. L[t.at].what = w /\ L[t.at].name = StepOf(t).name
    BY <1>4
  <2> HIDE DEF L
  <2>3. MethodsBefore(L, t.at + 1)
          = MethodsBefore(L, t.at) \cup (IF w = "method" THEN {StepOf(t).name} ELSE {})
    BY <1>1, <2>2, OneMethodMore
  <2>4. e.declared = c.declared \cup (IF w = "method" THEN {StepOf(t).name} ELSE {})
    OBVIOUS
  <2> HIDE DEF w
  <2> QED BY <1>7, <2>3, <2>4
<1>12. File(id)' = f /\ LinkSteps(id)' = L /\ class'[id] = e
  BY ProgramStays
<1> HIDE DEF f, L, s
<1>13. Come(f, L, e, t.at + 1)
  BY <1>8, <1>9, <1>10, <1>11 DEF Come, j, n, m, s
<1> QED BY <1>12, <1>13 DEF Progress

\* A class remembers what its constant pool names.
LEMMA PooledOK ==
  ASSUME NEW c, NEW id, ClassOK(c, id), ret \in DOMAIN class, ret[2] = Now.name
  PROVE  /\ ClassOK(Pooled(c), id)
         /\ Pooled(c).super = c.super /\ Pooled(c).interfaces = c.interfaces
         /\ Pooled(c).fields = c.fields /\ Pooled(c).declared = c.declared
         /\ Pooled(c).resolved = c.resolved
<1> DEFINE p == With(c.pool, Now.name, ret)
           e == [c EXCEPT !.pool = p]
<1>1. Pooled(c) = e \/ Pooled(c) = c
  BY DEF Pooled
<1>2. \A n \in DOMAIN p : p[n] \in DOMAIN class /\ p[n][2] = n
  BY DEF ClassOK, With
<1>3. DOMAIN c = Fields /\ "pool" \in Fields
  BY DEF ClassOK, Fields
<1> HIDE DEF p
<1>4. DOMAIN e = Fields /\ \A w \in Fields : e[w] = IF w = "pool" THEN p ELSE c[w]
  BY <1>3
<1>5. {"name", "kind", "super", "interfaces", "component", "acc_super", "declared",
       "object_size", "fields", "pool", "resolved", "static_memory", "object"} \subseteq Fields
  BY DEF Fields
<1> HIDE DEF e, Fields
<1>6. /\ e.kind = c.kind /\ e.super = c.super /\ e.interfaces = c.interfaces
      /\ e.component = c.component /\ e.fields = c.fields /\ e.declared = c.declared
      /\ e.resolved = c.resolved /\ e.object_size = c.object_size /\ e.pool = p
      /\ e.object = c.object
  BY <1>4, <1>5
<1>7. ClassOK(e, id)
  BY <1>2, <1>4, <1>6 DEF ClassOK
<1> QED BY <1>1, <1>6, <1>7

\* A step of linking gets what it has asked for.
LEMMA TakeKeeps ==
  ASSUME NEW T, NEW t, NEW s, IsOpen(T, t, s),
         NEW what \in {"super", "interface", "field", "handler", "type"}, NEW c, Take(what, c),
         early' \subseteq DOMAIN class,
         ClassOK(c, t.id), c.resolved = class[t.id].resolved,
         IF what = "super" THEN c.super # None ELSE c.super = class[t.id].super,
         IF what = "interface"
           THEN c.interfaces = class[t.id].interfaces \cup {ret}
           ELSE c.interfaces = class[t.id].interfaces,
         Len(c.fields) = Len(class[t.id].fields) + (IF what = "field" THEN 1 ELSE 0),
         c.declared = class[t.id].declared
  PROVE  LinkingInv'
<1>1. /\ Table /\ program \in Programs /\ CallOK(t) /\ Top = t /\ Now = StepOf(t)
      /\ Tail(stack) = s /\ t.kind = "link" /\ Progress(t.id, t.at)
  BY DEF IsOpen, Take, Running
<1>2. ret \in Id /\ StepOf(t).what = what /\ ret' = None /\ program' = program /\ broken' = broken
  BY <1>1 DEF Take
<1>3. ret \in DOMAIN class /\ ret[2] = StepOf(t).name
  BY <1>1, <1>2, NamesAre DEF IsOpen
<1>4. PICK r, p, y : r = ret /\ p = Pooled(c) /\ y = [t EXCEPT !.at = t.at + 1]
  OBVIOUS
<1>5. y.kind = "link" /\ y.id = t.id /\ y.at = t.at + 1
  BY <1>1, <1>4
<1>6. /\ stack' = <<y>> \o s /\ class' = [class EXCEPT ![t.id] = p]
  BY <1>1, <1>4 DEF Take, Forward, Advance
<1>7. /\ ClassOK(p, t.id) /\ p.super = c.super /\ p.interfaces = c.interfaces
      /\ p.fields = c.fields /\ p.declared = c.declared /\ p.resolved = c.resolved
  BY <1>1, <1>3, <1>4, PooledOK
<1>8. /\ t.at \in 1 .. Len(Steps(t)) /\ Len(Steps(t)) \in Nat
      /\ LinkStep(File(t.id), t.id[2], t.at, Len(Steps(t)), StepOf(t))
  BY <1>1, StepIs
<1>9. t.at # Len(Steps(t)) /\ t.at + 1 # Len(Steps(t))
  <2>1. /\ StepOf(t).what = "resolved" <=> t.at = Len(Steps(t)) - 1
        /\ StepOf(t).what \in {"sweep", "object"} <=> t.at = Len(Steps(t))
    BY <1>8 DEF LinkStep
  <2>2. what \notin {"resolved", "sweep", "object"}
    OBVIOUS
  <2> QED BY <1>2, <1>8, <2>1, <2>2
<1>10. t.id \in DOMAIN class /\ ~class[t.id].resolved
  BY <1>1, <1>9 DEF CallOK
<1>11. /\ DOMAIN class' = DOMAIN class /\ class'[t.id] = p
       /\ \A d \in DOMAIN class : d # t.id => class'[d] = class[d]
  BY <1>6, <1>10
<1>12. Progress(t.id, t.at + 1)'
  <2>1. what # "method"
    OBVIOUS
  <2>2. PICK old : old = class[t.id]
    OBVIOUS
  <2>3. OneFurther(StepOf(t), old, p, r)
    BY <1>2, <1>3, <1>4, <1>7, <2>1, <2>2 DEF OneFurther
  <2>4. p = class'[t.id]
    BY <1>11
  <2> QED BY <1>1, <1>2, <1>9, <2>2, <2>3, <2>4, Further
<1>13. ClassOK(class'[t.id], t.id) /\ (class'[t.id].resolved <=> t.at + 1 = Len(Steps(t)))
  BY <1>7, <1>9, <1>10, <1>11
<1> QED BY <1>1, <1>2, <1>5, <1>6, <1>9, <1>11, <1>12, <1>13, LinkGoesOn

\* A class with another super class, interfaces, fields or size.
LEMMA ChangedOK ==
  ASSUME NEW c, NEW id, ClassOK(c, id), NEW e, DOMAIN e = Fields,
         \A w \in Fields \ {"super", "interfaces", "fields", "object_size"} : e[w] = c[w],
         e.super \in DOMAIN class \cup {None}, e.interfaces \subseteq DOMAIN class,
         \A i \in DOMAIN e.fields : e.fields[i].type \in DOMAIN class,
         \E T : e.fields \in Seq(T), e.object_size \in Nat
  PROVE  ClassOK(e, id) /\ e.resolved = c.resolved /\ e.declared = c.declared
<1>1. {"name", "kind", "component", "acc_super", "declared", "pool", "resolved",
       "static_memory", "object"}
        \subseteq Fields \ {"super", "interfaces", "fields", "object_size"}
  BY DEF Fields
<1>2. /\ e.kind = c.kind /\ e.component = c.component /\ e.declared = c.declared
      /\ e.pool = c.pool /\ e.resolved = c.resolved /\ e.object = c.object
  BY <1>1
<1> QED BY <1>2 DEF ClassOK

\* Linking takes the classes that it has asked for.
LEMMA Takes ==
  ASSUME LinkingInv, TakeSuper \/ TakeInterface \/ TakeField \/ TakeHandler \/ TakeType
  PROVE  LinkingInv'
<1>1. stack # <<>> /\ ret \in Id /\ Top.kind = "link"
  BY DEF TakeSuper, TakeInterface, TakeField, TakeHandler, TakeType, Take, Running
<1>2. PICK T, t, s : IsOpen(T, t, s)
  BY <1>1, Opened
<1>3. PICK c, r : c = class[t.id] /\ r = ret
  OBVIOUS
<1>4. /\ Table /\ program \in Programs /\ CallOK(t) /\ Top = t /\ r \in DOMAIN class
      /\ t.id \in DOMAIN class
  BY <1>1, <1>2, <1>3 DEF IsOpen, CallOK
<1>5. ClassOK(c, t.id) /\ class[r].object_size \in Nat /\ early \subseteq DOMAIN class
  BY <1>3, <1>4 DEF Table, ClassOK
<1>6. /\ DOMAIN c = Fields /\ c.super \in DOMAIN class \cup {None}
      /\ c.interfaces \subseteq DOMAIN class /\ c.object_size \in Nat
      /\ \A i \in DOMAIN c.fields : c.fields[i].type \in DOMAIN class
      /\ \E U : c.fields \in Seq(U)
  BY <1>5 DEF ClassOK
<1>7. r # None
  BY <1>1, <1>3, <1>4, NamesAre
<1>8. {"super", "interfaces", "fields", "object_size", "declared"} \subseteq Fields
  BY DEF Fields
<1>8a. PICK U : c.fields \in Seq(U)
  BY <1>6
<1>8b. Len(c.fields) \in Nat /\ Len(c.fields) + 0 = Len(c.fields)
  BY <1>8a
<1>9. CASE TakeSuper
  <2> DEFINE e == [c EXCEPT !.super = r, !.object_size = @ + class[r].object_size]
  <2>1. Take("super", e) /\ early' \in {early, early \cup {t.id}}
    BY <1>3, <1>4, <1>9 DEF TakeSuper
  <2>2. /\ DOMAIN e = Fields
        /\ \A w \in Fields : e[w] = IF w = "super" THEN r
                                    ELSE IF w = "object_size"
                                      THEN c.object_size + class[r].object_size
                                    ELSE c[w]
    BY <1>6, <1>8
  <2>3. PICK z : z = e
    OBVIOUS
  <2> HIDE DEF e, Fields
  <2>4. /\ \A w \in Fields \ {"super", "interfaces", "fields", "object_size"} : z[w] = c[w]
        /\ z.super = r /\ z.interfaces = c.interfaces /\ z.fields = c.fields
        /\ z.object_size = c.object_size + class[r].object_size
    BY <1>8, <2>2, <2>3
  <2>5. z.object_size \in Nat
    BY <1>5, <1>6, <2>4
  <2>6. ClassOK(z, t.id) /\ z.resolved = c.resolved /\ z.declared = c.declared
    BY <1>4, <1>5, <1>6, <2>2, <2>3, <2>4, <2>5, ChangedOK
  <2>7. early' \subseteq DOMAIN class
    BY <1>4, <1>5, <2>1
  <2> QED BY <1>2, <1>3, <1>7, <1>8b, <2>1, <2>3, <2>4, <2>6, <2>7, TakeKeeps
<1>10. CASE TakeInterface
  <2> DEFINE e == [c EXCEPT !.interfaces = @ \cup {r}]
  <2>1. Take("interface", e) /\ early' = early
    BY <1>3, <1>4, <1>10 DEF TakeInterface
  <2>2. /\ DOMAIN e = Fields
        /\ \A w \in Fields : e[w] = IF w = "interfaces" THEN c.interfaces \cup {r} ELSE c[w]
    BY <1>6, <1>8
  <2>3. PICK z : z = e
    OBVIOUS
  <2> HIDE DEF e, Fields
  <2>4. /\ \A w \in Fields \ {"super", "interfaces", "fields", "object_size"} : z[w] = c[w]
        /\ z.super = c.super /\ z.interfaces = c.interfaces \cup {r} /\ z.fields = c.fields
        /\ z.object_size = c.object_size
    BY <1>8, <2>2, <2>3
  <2>5. z.interfaces \subseteq DOMAIN class
    BY <1>4, <1>6, <2>4
  <2>6. ClassOK(z, t.id) /\ z.resolved = c.resolved /\ z.declared = c.declared
    BY <1>5, <1>6, <2>2, <2>3, <2>4, <2>5, ChangedOK
  <2> QED BY <1>2, <1>3, <1>5, <1>8b, <2>1, <2>3, <2>4, <2>6, TakeKeeps
<1>11. CASE TakeField
  <2>1. PICK b : b = FieldStatic
    OBVIOUS
  <2> DEFINE f == [type |-> r, static |-> b]
             e == [c EXCEPT !.fields = Append(@, f),
                            !.object_size = IF b THEN @ ELSE @ + TypeSize(r[2])]
  <2>2. Take("field", e) /\ early' = early
    BY <1>3, <1>4, <1>11, <2>1 DEF TakeField
  <2>3. /\ DOMAIN e = Fields
        /\ \A w \in Fields :
             e[w] = IF w = "fields" THEN Append(c.fields, f)
                    ELSE IF w = "object_size"
                      THEN IF b THEN c.object_size ELSE c.object_size + TypeSize(r[2])
                    ELSE c[w]
    BY <1>6, <1>8
  <2>4. PICK z : z = e
    OBVIOUS
  <2>5. f.type = r
    OBVIOUS
  <2> HIDE DEF e, Fields, f
  <2>6. /\ \A w \in Fields \ {"super", "interfaces", "fields", "object_size"} : z[w] = c[w]
        /\ z.super = c.super /\ z.interfaces = c.interfaces /\ z.fields = Append(c.fields, f)
        /\ z.object_size = IF b THEN c.object_size ELSE c.object_size + TypeSize(r[2])
    BY <1>8, <2>3, <2>4
  <2>7. z.object_size \in Nat
    BY <1>6, <2>6 DEF TypeSize
  <2>8. /\ z.fields \in Seq(U \cup {f}) /\ Len(z.fields) = Len(c.fields) + 1
        /\ \A i \in DOMAIN z.fields :
             z.fields[i] = f \/ (i \in DOMAIN c.fields /\ z.fields[i] = c.fields[i])
    <3>1. z.fields = Append(c.fields, f) /\ c.fields \in Seq(U)
      BY <1>8a, <2>6
    <3>2. c.fields \in Seq(U \cup {f})
      BY <3>1
    <3> QED BY <3>1, <3>2
  <2>9. \A i \in DOMAIN z.fields : z.fields[i].type \in DOMAIN class
    BY <1>4, <1>6, <2>5, <2>8
  <2>9a. /\ DOMAIN z = Fields /\ \E V : z.fields \in Seq(V)
         /\ z.super \in DOMAIN class \cup {None} /\ z.interfaces \subseteq DOMAIN class
    BY <1>6, <2>3, <2>4, <2>6, <2>8
  <2>10. ClassOK(z, t.id) /\ z.resolved = c.resolved /\ z.declared = c.declared
    BY <1>5, <2>6, <2>7, <2>9, <2>9a, ChangedOK
  <2> QED BY <1>2, <1>3, <1>5, <2>2, <2>4, <2>6, <2>8, <2>10, TakeKeeps
<1>12. CASE TakeHandler \/ TakeType
  <2>1. PICK what \in {"handler", "type"} : Take(what, c) /\ early' = early
    BY <1>3, <1>4, <1>12 DEF TakeHandler, TakeType
  <2>2. what \in {"super", "interface", "field", "handler", "type"}
        /\ what # "super" /\ what # "interface" /\ what # "field"
    BY <2>1
  <2> QED BY <1>2, <1>3, <1>5, <1>8b, <2>1, <2>2, TakeKeeps
<1> QED BY <1>9, <1>10, <1>11, <1>12

\* The end of a method, and of resolve_class.
LEMMA Ends ==
  ASSUME LinkingInv, MethodResolved \/ Resolved
  PROVE  LinkingInv'
<1>1. /\ stack # <<>> /\ Top.kind = "link" /\ Now.what \in {"method", "resolved"}
      /\ MethodResolved <=> Now.what = "method"
      /\ UNCHANGED <<program, ret, early, broken>> /\ Forward
  BY DEF MethodResolved, Resolved, Running
<1>2. PICK T, t, s : IsOpen(T, t, s)
  BY <1>1, Opened
<1>3. PICK c, w, y : c = class[t.id] /\ w = StepOf(t).what /\ y = [t EXCEPT !.at = t.at + 1]
  OBVIOUS
<1>4. /\ Table /\ program \in Programs /\ CallOK(t) /\ Top = t /\ Tail(stack) = s
      /\ Now = StepOf(t) /\ t.kind = "link" /\ Progress(t.id, t.at)
      /\ t.id \in DOMAIN class /\ ret = None /\ w \in {"method", "resolved"}
  BY <1>1, <1>2, <1>3 DEF IsOpen, CallOK, Quiet
<1>5. stack' = <<y>> \o s /\ y.kind = "link" /\ y.id = t.id /\ y.at = t.at + 1
  <2>1. y.kind = "link" /\ y.id = t.id /\ y.at = t.at + 1
    BY <1>3, <1>4
  <2>2. stack' = <<y>> \o s
    BY <1>1, <1>3, <1>4 DEF Forward, Advance
  <2> QED BY <2>1, <2>2
<1>6. /\ t.at \in 1 .. Len(Steps(t)) /\ Len(Steps(t)) \in Nat
      /\ LinkStep(File(t.id), t.id[2], t.at, Len(Steps(t)), StepOf(t))
  BY <1>4, StepIs
<1>7. t.at # Len(Steps(t)) /\ (w = "resolved" <=> t.at + 1 = Len(Steps(t)))
  <2>1. /\ w = "resolved" <=> t.at = Len(Steps(t)) - 1
        /\ w \in {"sweep", "object"} <=> t.at = Len(Steps(t))
    BY <1>3, <1>6 DEF LinkStep
  <2> QED BY <1>4, <1>6, <2>1
<1>8. ClassOK(c, t.id) /\ ~c.resolved
  BY <1>3, <1>4, <1>7 DEF Table, CallOK
<1>9. DOMAIN c = Fields /\ {"declared", "resolved", "static_memory"} \subseteq Fields
  BY <1>8 DEF ClassOK, Fields
<1>10. PICK e : /\ DOMAIN class' = DOMAIN class /\ class'[t.id] = e
                /\ \A d \in DOMAIN class : d # t.id => class'[d] = class[d]
                /\ DOMAIN e = Fields
                /\ \A x \in Fields \ {"declared", "resolved", "static_memory"} : e[x] = c[x]
                /\ e.declared = c.declared \cup (IF w = "method" THEN {StepOf(t).name} ELSE {})
                /\ e.resolved = (w = "resolved")
  <2>1. CASE w = "method"
    <3> DEFINE e == [c EXCEPT !.declared = @ \cup {StepOf(t).name}]
    <3>1. class' = [class EXCEPT ![t.id] = e]
      BY <1>1, <1>3, <1>4, <2>1 DEF MethodResolved
    <3>2. /\ DOMAIN e = Fields
          /\ \A x \in Fields :
               e[x] = IF x = "declared" THEN c.declared \cup {StepOf(t).name} ELSE c[x]
      BY <1>9
    <3> HIDE DEF e, Fields
    <3>3. /\ DOMAIN class' = DOMAIN class /\ class'[t.id] = e
          /\ \A d \in DOMAIN class : d # t.id => class'[d] = class[d]
      BY <1>4, <3>1
    <3>4. e.declared = c.declared \cup {StepOf(t).name} /\ e.resolved = c.resolved
      BY <1>9, <3>2
    <3>5. c.resolved = FALSE
      BY <1>8 DEF ClassOK
    <3> QED BY <2>1, <3>2, <3>3, <3>4, <3>5
  <2>2. CASE w = "resolved"
    <3>1. PICK v : v = StaticSize(c.fields)
      OBVIOUS
    <3> DEFINE e == [c EXCEPT !.resolved = TRUE, !.static_memory = v]
    <3>2. class' = [class EXCEPT ![t.id] = e]
      <4>1. w # "method"
        BY <2>2
      <4>2. Resolved
        BY <1>1, <1>3, <1>4, <4>1
      <4> QED BY <1>3, <1>4, <3>1, <4>2 DEF Resolved
    <3>3. /\ DOMAIN e = Fields
          /\ \A x \in Fields :
               e[x] = IF x = "static_memory" THEN v ELSE IF x = "resolved" THEN TRUE ELSE c[x]
      BY <1>9
    <3> HIDE DEF e, Fields
    <3>4. /\ DOMAIN class' = DOMAIN class /\ class'[t.id] = e
          /\ \A d \in DOMAIN class : d # t.id => class'[d] = class[d]
      BY <1>4, <3>2
    <3>5. e.declared = c.declared /\ e.resolved = TRUE
      BY <1>9, <3>3
    <3>6. c.declared = c.declared \cup {} /\ w # "method"
      BY <2>2
    <3> QED BY <2>2, <3>3, <3>4, <3>5, <3>6
  <2> QED BY <1>4, <2>1, <2>2
<1>11. {"name", "kind", "super", "interfaces", "component", "acc_super", "object_size",
        "fields", "pool", "object"} \subseteq Fields \ {"declared", "resolved", "static_memory"}
  BY DEF Fields
<1>12. /\ e.kind = c.kind /\ e.super = c.super /\ e.interfaces = c.interfaces
       /\ e.component = c.component /\ e.fields = c.fields /\ e.object_size = c.object_size
       /\ e.pool = c.pool /\ e.object = c.object
  BY <1>10, <1>11
<1>13. ClassOK(e, t.id)
  <2>1. c.kind \in {"class", "interface"}
    BY <1>4, <1>8 DEF CallOK, Fits, IsClass, ClassOK
  <2> QED BY <1>8, <1>10, <1>12, <2>1 DEF ClassOK
<1>14. Progress(t.id, t.at + 1)'
  <2>1. /\ w # "super" /\ w # "interface" /\ w # "field"
        /\ Len(e.fields) = Len(c.fields) + 0
    <3>1. PICK U : c.fields \in Seq(U)
      BY <1>8 DEF ClassOK
    <3>2. Len(c.fields) \in Nat
      BY <3>1
    <3> QED BY <1>4, <1>12, <3>2
  <2>2. OneFurther(StepOf(t), c, e, y)
    BY <1>3, <1>10, <1>12, <2>1 DEF OneFurther
  <2>3. e = class'[t.id] /\ program' = program
    BY <1>1, <1>10
  <2> QED BY <1>3, <1>4, <1>7, <2>2, <2>3, Further
<1>15. /\ early' \subseteq DOMAIN class /\ ret' = None /\ program' = program /\ broken' = broken
  BY <1>1, <1>4 DEF Table
<1>16. ClassOK(class'[t.id], t.id) /\ (class'[t.id].resolved <=> t.at + 1 = Len(Steps(t)))
  BY <1>7, <1>10, <1>13
<1>17. /\ DOMAIN class' = DOMAIN class
       /\ \A d \in DOMAIN class : d # t.id => class'[d] = class[d]
  BY <1>10
<1>18. t.kind = "link" /\ t.at # Len(Steps(t))
  BY <1>4, <1>7
<1> QED BY <1>2, <1>5, <1>14, <1>15, <1>16, <1>17, <1>18, LinkGoesOn
-----------------------------------------------------------------------------
(* The steps of loading an array.                                          *)

\* The call gets further; it may enter the array in the table.
LEMMA ArrayGoesOn ==
  ASSUME NEW T, NEW t, NEW s, IsOpen(T, t, s), t.kind = "array", About({t.id}),
         early' = early, broken' = broken, ret' = None,
         NEW y, y.kind = "array", y.id = t.id, y.at = t.at + 1, stack' = <<y>> \o s,
         t.at # Len(Steps(t)), CallOK(y)', class' = class \/ y.at = Len(Steps(y)),
         t.id \in DOMAIN class' => ClassOK(class'[t.id], t.id)
  PROVE  LinkingInv'
<1>1. /\ s \in Seq(T) /\ Good(<<t>> \o s) /\ Table /\ program \in Programs /\ CallOK(t)
      /\ Rest(s, {t.id}) /\ program' = program /\ t.id[2] \in Array
  BY DEF IsOpen, About, CallOK, Fits
<1>2. PICK X : X = {t.id}
  OBVIOUS
<1>3. early' \subseteq DOMAIN class' /\ broken' \subseteq DOMAIN class'
  BY <1>1 DEF Table, About
<1>4. Rest(s, X)'
  <2>1. \A d \in X \cap DOMAIN class' : ClassOK(class'[d], d)
    BY <1>2
  <2> QED BY <1>1, <1>2, <1>3, <2>1, RestStays
<1> DEFINE u == <<t>> \o s
           v == <<y>> \o s
<1>5. /\ LinkedBy(u) = LinkedBy(s) \cup {z \in {t.id} : t.kind = "link"}
      /\ CreatedBy(u) = CreatedBy(s) \cup {z \in {t.id} : Creates(t)}
      /\ u # <<>> /\ u[1] = t /\ Tail(u) = s /\ u \in Seq(T \cup {t})
  <2>1. IsOneMore(T, s, t, u)
    BY <1>1, OneMore
  <2> QED BY <2>1 DEF IsOneMore
<1>6. /\ LinkedBy(v) = LinkedBy(s) \cup {z \in {y.id} : y.kind = "link"}
      /\ CreatedBy(v) = CreatedBy(s) \cup {z \in {y.id} : Creates(y)}
  <2>1. IsOneMore(T, s, y, v)
    BY <1>1, OneMore
  <2> QED BY <2>1 DEF IsOneMore
<1> HIDE DEF u
<1>7. Nested(v)
  BY <1>1, <1>5, GoesOn DEF u, Good
<1>8. Nested(v)' /\ stack' = v
  <2> HIDE DEF v
  <2>1. Nested(v)'
    BY <1>1, <1>7, ProgramStays
  <2> QED BY <2>1 DEF v
<1>9. \A d \in X \cap DOMAIN class' : class'[d].kind \notin {"class", "interface"}
  BY <1>1, <1>2 DEF ClassOK
<1>10. Rest(v, {})'
  <2>1. X \in SUBSET {y.id} /\ y.kind # "link"
    BY <1>2
  <2> QED BY <1>1, <1>4, <1>8, <1>9, <2>1, OnTop
<1>11. LinkedBy(v) = LinkedBy(u) /\ ~Creates(t) /\ (Creates(y) <=> y.at = Len(Steps(y)))
  BY <1>5, <1>6 DEF Creates
<1> HIDE DEF v
<1>12. LinkedBy(v)' = LinkedBy(v) /\ CreatedBy(v)' = CreatedBy(v) /\ TheClass' = TheClass
  <2>1. \A c : Creates(c)' <=> Creates(c)
    BY <1>1, ProgramStays DEF Creates
  <2> QED BY <2>1 DEF LinkedBy, CreatedBy, TheClass
<1>13. Instances(v)'
  <2>1. SUFFICES ASSUME HasClass', TheClass \notin LinkedBy(u), NEW id \in DOMAIN class',
                        id \notin broken \cup CreatedBy(v)
                 PROVE  class'[id].object > 0
    BY <1>11, <1>12 DEF Instances
  <2>2. TheClass # t.id
    BY <1>1, NamesAre DEF TheClass
  <2>3. class' = class \/ id # t.id
    BY <1>6, <1>11, <2>1
  <2>4. id \in DOMAIN class /\ TheClass \in DOMAIN class
    BY <1>12, <2>1, <2>2, <2>3 DEF About, HasClass
  <2>5. id \notin broken \cup CreatedBy(u)
    BY <1>5, <1>6, <1>11, <2>1
  <2>6. HasClass
    <3>1. class'[TheClass].resolved = class[TheClass].resolved
      BY <1>1, <2>2, <2>4, ClassKept
    <3> QED BY <1>12, <2>1, <2>4, <3>1 DEF HasClass
  <2>7. class[id].object > 0
    BY <1>1, <2>1, <2>4, <2>5, <2>6 DEF Good, Instances, u
  <2>8. /\ class'[id].object >= class[id].object
        /\ class[id].object \in Nat /\ class'[id].object \in Nat
    <3>1. CASE class' = class
      BY <1>1, <2>4, <3>1 DEF Table, ClassOK
    <3>2. CASE id # t.id
      <4>1. /\ ClassOK(class'[id], id) /\ class'[id].object >= class[id].object
            /\ class[id].object \in Nat
        BY <1>1, <2>4, <3>2, ClassKept
      <4> QED BY <4>1 DEF ClassOK
    <3> QED BY <2>3, <3>1, <3>2
  <2> QED BY <2>7, <2>8
<1>14. Good(stack)'
  BY <1>8, <1>10, <1>13, GoodAgain
<1>15. Returned(stack)'
  <2>1. None \notin Id /\ Id' = Id
    BY <1>1, NamesAre, ProgramStays
  <2> QED BY <2>1 DEF Returned
<1> QED BY <1>14, <1>15 DEF LinkingInv

\* The array takes what it has asked for, and is entered in the table.
LEMMA Arrays ==
  ASSUME LinkingInv, TakeForArray \/ RegisterArray
  PROVE  LinkingInv'
<1>1. stack # <<>> /\ Top.kind = "array" /\ UNCHANGED <<program, early, broken>>
  BY DEF TakeForArray, RegisterArray, Running
<1>2. PICK T, t, s : IsOpen(T, t, s)
  BY <1>1, Opened
<1>3. PICK last, w : last = Len(Steps(t)) /\ w = StepOf(t).what
  OBVIOUS
<1>4. /\ Table /\ program \in Programs /\ CallOK(t) /\ Top = t /\ Tail(stack) = s
      /\ Now = StepOf(t) /\ t.kind = "array"
  BY <1>1, <1>2 DEF IsOpen
<1>5. /\ t.id \in Id /\ t.id[2] \in Array /\ t.got \in Seq(DOMAIN class)
      /\ t.at < last => Len(t.got) = t.at - 1
  BY <1>3, <1>4 DEF CallOK, Fits
<1>6. /\ t.at \in 1 .. last /\ last = Cardinality(OfArrays) + 4 /\ Cardinality(OfArrays) \in Nat
      /\ w \in {"component", "super", "interface", "register", "object"}
      /\ w = "register" <=> t.at = last - 1
      /\ w = "object" <=> t.at = last
  <2>1. t.at \in 1 .. last /\ ArrayStep(t.id[2], t.at, last, StepOf(t))
    BY <1>3, <1>4, StepIs
  <2>2. last = Cardinality(OfArrays) + 4 /\ Cardinality(OfArrays) \in Nat
    BY <1>3, <1>4, ArrayStepIs, InterfacesOfArrays DEF Steps
  <2> QED BY <1>3, <2>1, <2>2 DEF ArrayStep
<1>7. \A y : y.kind = "array" /\ y.id = t.id => Steps(y) = Steps(t)
  BY <1>4 DEF Steps
<1>8. ASSUME NEW y, y.kind = "array", y.id = t.id, y.at = t.at + 1, t.at < last,
             y.got \in Seq(DOMAIN class'), y.at < last => Len(y.got) = y.at - 1,
             y.at = last => t.id \in DOMAIN class'
      PROVE  CallOK(y)'
  <2>1. /\ Steps(y)' = Steps(y) /\ Id' = Id
        /\ Fits(y.kind, y.id)' <=> Fits(y.kind, y.id)
    BY <1>1, ProgramStays
  <2>2. Len(Steps(y))' = last
    BY <1>3, <1>7, <1>8, <2>1
  <2>3. y.at \in Nat \ {0} /\ y.at <= last /\ (y.at = last \/ y.at < last)
    BY <1>6, <1>8
  <2>4. (y.id \in Id /\ y.at \in Nat \ {0} /\ Fits(y.kind, y.id))'
    BY <1>4, <1>8, <2>1, <2>3 DEF CallOK
  <2> QED BY <1>8, <2>2, <2>3, <2>4 DEF CallOK
<1>9. CASE TakeForArray
  <2>1. ret \in Id /\ w # "object" /\ ret' = None /\ class' = class
    BY <1>3, <1>4, <1>9 DEF TakeForArray
  <2>2. ret \in DOMAIN class /\ w \notin Quiet
    BY <1>2, <1>3, <1>4, <2>1, NamesAre DEF IsOpen
  <2>3. t.at < last /\ t.at + 1 < last
    BY <1>6, <2>1, <2>2 DEF Quiet
  <2>4. PICK y : y = [t EXCEPT !.at = t.at + 1, !.got = Append(t.got, ret)]
    OBVIOUS
  <2>5. stack' = <<y>> \o s
    BY <1>4, <1>9, <2>4 DEF TakeForArray, Advance
  <2>6. y.kind = "array" /\ y.id = t.id /\ y.at = t.at + 1
    BY <1>4, <2>4
  <2>7. y.got = Append(t.got, ret)
    BY <2>4
  <2>8. y.got \in Seq(DOMAIN class) /\ Len(y.got) = t.at
    <3>1. Append(t.got, ret) \in Seq(DOMAIN class)
      BY <1>5, <2>2
    <3>2. Len(t.got) = t.at - 1 /\ t.at \in Nat
      BY <1>5, <1>6, <2>3
    <3>3. Len(Append(t.got, ret)) = Len(t.got) + 1
      BY <1>5
    <3>4. Len(Append(t.got, ret)) = t.at
      BY <3>2, <3>3
    <3> QED BY <2>7, <3>1, <3>4
  <2>9. Len(y.got) = y.at - 1 /\ y.at # last
    BY <1>6, <2>3, <2>6, <2>8
  <2>10. CallOK(y)'
    BY <1>8, <2>1, <2>3, <2>6, <2>8, <2>9
  <2>11. About({t.id})
    BY <1>1, <2>1 DEF About
  <2>12. t.id \in DOMAIN class' => ClassOK(class'[t.id], t.id)
    BY <1>4, <2>1 DEF Table
  <2>13. t.at # Len(Steps(t))
    BY <1>3, <1>6, <2>3
  <2> QED BY <1>1, <1>2, <1>4, <2>1, <2>5, <2>6, <2>10, <2>11, <2>12, <2>13, ArrayGoesOn
<1>10. CASE RegisterArray
  <2>1. w = "register" /\ Forward /\ ret' = ret
    BY <1>3, <1>4, <1>10 DEF RegisterArray
  <2>2. ret = None
    BY <1>2, <1>3, <1>4, <2>1 DEF IsOpen, Quiet
  <2>3. /\ t.at < last /\ t.at + 1 = last /\ Len(t.got) >= 2
        /\ t.at # last /\ ~(t.at + 1 < last)
    BY <1>5, <1>6, <2>1
  <2>3a. PICK I : I = ToSet(SubSeq(t.got, 3, Len(t.got)))
    OBVIOUS
  <2> DEFINE new == NewClass("array", t.id[2])
             c == [new EXCEPT !.component = t.got[1], !.super = t.got[2], !.interfaces = I]
  <2>4. Register(t.id, c)
    BY <1>4, <1>10, <2>3a DEF RegisterArray
  <2>5. t.got[1] \in DOMAIN class /\ t.got[2] \in DOMAIN class /\ I \subseteq DOMAIN class
    <3>1. SubSeq(t.got, 3, Len(t.got)) \in Seq(DOMAIN class)
      BY <1>5, <2>3
    <3>2. I \subseteq DOMAIN class
      BY <2>3a, <3>1 DEF ToSet
    <3> QED BY <1>5, <2>3, <3>2
  <2>6. ClassOK(c, t.id)
    <3>1. /\ DOMAIN c = Fields /\ c.kind = "array" /\ c.super = t.got[2]
          /\ c.component = t.got[1] /\ c.interfaces = I
          /\ c.fields = <<>> /\ c.pool = <<>> /\ c.resolved = TRUE
          /\ c.object = 0 /\ c.object_size = 0
      BY DEF NewClass, Fields
    <3> HIDE DEF c
    <3>2. c.fields \in Seq({}) /\ DOMAIN c.fields = {} /\ DOMAIN c.pool = {}
      BY <3>1
    <3>3. \E U : c.fields \in Seq(U)
      BY <3>2
    <3>4. t.id[2] \notin Primitive
      BY <1>4, <1>5, NamesAre
    <3>5. /\ c.kind \in {"class", "interface", "array", "primitive"}
          /\ (c.kind = "array" <=> t.id[2] \in Array)
          /\ (c.kind = "primitive" <=> t.id[2] \in Primitive)
          /\ c.kind \in {"class", "interface"} => t.id[2] \in DOMAIN program.files
          /\ c.kind \in {"array", "primitive"} => c.resolved
      BY <1>5, <3>1, <3>4
    <3>6. /\ \A i \in DOMAIN c.fields : c.fields[i].type \in DOMAIN class
          /\ \A n \in DOMAIN c.pool : c.pool[n] \in DOMAIN class /\ c.pool[n][2] = n
          /\ c.resolved \in BOOLEAN /\ c.object \in Nat /\ c.object_size \in Nat
      <4>1. c.resolved \in BOOLEAN /\ c.object \in Nat /\ c.object_size \in Nat
        <5>1. c.resolved = TRUE
          BY <3>1
        <5>2. c.object = 0
          BY <3>1
        <5>3. c.object_size = 0
          BY <3>1
        <5>4. c.resolved \in BOOLEAN
          BY <5>1
        <5>5. c.object \in Nat
          BY <5>2
        <5>6. c.object_size \in Nat
          BY <5>3
        <5> QED BY <5>4, <5>5, <5>6
      <4>2. /\ \A i \in DOMAIN c.fields : c.fields[i].type \in DOMAIN class
            /\ \A n \in DOMAIN c.pool : c.pool[n] \in DOMAIN class /\ c.pool[n][2] = n
        BY <3>2
      <4> QED BY <4>1, <4>2
    <3>7. /\ c.super \in DOMAIN class \cup {None} /\ c.interfaces \subseteq DOMAIN class
          /\ c.component \in DOMAIN class \cup {None}
      BY <2>5, <3>1
    <3> QED BY <3>1, <3>3, <3>5, <3>6, <3>7 DEF ClassOK
  <2> HIDE DEF c
  <2>7. /\ DOMAIN class' = DOMAIN class \cup {t.id} /\ class'[t.id] = c
        /\ \A d \in DOMAIN class : d # t.id => class'[d] = class[d]
    BY <2>4, Registers
  <2>8. PICK y : y = [t EXCEPT !.at = t.at + 1]
    OBVIOUS
  <2>9. y.kind = "array" /\ y.id = t.id /\ y.at = t.at + 1
    BY <1>4, <2>8
  <2>10. y.got = t.got
    BY <2>8
  <2>11. stack' = <<y>> \o s
    BY <1>4, <2>1, <2>8 DEF Forward, Advance
  <2>12. y.got \in Seq(DOMAIN class')
    <3>1. DOMAIN class \subseteq DOMAIN class'
      BY <2>7
    <3> QED BY <1>5, <2>10, <3>1, SeqMonotonic
  <2>13. CallOK(y)'
    <3>1. t.id \in DOMAIN class' /\ (y.at < last => Len(y.got) = y.at - 1)
      BY <2>3, <2>7, <2>9
    <3> QED BY <1>8, <2>3, <2>9, <2>12, <3>1
  <2>14. About({t.id})
    BY <1>1, <2>7 DEF About
  <2>15. t.at # Len(Steps(t)) /\ y.at = Len(Steps(y)) /\ ClassOK(class'[t.id], t.id)
    <3>1. y.at = Len(Steps(y))
      BY <1>3, <1>7, <2>3, <2>9
    <3> QED BY <1>3, <2>3, <2>6, <2>7, <3>1
  <2>16. ret' = None /\ early' = early /\ broken' = broken
    BY <1>1, <2>1, <2>2
  <2> QED BY <1>1, <1>2, <1>4, <2>9, <2>11, <2>13, <2>14, <2>15, <2>16, ArrayGoesOn
<1> QED BY <1>9, <1>10
-----------------------------------------------------------------------------
(* The steps that return.                                                  *)

\* What the innermost call is to the one that has made it, and to the instances
\* of java/lang/Class.
LEMMA Caller ==
  ASSUME NEW T, NEW t, NEW s, IsOpen(T, t, s)
  PROVE  /\ Expects(s, t.id)
         /\ t.kind = "java" => (s # <<>> => s[1].kind # "java")
         /\ HasClass /\ TheClass \notin LinkedBy(s) /\ ~(t.kind = "link" /\ t.id = TheClass) =>
              \A id \in DOMAIN class :
                id \notin broken \cup CreatedBy(s) /\ ~(Creates(t) /\ id = t.id) =>
                  class[id].object > 0
<1>1. s \in Seq(T) /\ Good(<<t>> \o s) /\ program \in Programs
  BY DEF IsOpen
<1> DEFINE u == <<t>> \o s
<1>2. /\ LinkedBy(u) = LinkedBy(s) \cup {z \in {t.id} : t.kind = "link"}
      /\ CreatedBy(u) = CreatedBy(s) \cup {z \in {t.id} : Creates(t)}
      /\ u[1] = t /\ \A i \in 1 .. Len(s) : i + 1 \in 1 .. Len(u) /\ u[i + 1] = s[i]
  <2>1. IsOneMore(T, s, t, u)
    BY <1>1, OneMore
  <2> QED BY <2>1 DEF IsOneMore
<1> HIDE DEF u
<1>3. Instances(u) /\ InOrder(u) /\ CallsOK(u)
  BY <1>1 DEF u, Good, Nested
<1>4. s # <<>> => Called(s[1], t) /\ CallOK(s[1])
  <2>1. SUFFICES ASSUME s # <<>> PROVE Called(s[1], t) /\ CallOK(s[1])
    OBVIOUS
  <2>2. 1 \in 1 .. Len(s)
    BY <1>1, <2>1
  <2>3. 1 + 1 \in 1 .. Len(u) /\ u[1 + 1] = s[1]
    BY <1>2, <2>2
  <2>4. 2 \in 2 .. Len(u) /\ u[2] = s[1] /\ u[2 - 1] = t
    <3>1. Len(u) \in Nat
      BY <1>3 DEF CallsOK
    <3> QED BY <1>2, <2>3, <3>1
  <2>5. Called(s[1], t)
    BY <1>3, <2>4 DEF InOrder
  <2>6. CallOK(s[1])
    BY <1>3, <2>3 DEF CallsOK
  <2> QED BY <2>5, <2>6
<1>5. Expects(s, t.id)
  <2>1. SUFFICES ASSUME s # <<>> PROVE Expects(s, t.id)
    BY DEF Expects
  <2>2. CASE s[1].kind = "java"
    BY <1>4, <2>1, <2>2 DEF Called, Expects
  <2>3. CASE s[1].kind # "java"
    <3>1. StepOf(s[1]).what \notin Quiet /\ t.id = <<AskedBy(s[1]), StepOf(s[1]).name>>
      BY <1>4, <2>1, <2>3 DEF Called
    <3>2. StepOf(s[1]).what = "object" => t.id = TheClass
      BY <1>1, <1>4, <2>1, <2>3, <3>1, StepHas
    <3> QED BY <2>1, <2>3, <3>1, <3>2 DEF Expects
  <2> QED BY <2>2, <2>3
<1>6. t.kind = "java" => (s # <<>> => s[1].kind # "java")
  BY <1>4 DEF Called
<1>7. HasClass /\ TheClass \notin LinkedBy(s) /\ ~(t.kind = "link" /\ t.id = TheClass) =>
        \A id \in DOMAIN class :
          id \notin broken \cup CreatedBy(s) /\ ~(Creates(t) /\ id = t.id) => class[id].object > 0
  BY <1>2, <1>3 DEF Instances
<1> QED BY <1>5, <1>6, <1>7

\* A call returns; classes have been given objects at most.
LEMMA Leaves ==
  ASSUME NEW T, NEW t, NEW s, IsOpen(T, t, s), stack' = s, About({}),
         early' \subseteq DOMAIN class', broken' \subseteq DOMAIN class',
         t.kind = "link" => t.id \in broken' \/ Finished(t.id),
         HasClass' /\ TheClass \notin LinkedBy(s) =>
           \A id \in DOMAIN class' : id \notin broken' \cup CreatedBy(s) => class'[id].object > 0,
         Returned(s)'
  PROVE  LinkingInv'
<1>1. /\ Table /\ CallOK(t) /\ (t.kind # "java" => Rest(s, {t.id}))
      /\ (t.kind # "link" => Rest(s, {}))
      /\ program' = program
  BY DEF IsOpen, About
<1>2. Rest(s, {})'
  <2>1. CASE t.kind # "link"
    <3>1. \A d \in {} \cap DOMAIN class' : ClassOK(class'[d], d)
      OBVIOUS
    <3> QED BY <1>1, <2>1, <3>1, RestStays
  <2>2. CASE t.kind = "link"
    <3>1. PICK X : X = {t.id}
      OBVIOUS
    <3>2. t.id \in DOMAIN class
      BY <1>1, <2>2 DEF CallOK
    <3>3. ClassOK(class'[t.id], t.id) /\ (Finished(t.id) => Finished(t.id)')
      <4>1. t.id \notin {}
        OBVIOUS
      <4> QED BY <1>1, <3>2, <4>1, ClassKept
    <3>4. About(X)
      BY DEF About
    <3>5. Rest(s, X)'
      <4>1. \A d \in X \cap DOMAIN class' : ClassOK(class'[d], d)
        BY <3>1, <3>3
      <4>2. Rest(s, X)
        BY <1>1, <2>2, <3>1
      <4> QED BY <3>4, <4>1, <4>2, RestStays
    <3>6. \A id \in DOMAIN class' :
            class'[id].kind \in {"class", "interface"} /\ id \notin LinkedBy(s) \cup broken' =>
              Finished(id)'
      <4>1. SUFFICES ASSUME NEW id \in DOMAIN class', class'[id].kind \in {"class", "interface"},
                            id \notin LinkedBy(s) \cup broken'
                     PROVE  Finished(id)'
        OBVIOUS
      <4>2. CASE id \in X
        BY <2>2, <3>1, <3>3, <4>1, <4>2
      <4>3. CASE id \notin X
        <5>1. LinkedBy(s)' = LinkedBy(s)
          BY DEF LinkedBy
        <5> QED BY <3>5, <4>1, <4>3, <5>1 DEF Rest
      <4> QED BY <4>2, <4>3
    <3>7. LinkedBy(s)' = LinkedBy(s)
      BY DEF LinkedBy
    <3> QED BY <3>5, <3>6, <3>7 DEF Rest
  <2> QED BY <2>1, <2>2
<1>3. LinkedBy(s)' = LinkedBy(s) /\ CreatedBy(s)' = CreatedBy(s) /\ TheClass' = TheClass
  <2>1. \A c : Creates(c)' <=> Creates(c)
    BY <1>1, ProgramStays DEF Creates
  <2> QED BY <2>1 DEF LinkedBy, CreatedBy, TheClass
<1>4. Instances(s)'
  BY <1>3 DEF Instances
<1>5. Good(stack)'
  BY <1>2, <1>4, GoodAgain
<1>6. Returned(stack)'
  OBVIOUS
<1> QED BY <1>5, <1>6 DEF LinkingInv

\* The instance of java/lang/Class is created: the class is linked.
LEMMA Created ==
  ASSUME LinkingInv, CreateObject \/ Sweep
  PROVE  LinkingInv'
<1>1. /\ stack # <<>> /\ Top.kind \in {"link", "array", "primitive"}
      /\ Now.what \in {"object", "sweep"} /\ (CreateObject => Now.what = "object" /\ ret \in Id)
      /\ UNCHANGED <<program, early, broken>> /\ stack' = Tail(stack) /\ ret' = Top.id
  BY DEF CreateObject, Sweep, Running, Return
<1>2. PICK T, t, s : IsOpen(T, t, s)
  BY <1>1, Opened
<1>3. /\ Table /\ program \in Programs /\ CallOK(t) /\ Top = t /\ Tail(stack) = s
      /\ Now = StepOf(t) /\ t.kind # "java" /\ (t.kind = "link" => Progress(t.id, t.at))
      /\ t.id \in Id
  BY <1>1, <1>2 DEF IsOpen, CallOK
<1>4. t.at = Len(Steps(t)) /\ (t.kind = "link" /\ StepOf(t).what = "object" => t.id[2] # Class)
  BY <1>1, <1>3, StepHas
<1>5. t.id \in DOMAIN class
  <2>1. t.kind \in {"link", "array", "primitive"}
    BY <1>1, <1>3
  <2> QED BY <1>3, <1>4, <2>1 DEF CallOK
<1>6. t.kind = "link" => Finished(t.id)
  <2>1. SUFFICES ASSUME t.kind = "link" PROVE Finished(t.id)
    OBVIOUS
  <2>2. Steps(t) = LinkSteps(t.id)
    BY <2>1 DEF Steps
  <2>3. Progress(t.id, Len(LinkSteps(t.id))) /\ class[t.id].resolved
    BY <1>3, <1>4, <2>1, <2>2 DEF CallOK
  <2> QED BY <2>3 DEF Finished
<1>7. \A id \in DOMAIN class : WithObject(class[id]).object > 0
                               /\ WithObject(class[id]).resolved = class[id].resolved
  <2>1. ASSUME NEW id \in DOMAIN class
        PROVE  /\ WithObject(class[id]).object > 0
               /\ WithObject(class[id]).resolved = class[id].resolved
    <3>1. ClassOK(class[id], id)
      BY <1>3 DEF Table
    <3>2. /\ WithObject(class[id]).object = class[id].object + 1 /\ class[id].object \in Nat
          /\ WithObject(class[id]).resolved = class[id].resolved
      BY <3>1, ObjectsOnly
    <3> QED BY <3>2
  <2> QED BY <2>1
<1>8. /\ DOMAIN class' = DOMAIN class
      /\ \A id \in DOMAIN class : class'[id] \in {class[id], WithObject(class[id])}
      /\ HasClass' /\ TheClass \notin LinkedBy(s) =>
           \A id \in DOMAIN class : id \notin broken \cup CreatedBy(s) => class'[id].object > 0
  <2>1. CASE CreateObject
    <3>1. ret = TheClass /\ ret \in DOMAIN class
      <4>1. ret # None /\ StepOf(t).what = "object" /\ ret \in Id /\ ret # Failed
        BY <1>1, <1>3, <2>1, NamesAre
      <4> QED BY <1>2, <1>3, <4>1 DEF IsOpen
    <3>2. /\ DOMAIN class' = DOMAIN class
          /\ \A id \in DOMAIN class :
               class'[id] = IF id = t.id /\ class[TheClass].resolved THEN WithObject(class[id])
                            ELSE class[id]
      BY <1>3, <1>5, <2>1, <3>1 DEF CreateObject
    <3>3. ASSUME HasClass', TheClass \notin LinkedBy(s), NEW id \in DOMAIN class,
                 id \notin broken \cup CreatedBy(s)
          PROVE  class'[id].object > 0
      <4>1. HasClass
        <5>1. TheClass' = TheClass
          BY DEF TheClass
        <5> QED BY <1>7, <3>1, <3>2, <3>3, <5>1 DEF HasClass
      <4>2. CASE id = t.id
        BY <1>7, <3>2, <4>1, <4>2 DEF HasClass
      <4>3. CASE id # t.id
        <5>1. ~(t.kind = "link" /\ t.id = TheClass)
          BY <1>1, <1>3, <1>4, <2>1 DEF TheClass
        <5>2. class[id].object > 0
          BY <1>2, <3>3, <4>1, <4>3, <5>1, Caller
        <5> QED BY <3>2, <4>3, <5>2
      <4> QED BY <4>2, <4>3
    <3> QED BY <3>2, <3>3
  <2>2. CASE Sweep
    BY <1>7, <2>2 DEF Sweep
  <2> QED BY <2>1, <2>2
<1>9. About({})
  BY <1>1, <1>8 DEF About
<1>10. early' \subseteq DOMAIN class' /\ broken' \subseteq DOMAIN class'
  BY <1>1, <1>3, <1>8 DEF Table
<1>11. Returned(s)'
  <2>1. Expects(s, t.id) /\ ret' = t.id /\ t.id \in DOMAIN class' /\ program' = program
    BY <1>1, <1>2, <1>3, <1>5, <1>8, Caller
  <2> QED BY <1>3, <2>1, ReturnedAsAsked
<1>12. HasClass' /\ TheClass \notin LinkedBy(s) =>
         \A id \in DOMAIN class' : id \notin broken' \cup CreatedBy(s) => class'[id].object > 0
  BY <1>1, <1>8
<1> QED BY <1>1, <1>2, <1>3, <1>6, <1>9, <1>10, <1>11, <1>12, Leaves

\* An exception goes through a call.
LEMMA Unwinds ==
  ASSUME LinkingInv, Unwind
  PROVE  LinkingInv'
<1>1. /\ stack # <<>> /\ Top.kind \in {"link", "array", "primitive"} /\ ret = Failed
      /\ UNCHANGED <<program, class, early>> /\ stack' = Tail(stack)
  BY DEF Unwind, Running
<1>2. PICK T, t, s : IsOpen(T, t, s)
  BY <1>1, Opened
<1>3. /\ Table /\ program \in Programs /\ CallOK(t) /\ Top = t /\ Tail(stack) = s
      /\ t.kind \in {"link", "array", "primitive"} /\ t.id \in Id
  BY <1>1, <1>2 DEF IsOpen, CallOK
<1>4. /\ ret' = IF t.kind = "primitive" THEN t.id ELSE Failed
      /\ broken' = IF t.kind = "link" THEN broken \cup {t.id} ELSE broken
  BY <1>3 DEF Unwind
<1>5. StepOf(t).what \notin Quiet /\ (StepOf(t).what = "object" => ~HasClass)
  <2>1. ret # None
    BY <1>1, <1>3, NamesAre
  <2> QED BY <1>1, <1>2, <1>3, <2>1 DEF IsOpen
<1>6. /\ t.kind \in {"link", "primitive"} => t.id \in DOMAIN class
      /\ t.id = TheClass => t.kind = "link"
      /\ t.kind = "primitive" => StepOf(t).what = "object"
      /\ t.kind = "array" /\ Creates(t) => StepOf(t).what = "object"
      /\ t.id = TheClass => ~class[t.id].resolved
  <2>1. t.kind \in {"link", "primitive"} => t.id \in DOMAIN class
    BY <1>3 DEF CallOK
  <2>2. t.id = TheClass => t.kind = "link"
    <3>1. Class \notin Array \cup Primitive
      BY <1>3, NamesAre
    <3> QED BY <1>3, <3>1 DEF CallOK, Fits, TheClass
  <2>3. t.kind = "primitive" => StepOf(t).what = "object"
    BY <1>3, StepIs DEF Step
  <2>4. StepOf(t).what \in {"object", "sweep"} <=> t.at = Len(Steps(t))
    BY <1>3, StepHas
  <2>5. t.kind = "link" /\ StepOf(t).what = "object" => t.id[2] # Class
    BY <1>3, StepHas
  <2>6. t.kind = "array" /\ Creates(t) => StepOf(t).what = "object"
    BY <1>5, <2>4 DEF Creates, Quiet
  <2>7. t.id = TheClass => ~class[t.id].resolved
    <3>1. SUFFICES ASSUME t.id = TheClass PROVE ~class[t.id].resolved
      OBVIOUS
    <3>2. t.kind = "link" /\ t.id[2] = Class
      BY <2>2, <3>1 DEF TheClass
    <3>3. t.at # Len(Steps(t))
      BY <1>5, <2>4, <2>5, <3>2 DEF Quiet
    <3> QED BY <1>3, <3>2, <3>3 DEF CallOK
  <2> QED BY <2>1, <2>2, <2>3, <2>6, <2>7
<1>7. About({})
  BY <1>1, <1>4 DEF About
<1>8. early' \subseteq DOMAIN class' /\ broken' \subseteq DOMAIN class'
  BY <1>1, <1>3, <1>4, <1>6 DEF Table
<1>9. HasClass' <=> HasClass
  BY <1>1 DEF HasClass, TheClass
<1>10. Returned(s)'
  <2>1. Expects(s, t.id)
    BY <1>2, Caller
  <2>2. t.id = TheClass => ~HasClass'
    BY <1>6, <1>9 DEF HasClass
  <2>3. \/ ret' = t.id /\ t.id \in DOMAIN class'
        \/ ret' = Failed
    BY <1>1, <1>4, <1>6
  <2> QED BY <1>1, <1>3, <2>1, <2>2, <2>3, ReturnedAsAsked
<1>11. ASSUME HasClass', TheClass \notin LinkedBy(s), NEW id \in DOMAIN class',
              id \notin broken' \cup CreatedBy(s)
       PROVE  class'[id].object > 0
  <2>1. HasClass /\ id \in DOMAIN class /\ class'[id] = class[id] /\ id \notin broken
    BY <1>1, <1>4, <1>9, <1>11
  <2>2. ~(t.kind = "link" /\ t.id = TheClass)
    BY <1>6, <2>1 DEF HasClass
  <2>3. ~(Creates(t) /\ id = t.id)
    BY <1>3, <1>4, <1>5, <1>6, <1>11, <2>1
  <2>4. class[id].object > 0
    BY <1>2, <1>11, <2>1, <2>2, <2>3, Caller
  <2> QED BY <2>1, <2>4
<1>12. t.kind = "link" => t.id \in broken' \/ Finished(t.id)
  BY <1>4
<1>13. stack' = s
  BY <1>1, <1>3
<1> QED BY <1>2, <1>7, <1>8, <1>10, <1>11, <1>12, <1>13, Leaves

\* loadClass returns, or throws.
LEMMA JavaEnds ==
  ASSUME LinkingInv, JavaReturns \/ JavaFails
  PROVE  LinkingInv'
<1>1. /\ stack # <<>> /\ Top.kind = "java" /\ stack' = Tail(stack)
      /\ UNCHANGED <<program, class, early, broken>>
      /\ (ret \in Id /\ ret' = ret) \/ ret' = Failed
  BY DEF JavaReturns, JavaFails, Running, Return
<1>2. PICK T, t, s : IsOpen(T, t, s)
  BY <1>1, Opened
<1>3. /\ Table /\ program \in Programs /\ CallOK(t) /\ Top = t /\ Tail(stack) = s
      /\ t.kind = "java" /\ t.id \in Id /\ t.id[1] # Boot
  BY <1>1, <1>2 DEF IsOpen, CallOK, Fits
<1>4. t.id # TheClass /\ ~Creates(t)
  BY <1>3 DEF TheClass, Creates
<1>5. Expects(s, t.id) /\ (s # <<>> => s[1].kind # "java")
  BY <1>2, <1>3, Caller
<1>6. About({})
  BY <1>1 DEF About
<1>7. early' \subseteq DOMAIN class' /\ broken' \subseteq DOMAIN class'
  BY <1>1, <1>3 DEF Table
<1>8. HasClass' <=> HasClass
  BY <1>1 DEF HasClass, TheClass
<1>9. Returned(s)'
  <2>1. CASE ret' = Failed
    BY <1>1, <1>3, <1>4, <1>5, <2>1, ReturnedAsAsked
  <2>2. CASE ret \in Id /\ ret' = ret
    <3>1. PICK r : r = ret
      OBVIOUS
    <3>2. r \in DOMAIN class' /\ r[2] = t.id[2] /\ r \in Id /\ ret' = r
      <4>1. ret # None
        BY <1>3, <2>2, NamesAre
      <4> QED BY <1>1, <1>2, <1>3, <2>2, <3>1, <4>1 DEF IsOpen
    <3>3. Expects(s, r)
      BY <1>4, <1>5, <3>2 DEF Expects
    <3> QED BY <1>1, <1>3, <3>2, <3>3, ReturnedAsAsked
  <2> QED BY <1>1, <2>1, <2>2
<1>10. HasClass' /\ TheClass \notin LinkedBy(s) =>
         \A id \in DOMAIN class' : id \notin broken' \cup CreatedBy(s) => class'[id].object > 0
  BY <1>1, <1>2, <1>3, <1>4, <1>8, Caller
<1>11. stack' = s /\ t.kind # "link"
  BY <1>1, <1>3
<1> QED BY <1>2, <1>6, <1>7, <1>9, <1>10, <1>11, Leaves
-----------------------------------------------------------------------------
(* The invariant.                                                          *)

\* Nothing is loaded at first.
LEMMA LinkingInit ==
  ASSUME Init
  PROVE  LinkingInv
<1>1. /\ program \in Programs /\ class = <<>> /\ stack = <<>> /\ ret = None
      /\ early = {} /\ broken = {}
  BY DEF Init
<1>2. DOMAIN class = {} /\ Len(stack) = 0 /\ \A k : k \notin 1 .. 0
  BY <1>1
<1>3. Table
  BY <1>1, <1>2 DEF Table
<1>4. CallsOK(stack)
  <2>1. stack \in Seq({})
    BY <1>1
  <2> QED BY <1>2, <2>1 DEF CallsOK
<1>5. Nested(stack)
  <2>1. \A i : i \notin 2 .. Len(stack)
    BY <1>2
  <2> QED BY <1>2, <2>1 DEF Nested, InOrder, Delegates, Descends, OnlyArraysAgain
<1>6. Progresses(stack) /\ Instances(stack)
  BY <1>2 DEF Progresses, Instances
<1>7. Returned(stack)
  <2>1. None \notin Id
    BY <1>1, NamesAre
  <2> QED BY <1>1, <2>1 DEF Returned
<1> QED BY <1>3, <1>4, <1>5, <1>6, <1>7 DEF LinkingInv, Good

\* Nothing was put in the table past a class that was there or being loaded.
Alone == entered = {}

\* As long as it is so, the steps are those of loading.
LEMMA Loading ==
  ASSUME [Next]_vars, Alone'
  PROVE  Alone /\ [Locked]_loading
<1>1. CASE UNCHANGED vars
  BY <1>1 DEF vars, Alone
<1>2. CASE Next
  <2>1. CASE Locked /\ UNCHANGED <<outside, entered>>
    BY <1>2, <2>1 DEF Next, Alone
  <2>2. CASE EnterOutside \/ \E n, loader : DefineNameless(n, loader)
    BY <2>2 DEF EnterOutside, DefineNameless, Enter, Alone
  <2>3. CASE \E n, loader : LookOutside(n, loader)
    BY <1>2, <2>3 DEF LookOutside, Next, Alone
  <2> QED BY <1>2, <2>1, <2>2, <2>3 DEF Next
<1> QED BY <1>1, <1>2

\* Otherwise one class is put in the table, and no call returns or is made.
LEMMA Entering ==
  ASSUME [Next]_vars, ~Alone'
  PROVE  \/ UNCHANGED vars
         \/ /\ Next /\ Alone /\ program' = program /\ stack' = stack /\ outside' = outside
            /\ \E id, c : Register(id, c) /\ entered' = {id}
<1>1. CASE Next
  <2>1. CASE Locked /\ UNCHANGED <<outside, entered>>
    BY <1>1, <2>1 DEF Next, Alone
  <2>2. CASE EnterOutside \/ \E n, loader : DefineNameless(n, loader)
    <3>1. PICK id : Enter(id)
      BY <2>2 DEF EnterOutside, DefineNameless
    <3>2. program' = program /\ stack' = stack /\ outside' = outside /\ entered' = {id}
          /\ \E c : Register(id, c)
      BY <3>1 DEF Enter
    <3> QED BY <1>1, <3>2 DEF Next, Alone
  <2>3. CASE \E n, loader : LookOutside(n, loader)
    BY <1>1, <2>3 DEF LookOutside, Next, Alone
  <2> QED BY <1>1, <2>1, <2>2, <2>3 DEF Next
<1> QED BY <1>1

\* Every step of loading keeps the invariant.
LEMMA LinkingStep ==
  ASSUME LinkingInv, [Locked]_loading
  PROVE  LinkingInv'
<1>1. CASE UNCHANGED loading
  <2>1. UNCHANGED <<program, class, early, broken>> /\ stack' = stack /\ ret' = ret
    BY <1>1 DEF loading
  <2>2. PICK s : s = stack
    OBVIOUS
  <2>3. Good(s)'
    BY <2>1, <2>2, GoodStays DEF LinkingInv
  <2>4. Good(stack)'
    BY <2>1, <2>2, <2>3
  <2>5. Returned(stack)'
    <3>1. Id' = Id /\ TheClass' = TheClass /\ (HasClass' <=> HasClass)
          /\ \A c : StepOf(c)' = StepOf(c)
      BY <2>1, ProgramStays DEF TheClass, HasClass
    <3> QED BY <2>1, <3>1 DEF Returned, LinkingInv
  <2> QED BY <2>4, <2>5 DEF LinkingInv
<1>2. CASE \E n \in Names(program), loader \in Loader \cup {Boot} :
             Request(n, loader) \/ DefineClass(n, loader)
  BY <1>2, Requests
<1>3. CASE Link
  <2>1. CASE Ask
    BY <2>1, Asks
  <2>2. CASE TakeSuper \/ TakeInterface \/ TakeField \/ TakeHandler \/ TakeType
    BY <2>2, Takes
  <2>3. CASE MethodResolved \/ Resolved
    BY <2>3, Ends
  <2>4. CASE TakeForArray \/ RegisterArray
    BY <2>4, Arrays
  <2>5. CASE CreateObject \/ Sweep
    BY <2>5, Created
  <2>6. CASE Unwind
    BY <2>6, Unwinds
  <2>7. CASE JavaDelegates \/ JavaDefines
    BY <2>7, JavaLoads
  <2>8. CASE JavaReturns \/ JavaFails
    BY <2>8, JavaEnds
  <2> QED BY <1>3, <2>1, <2>2, <2>3, <2>4, <2>5, <2>6, <2>7, <2>8 DEF Link
<1> QED BY <1>1, <1>2, <1>3 DEF Locked

\* Throughout loading and linking, until a class is put in the table past another: each
\* class that is under way is as far as its call has come, each other class is finished
\* or broken, and the calls are in the order in which classes ask for classes.
THEOREM LinkingCorrect == Spec => [](Alone => LinkingInv)
<1>1. Init => (Alone => LinkingInv)
  BY LinkingInit
<1>2. (Alone => LinkingInv) /\ [Next]_vars => (Alone => LinkingInv)'
  BY Loading, LinkingStep
<1> QED BY <1>1, <1>2, PTL DEF Spec

\* No class, primitive type or Java loader is asked for inside itself, and an array
\* only for the linking of a class that it has asked for (ClassLoader.cpp: the class
\* is entered in _loaded_classes before link_class).
THEOREM LinkingNested == Spec => []NoneInItself
<1>1. LinkingInv => NoneInItself
  <2>1. SUFFICES ASSUME LinkingInv PROVE NoneInItself
    OBVIOUS
  <2>2. CallsOK(stack) /\ Nested(stack)
    BY <2>1 DEF LinkingInv, Good
  <2>3. PICK T : stack \in Seq(T)
    BY <2>2 DEF CallsOK
  <2> QED BY <2>2, <2>3, Named, NestedNone
<1>2. Init => Alone
  BY DEF Init, Alone
<1>3. NoneInItself /\ [Next]_vars /\ ~Alone' => NoneInItself'
  <2>1. SUFFICES ASSUME NoneInItself, [Next]_vars, ~Alone' PROVE NoneInItself'
    OBVIOUS
  <2>2. stack' = stack
    BY <2>1, Entering DEF vars, loading
  <2> QED BY <2>1, <2>2 DEF NoneInItself
<1> QED BY <1>1, <1>2, <1>3, LinkingCorrect, PTL DEF Spec

\* What a function takes a set to, one to one, has as many elements.
LEMMA OneToOne ==
  ASSUME NEW S, IsFiniteSet(S), NEW f, \A i, j \in S : f[i] = f[j] => i = j
  PROVE  Cardinality({f[i] : i \in S}) = Cardinality(S)
<1> DEFINE T == {f[i] : i \in S}
           g == [i \in S |-> f[i]]
<1>1. g \in Injection(S, T)
  BY DEF Injection, IsInjective
<1>2. g \in Surjection(S, T)
  BY DEF Surjection
<1> HIDE DEF T, g
<1>3. Cardinality(T) = Cardinality(S)
  BY <1>1, <1>2, FS_Surjection
<1> QED BY <1>3 DEF T

\* A class that is finished has all that its file declares.
LEMMA FinishedHasAll ==
  ASSUME program \in Programs, NEW id, id[2] \in DOMAIN program.files, Finished(id)
  PROVE  /\ class[id].resolved
         /\ (class[id].super = None) = (File(id).super = None)
         /\ Cardinality(class[id].interfaces) = Len(File(id).interfaces)
         /\ Len(class[id].fields) = Len(File(id).fields)
         /\ Cardinality(class[id].declared) = Len(File(id).methods)
<1> DEFINE f == File(id)
           L == LinkSteps(id)
           N == Names(program)
           s == SuperSteps(f)
           n == Len(f.interfaces)
           m == Len(f.fields)
           last == Len(L)
<1>1. /\ f.interfaces \in Seq(N) /\ f.fields \in Seq([type : N, static : BOOLEAN])
      /\ f.methods \in Seq([signature : Signatures(f), handlers : Seq(N), types : Seq(N)])
      /\ \A j, k \in 1 .. Len(f.methods) : f.methods[j].signature = f.methods[k].signature => j = k
  BY FileIs
<1>2. n \in Nat /\ m \in Nat /\ Len(f.methods) \in Nat
  BY <1>1
<1>3. s \in 0 .. 1 /\ (s = 0 <=> f.super = None)
  BY DEF SuperSteps
<1>4. LinkShape(f, id[2], L)
  BY LinkStepsAre
<1>5. last \in Nat /\ last >= MembersFrom(f) + 2
  BY <1>4, SeqHas DEF LinkShape
<1>6. MembersFrom(f) = s + n + m
  BY DEF MembersFrom
<1>7. ASSUME NEW k \in 1 .. last PROVE LinkStep(f, id[2], k, last, L[k])
  BY <1>7, LinkStepIs
<1>8. class[id].resolved /\ Come(f, L, class[id], last)
  BY DEF Finished, Progress
<1> HIDE DEF f, L, N, s, n, m, last
<1>9. /\ Upto(last - 1 - s, 0, n) = n /\ Upto(last - 1 - s - n, 0, m) = m /\ last # 1
      /\ MembersFrom(f) \in Nat
  BY <1>2, <1>3, <1>5, <1>6 DEF Upto
<1>10. MethodsBefore(L, last) = Signatures(f)
  <2>1. ASSUME NEW k \in 1 .. last - 1, L[k].what = "method" PROVE L[k].name \in Signatures(f)
    <3>1. k \in 1 .. last
      BY <1>5
    <3> QED BY <1>7, <2>1, <3>1 DEF LinkStep
  <2>2. ASSUME NEW g \in Signatures(f) PROVE g \in MethodsBefore(L, last)
    <3>1. PICK k \in MembersFrom(f) + 1 .. last - 2 : L[k] = Step("method", g)
      BY <1>4 DEF LinkShape, last
    <3>2. k \in 1 .. last - 1
      BY <1>5, <1>9
    <3>3. L[k].what = "method" /\ L[k].name = g
      BY <3>1 DEF Step
    <3> QED BY <3>2, <3>3 DEF MethodsBefore
  <2> QED BY <2>1, <2>2 DEF MethodsBefore
<1>11. Cardinality(Signatures(f)) = Len(f.methods)
  <2> DEFINE g == [j \in 1 .. Len(f.methods) |-> f.methods[j].signature]
  <2>1. Signatures(f) = {g[j] : j \in 1 .. Len(f.methods)}
    BY DEF Signatures
  <2>2. \A j, k \in 1 .. Len(f.methods) : g[j] = g[k] => j = k
    BY <1>1
  <2>3. IsFiniteSet(1 .. Len(f.methods)) /\ Cardinality(1 .. Len(f.methods)) = Len(f.methods)
    <3>1. PICK k \in Nat : k = Len(f.methods)
      BY <1>2
    <3>2. 1 \in Int /\ k \in Int
      OBVIOUS
    <3>3. /\ IsFiniteSet(1 .. k)
          /\ Cardinality(1 .. k) = IF 1 > k THEN 0 ELSE k - 1 + 1
      BY <3>2, FS_Interval
    <3>4. (IF 1 > k THEN 0 ELSE k - 1 + 1) = k
      OBVIOUS
    <3> QED BY <3>1, <3>3, <3>4
  <2> HIDE DEF g
  <2> QED BY <2>1, <2>2, <2>3, OneToOne
<1>12. /\ class[id].super = None <=> (s = 0 \/ last = 1)
       /\ Cardinality(class[id].interfaces) = Upto(last - 1 - s, 0, n)
       /\ Len(class[id].fields) = Upto(last - 1 - s - n, 0, m)
       /\ class[id].declared = MethodsBefore(L, last)
  BY <1>8 DEF Come, s, n, m
<1>13. (class[id].super = None) = (f.super = None)
  BY <1>3, <1>9, <1>12
<1> QED BY <1>8, <1>9, <1>10, <1>11, <1>12, <1>13 DEF f, n, m

\* What a thread without the lock has looked for is a class.
OutsideOK == outside \in Id \cup {None}

\* The program stays.
LEMMA ProgramKept ==
  ASSUME [Next]_vars
  PROVE  program' = program
<1>1. CASE UNCHANGED vars
  BY <1>1 DEF vars, loading
<1>2. CASE Link
  <2>1. CASE TakeSuper \/ TakeInterface \/ TakeField \/ TakeHandler \/ TakeType
    BY <2>1 DEF TakeSuper, TakeInterface, TakeField, TakeHandler, TakeType, Take
  <2> QED BY <1>2, <2>1 DEF Link, Ask, MethodResolved, Resolved, TakeForArray, RegisterArray,
             CreateObject, Sweep, Unwind, JavaDelegates, JavaDefines, JavaReturns, JavaFails
<1>3. CASE \E n, loader : Request(n, loader) \/ DefineClass(n, loader) \/ LookOutside(n, loader)
  BY <1>3 DEF Request, DefineClass, LookOutside, loading
<1>4. CASE EnterOutside \/ \E n, loader : DefineNameless(n, loader)
  BY <1>4 DEF EnterOutside, DefineNameless, Enter
<1> QED BY <1>1, <1>2, <1>3, <1>4 DEF Next, Locked

\* So does what that thread has looked for, once it has.
LEMMA OutsideKept == Spec => []OutsideOK
<1>1. Init => OutsideOK
  BY DEF Init, OutsideOK
<1>2. OutsideOK /\ [Next]_vars => OutsideOK'
  <2>1. SUFFICES ASSUME OutsideOK, [Next]_vars PROVE OutsideOK'
    OBVIOUS
  <2>2. Id' = Id
    BY <2>1, ProgramKept DEF Id
  <2>3. outside' = outside \/ \E n \in Names(program), loader \in Loader : LookOutside(n, loader)
    BY <2>1 DEF vars, Next, EnterOutside, DefineNameless, Enter
  <2>4. outside' \in Id \cup {None}
    <3>1. CASE outside' = outside
      BY <2>1, <3>1 DEF OutsideOK
    <3>2. CASE \E n \in Names(program), loader \in Loader : LookOutside(n, loader)
      <4>1. PICK n \in Names(program), loader \in Loader : outside' = <<loader, n>>
        BY <3>2 DEF LookOutside
      <4> QED BY <4>1 DEF Id
    <3> QED BY <2>3, <3>1, <3>2
  <2> QED BY <2>2, <2>4 DEF OutsideOK
<1> QED BY <1>1, <1>2, PTL DEF Spec

\* The invariant has the types of the other variables.
LEMMA LinkingTypes ==
  ASSUME LinkingInv, OutsideOK
  PROVE  TypeOK
<1>1. Table /\ Returned(stack)
  BY DEF LinkingInv, Good
<1>2. ret \in Id \cup {None, Failed}
  BY <1>1 DEF Returned
<1> QED BY <1>1, <1>2 DEF TypeOK, Table, ClassOK, OutsideOK

\* Until a class is put past another, every class of the table is linked whole, being
\* linked, or broken, and has its instance of java/lang/Class when nothing is under way
\* (link_class, load_class).
THEOREM LinkingComplete == Spec => []LinkedOrBroken
<1>1. (Alone => LinkingInv) /\ OutsideOK => LinkedOrBroken
  <2>1. SUFFICES ASSUME LinkingInv, OutsideOK PROVE LinkedOrBroken
    BY DEF LinkedOrBroken, Alone
  <2>2. /\ CallsOK(stack) /\ Progresses(stack) /\ Instances(stack) /\ Table
        /\ program \in Programs
    BY <2>1 DEF LinkingInv, Good, Table
  <2>3. BeingLinked = LinkedBy(stack)
    <3>1. PICK T : stack \in Seq(T)
      BY <2>2 DEF CallsOK
    <3>2. DOMAIN stack = 1 .. Len(stack)
      BY <3>1
    <3> QED BY <3>2 DEF BeingLinked, LinkedBy
  <2>4. ASSUME NEW id \in DOMAIN class, class[id].kind \in {"class", "interface"},
               id \notin BeingLinked \cup broken
        PROVE  /\ class[id].resolved
               /\ (class[id].super = None) = (File(id).super = None)
               /\ Cardinality(class[id].interfaces) = Len(File(id).interfaces)
               /\ Len(class[id].fields) = Len(File(id).fields)
               /\ Cardinality(class[id].declared) = Len(File(id).methods)
    <3>1. Finished(id)
      BY <2>2, <2>3, <2>4 DEF Progresses
    <3>2. id[2] \in DOMAIN program.files
      BY <2>2, <2>4 DEF Table, ClassOK
    <3> QED BY <2>2, <3>1, <3>2, FinishedHasAll
  <2>5. ASSUME stack = <<>>, <<Boot, Class>> \in DOMAIN class, class[<<Boot, Class>>].resolved,
               NEW id \in DOMAIN class \ broken
        PROVE  class[id].object > 0
    <3>1. LinkedBy(stack) = {} /\ CreatedBy(stack) = {}
      <4>1. \A k : k \notin 1 .. Len(stack)
        BY <2>5
      <4> QED BY <4>1 DEF LinkedBy, CreatedBy
    <3> QED BY <2>2, <2>5, <3>1 DEF Instances, HasClass, TheClass
  <2> QED BY <2>1, <2>4, <2>5, LinkingTypes DEF LinkedOrBroken
<1> QED BY <1>1, LinkingCorrect, OutsideKept, PTL
-----------------------------------------------------------------------------
(* What the table has under a name stays there.                            *)

\* What loading a class does to the table.
Enters == class' = class \/ \E id, c : id \notin DOMAIN class /\ Register(id, c)

\* It enters what is not there.
LEMMA LoadEnters ==
  ASSUME NEW n, NEW loader, NEW calls, Load(n, loader, calls)
  PROVE  Enters
<1> DEFINE id == <<loader, n>>
<1>1. CASE Known(id)
  <2>1. class' = class
    BY <1>1 DEF Load, LoadArray, LoadPrimitive, LoadClass, Hit
  <2> QED BY <2>1 DEF Enters
<1>2. CASE ~Known(id)
  <2>1. id \notin DOMAIN class
    BY <1>2 DEF Known
  <2>2. class' = class \/ \E c : Register(id, c)
    BY <1>2 DEF Load, LoadArray, LoadPrimitive, LoadClass, Define, DefineNew
  <2> QED BY <2>1, <2>2 DEF Enters
<1> QED BY <1>1, <1>2

\* So does define_class.
LEMMA DefineEnters ==
  ASSUME NEW id, NEW calls, Define(id, calls)
  PROVE  Enters
<1>1. CASE Known(id)
  BY <1>1 DEF Define, Hit, Enters
<1>2. CASE ~Known(id)
  <2>1. id \notin DOMAIN class
    BY <1>2 DEF Known
  <2>2. class' = class \/ \E c : Register(id, c)
    BY <1>2 DEF Define, DefineNew
  <2> QED BY <2>1, <2>2 DEF Enters
<1> QED BY <1>1, <1>2

\* What a step may do to a class that is in the table.
Kept(id) ==
  /\ id \in DOMAIN class'
  /\ \/ class'[id] = class[id] \/ class'[id] = WithObject(class[id])
     \/ ~class[id].resolved
     \/ class[id].kind = "array" /\ Head(stack).id = id

\* This is all that a step of loading does.
LEMMA StepKeeps ==
  ASSUME LinkingInv, Locked
  PROVE  \A id \in DOMAIN class : Kept(id)
<1>1. ASSUME Enters PROVE \A id \in DOMAIN class : Kept(id)
  <2>1. CASE class' = class
    BY <2>1 DEF Kept
  <2>2. CASE \E id, c : id \notin DOMAIN class /\ Register(id, c)
    <3>1. PICK x, c : x \notin DOMAIN class /\ Register(x, c)
      BY <2>2
    <3>2. \A id \in DOMAIN class : id \in DOMAIN class' /\ class'[id] = class[id]
      BY <3>1, Registers
    <3> QED BY <3>2 DEF Kept
  <2> QED BY <1>1, <2>1, <2>2 DEF Enters
<1>2. CASE \E n \in Names(program), loader \in Loader \cup {Boot} :
             Request(n, loader) \/ DefineClass(n, loader)
  BY <1>1, <1>2, LoadEnters, DefineEnters DEF Request, DefineClass
<1>3. CASE Ask
  <2>1. class' = class \/ Load(Now.name, Asked, stack)
    BY <1>3 DEF Ask
  <2>2. Enters
    BY <2>1, LoadEnters DEF Enters
  <2> QED BY <1>1, <2>2
<1>4. CASE JavaDelegates \/ JavaDefines
  <2>1. Enters
    BY <1>4, LoadEnters, DefineEnters DEF JavaDelegates, JavaDefines
  <2> QED BY <1>1, <2>1
<1>5. CASE TakeForArray \/ Unwind \/ JavaReturns \/ JavaFails
  <2>1. class' = class
    BY <1>5 DEF TakeForArray, Unwind, JavaReturns, JavaFails
  <2> QED BY <1>1, <2>1 DEF Enters
<1>6. ASSUME stack # <<>>, Top.kind = "link", Now.what \notin {"object", "sweep"},
             DOMAIN class' = DOMAIN class,
             \A id \in DOMAIN class : id # Top.id => class'[id] = class[id]
      PROVE  \A id \in DOMAIN class : Kept(id)
  <2>1. PICK T, t, s : IsOpen(T, t, s)
    BY <1>6, Opened
  <2>2. t.at # Len(Steps(t)) /\ CallOK(t) /\ t = Top /\ t.kind = "link"
    <3>1. program \in Programs /\ CallOK(t) /\ t = Top /\ Now = StepOf(t)
      BY <2>1 DEF IsOpen
    <3> QED BY <1>6, <3>1, StepHas
  <2>3. ~class[Top.id].resolved
    BY <2>2 DEF CallOK
  <2> QED BY <1>6, <2>3 DEF Kept
<1>7. CASE TakeSuper \/ TakeInterface \/ TakeField \/ TakeHandler \/ TakeType
  <2>1. PICK what, c :
          what \in {"super", "interface", "field", "handler", "type"} /\ Take(what, c)
    BY <1>7 DEF TakeSuper, TakeInterface, TakeField, TakeHandler, TakeType
  <2>2. /\ stack # <<>> /\ Top.kind = "link" /\ Now.what \notin {"object", "sweep"}
        /\ class' = [class EXCEPT ![Top.id] = Pooled(c)]
    BY <2>1 DEF Take, Running
  <2> QED BY <1>6, <2>2
<1>8. CASE MethodResolved \/ Resolved
  <2>1. /\ stack # <<>> /\ Top.kind = "link" /\ Now.what \notin {"object", "sweep"}
        /\ DOMAIN class' = DOMAIN class
        /\ \A id \in DOMAIN class : id # Top.id => class'[id] = class[id]
    BY <1>8 DEF MethodResolved, Resolved, Running
  <2> QED BY <1>6, <2>1
<1>9. CASE RegisterArray
  <2>1. stack # <<>> /\ Top.kind = "array" /\ \E c : Register(Top.id, c)
    BY <1>9 DEF RegisterArray, Running
  <2>2. PICK T, t, s : IsOpen(T, t, s)
    BY <2>1, Opened
  <2>3. Table /\ Top.id[2] \in Array
    <3>1. Table /\ CallOK(t) /\ t = Top
      BY <2>2 DEF IsOpen
    <3> QED BY <2>1, <3>1 DEF CallOK, Fits
  <2>4. Top.id \in DOMAIN class => class[Top.id].kind = "array"
    BY <2>3 DEF Table, ClassOK
  <2>5. Top.id = Head(stack).id
    BY DEF Top
  <2>6. PICK x, c : x = Top.id /\ Register(x, c)
    BY <2>1
  <2>7. \A id \in DOMAIN class :
          id \in DOMAIN class' /\ (id # x => class'[id] = class[id])
    BY <2>6, Registers
  <2> QED BY <2>4, <2>5, <2>6, <2>7 DEF Kept
<1>10. CASE CreateObject
  BY <1>10 DEF CreateObject, Kept
<1>11. CASE Sweep
  BY <1>11 DEF Sweep, Kept
<1> QED BY <1>2, <1>3, <1>4, <1>5, <1>7, <1>8, <1>9, <1>10, <1>11 DEF Locked, Link

\* A class keeps its place in _loaded_classes, and once it is linked its super class,
\* its fields and its size, but for an array that is entered again (load_array) and for
\* what DefineClass puts there without the lock or without a name.
THEOREM LinkingKeeps == Spec => KeepsIdentity
<1> DEFINE Keeps(id) ==
             /\ id \in DOMAIN class'
             /\ class[id].resolved =>
                  \/ SameClass(class[id], class'[id])
                  \/ class[id].kind = "array" /\ Head(stack).id = id
                  \/ id \in entered'
<1>1. ASSUME Alone => LinkingInv, [Next]_vars
      PROVE  [\A id \in DOMAIN class : Keeps(id)]_vars
  <2>1. SUFFICES ASSUME Next, NEW id \in DOMAIN class
                 PROVE  Keeps(id)
    BY <1>1
  <2>2. LinkingInv
    BY <1>1, <2>1 DEF Next, Alone
  <2>3. ClassOK(class[id], id)
    BY <2>2 DEF LinkingInv, Good, Table
  <2>4. class[id].object \in Nat /\ class[id].object + 1 >= class[id].object
        /\ class[id].object >= class[id].object
    <3>1. class[id].object \in Nat
      BY <2>3 DEF ClassOK
    <3> QED BY <3>1
  <2>5. class[id].resolved /\ (class'[id] = class[id] \/ class'[id] = WithObject(class[id])) =>
          SameClass(class[id], class'[id])
    <3>1. PICK c, d : c = class[id] /\ d = class'[id]
      OBVIOUS
    <3>2. WithObject(c).super = c.super /\ WithObject(c).fields = c.fields
          /\ WithObject(c).object_size = c.object_size /\ WithObject(c).resolved = c.resolved
          /\ WithObject(c).object = c.object + 1
      BY <2>3, <3>1, ObjectsOnly
    <3>3. PICK w : w = WithObject(c)
      OBVIOUS
    <3>4. c.resolved => SameClass(c, c) /\ SameClass(c, w)
      BY <2>4, <3>1, <3>2, <3>3 DEF SameClass
    <3> QED BY <3>1, <3>3, <3>4
  <2>6. CASE Locked
    <3>1. Kept(id)
      BY <2>1, <2>2, <2>6, StepKeeps
    <3> QED BY <2>5, <3>1 DEF Kept
  <2>7. CASE class' = class
    BY <2>5, <2>7
  <2>8. CASE \E x, c : Register(x, c) /\ entered' = {x}
    <3>1. PICK x, c : Register(x, c) /\ entered' = {x}
      BY <2>8
    <3>2. id \in DOMAIN class' /\ (id # x => class'[id] = class[id])
      BY <3>1, Registers
    <3> QED BY <2>5, <3>1, <3>2
  <2>9. CASE EnterOutside \/ \E n, loader : DefineNameless(n, loader)
    <3>1. \E x, c : Register(x, c) /\ entered' = {x}
      BY <2>9 DEF EnterOutside, DefineNameless, Enter
    <3> QED BY <2>8, <3>1
  <2>10. CASE \E n, loader : LookOutside(n, loader)
    BY <2>7, <2>10 DEF LookOutside, loading
  <2> QED BY <2>1, <2>6, <2>9, <2>10 DEF Next
<1> QED BY <1>1, LinkingCorrect, PTL DEF Spec, KeepsIdentity

-----------------------------------------------------------------------------
\* The super classes in the table are those of the files, and that of arrays is Object,
\* which an array that is being loaded asks for after its component.
GotObject(c) == c.kind = "array" /\ Len(c.got) >= 2 => c.got[2][2] = Object

GotObjects(s) == \A i \in 1 .. Len(s) : GotObject(s[i])

SuperNamed(c, id) == c.super # None => c.super[2] = SuperName(program, id[2])

SupersNamed ==
  /\ IsFiniteSet(DOMAIN class)
  /\ \A id \in DOMAIN class : SuperNamed(class[id], id)
  /\ GotObjects(stack)

\* With one call more, and with one less.
LEMMA GotMore ==
  ASSUME NEW T, NEW s \in Seq(T), NEW x
  PROVE  GotObjects(<<x>> \o s) <=> GotObject(x) /\ GotObjects(s)
<1> DEFINE u == <<x>> \o s
<1>1. IsOneMore(T, s, x, u)
  BY OneMore
<1> HIDE DEF u
<1>2. /\ u[1] = x /\ 1 \in 1 .. Len(u)
      /\ \A i \in 1 .. Len(u) : u[i] = x \/ \E j \in 1 .. Len(s) : u[i] = s[j]
      /\ \A i \in 1 .. Len(s) : i + 1 \in 1 .. Len(u) /\ u[i + 1] = s[i]
  BY <1>1 DEF IsOneMore
<1>3. GotObjects(u) => GotObject(x) /\ GotObjects(s)
  BY <1>2 DEF GotObjects
<1>4. GotObject(x) /\ GotObjects(s) => GotObjects(u)
  <2>1. SUFFICES ASSUME GotObject(x), GotObjects(s), NEW i \in 1 .. Len(u)
                 PROVE  GotObject(u[i])
    BY DEF GotObjects
  <2> QED BY <1>2, <2>1 DEF GotObjects
<1> QED BY <1>3, <1>4 DEF u

\* A call that begins has nothing yet.
LEMMA GotNothing ==
  ASSUME NEW kind, NEW id
  PROVE  GotObject(Call(kind, id))
BY DEF GotObject, Call

\* A class as it is entered in the table, and nothing but its kind and its name.
Bare(c) ==
  /\ c.super = None /\ c.fields = <<>>
  /\ c.kind \in {"class", "interface"} => c.object_size = 0 /\ ~c.resolved

\* What loading a class does to the table and to the calls.
EntersBare(calls) ==
  /\ \/ class' = class
     \/ \E id, c : id \notin DOMAIN class /\ Register(id, c) /\ Bare(c)
  /\ stack' = calls \/ \E kind, id : stack' = <<Call(kind, id)>> \o calls

\* define_class enters a bare class,
LEMMA DefinesBare ==
  ASSUME NEW id, NEW calls, Define(id, calls)
  PROVE  EntersBare(calls)
<1>1. CASE Known(id)
  BY <1>1 DEF Define, Hit, EntersBare
<1>2. CASE ~Known(id) /\ ~Found(id)
  BY <1>2 DEF Define, DefineNew, EntersBare
<1>3. CASE ~Known(id) /\ Found(id)
  <2>1. PICK c : c = NewClass(IF File(id).interface THEN "interface" ELSE "class", id[2])
    OBVIOUS
  <2>2. Register(id, c) /\ stack' = <<Call("link", id)>> \o calls
    BY <1>3, <2>1 DEF Define, DefineNew
  <2>3. id \notin DOMAIN class /\ Bare(c)
    BY <1>3, <2>1 DEF Known, NewClass, Bare
  <2> QED BY <2>2, <2>3 DEF EntersBare
<1> QED BY <1>1, <1>2, <1>3

\* and so does load_class, in each of its cases.
LEMMA LoadsBare ==
  ASSUME NEW n, NEW loader, NEW calls, Load(n, loader, calls)
  PROVE  EntersBare(calls)
<1>0. PICK id : id = <<loader, n>>
  OBVIOUS
<1>1. LoadArray(id, calls) \/ LoadPrimitive(id, calls) \/ LoadClass(id, calls)
  BY <1>0 DEF Load
<1>2. CASE Known(id)
  BY <1>1, <1>2 DEF LoadArray, LoadPrimitive, LoadClass, Hit, EntersBare
<1>3. CASE ~Known(id) /\ LoadArray(id, calls)
  BY <1>3 DEF LoadArray, EntersBare
<1>4. CASE ~Known(id) /\ LoadPrimitive(id, calls)
  <2>1. PICK c : c = [NewClass("primitive", id[2]) EXCEPT !.object_size = TypeSize(id[2])]
    OBVIOUS
  <2>2. Register(id, c) /\ stack' = <<Call("primitive", id)>> \o calls
    BY <1>4, <2>1 DEF LoadPrimitive
  <2>3. id \notin DOMAIN class /\ Bare(c)
    BY <1>4, <2>1 DEF Known, NewClass, Bare
  <2> QED BY <2>2, <2>3 DEF EntersBare
<1>5. CASE ~Known(id) /\ LoadClass(id, calls)
  <2>1. Define(id, calls) \/ (stack' = <<Call("java", id)>> \o calls /\ class' = class)
    BY <1>5 DEF LoadClass
  <2> QED BY <2>1, DefinesBare DEF EntersBare
<1> QED BY <1>1, <1>2, <1>3, <1>4, <1>5

\* A step that gives a class no super class but its own keeps this.
LEMMA NamesStay ==
  ASSUME SupersNamed, program' = program, IsFiniteSet(DOMAIN class'), GotObjects(stack'),
         \A id \in DOMAIN class' :
           \/ class'[id].super = None \/ class'[id].super[2] = SuperName(program, id[2])
           \/ id \in DOMAIN class /\ class'[id].super = class[id].super
  PROVE  SupersNamed'
<1>1. \A id \in DOMAIN class' : SuperNamed(class'[id], id)
  BY DEF SupersNamed, SuperNamed
<1>2. (\A id \in DOMAIN class : SuperNamed(class[id], id))'
  BY <1>1 DEF SuperNamed, SuperName
<1>3. GotObjects(stack)'
  BY DEF GotObjects, GotObject
<1> QED BY <1>2, <1>3 DEF SupersNamed

\* Loading a class does,
LEMMA BareStays ==
  ASSUME SupersNamed, program' = program, NEW T, NEW calls \in Seq(T), GotObjects(calls),
         EntersBare(calls)
  PROVE  SupersNamed'
<1>1. GotObjects(stack')
  <2>1. PICK u : u = stack'
    OBVIOUS
  <2>2. u = calls \/ \E kind, id : u = <<Call(kind, id)>> \o calls
    BY <2>1 DEF EntersBare
  <2>3. ASSUME NEW kind, NEW id PROVE GotObjects(<<Call(kind, id)>> \o calls)
    BY GotMore, GotNothing
  <2>4. GotObjects(u)
    BY <2>2, <2>3
  <2> QED BY <2>1, <2>4
<1>2. CASE class' = class
  <2>1. IsFiniteSet(DOMAIN class')
    BY <1>2 DEF SupersNamed
  <2> QED BY <1>1, <1>2, <2>1, NamesStay
<1>3. CASE \E id, c : id \notin DOMAIN class /\ Register(id, c) /\ Bare(c)
  <2>1. PICK x, c : x \notin DOMAIN class /\ Register(x, c) /\ c.super = None
    BY <1>3 DEF Bare
  <2>2. /\ DOMAIN class' = DOMAIN class \cup {x} /\ class'[x] = c
        /\ \A d \in DOMAIN class : d # x => class'[d] = class[d]
    BY <2>1, Registers
  <2>3. IsFiniteSet(DOMAIN class')
    BY <2>2, FS_AddElement DEF SupersNamed
  <2>4. \A id \in DOMAIN class' :
          \/ class'[id].super = None
          \/ id \in DOMAIN class /\ class'[id].super = class[id].super
    BY <2>1, <2>2
  <2> QED BY <1>1, <2>3, <2>4, NamesStay
<1> QED BY <1>2, <1>3 DEF EntersBare

\* and so does a step that leaves the super classes alone.
LEMMA SameSupers ==
  ASSUME SupersNamed, program' = program, DOMAIN class' = DOMAIN class, GotObjects(stack'),
         \A id \in DOMAIN class : class'[id].super = class[id].super
  PROVE  SupersNamed'
<1>1. IsFiniteSet(DOMAIN class')
  BY DEF SupersNamed
<1> QED BY <1>1, NamesStay

\* What is open of the calls.
LEMMA GotOpen ==
  ASSUME SupersNamed, NEW T, NEW t, NEW s, IsOpen(T, t, s)
  PROVE  /\ GotObject(t) /\ GotObjects(s)
         /\ \A y : y.kind = t.kind /\ y.got = t.got => GotObjects(<<y>> \o s)
<1>1. s \in Seq(T) /\ stack = <<t>> \o s
  BY DEF IsOpen
<1>2. GotObject(t) /\ GotObjects(s)
  BY <1>1, GotMore DEF SupersNamed
<1>3. ASSUME NEW y, y.kind = t.kind, y.got = t.got PROVE GotObjects(<<y>> \o s)
  <2>1. GotObject(y)
    BY <1>2, <1>3 DEF GotObject
  <2> QED BY <1>1, <1>2, <2>1, GotMore
<1> QED BY <1>2, <1>3

\* A call that goes on keeps what it has got.
LEMMA Advances ==
  ASSUME NEW T, NEW t, NEW s, IsOpen(T, t, s)
  PROVE  /\ Advance.kind = t.kind /\ Advance.got = t.got
         /\ \A n : [Top EXCEPT !.at = n].kind = t.kind /\ [Top EXCEPT !.at = n].got = t.got
         /\ Tail(stack) = s
BY DEF IsOpen, Advance

\* The steps of linking that get a class.
LEMMA TakesNamed ==
  ASSUME LinkingInv, SupersNamed,
         TakeSuper \/ TakeInterface \/ TakeField \/ TakeHandler \/ TakeType
  PROVE  SupersNamed'
<1>1. stack # <<>> /\ ret \in Id /\ Top.kind = "link"
  BY DEF TakeSuper, TakeInterface, TakeField, TakeHandler, TakeType, Take, Running
<1>2. PICK T, t, s : IsOpen(T, t, s)
  BY <1>1, Opened
<1>3. PICK c : c = class[t.id]
  OBVIOUS
<1>4. /\ Table /\ program \in Programs /\ CallOK(t) /\ Top = t /\ Now = StepOf(t)
      /\ t.id \in DOMAIN class /\ ret \in DOMAIN class
  BY <1>1, <1>2 DEF IsOpen, CallOK
<1>5. DOMAIN c = Fields /\ ClassOK(c, t.id)
  BY <1>3, <1>4 DEF Table, ClassOK
<1>6. {"super", "interfaces", "fields", "object_size", "pool"} \subseteq Fields
  BY DEF Fields
<1>7. PICK what, e :
        /\ what \in {"super", "interface", "field", "handler", "type"} /\ Take(what, e)
        /\ DOMAIN e = Fields
        /\ IF what = "super" THEN e.super = ret ELSE e.super = c.super
  <2>1. CASE TakeSuper
    <3> DEFINE e == [c EXCEPT !.super = ret, !.object_size = @ + class[ret].object_size]
    <3>1. Take("super", e)
      BY <1>3, <1>4, <2>1 DEF TakeSuper
    <3>2. DOMAIN e = Fields /\ e.super = ret
      BY <1>5, <1>6
    <3> HIDE DEF e
    <3> QED BY <3>1, <3>2
  <2>2. CASE TakeInterface
    <3> DEFINE e == [c EXCEPT !.interfaces = @ \cup {ret}]
    <3>1. Take("interface", e)
      BY <1>3, <1>4, <2>2 DEF TakeInterface
    <3>2. DOMAIN e = Fields /\ e.super = c.super
      BY <1>5, <1>6
    <3> HIDE DEF e
    <3>3. "interface" # "super"
      OBVIOUS
    <3> QED BY <3>1, <3>2, <3>3
  <2>3. CASE TakeField
    <3> DEFINE e == [c EXCEPT !.fields = Append(@, [type |-> ret, static |-> FieldStatic]),
                              !.object_size = IF FieldStatic THEN @ ELSE @ + TypeSize(ret[2])]
    <3>1. Take("field", e)
      BY <1>3, <1>4, <2>3 DEF TakeField
    <3>2. DOMAIN e = Fields /\ e.super = c.super
      BY <1>5, <1>6
    <3> HIDE DEF e
    <3>3. "field" # "super"
      OBVIOUS
    <3> QED BY <3>1, <3>2, <3>3
  <2>4. CASE TakeHandler \/ TakeType
    <3>1. PICK what \in {"handler", "type"} : Take(what, c)
      BY <1>3, <1>4, <2>4 DEF TakeHandler, TakeType
    <3>2. what # "super" /\ what \in {"super", "interface", "field", "handler", "type"}
      OBVIOUS
    <3> QED BY <1>5, <3>1, <3>2
  <2> QED BY <2>1, <2>2, <2>3, <2>4
<1>8. PICK p : p = Pooled(e)
  OBVIOUS
<1>9. p.super = e.super
  BY <1>6, <1>7, <1>8 DEF Pooled
<1>10. /\ class' = [class EXCEPT ![t.id] = p] /\ program' = program
       /\ stack' = <<Advance>> \o s /\ Now.what = what
  <2>1. Tail(stack) = s
    BY <1>2 DEF IsOpen
  <2> QED BY <1>4, <1>7, <1>8, <2>1 DEF Take, Forward
<1>11. GotObjects(stack')
  BY <1>2, <1>10, GotOpen, Advances
<1>12. p.super = class[t.id].super \/ p.super[2] = SuperName(program, t.id[2])
  <2>1. CASE what # "super"
    BY <1>3, <1>7, <1>9, <2>1
  <2>2. CASE what = "super"
    <3>1. /\ t.id[2] \in DOMAIN program.files
          /\ LinkStep(File(t.id), t.id[2], t.at, Len(Steps(t)), StepOf(t))
      BY <1>1, <1>4, StepIs
    <3>2. StepOf(t).name = File(t.id).super
      BY <1>4, <1>10, <2>2, <3>1 DEF LinkStep
    <3>3. ret # None
      BY <1>1, <1>4, NamesAre
    <3>4. ret[2] = StepOf(t).name
      BY <1>1, <1>2, <1>4, <3>3 DEF IsOpen
    <3>5. SuperName(program, t.id[2]) = File(t.id).super
      BY <3>1 DEF SuperName, File
    <3> QED BY <1>7, <1>9, <2>2, <3>2, <3>4, <3>5
  <2> QED BY <2>1, <2>2
<1>13. IsFiniteSet(DOMAIN class')
  BY <1>10 DEF SupersNamed
<1>14. \A id \in DOMAIN class' :
         \/ class'[id].super = None \/ class'[id].super[2] = SuperName(program, id[2])
         \/ id \in DOMAIN class /\ class'[id].super = class[id].super
  BY <1>4, <1>10, <1>12
<1> QED BY <1>10, <1>11, <1>13, <1>14, NamesStay

\* The second step of loading an array.
LEMMA ArrayAsksObject ==
  ASSUME NEW id
  PROVE  ArraySteps(id)[2] = Step("super", Object)
<1> DEFINE c == Cardinality(OfArrays)
           a == <<Step("component", ElementOf[id[2]]), Step("super", Object)>>
           b == [i \in 1 .. c |-> Step("interface", SetToSeq(OfArrays)[i])]
           d == <<Step("register", None), Step("object", Class)>>
<1>1. c \in Nat
  BY InterfacesOfArrays
<1>2. PICK T : T = {a[1], a[2], d[1], d[2]} \cup {b[i] : i \in 1 .. c}
  OBVIOUS
<1>3. a \in Seq(T) /\ Len(a) = 2 /\ a[2] = Step("super", Object) /\ d \in Seq(T)
  BY <1>2
<1>4. b \in Seq(T)
  BY <1>1, <1>2, SeqFrom
<1>5. ArraySteps(id) = (a \o b) \o d
  BY DEF ArraySteps
<1> HIDE DEF a, b, c, d
<1>6. a \o b \in Seq(T) /\ Len(a \o b) >= 2 /\ (a \o b)[2] = a[2]
  <2>0. Len(b) \in Nat
    BY <1>4
  <2>1. Len(b) \in Nat /\ Len(a \o b) = Len(a) + Len(b) /\ a \o b \in Seq(T)
    BY <1>3, <1>4, <2>0, ConcatProperties
  <2>2. 2 \in 1 .. Len(a) + Len(b) /\ 2 <= Len(a)
    BY <1>3, <2>1
  <2>3. (a \o b)[2] = a[2]
    BY <1>3, <1>4, <2>2, ConcatProperties
  <2> QED BY <1>3, <2>1, <2>2, <2>3
<1>7. ((a \o b) \o d)[2] = (a \o b)[2]
  BY <1>3, <1>6
<1> QED BY <1>3, <1>5, <1>6, <1>7

\* An array that is loaded.
LEMMA ArraysNamedAbove ==
  ASSUME LinkingInv, SupersNamed, TakeForArray \/ RegisterArray
  PROVE  SupersNamed'
<1>1. stack # <<>> /\ Top.kind = "array"
  BY DEF TakeForArray, RegisterArray, Running
<1>2. PICK T, t, s : IsOpen(T, t, s)
  BY <1>1, Opened
<1>3. /\ program \in Programs /\ CallOK(t) /\ Top = t /\ Now = StepOf(t) /\ Tail(stack) = s
      /\ t.kind = "array" /\ s \in Seq(T)
  BY <1>1, <1>2 DEF IsOpen
<1>4. /\ Steps(t) = ArraySteps(t.id) /\ t.at \in 1 .. Len(Steps(t))
      /\ ArrayStep(t.id[2], t.at, Len(Steps(t)), StepOf(t))
      /\ Len(Steps(t)) = Cardinality(OfArrays) + 4 /\ Cardinality(OfArrays) \in Nat
  BY <1>3, StepIs, ArrayStepIs, InterfacesOfArrays DEF Steps
<1>5. /\ t.got \in Seq(DOMAIN class) /\ Len(t.got) \in Nat
      /\ t.at < Len(Steps(t)) => Len(t.got) = t.at - 1
  BY <1>3 DEF CallOK
<1>6. GotObject(t) /\ GotObjects(s)
  BY <1>2, GotOpen
<1>7. CASE TakeForArray
  <2>1. PICK r : r = ret
    OBVIOUS
  <2>2. PICK y : y = [t EXCEPT !.at = t.at + 1, !.got = Append(t.got, r)]
    OBVIOUS
  <2>3. stack' = <<y>> \o s /\ class' = class /\ program' = program
    BY <1>3, <1>7, <2>1, <2>2 DEF TakeForArray, Advance
  <2>4. y.kind = "array" /\ y.got = Append(t.got, r)
    BY <1>3, <2>2
  <2>5. r \in Id /\ t.at # Len(Steps(t))
    BY <1>3, <1>4, <1>7, <2>1 DEF TakeForArray, ArrayStep
  <2>6. r[2] = StepOf(t).name /\ r \in DOMAIN class
    BY <1>2, <1>3, <2>1, <2>5, NamesAre DEF IsOpen
  <2>7. Len(t.got) = t.at - 1 /\ t.at \in Nat
    BY <1>4, <1>5, <2>5
  <2>8. GotObject(y)
    <3>1. CASE Len(t.got) = 0
      <4>1. Len(Append(t.got, r)) = 1
        BY <1>5, <3>1
      <4> QED BY <2>4, <4>1 DEF GotObject
    <3>2. CASE Len(t.got) = 1
      <4>1. t.at = 2
        <5>1. PICK k, l : k = t.at /\ l = Len(t.got)
          OBVIOUS
        <5>2. l = k - 1 /\ k \in Nat /\ l = 1
          BY <2>7, <3>2, <5>1
        <5>3. k = 2
          BY <5>2
        <5> QED BY <5>1, <5>3
      <4>2. StepOf(t).name = Object
        BY <1>4, <4>1, ArrayAsksObject DEF StepOf, Step
      <4>3. y.got[2] = r
        BY <1>5, <2>4, <2>6, <3>2
      <4> QED BY <2>6, <4>2, <4>3 DEF GotObject
    <3>3. CASE Len(t.got) >= 2
      <4>1. y.got[2] = t.got[2]
        BY <1>5, <2>4, <2>6, <3>3
      <4> QED BY <1>3, <1>6, <3>3, <4>1 DEF GotObject
    <3>4. Len(t.got) = 0 \/ Len(t.got) = 1 \/ Len(t.got) >= 2
      <4>1. PICK l \in Nat : l = Len(t.got)
        BY <1>5
      <4>2. l = 0 \/ l = 1 \/ l >= 2
        OBVIOUS
      <4> QED BY <4>1, <4>2
    <3> QED BY <3>1, <3>2, <3>3, <3>4
  <2>9. GotObjects(stack')
    <3>1. GotObjects(<<y>> \o s)
      BY <1>3, <1>6, <2>8, GotMore
    <3> QED BY <2>3, <3>1
  <2> QED BY <2>3, <2>9, SameSupers
<1>8. CASE RegisterArray
  <2>1. PICK c, x : /\ c = [NewClass("array", Top.id[2]) EXCEPT
                             !.component = Top.got[1], !.super = Top.got[2],
                             !.interfaces = ToSet(SubSeq(Top.got, 3, Len(Top.got)))]
                    /\ x = t.id
    OBVIOUS
  <2>2. c.super = t.got[2]
    BY <1>3, <2>1 DEF NewClass
  <2>3. Register(x, c) /\ program' = program /\ stack' = <<Advance>> \o s
    BY <1>3, <1>8, <2>1 DEF RegisterArray, Forward
  <2>4. t.at = Len(Steps(t)) - 1
    BY <1>3, <1>4, <1>8 DEF RegisterArray, ArrayStep
  <2>5. Len(t.got) >= 2
    BY <1>4, <1>5, <2>4
  <2>6. c.super[2] = Object
    BY <1>3, <1>6, <2>2, <2>5 DEF GotObject
  <2>7. SuperName(program, x[2]) = Object
    <3>1. x[2] \in Array
      BY <1>3, <2>1 DEF CallOK, Fits
    <3> QED BY <1>3, <3>1, NamesAre DEF SuperName
  <2>8. /\ DOMAIN class' = DOMAIN class \cup {x} /\ class'[x] = c
        /\ \A d \in DOMAIN class : d # x => class'[d] = class[d]
    BY <2>3, Registers
  <2>9. IsFiniteSet(DOMAIN class')
    BY <2>8, FS_AddElement DEF SupersNamed
  <2>10. GotObjects(stack')
    BY <1>2, <2>3, GotOpen, Advances
  <2>11. \A id \in DOMAIN class' :
           \/ class'[id].super[2] = SuperName(program, id[2])
           \/ id \in DOMAIN class /\ class'[id].super = class[id].super
    BY <2>6, <2>7, <2>8
  <2> QED BY <2>3, <2>9, <2>10, <2>11, NamesStay
<1> QED BY <1>7, <1>8

\* The other steps of calls that are under way.
LEMMA OthersNamed ==
  ASSUME LinkingInv, SupersNamed,
         \/ MethodResolved \/ Resolved \/ CreateObject \/ Sweep \/ Unwind
         \/ JavaReturns \/ JavaFails
  PROVE  SupersNamed'
<1>1. stack # <<>>
  BY DEF MethodResolved, Resolved, CreateObject, Sweep, Unwind, JavaReturns, JavaFails, Running
<1>2. PICK T, t, s : IsOpen(T, t, s)
  BY <1>1, Opened
<1>3. /\ CallOK(t) /\ Top = t /\ Tail(stack) = s /\ Table
      /\ \A id \in DOMAIN class : ClassOK(class[id], id)
  BY <1>2 DEF IsOpen, Table
<1>4. GotObjects(<<Advance>> \o s) /\ GotObjects(s)
  BY <1>2, GotOpen, Advances
<1>5. \A id \in DOMAIN class : WithObject(class[id]).super = class[id].super
  BY <1>3, ObjectsOnly
<1>6. \A id \in DOMAIN class : DOMAIN class[id] = Fields
  BY <1>3 DEF ClassOK
<1>7. {"super", "declared", "resolved", "static_memory"} \subseteq Fields
  BY DEF Fields
<1>8. CASE MethodResolved
  <2>1. PICK d : d = class[Top.id].declared \cup {Now.name}
    OBVIOUS
  <2>2. class' = [class EXCEPT ![Top.id].declared = d] /\ program' = program
        /\ stack' = <<Advance>> \o s
    BY <1>3, <1>8, <2>1 DEF MethodResolved, Forward
  <2>3. \A id \in DOMAIN class : class'[id].super = class[id].super
    BY <1>6, <1>7, <2>2
  <2> QED BY <1>4, <2>2, <2>3, SameSupers
<1>9. CASE Resolved
  <2>1. PICK n : n = StaticSize(class[Top.id].fields)
    OBVIOUS
  <2>2. /\ class' = [class EXCEPT ![Top.id].resolved = TRUE, ![Top.id].static_memory = n]
        /\ program' = program /\ stack' = <<Advance>> \o s
    BY <1>3, <1>9, <2>1 DEF Resolved, Forward
  <2>3. \A id \in DOMAIN class : class'[id].super = class[id].super
    BY <1>6, <1>7, <2>2
  <2> QED BY <1>4, <2>2, <2>3, SameSupers
<1>10. CASE CreateObject
  <2>1. /\ class' = class \/ class' = [class EXCEPT ![Top.id] = WithObject(@)]
        /\ program' = program /\ stack' = s
    BY <1>3, <1>10 DEF CreateObject, Return
  <2>2. \A id \in DOMAIN class : class'[id].super = class[id].super
    BY <1>5, <2>1
  <2> QED BY <1>4, <2>1, <2>2, SameSupers
<1>11. CASE Sweep
  <2>1. /\ class' = [id \in DOMAIN class |-> WithObject(class[id])]
        /\ program' = program /\ stack' = s
    BY <1>3, <1>11 DEF Sweep, Return
  <2>2. \A id \in DOMAIN class : class'[id].super = class[id].super
    BY <1>5, <2>1
  <2> QED BY <1>4, <2>1, <2>2, SameSupers
<1>12. CASE Unwind \/ JavaReturns \/ JavaFails
  <2>1. class' = class /\ program' = program /\ stack' = s
    BY <1>3, <1>12 DEF Unwind, JavaReturns, JavaFails, Return
  <2> QED BY <1>4, <2>1, SameSupers
<1> QED BY <1>8, <1>9, <1>10, <1>11, <1>12

\* The steps that load a class.
LEMMA LoadsNamed ==
  ASSUME LinkingInv, SupersNamed, program' = program,
         \/ Ask \/ JavaDelegates \/ JavaDefines
         \/ \E n, loader : Request(n, loader) \/ DefineClass(n, loader)
  PROVE  SupersNamed'
<1>1. CASE \E n, loader : Request(n, loader) \/ DefineClass(n, loader)
  <2>1. EntersBare(<<>>)
    BY <1>1, LoadsBare, DefinesBare DEF Request, DefineClass
  <2>2. PICK u : u = <<>>
    OBVIOUS
  <2>3. GotObjects(u) /\ u \in Seq({})
    BY <2>2 DEF GotObjects
  <2> QED BY <2>1, <2>2, <2>3, BareStays
<1>2. CASE Ask \/ JavaDelegates \/ JavaDefines
  <2>1. stack # <<>>
    BY <1>2 DEF Ask, JavaDelegates, JavaDefines, Running
  <2>2. PICK T, t, s : IsOpen(T, t, s)
    BY <2>1, Opened
  <2>3. s \in Seq(T) /\ stack = <<t>> \o s /\ Tail(stack) = s /\ Top = t
    BY <2>2 DEF IsOpen
  <2>4. CASE Ask
    <3>1. EntersBare(stack) \/ (class' = class /\ stack' = stack)
      BY <2>4, LoadsBare DEF Ask
    <3>2. EntersBare(stack)
      BY <3>1 DEF EntersBare
    <3>3. stack \in Seq(T \cup {t})
      <4>1. IsOneMore(T, s, t, stack)
        BY <2>3, OneMore
      <4> QED BY <4>1 DEF IsOneMore
    <3> QED BY <3>2, <3>3, BareStays DEF SupersNamed
  <2>5. CASE JavaDelegates \/ JavaDefines
    <3>1. PICK y : /\ y.kind = t.kind /\ y.got = t.got /\ EntersBare(<<y>> \o s)
      <4>1. CASE JavaDelegates
        <5>1. EntersBare(<<Advance>> \o s)
          BY <2>3, <4>1, LoadsBare DEF JavaDelegates
        <5> QED BY <2>2, <5>1, Advances
      <4>2. CASE JavaDefines
        <5>1. EntersBare(<<[Top EXCEPT !.at = 3]>> \o s)
          BY <2>3, <4>2, DefinesBare DEF JavaDefines
        <5> QED BY <2>2, <5>1, Advances
      <4> QED BY <2>5, <4>1, <4>2
    <3>2. PICK u : u = <<y>> \o s
      OBVIOUS
    <3>3. GotObjects(u) /\ u \in Seq(T \cup {y})
      <4>1. IsOneMore(T, s, y, <<y>> \o s)
        BY <2>3, OneMore
      <4>2. <<y>> \o s \in Seq(T \cup {y})
        BY <4>1 DEF IsOneMore
      <4> QED BY <2>2, <3>1, <3>2, <4>2, GotOpen
    <3> QED BY <3>1, <3>2, <3>3, BareStays
  <2> QED BY <1>2, <2>4, <2>5
<1> QED BY <1>1, <1>2

\* All steps of loading keep the super classes those of the files.
LEMMA NamesKept == Spec => [](Alone => SupersNamed)
<1>1. Init => SupersNamed
  <2>1. SUFFICES ASSUME Init PROVE SupersNamed
    OBVIOUS
  <2>2. DOMAIN class = {} /\ stack = <<>>
    BY <2>1 DEF Init
  <2>3. IsFiniteSet(DOMAIN class)
    BY <2>2, FS_EmptySet
  <2>4. GotObjects(stack)
    BY <2>2 DEF GotObjects
  <2> QED BY <2>2, <2>3, <2>4 DEF SupersNamed
<1>2. LinkingInv /\ SupersNamed /\ [Locked]_loading => SupersNamed'
  <2>1. SUFFICES ASSUME LinkingInv, SupersNamed, [Locked]_loading PROVE SupersNamed'
    OBVIOUS
  <2>2. CASE UNCHANGED loading
    <3>1. program' = program /\ class' = class /\ stack' = stack
      BY <2>2 DEF loading
    <3>2. GotObjects(stack')
      BY <2>1, <3>1 DEF SupersNamed
    <3> QED BY <2>1, <3>1, <3>2, SameSupers
  <2>3. CASE \E n \in Names(program), loader \in Loader \cup {Boot} :
               Request(n, loader) \/ DefineClass(n, loader)
    <3>1. program' = program /\ \E n, loader : Request(n, loader) \/ DefineClass(n, loader)
      BY <2>3 DEF Request, DefineClass
    <3> QED BY <2>1, <3>1, LoadsNamed
  <2>4. CASE Ask \/ JavaDelegates \/ JavaDefines
    <3>1. program' = program
      BY <2>4 DEF Ask, JavaDelegates, JavaDefines
    <3> QED BY <2>1, <2>4, <3>1, LoadsNamed
  <2>5. CASE TakeSuper \/ TakeInterface \/ TakeField \/ TakeHandler \/ TakeType
    BY <2>1, <2>5, TakesNamed
  <2>6. CASE TakeForArray \/ RegisterArray
    BY <2>1, <2>6, ArraysNamedAbove
  <2>7. CASE \/ MethodResolved \/ Resolved \/ CreateObject \/ Sweep \/ Unwind
             \/ JavaReturns \/ JavaFails
    BY <2>1, <2>7, OthersNamed
  <2> QED BY <2>1, <2>2, <2>3, <2>4, <2>5, <2>6, <2>7 DEF Locked, Link
<1>3. [Next]_vars /\ Alone' => Alone /\ [Locked]_loading
  BY Loading
<1>4. (Alone => LinkingInv) /\ (Alone => SupersNamed) /\ [Next]_vars => (Alone => SupersNamed)'
  BY <1>2, <1>3
<1> QED BY <1>1, <1>4, LinkingCorrect, PTL DEF Spec

-----------------------------------------------------------------------------
(* The chain of super classes.                                             *)

\* Chain is computed by a function of how many classes are left and of a class.
Climbs(up, t, m) ==
  up = [n \in 0 .. m |->
          [d \in DOMAIN t \cup {None} |->
             IF d = None \/ n = 0 THEN <<>> ELSE <<d>> \o up[n - 1][t[d].super]]]

\* A table whose super classes are in it.
Closed(t) ==
  /\ IsFiniteSet(DOMAIN t) /\ None \notin DOMAIN t
  /\ \A d \in DOMAIN t : t[d].super \in DOMAIN t \cup {None}

\* There is such a function.
LEMMA ClimbsExists ==
  ASSUME NEW t, NEW n \in Nat
  PROVE  \E up : Climbs(up, t, n)
<1> SUFFICES ASSUME ~ \E up : Climbs(up, t, n) PROVE FALSE
  OBVIOUS
<1> DEFINE T == {m \in Nat : ~ \E up : Climbs(up, t, m)}
           D == DOMAIN t \cup {None}
           Above(u, k) == [d \in D |-> IF d = None \/ k = 0 THEN <<>> ELSE <<d>> \o u[t[d].super]]
<1>1. n \in T /\ T \in SUBSET Nat
  OBVIOUS
<1>2. PICK m \in T : \A k \in T : m <= k
  BY <1>1, LeastNat
<1>3. m \in Nat /\ ~ \E up : Climbs(up, t, m)
  OBVIOUS
<1>4. \A u : Climbs(u, t, m) <=> u = [k \in 0 .. m |-> Above(u[k - 1], k)]
  BY DEF Climbs
<1> HIDE DEF T
<1>5. CASE m = 0
  <2>1. PICK z : z = [d \in D |-> <<>>]
    OBVIOUS
  <2>2. \A u : Above(u, 0) = z
    BY <2>1
  <2> HIDE DEF Above, D
  <2>3. PICK g : g = [k \in 0 .. 0 |-> z]
    OBVIOUS
  <2>4. g = [k \in 0 .. 0 |-> Above(g[k - 1], k)]
    <3>1. \A k \in 0 .. 0 : k = 0
      OBVIOUS
    <3> QED BY <2>2, <2>3, <3>1
  <2> QED BY <1>3, <1>4, <1>5, <2>4
<1>6. CASE m # 0
  <2>1. m - 1 \in Nat /\ ~(m <= m - 1)
    BY <1>3, <1>6
  <2>2. PICK f : Climbs(f, t, m - 1)
    BY <1>2, <2>1 DEF T
  <2>3. f = [k \in 0 .. m - 1 |-> Above(f[k - 1], k)]
    BY <2>2 DEF Climbs
  <2> HIDE DEF Above, D
  <2>4. PICK g : g = [k \in 0 .. m |-> IF k = m THEN Above(f[m - 1], m) ELSE f[k]]
    OBVIOUS
  <2>5. ASSUME NEW k \in 0 .. m PROVE g[k] = Above(g[k - 1], k)
    <3>1. CASE k = m
      <4>1. m - 1 \in 0 .. m /\ m - 1 # m
        BY <1>3, <1>6
      <4> QED BY <2>4, <3>1, <4>1
    <3>2. CASE k # m /\ k # 0
      <4>1. k \in 0 .. m - 1 /\ k - 1 \in 0 .. m /\ k - 1 # m
        BY <1>3, <3>2
      <4> QED BY <2>3, <2>4, <3>2, <4>1
    <3>3. CASE k = 0
      <4>1. 0 \in 0 .. m - 1 /\ 0 # m
        BY <1>3, <1>6
      <4>2. g[0] = Above(f[0 - 1], 0)
        BY <2>3, <2>4, <3>3, <4>1
      <4>3. \A u, v : Above(u, 0) = Above(v, 0)
        BY DEF Above
      <4> QED BY <3>3, <4>2, <4>3
    <3> QED BY <3>1, <3>2, <3>3
  <2>6. g = [k \in 0 .. m |-> g[k]]
    BY <2>4
  <2>7. g = [k \in 0 .. m |-> Above(g[k - 1], k)]
    BY <2>5, <2>6
  <2> QED BY <1>3, <1>4, <2>7
<1> QED BY <1>5, <1>6

\* What it yields with so many classes left: a class, after each class its super
\* class, and no class only after one that has none.
Climbed(s, t, d, left) ==
  /\ s \in Seq(DOMAIN t) /\ Len(s) <= left
  /\ IF d = None \/ left = 0 THEN s = <<>> ELSE s # <<>> /\ s[1] = d
  /\ \A i \in 1 .. Len(s) - 1 : s[i + 1] = t[s[i]].super
  /\ s # <<>> /\ Len(s) < left => t[s[Len(s)]].super = None

\* One class more.
LEMMA ClimbsOne ==
  ASSUME NEW t, NEW d \in DOMAIN t, d # None, NEW left \in Nat, NEW r,
         Climbed(r, t, t[d].super, left)
  PROVE  Climbed(<<d>> \o r, t, d, left + 1)
<1>1. /\ r \in Seq(DOMAIN t) /\ Len(r) <= left /\ Len(r) \in Nat
      /\ IF t[d].super = None \/ left = 0 THEN r = <<>> ELSE r # <<>> /\ r[1] = t[d].super
      /\ \A i \in 1 .. Len(r) - 1 : r[i + 1] = t[r[i]].super
      /\ r # <<>> /\ Len(r) < left => t[r[Len(r)]].super = None
  BY DEF Climbed
<1>2. PICK s : s = <<d>> \o r
  OBVIOUS
<1>3. /\ s \in Seq(DOMAIN t) /\ Len(s) = Len(r) + 1 /\ Len(r) \in Nat /\ s[1] = d
      /\ \A i \in 1 .. Len(r) : s[i + 1] = r[i]
  BY <1>1, <1>2
<1>4. ASSUME NEW i \in 1 .. Len(s) - 1 PROVE s[i + 1] = t[s[i]].super
  <2>1. i \in 1 .. Len(r)
    BY <1>3
  <2>2. CASE i = 1
    <3>1. r # <<>>
      BY <1>1, <2>1
    <3> QED BY <1>1, <1>3, <2>1, <2>2, <3>1
  <2>3. CASE i # 1
    <3>1. PICK j : j = i - 1
      OBVIOUS
    <3>2. j \in 1 .. Len(r) - 1 /\ i = j + 1 /\ j \in 1 .. Len(r)
      BY <1>3, <2>1, <2>3, <3>1
    <3>3. s[j + 1] = r[j] /\ s[i + 1] = r[i] /\ r[j + 1] = t[r[j]].super
      BY <1>1, <1>3, <2>1, <3>2
    <3> QED BY <3>2, <3>3
  <2> QED BY <2>2, <2>3
<1>5. s # <<>> /\ Len(s) <= left + 1
  BY <1>1, <1>3
<1>6. ASSUME Len(s) < left + 1 PROVE t[s[Len(s)]].super = None
  <2>1. Len(r) < left
    BY <1>3, <1>6
  <2>2. CASE r = <<>>
    <3>1. Len(s) = 1
      BY <1>2, <2>2
    <3> QED BY <1>1, <1>3, <2>1, <2>2, <3>1
  <2>3. CASE r # <<>>
    <3>1. Len(r) \in 1 .. Len(r)
      BY <1>1, <2>3
    <3>2. s[Len(s)] = r[Len(r)]
      BY <1>3, <3>1
    <3> QED BY <1>1, <2>1, <2>3, <3>2
  <2> QED BY <2>2, <2>3
<1>7. ~(d = None \/ left + 1 = 0)
  OBVIOUS
<1> QED BY <1>2, <1>3, <1>4, <1>5, <1>6, <1>7 DEF Climbed

\* The chain of a class is such a sequence.
LEMMA ChainIs ==
  ASSUME NEW t, Closed(t), NEW c \in DOMAIN t
  PROVE  Climbed(Chain(t, c), t, c, Cardinality(DOMAIN t)) /\ Cardinality(DOMAIN t) \in Nat \ {0}
<1> DEFINE D == DOMAIN t \cup {None}
<1>1. PICK n : n = Cardinality(DOMAIN t)
  OBVIOUS
<1>2. n \in Nat /\ n # 0
  BY <1>1, FS_CardinalityType, FS_EmptySet DEF Closed
<1>3. PICK up : up = CHOOSE u : Climbs(u, t, n)
  OBVIOUS
<1>4. Climbs(up, t, n)
  BY <1>2, <1>3, ClimbsExists
<1>5. Chain(t, c) = up[n][c]
  BY <1>1, <1>3, Zenon DEF Chain, Climbs
<1>6. \A k \in 0 .. n, d \in D :
        up[k][d] = IF d = None \/ k = 0 THEN <<>> ELSE <<d>> \o up[k - 1][t[d].super]
  <2> SUFFICES ASSUME NEW k \in 0 .. n, NEW d \in D
               PROVE  up[k][d] = IF d = None \/ k = 0 THEN <<>>
                                 ELSE <<d>> \o up[k - 1][t[d].super]
    OBVIOUS
  <2>1. up[k] = [e \in D |-> IF e = None \/ k = 0 THEN <<>>
                              ELSE <<e>> \o up[k - 1][t[e].super]]
    BY <1>4, Zenon DEF Climbs
  <2> QED BY <2>1, Zenon
<1>7. \A d \in DOMAIN t : t[d].super \in D
  BY DEF Closed
<1>8. \A d : \A k \in Nat : d = None \/ k = 0 => Climbed(<<>>, t, d, k)
  BY DEF Climbed
<1> HIDE DEF D
<1>9. \A k \in 0 .. n : \A d \in D : Climbed(up[k][d], t, d, k)
  <2> SUFFICES ASSUME NEW k0 \in 0 .. n, ~ \A d \in D : Climbed(up[k0][d], t, d, k0) PROVE FALSE
    OBVIOUS
  <2> DEFINE T == {k \in 0 .. n : ~ \A d \in D : Climbed(up[k][d], t, d, k)}
  <2>1. k0 \in T /\ T \in SUBSET Nat
    OBVIOUS
  <2>2. PICK k \in T : \A j \in T : k <= j
    BY <2>1, LeastNat
  <2>3. k \in 0 .. n /\ k \in Nat /\ ~ \A d \in D : Climbed(up[k][d], t, d, k)
    OBVIOUS
  <2>4. PICK d \in D : ~Climbed(up[k][d], t, d, k)
    BY <2>3
  <2>5. d # None /\ k # 0 /\ up[k][d] = <<d>> \o up[k - 1][t[d].super]
    BY <1>6, <1>8, <2>3, <2>4
  <2>6. PICK l \in Nat : l = k - 1 /\ l \in 0 .. n /\ ~(k <= l) /\ l + 1 = k
    <3>1. k - 1 \in 0 .. n /\ ~(k <= k - 1) /\ (k - 1) + 1 = k /\ k - 1 \in Nat
      BY <1>2, <2>3, <2>5
    <3> QED BY <3>1
  <2>7. d \in DOMAIN t
    BY <2>5 DEF D
  <2>8. Climbed(up[l][t[d].super], t, t[d].super, l)
    BY <1>7, <2>2, <2>6, <2>7
  <2>9. Climbed(<<d>> \o up[l][t[d].super], t, d, l + 1)
    BY <2>5, <2>6, <2>7, <2>8, ClimbsOne
  <2> QED BY <2>4, <2>5, <2>6, <2>9
<1>10. c \in D /\ n \in 0 .. n
  BY <1>2 DEF D
<1> QED BY <1>1, <1>2, <1>5, <1>9, <1>10

\* The function that lookup_method is computed by.
Finds(found, t, signature, m) ==
  found = [n \in 0 .. m |->
             [d \in DOMAIN t |->
                IF n = 0 THEN {}
                ELSE IF signature \in t[d].declared THEN {d}
                ELSE LET above == IF t[d].super = None THEN {} ELSE found[n - 1][t[d].super]
                     IN IF above # {} THEN above
                        ELSE UNION {found[n - 1][i] : i \in t[d].interfaces}]]

\* It exists as well.
LEMMA FindsExists ==
  ASSUME NEW t, NEW signature, NEW n \in Nat
  PROVE  \E found : Finds(found, t, signature, n)
<1> SUFFICES ASSUME ~ \E found : Finds(found, t, signature, n) PROVE FALSE
  OBVIOUS
<1> DEFINE T == {m \in Nat : ~ \E found : Finds(found, t, signature, m)}
           Lookup(u, k) ==
             [d \in DOMAIN t |->
                IF k = 0 THEN {}
                ELSE IF signature \in t[d].declared THEN {d}
                ELSE LET above == IF t[d].super = None THEN {} ELSE u[t[d].super]
                     IN IF above # {} THEN above
                        ELSE UNION {u[i] : i \in t[d].interfaces}]
<1>1. n \in T /\ T \in SUBSET Nat
  OBVIOUS
<1>2. PICK m \in T : \A k \in T : m <= k
  BY <1>1, LeastNat
<1>3. m \in Nat /\ ~ \E found : Finds(found, t, signature, m)
  OBVIOUS
<1>4. \A u : Finds(u, t, signature, m) <=> u = [k \in 0 .. m |-> Lookup(u[k - 1], k)]
  BY Zenon DEF Finds
<1> HIDE DEF T
<1>5. \A u, v : Lookup(u, 0) = Lookup(v, 0)
  BY Zenon
<1>6. CASE m = 0
  <2> HIDE DEF Lookup
  <2>1. PICK z : z = Lookup({}, 0)
    OBVIOUS
  <2>2. \A u : Lookup(u, 0) = z
    BY <1>5, <2>1
  <2>3. PICK g : g = [k \in 0 .. 0 |-> z]
    OBVIOUS
  <2>4. g = [k \in 0 .. 0 |-> Lookup(g[k - 1], k)]
    <3>1. \A k \in 0 .. 0 : k = 0
      OBVIOUS
    <3> QED BY <2>2, <2>3, <3>1
  <2> QED BY <1>3, <1>4, <1>6, <2>4
<1>7. CASE m # 0
  <2>1. m - 1 \in Nat /\ ~(m <= m - 1)
    BY <1>3, <1>7
  <2>2. PICK f : Finds(f, t, signature, m - 1)
    BY <1>2, <2>1 DEF T
  <2>3. f = [k \in 0 .. m - 1 |-> Lookup(f[k - 1], k)]
    BY <2>2, Zenon DEF Finds
  <2> HIDE DEF Lookup
  <2>4. PICK g : g = [k \in 0 .. m |-> IF k = m THEN Lookup(f[m - 1], m) ELSE f[k]]
    OBVIOUS
  <2>5. ASSUME NEW k \in 0 .. m PROVE g[k] = Lookup(g[k - 1], k)
    <3>1. CASE k = m
      <4>1. m - 1 \in 0 .. m /\ m - 1 # m
        BY <1>3, <1>7
      <4> QED BY <2>4, <3>1, <4>1
    <3>2. CASE k # m /\ k # 0
      <4>1. k \in 0 .. m - 1 /\ k - 1 \in 0 .. m /\ k - 1 # m
        BY <1>3, <3>2
      <4> QED BY <2>3, <2>4, <3>2, <4>1
    <3>3. CASE k = 0
      <4>1. 0 \in 0 .. m - 1 /\ 0 # m
        BY <1>3, <1>7
      <4>2. g[0] = Lookup(f[0 - 1], 0)
        BY <2>3, <2>4, <3>3, <4>1
      <4> QED BY <1>5, <3>3, <4>2
    <3> QED BY <3>1, <3>2, <3>3
  <2>6. g = [k \in 0 .. m |-> g[k]]
    BY <2>4
  <2>7. g = [k \in 0 .. m |-> Lookup(g[k - 1], k)]
    BY <2>5, <2>6
  <2> QED BY <1>3, <1>4, <2>7
<1> QED BY <1>6, <1>7

\* What lookup_method finds declares the method.
LEMMA LookupDeclares ==
  ASSUME NEW t, Closed(t), \A e \in DOMAIN t : t[e].interfaces \subseteq DOMAIN t,
         NEW c \in DOMAIN t, NEW signature, NEW d \in lookup_method(t, c, signature)
  PROVE  d \in DOMAIN t /\ signature \in t[d].declared
<1>1. PICK n : n = Cardinality(DOMAIN t)
  OBVIOUS
<1>2. n \in Nat
  BY <1>1, FS_CardinalityType DEF Closed
<1>3. PICK found : found = CHOOSE u : Finds(u, t, signature, n)
  OBVIOUS
<1>4. Finds(found, t, signature, n)
  BY <1>2, <1>3, FindsExists
<1>5. lookup_method(t, c, signature) = found[n][c]
  BY <1>1, <1>3, Zenon DEF lookup_method, Finds
<1>6. ASSUME NEW k \in 0 .. n, NEW x \in DOMAIN t
      PROVE  found[k][x] =
               IF k = 0 THEN {}
               ELSE IF signature \in t[x].declared THEN {x}
               ELSE LET above == IF t[x].super = None THEN {} ELSE found[k - 1][t[x].super]
                    IN IF above # {} THEN above ELSE UNION {found[k - 1][i] : i \in t[x].interfaces}
  <2>1. found[k] = [e \in DOMAIN t |->
                      IF k = 0 THEN {}
                      ELSE IF signature \in t[e].declared THEN {e}
                      ELSE LET above == IF t[e].super = None THEN {} ELSE found[k - 1][t[e].super]
                           IN IF above # {} THEN above
                              ELSE UNION {found[k - 1][i] : i \in t[e].interfaces}]
    BY <1>4, Zenon DEF Finds
  <2> QED BY <2>1, Zenon
<1> DEFINE Declares(e) == e \in DOMAIN t /\ signature \in t[e].declared
           T == {k \in 0 .. n : \E x \in DOMAIN t : \E e \in found[k][x] : ~Declares(e)}
<1>7. T = {}
  <2> SUFFICES ASSUME T # {} PROVE FALSE
    OBVIOUS
  <2>1. T \in SUBSET Nat
    OBVIOUS
  <2>2. PICK k \in T : \A j \in T : k <= j
    BY <2>1, LeastNat
  <2>3. PICK x, e : x \in DOMAIN t /\ e \in found[k][x] /\ k \in 0 .. n /\ ~Declares(e)
    BY <2>2
  <2>4. k # 0
    BY <1>6, <2>3
  <2>5. k - 1 \in 0 .. n /\ ~(k <= k - 1)
    BY <1>2, <2>3, <2>4
  <2>6. \A y \in DOMAIN t : \A f \in found[k - 1][y] : Declares(f)
    BY <2>2, <2>5
  <2>7. signature \notin t[x].declared
    <3>1. SUFFICES ASSUME signature \in t[x].declared PROVE FALSE
      OBVIOUS
    <3>2. found[k][x] = {x}
      BY <1>6, <2>3, <2>4, <3>1, Zenon
    <3> QED BY <2>3, <3>1, <3>2
  <2>8. PICK above : above = IF t[x].super = None THEN {} ELSE found[k - 1][t[x].super]
    OBVIOUS
  <2>9. e \in above \/ e \in UNION {found[k - 1][i] : i \in t[x].interfaces}
    <3>1. found[k][x] = IF above # {} THEN above
                        ELSE UNION {found[k - 1][i] : i \in t[x].interfaces}
      BY <1>6, <2>3, <2>4, <2>7, <2>8, Zenon
    <3> QED BY <2>3, <3>1, Zenon
  <2>10. \/ t[x].super # None /\ e \in found[k - 1][t[x].super]
         \/ \E i \in t[x].interfaces : e \in found[k - 1][i]
    BY <2>8, <2>9
  <2>11. /\ t[x].super # None => t[x].super \in DOMAIN t
         /\ t[x].interfaces \subseteq DOMAIN t
    BY <2>3 DEF Closed
  <2> QED BY <2>3, <2>6, <2>10, <2>11, Zenon
<1>8. n \in 0 .. n
  BY <1>2
<1> QED BY <1>5, <1>7, <1>8

\* A sequence of classes one of which declares the method yields one that does.
LEMMA FirstIs ==
  ASSUME NEW t, NEW chain, Len(chain) \in Nat, NEW signature, NEW j \in 1 .. Len(chain),
         signature \in t[chain[j]].declared
  PROVE  \E k \in 1 .. Len(chain) :
           FirstDeclaring(t, chain, signature) = chain[k] /\ signature \in t[chain[k]].declared
<1> DEFINE I == {i \in 1 .. Len(chain) : signature \in t[chain[i]].declared}
<1>1. j \in I /\ I \in SUBSET Nat
  OBVIOUS
<1>2. \E k \in I : \A i \in I : k <= i
  BY <1>1, LeastNat
<1>3. PICK k : k = CHOOSE i \in I : \A l \in I : i <= l
  OBVIOUS
<1>4. k \in I
  BY <1>2, <1>3
<1>5. FirstDeclaring(t, chain, signature) = chain[k]
  BY <1>1, <1>3, Zenon DEF FirstDeclaring
<1> QED BY <1>4, <1>5

\* Classes each of which is the super class of the one before.
Climbing(s) ==
  s \in Seq(DOMAIN class) /\ \A i \in 1 .. Len(s) - 1 : s[i + 1] = class[s[i]].super

\* Where super classes end, no class comes twice among them.
LEMMA NoneTwice ==
  ASSUME SupersEnd, Table, SupersNamed, Closed(class), NEW s, Climbing(s),
         NEW b \in 1 .. Len(s), NEW j \in 1 .. Len(s), b < j
  PROVE  s[b] # s[j]
<1>1. SUFFICES ASSUME s[b] = s[j] PROVE FALSE
  OBVIOUS
<1>2. /\ Len(s) \in Nat /\ j \in Nat /\ b \in Nat /\ \A i \in 1 .. Len(s) : s[i] \in DOMAIN class
      /\ \A i \in 1 .. Len(s) - 1 : s[i + 1] = class[s[i]].super
  BY DEF Climbing
<1> DEFINE S == {s[i][2] : i \in b .. j - 1}
<1>3. b \in b .. j - 1 /\ b .. j - 1 \subseteq 1 .. Len(s) - 1 /\ b .. j - 1 \subseteq 1 .. Len(s)
  BY <1>2
<1>4. S \in SUBSET Names(program) /\ S # {} /\ s[b][2] \in S
  <2>1. \A i \in b .. j - 1 : s[i] \in Id
    BY <1>2, <1>3 DEF Table
  <2>2. \A i \in b .. j - 1 : s[i][2] \in Names(program)
    BY <2>1 DEF Id
  <2> QED BY <1>3, <2>2
<1>5. PICK n \in S : SuperName(program, n) \notin S
  BY <1>4 DEF SupersEnd, Table
<1>6. PICK i \in b .. j - 1 : n = s[i][2]
  OBVIOUS
<1>7. i \in 1 .. Len(s) - 1 /\ i \in 1 .. Len(s) /\ i + 1 \in 1 .. Len(s) /\ i \in Nat
  BY <1>2, <1>3
<1>8. s[i] \in DOMAIN class /\ s[i + 1] \in DOMAIN class /\ s[i + 1] = class[s[i]].super
  BY <1>2, <1>7
<1>9. class[s[i]].super # None
  BY <1>8 DEF Closed
<1>10. s[i + 1][2] = SuperName(program, n)
  BY <1>6, <1>8, <1>9 DEF SupersNamed, SuperNamed
<1>11. s[i + 1][2] \in S
  <2>1. CASE i + 1 = j
    BY <1>1, <1>4, <2>1
  <2>2. CASE i + 1 # j
    <3>1. i + 1 \in b .. j - 1
      BY <1>2, <1>7, <2>2
    <3> QED BY <3>1
  <2> QED BY <2>1, <2>2
<1> QED BY <1>5, <1>10, <1>11

\* The table of classes is closed.
LEMMA TableClosed ==
  ASSUME Table, SupersNamed
  PROVE  Closed(class)
<1>1. /\ DOMAIN class \subseteq Id /\ program \in Programs
      /\ \A d \in DOMAIN class : class[d].super \in DOMAIN class \cup {None}
  BY DEF Table, ClassOK
<1> QED BY <1>1, NamesAre DEF Closed, SupersNamed

-----------------------------------------------------------------------------
(* Sums.                                                                   *)

\* g sums the weights w over any set of the first n numbers.
Sums(g, w, n) ==
  /\ g \in [SUBSET (1 .. n) -> Nat] /\ g[{}] = 0
  /\ \A S \in SUBSET (1 .. n) : \A x \in S : g[S] = g[S \ {x}] + w[x]

\* There is such a sum.
LEMMA SumsExist ==
  ASSUME NEW n \in Nat, NEW w, \A i \in 1 .. n : w[i] \in Nat
  PROVE  \E g : Sums(g, w, n)
<1> SUFFICES ASSUME ~ \E g : Sums(g, w, n) PROVE FALSE
  OBVIOUS
<1> DEFINE T == {m \in 0 .. n : ~ \E g : Sums(g, w, m)}
<1>1. n \in T /\ T \in SUBSET Nat
  OBVIOUS
<1>2. PICK m \in T : \A k \in T : m <= k
  BY <1>1, LeastNat
<1>3. m \in 0 .. n /\ ~ \E g : Sums(g, w, m)
  OBVIOUS
<1>4. CASE m = 0
  <2>1. PICK g : g = [S \in SUBSET (1 .. 0) |-> 0]
    OBVIOUS
  <2>2. 1 .. 0 = {}
    OBVIOUS
  <2>3. Sums(g, w, 0)
    BY <2>1, <2>2 DEF Sums
  <2> QED BY <1>3, <1>4, <2>3
<1>5. CASE m # 0
  <2>1. PICK k \in Nat : m = k + 1 /\ k \in 0 .. n /\ ~(m <= k)
    <3>1. m - 1 \in Nat /\ m = (m - 1) + 1 /\ m - 1 \in 0 .. n /\ ~(m <= m - 1)
      BY <1>3, <1>5
    <3> QED BY <3>1
  <2>2. PICK f : Sums(f, w, k)
    BY <1>2, <2>1
  <2>3. /\ 1 .. m = (1 .. k) \cup {m} /\ m \notin 1 .. k /\ w[m] \in Nat
        /\ \A i \in 1 .. k : w[i] \in Nat
    BY <1>3, <2>1
  <2>4. PICK g : g = [S \in SUBSET (1 .. m) |->
                        IF m \in S THEN f[S \ {m}] + w[m] ELSE f[S]]
    OBVIOUS
  <2>5. PICK K, M : K = 1 .. k /\ M = 1 .. m
    OBVIOUS
  <2>6. /\ f \in [SUBSET K -> Nat] /\ f[{}] = 0
        /\ \A S \in SUBSET K : \A x \in S : f[S] = f[S \ {x}] + w[x]
    BY <2>2, <2>5 DEF Sums
  <2>7. /\ g = [S \in SUBSET M |-> IF m \in S THEN f[S \ {m}] + w[m] ELSE f[S]]
        /\ M = K \cup {m} /\ m \notin K /\ w[m] \in Nat /\ \A i \in K : w[i] \in Nat
    BY <2>3, <2>4, <2>5
  <2>8. \A S \in SUBSET M : S \ {m} \in SUBSET K /\ (m \notin S => S \in SUBSET K)
    BY <2>7
  <2>9. g \in [SUBSET M -> Nat]
    <3>1. \A S \in SUBSET M : (IF m \in S THEN f[S \ {m}] + w[m] ELSE f[S]) \in Nat
      BY <2>6, <2>7, <2>8
    <3> QED BY <2>7, <3>1
  <2>10. g[{}] = 0
    BY <2>6, <2>7
  <2>11. ASSUME NEW S \in SUBSET M, NEW x \in S PROVE g[S] = g[S \ {x}] + w[x]
    <3>1. S \ {x} \in SUBSET M
      OBVIOUS
    <3>2. CASE x = m
      BY <2>7, <2>8, <3>1, <3>2
    <3>3. CASE x # m /\ m \notin S
      <4>1. S \in SUBSET K /\ m \notin S \ {x}
        BY <2>8, <3>3
      <4> QED BY <2>6, <2>7, <3>1, <3>3, <4>1
    <3>4. CASE x # m /\ m \in S
      <4>1. PICK R, P, Q : R = S \ {m} /\ P = S \ {x} /\ Q = R \ {x}
        OBVIOUS
      <4>2. R \in SUBSET K /\ x \in R /\ P \ {m} = Q /\ m \in P /\ Q \in SUBSET K /\ x \in K
        BY <2>7, <2>8, <3>4, <4>1
      <4>3. g[S] = f[R] + w[m] /\ g[P] = f[Q] + w[m]
        BY <2>7, <3>1, <3>4, <4>1, <4>2
      <4>4. f[R] = f[Q] + w[x] /\ f[Q] \in Nat /\ w[x] \in Nat /\ w[m] \in Nat
        BY <2>6, <2>7, <4>1, <4>2
      <4>5. (f[Q] + w[x]) + w[m] = (f[Q] + w[m]) + w[x]
        BY <4>4
      <4> QED BY <4>1, <4>3, <4>4, <4>5
    <3> QED BY <3>2, <3>3, <3>4
  <2>12. Sums(g, w, m)
    BY <2>5, <2>9, <2>10, <2>11 DEF Sums
  <2> QED BY <1>3, <2>12
<1> QED BY <1>4, <1>5

\* A function that takes away any element of a set, one at a time, yields this sum.
Iterates(it, w, S) ==
  /\ it[{}] = 0
  /\ \A R \in SUBSET S : R # {} =>
       LET x == CHOOSE x \in R : TRUE
       IN it[R] = it[R \ {x}] + w[x] \/ (w[x] = 0 /\ it[R] = it[R \ {x}])

\* It does, whatever element CHOOSE takes.
LEMMA SumIs ==
  ASSUME NEW n \in Nat, NEW w, NEW g, Sums(g, w, n),
         NEW S \in SUBSET (1 .. n), NEW it, Iterates(it, w, S)
  PROVE  it[S] = g[S]
<1> SUFFICES ASSUME it[S] # g[S] PROVE FALSE
  OBVIOUS
<1> DEFINE T == {k \in Nat : \E R \in SUBSET S : Cardinality(R) = k /\ it[R] # g[R]}
<1>1. ASSUME NEW R \in SUBSET S PROVE IsFiniteSet(R) /\ Cardinality(R) \in Nat
  <2>1. IsFiniteSet(1 .. n)
    BY FS_Interval
  <2>2. IsFiniteSet(R)
    BY <2>1, FS_Subset
  <2> QED BY <2>2, FS_CardinalityType
<1>2. Cardinality(S) \in T /\ T \in SUBSET Nat
  BY <1>1
<1>3. PICK k \in T : \A j \in T : k <= j
  BY <1>2, LeastNat
<1>4. PICK R \in SUBSET S : Cardinality(R) = k /\ it[R] # g[R]
  OBVIOUS
<1>5. R # {}
  BY <1>4 DEF Iterates, Sums
<1>6. PICK x \in R : x = CHOOSE y \in R : TRUE
  BY <1>5
<1>7. /\ it[R] = it[R \ {x}] + w[x] \/ (w[x] = 0 /\ it[R] = it[R \ {x}])
      /\ g[R] = g[R \ {x}] + w[x] /\ g[R \ {x}] \in Nat
  <2>1. it[R] = it[R \ {x}] + w[x] \/ (w[x] = 0 /\ it[R] = it[R \ {x}])
    BY <1>5, <1>6, Zenon DEF Iterates
  <2> QED BY <1>6, <2>1 DEF Sums
<1>8. Cardinality(R \ {x}) = k - 1 /\ k - 1 \in Nat
  <2>1. IsFiniteSet(R) /\ IsFiniteSet(R \ {x})
    BY <1>1, <1>4
  <2>2. Cardinality(R \ {x}) = Cardinality(R) - 1
    BY <2>1, FS_RemoveElement
  <2>3. Cardinality(R \ {x}) \in Nat
    BY <2>1, FS_CardinalityType
  <2> QED BY <1>4, <2>2, <2>3
<1>9. it[R \ {x}] # g[R \ {x}]
  BY <1>4, <1>7
<1>10. k - 1 \in T
  BY <1>8, <1>9
<1>11. k \in Nat
  OBVIOUS
<1> HIDE DEF T
<1> QED BY <1>3, <1>10, <1>11

-----------------------------------------------------------------------------
(* The sizes of objects.                                                   *)

FieldSize(f) == IF f.static THEN 0 ELSE TypeSize(f.type)

FieldSizes(f) == [i \in 1 .. Len(f.fields) |-> FieldSize(f.fields[i])]

\* The size of the first fields of a file.
SizeOfFirst(f, k) == (CHOOSE g : Sums(g, FieldSizes(f), Len(f.fields)))[1 .. k]

\* The function that OwnSize is computed by.
FieldsIterate(it, fields, S) ==
  it = [s \in SUBSET S |->
          IF s = {} THEN 0
          ELSE LET x == CHOOSE x \in s : TRUE
               IN IF fields[x].static THEN it[s \ {x}] ELSE it[s \ {x}] + TypeSize(fields[x].type)]

\* A sum over the first numbers.
LEMMA SumsUpto ==
  ASSUME NEW n \in Nat, NEW w, NEW g, Sums(g, w, n), \A i \in 1 .. n : w[i] \in Nat
  PROVE  /\ g[1 .. 0] = 0 /\ \A k \in 0 .. n : g[1 .. k] \in Nat
         /\ \A k \in 0 .. n : k + 1 <= n => g[1 .. k + 1] = g[1 .. k] + w[k + 1]
<1>1. 1 .. 0 = {}
  OBVIOUS
<1>2. \A k \in 0 .. n : 1 .. k \in SUBSET (1 .. n)
  OBVIOUS
<1>3. ASSUME NEW k \in 0 .. n, k + 1 <= n PROVE g[1 .. k + 1] = g[1 .. k] + w[k + 1]
  <2>1. k + 1 \in 0 .. n /\ k + 1 \in 1 .. k + 1 /\ (1 .. k + 1) \ {k + 1} = 1 .. k
    BY <1>3
  <2>2. PICK S, x : S = 1 .. k + 1 /\ x = k + 1
    OBVIOUS
  <2>3. S \in SUBSET (1 .. n) /\ x \in S /\ S \ {x} = 1 .. k
    BY <1>2, <2>1, <2>2
  <2>4. g[S] = g[S \ {x}] + w[x]
    BY <2>3 DEF Sums
  <2> QED BY <2>2, <2>3, <2>4
<1> QED BY <1>1, <1>2, <1>3 DEF Sums

\* The size of the fields of a class is computed in any order.
LEMMA OwnSizeIs ==
  ASSUME program \in Programs, NEW id, id[2] \in DOMAIN program.files
  PROVE  LET f == File(id)
         IN  /\ Len(f.fields) \in Nat /\ OwnSize(id) = SizeOfFirst(f, Len(f.fields))
             /\ SizeOfFirst(f, 0) = 0
             /\ \A k \in 0 .. Len(f.fields) : SizeOfFirst(f, k) \in Nat
             /\ \A k \in 0 .. Len(f.fields) : k + 1 <= Len(f.fields) =>
                  SizeOfFirst(f, k + 1) = SizeOfFirst(f, k) + FieldSize(f.fields[k + 1])
<1> DEFINE f == File(id)
           N == Names(program)
<1>1. f.fields \in Seq([type : N, static : BOOLEAN])
  BY FileIs
<1>2. PICK s, n, S, w : s = f.fields /\ n = Len(f.fields) /\ S = 1 .. n /\ w = FieldSizes(f)
  OBVIOUS
<1>3. n \in Nat /\ DOMAIN s = S /\ \A i \in S : s[i].static \in BOOLEAN
  <2>1. PICK U : U = [type : N, static : BOOLEAN]
    OBVIOUS
  <2>2. s \in Seq(U) /\ n = Len(s)
    BY <1>1, <1>2, <2>1
  <2>3. DOMAIN s = 1 .. n /\ n \in Nat /\ \A i \in 1 .. n : s[i] \in U
    BY <2>2
  <2>4. \A u \in U : u.static \in BOOLEAN
    BY <2>1
  <2> QED BY <1>2, <2>3, <2>4
<1>4. \A i \in S : w[i] = FieldSize(s[i]) /\ w[i] \in Nat
  BY <1>2, <1>3 DEF FieldSizes, FieldSize, TypeSize
<1>5. PICK g : g = CHOOSE h : Sums(h, w, n)
  OBVIOUS
<1>6. Sums(g, w, n)
  BY <1>2, <1>3, <1>4, <1>5, SumsExist
<1>7. \A k : SizeOfFirst(f, k) = g[1 .. k]
  BY <1>2, <1>5 DEF SizeOfFirst
<1> HIDE DEF f, N
<1>8. PICK it : it = CHOOSE h : FieldsIterate(h, s, S)
  OBVIOUS
<1>9. FieldsIterate(it, s, S)
  <2>1. PICK h : h = [R \in SUBSET S |-> g[R]]
    OBVIOUS
  <2>2. ASSUME NEW R \in SUBSET S, R # {}, NEW x, x = CHOOSE y \in R : TRUE
        PROVE  h[R] = IF s[x].static THEN h[R \ {x}] ELSE h[R \ {x}] + TypeSize(s[x].type)
    <3>1. x \in R /\ R \ {x} \in SUBSET S
      BY <2>2
    <3>2. g[R] = g[R \ {x}] + w[x] /\ g[R \ {x}] \in Nat
      BY <1>2, <1>6, <3>1 DEF Sums
    <3>3. w[x] = FieldSize(s[x])
      BY <1>4, <3>1
    <3>4. h[R] = g[R] /\ h[R \ {x}] = g[R \ {x}]
      BY <2>1, <3>1
    <3>5. h[R] = h[R \ {x}] + FieldSize(s[x]) /\ h[R \ {x}] \in Nat
      BY <3>2, <3>3, <3>4
    <3> QED BY <3>5 DEF FieldSize
  <2>3. ASSUME NEW R \in SUBSET S
        PROVE  h[R] = IF R = {} THEN 0
                      ELSE LET x == CHOOSE x \in R : TRUE
                           IN IF s[x].static THEN h[R \ {x}]
                              ELSE h[R \ {x}] + TypeSize(s[x].type)
    <3>1. CASE R = {}
      BY <1>6, <2>1, <3>1 DEF Sums
    <3>2. CASE R # {}
      <4>1. PICK x : x = CHOOSE y \in R : TRUE
        OBVIOUS
      <4>2. h[R] = IF s[x].static THEN h[R \ {x}] ELSE h[R \ {x}] + TypeSize(s[x].type)
        BY <2>2, <3>2, <4>1
      <4> QED BY <3>2, <4>1, <4>2, Zenon
    <3> QED BY <3>1, <3>2
  <2>4. h = [R \in SUBSET S |-> h[R]]
    BY <2>1
  <2>5. FieldsIterate(h, s, S)
    BY <2>3, <2>4, Zenon DEF FieldsIterate
  <2> QED BY <1>8, <2>5, Zenon
<1>10. Iterates(it, w, S)
  <2>1. ASSUME NEW R \in SUBSET S, R # {}, NEW x, x = CHOOSE y \in R : TRUE
        PROVE  it[R] = it[R \ {x}] + w[x] \/ (w[x] = 0 /\ it[R] = it[R \ {x}])
    <3>1. x \in R
      BY <2>1
    <3>2. it[R] = IF s[x].static THEN it[R \ {x}] ELSE it[R \ {x}] + TypeSize(s[x].type)
      BY <1>9, <2>1, Zenon DEF FieldsIterate
    <3>3. w[x] = FieldSize(s[x])
      BY <1>4, <3>1
    <3> QED BY <3>2, <3>3 DEF FieldSize
  <2>2. it[{}] = 0
    <3>1. {} \in SUBSET S
      OBVIOUS
    <3> QED BY <1>9, <3>1, Zenon DEF FieldsIterate
  <2>3. ASSUME NEW R \in SUBSET S, R # {}
        PROVE  LET x == CHOOSE x \in R : TRUE
               IN it[R] = it[R \ {x}] + w[x] \/ (w[x] = 0 /\ it[R] = it[R \ {x}])
    BY <2>1, <2>3
  <2> QED BY <2>2, <2>3 DEF Iterates
<1>11. OwnSize(id) = it[S]
  <2>1. OwnSize(id) = (CHOOSE h : FieldsIterate(h, File(id).fields, DOMAIN File(id).fields))
                        [DOMAIN File(id).fields]
    BY Zenon DEF OwnSize, FoldSeq, FoldFunction, FoldFunctionOnSet, MapThenFoldSet, FieldsIterate
  <2> QED BY <1>2, <1>3, <1>8, <2>1 DEF f
<1>12. it[S] = g[S]
  BY <1>2, <1>3, <1>6, <1>10, SumIs
<1>13. /\ g[1 .. 0] = 0 /\ \A k \in 0 .. n : g[1 .. k] \in Nat
       /\ \A k \in 0 .. n : k + 1 <= n => g[1 .. k + 1] = g[1 .. k] + w[k + 1]
  BY <1>2, <1>3, <1>4, <1>6, SumsUpto
<1>14. \A k \in 0 .. n : k + 1 <= n => w[k + 1] = FieldSize(s[k + 1])
  BY <1>2, <1>3, <1>4
<1> QED BY <1>2, <1>3, <1>7, <1>11, <1>12, <1>13, <1>14 DEF f

\* A class has all its fields and its super class.
Full(id) ==
  /\ Len(class[id].fields) = Len(File(id).fields)
  /\ File(id).super # None => class[id].super # None

OfFile(id) == class[id].kind \in {"class", "interface"}

\* The size of objects of a class that is not early: its fields so far, and those
\* of its super class, which has all of its own.
SizeOK(id) ==
  id \notin early =>
    /\ class[id].object_size
         = SizeOfFirst(File(id), Len(class[id].fields))
           + (IF class[id].super = None THEN 0 ELSE class[class[id].super].object_size)
    /\ class[id].super # None => HasItsSize(class[id].super)

SizesInv ==
  \A id \in DOMAIN class : OfFile(id) => SizeOK(id) /\ (class[id].resolved => Full(id))

\* The super class of a class of a file is one of a file.
LEMMA SupersOfFiles ==
  ASSUME SupersAreClasses, Table, SupersNamed, NEW id \in DOMAIN class, OfFile(id),
         class[id].super # None
  PROVE  class[id].super \in DOMAIN class /\ OfFile(class[id].super)
<1>1. /\ id[2] \in DOMAIN program.files /\ class[id].super \in DOMAIN class
      /\ class[id].kind \in {"class", "interface"}
  BY DEF Table, ClassOK, OfFile
<1>2. class[id].super[2] = program.files[id[2]].super
  BY <1>1 DEF SupersNamed, SuperNamed, SuperName
<1>3. class[id].super[2] \notin Array \cup Primitive
  BY <1>1, <1>2 DEF SupersAreClasses, Table
<1>4. ClassOK(class[class[id].super], class[id].super)
  BY <1>1 DEF Table
<1> QED BY <1>1, <1>3, <1>4 DEF ClassOK, OfFile

\* What HasItsSize asks for.
LEMMA HasItsSizeMeans ==
  ASSUME NEW id
  PROVE  HasItsSize(id) <=> id \notin early /\ Full(id)
BY DEF HasItsSize, Full

\* What the size of a class depends on.
Alike(c, d) ==
  c.kind = d.kind /\ c.super = d.super /\ c.fields = d.fields /\ c.object_size = d.object_size

\* A class whose own record is alike, and whose super class is, or is full and is.
LEMMA SizeStays ==
  ASSUME NEW id, SizeOK(id), program' = program, early \subseteq early',
         Alike(class'[id], class[id]),
         class[id].super # None /\ HasItsSize(class[id].super) =>
           /\ Alike(class'[class[id].super], class[class[id].super])
           /\ class[id].super \notin early'
  PROVE  SizeOK(id)'
<1>0. PICK s : s = class[id].super
  OBVIOUS
<1>1. File(id)' = File(id) /\ File(s)' = File(s)
  BY DEF File
<1>2. /\ class'[id].super = s /\ class'[id].fields = class[id].fields
      /\ class'[id].object_size = class[id].object_size
  BY <1>0 DEF Alike
<1>3. ASSUME s # None, HasItsSize(s)
      PROVE  HasItsSize(s)' /\ class'[s].object_size = class[s].object_size
  <2>1. /\ class'[s].super = class[s].super /\ class'[s].fields = class[s].fields
        /\ class'[s].object_size = class[s].object_size /\ s \notin early'
    BY <1>0, <1>3 DEF Alike
  <2> QED BY <1>1, <1>3, <2>1 DEF HasItsSize
<1>4. id \notin early' => id \notin early
  OBVIOUS
<1> QED BY <1>0, <1>1, <1>2, <1>3, <1>4 DEF SizeOK

\* Steps that enter classes, and leave those that are there alike.
LEMMA SizesAlike ==
  ASSUME SupersAreClasses, Table, Table', SupersNamed, SizesInv,
         program' = program, early' = early, DOMAIN class \subseteq DOMAIN class',
         \A id \in DOMAIN class : OfFile(id) => Alike(class'[id], class[id]),
         \A id \in DOMAIN class' : id \notin DOMAIN class =>
           Bare(class'[id]) \/ class'[id].kind \notin {"class", "interface"},
         \A id \in DOMAIN class :
           class'[id].kind \in {"class", "interface"} => OfFile(id),
         \A id \in DOMAIN class :
           OfFile(id) /\ class'[id].resolved => class[id].resolved \/ Full(id)
  PROVE  SizesInv'
<1>1. SUFFICES ASSUME NEW id \in DOMAIN class', OfFile(id)'
               PROVE  SizeOK(id)' /\ (class'[id].resolved => Full(id)')
  BY DEF SizesInv
<1>2. CASE id \in DOMAIN class
  <2>1. OfFile(id)
    BY <1>1, <1>2 DEF OfFile
  <2>2. SizeOK(id) /\ (class[id].resolved => Full(id)) /\ Alike(class'[id], class[id])
    BY <1>2, <2>1 DEF SizesInv
  <2>3. class[id].super # None => Alike(class'[class[id].super], class[class[id].super])
    BY <1>2, <2>1, SupersOfFiles
  <2>4. SizeOK(id)'
    BY <2>2, <2>3, SizeStays DEF HasItsSize
  <2>5. Full(id) => Full(id)'
    BY <2>2 DEF Full, Alike, File
  <2> QED BY <1>2, <2>1, <2>2, <2>4, <2>5
<1>3. CASE id \notin DOMAIN class
  <2>1. Bare(class'[id]) /\ class'[id].kind \in {"class", "interface"}
    BY <1>1, <1>3 DEF OfFile
  <2>2. /\ class'[id].super = None /\ class'[id].fields = <<>> /\ class'[id].object_size = 0
        /\ ~class'[id].resolved
    BY <2>1 DEF Bare
  <2>3. SizeOfFirst(File(id), 0) = 0
    <3>1. id[2] \in DOMAIN program.files /\ program \in Programs
      BY <1>1, <2>1 DEF Table, ClassOK
    <3> QED BY <3>1, OwnSizeIs
  <2>4. SizeOfFirst(File(id)', Len(class'[id].fields)) = 0
    <3>1. Len(class'[id].fields) = 0 /\ File(id)' = File(id)
      BY <2>2 DEF File
    <3> QED BY <2>3, <3>1
  <2> QED BY <2>2, <2>4 DEF SizeOK
<1> QED BY <1>2, <1>3

\* Steps that bring one class further, which is not full yet.
LEMMA SizesOne ==
  ASSUME SupersAreClasses, Table, SupersNamed, SizesInv, program' = program,
         DOMAIN class' = DOMAIN class, NEW x \in DOMAIN class, OfFile(x), ~Full(x),
         early' \in {early, early \cup {x}}, ~class'[x].resolved,
         \A id \in DOMAIN class : id # x => class'[id] = class[id],
         SizeOK(x)'
  PROVE  SizesInv'
<1>1. SUFFICES ASSUME NEW id \in DOMAIN class, OfFile(id)'
               PROVE  SizeOK(id)' /\ (class'[id].resolved => Full(id)')
  BY DEF SizesInv
<1>2. CASE id # x
  <2>1. class'[id] = class[id] /\ OfFile(id)
    BY <1>1, <1>2 DEF OfFile
  <2>2. SizeOK(id) /\ (class[id].resolved => Full(id)) /\ Alike(class'[id], class[id])
    BY <2>1 DEF SizesInv, Alike
  <2>3. ASSUME class[id].super # None, HasItsSize(class[id].super)
        PROVE  /\ Alike(class'[class[id].super], class[class[id].super])
               /\ class[id].super \notin early'
    <3>1. class[id].super \in DOMAIN class
      BY <2>1, <2>3, SupersOfFiles
    <3>2. class[id].super # x /\ class[id].super \notin early
      BY <2>3, HasItsSizeMeans
    <3> QED BY <3>1, <3>2 DEF Alike
  <2>4. SizeOK(id)'
    BY <2>2, <2>3, SizeStays
  <2>5. Full(id) => Full(id)'
    BY <2>1 DEF Full, File
  <2> QED BY <2>1, <2>2, <2>4, <2>5
<1> QED BY <1>1, <1>2

\* Steps that load classes.
LEMMA LoadsSized ==
  ASSUME SupersAreClasses, LinkingInv, LinkingInv', SupersNamed, SizesInv, program' = program,
         early' = early, NEW calls, EntersBare(calls)
  PROVE  SizesInv'
<1>1. Table /\ Table'
  BY DEF LinkingInv, Good
<1>2. CASE class' = class
  BY <1>1, <1>2, SizesAlike DEF Alike, OfFile
<1>3. CASE \E id, c : id \notin DOMAIN class /\ Register(id, c) /\ Bare(c)
  <2>1. PICK x, c : x \notin DOMAIN class /\ Register(x, c) /\ Bare(c)
    BY <1>3
  <2>2. /\ DOMAIN class' = DOMAIN class \cup {x} /\ class'[x] = c
        /\ \A d \in DOMAIN class : d # x => class'[d] = class[d]
    BY <2>1, Registers
  <2>3. \A d \in DOMAIN class : class'[d] = class[d] /\ Alike(class'[d], class[d])
    BY <2>1, <2>2 DEF Alike
  <2>4. \A d \in DOMAIN class' : d \notin DOMAIN class => Bare(class'[d])
    BY <2>1, <2>2
  <2> QED BY <1>1, <2>2, <2>3, <2>4, SizesAlike DEF OfFile
<1> QED BY <1>2, <1>3 DEF EntersBare

\* Steps that only give objects, declare a method, or change nothing.
LEMMA OthersSized ==
  ASSUME SupersAreClasses, LinkingInv, LinkingInv', SupersNamed, SizesInv,
         \/ MethodResolved \/ CreateObject \/ Sweep \/ Unwind \/ TakeForArray
         \/ JavaReturns \/ JavaFails \/ TakeInterface \/ TakeHandler \/ TakeType
  PROVE  SizesInv'
<1>1. /\ Table /\ Table' /\ \A d \in DOMAIN class : ClassOK(class[d], d)
      /\ \A d \in DOMAIN class : DOMAIN class[d] = Fields
  BY DEF LinkingInv, Good, Table, ClassOK
<1>2. program' = program /\ early' = early
  BY DEF MethodResolved, CreateObject, Sweep, Unwind, TakeForArray, JavaReturns, JavaFails,
         TakeInterface, TakeHandler, TakeType, Take
<1>3. {"super", "kind", "fields", "object_size", "resolved", "declared", "interfaces", "pool"}
        \subseteq Fields
  BY DEF Fields
<1>4. ASSUME DOMAIN class' = DOMAIN class,
             \A d \in DOMAIN class :
               Alike(class'[d], class[d]) /\ class'[d].resolved = class[d].resolved
      PROVE  SizesInv'
  <2>1. \A d \in DOMAIN class : class'[d].kind = class[d].kind
    BY <1>4 DEF Alike
  <2> QED BY <1>1, <1>2, <1>4, <2>1, SizesAlike DEF OfFile
<1>5. CASE Unwind \/ TakeForArray \/ JavaReturns \/ JavaFails
  <2>1. class' = class
    BY <1>5 DEF Unwind, TakeForArray, JavaReturns, JavaFails
  <2> QED BY <1>4, <2>1 DEF Alike
<1>6. CASE CreateObject \/ Sweep
  <2>1. /\ DOMAIN class' = DOMAIN class
        /\ \A d \in DOMAIN class : class'[d] = class[d] \/ class'[d] = WithObject(class[d])
    BY <1>6 DEF CreateObject, Sweep
  <2>2. ASSUME NEW d \in DOMAIN class
        PROVE  Alike(class'[d], class[d]) /\ class'[d].resolved = class[d].resolved
    <3>1. PICK c, w : c = class[d] /\ w = WithObject(c)
      OBVIOUS
    <3>2. /\ w.kind = c.kind /\ w.super = c.super /\ w.fields = c.fields
          /\ w.object_size = c.object_size /\ w.resolved = c.resolved
      BY <1>1, <3>1, ObjectsOnly
    <3>3. class'[d] = c \/ class'[d] = w
      BY <2>1, <3>1
    <3> QED BY <3>1, <3>2, <3>3 DEF Alike
  <2> QED BY <1>4, <2>1, <2>2
<1>7. CASE MethodResolved
  <2>1. PICK n : n = class[Top.id].declared \cup {Now.name}
    OBVIOUS
  <2>2. class' = [class EXCEPT ![Top.id].declared = n]
    BY <1>7, <2>1 DEF MethodResolved
  <2>3. ASSUME NEW d \in DOMAIN class
        PROVE  Alike(class'[d], class[d]) /\ class'[d].resolved = class[d].resolved
    BY <1>1, <1>3, <2>2 DEF Alike
  <2> QED BY <1>4, <2>2, <2>3
<1>8. CASE TakeInterface \/ TakeHandler \/ TakeType
  <2>1. PICK e : /\ class' = [class EXCEPT ![Top.id] = Pooled(e)] /\ Top.id \in DOMAIN class
                 /\ Alike(e, class[Top.id]) /\ e.resolved = class[Top.id].resolved
                 /\ DOMAIN e = Fields
    <3>0. Top.id \in DOMAIN class
      <4>1. stack # <<>> /\ Top.kind = "link"
        BY <1>8 DEF TakeInterface, TakeHandler, TakeType, Take, Running
      <4>2. PICK T, t, s : IsOpen(T, t, s)
        BY <4>1, Opened
      <4> QED BY <4>1, <4>2 DEF IsOpen, CallOK
    <3>1. PICK c : c = class[Top.id]
      OBVIOUS
    <3>2. DOMAIN c = Fields
      BY <1>1, <3>0, <3>1
    <3>3. CASE TakeInterface
      <4> DEFINE e == [c EXCEPT !.interfaces = @ \cup {ret}]
      <4>1. class' = [class EXCEPT ![Top.id] = Pooled(e)]
        BY <3>1, <3>3 DEF TakeInterface, Take
      <4>2. Alike(e, c) /\ e.resolved = c.resolved /\ DOMAIN e = Fields
        BY <1>3, <3>2 DEF Alike
      <4> HIDE DEF e
      <4> QED BY <3>0, <3>1, <4>1, <4>2
    <3>4. CASE TakeHandler \/ TakeType
      <4>1. class' = [class EXCEPT ![Top.id] = Pooled(c)]
        BY <3>1, <3>4 DEF TakeHandler, TakeType, Take
      <4> QED BY <3>0, <3>1, <3>2, <4>1 DEF Alike
    <3> QED BY <1>8, <3>3, <3>4
  <2>2. PICK p : p = Pooled(e)
    OBVIOUS
  <2>3. Alike(p, e) /\ p.resolved = e.resolved
    BY <1>3, <2>1, <2>2 DEF Alike, Pooled
  <2>4. Alike(p, class[Top.id]) /\ p.resolved = class[Top.id].resolved
    BY <2>1, <2>3 DEF Alike
  <2>5. ASSUME NEW d \in DOMAIN class
        PROVE  Alike(class'[d], class[d]) /\ class'[d].resolved = class[d].resolved
    <3>1. class'[d] = IF d = Top.id THEN p ELSE class[d]
      BY <2>1, <2>2
    <3>2. Alike(class[d], class[d])
      BY DEF Alike
    <3> QED BY <2>4, <3>1, <3>2
  <2> QED BY <1>4, <2>1, <2>5
<1> QED BY <1>5, <1>6, <1>7, <1>8

\* How far a class is at the steps of linking that its size depends on.
LEMMA LinkedUpto ==
  ASSUME program \in Programs, NEW t, CallOK(t), t.kind = "link", Progress(t.id, t.at)
  PROVE  LET f == File(t.id)
             c == class[t.id]
         IN  /\ Len(c.fields) \in 0 .. Len(f.fields)
             /\ StepOf(t).what = "super" =>
                  f.super # None /\ c.super = None /\ ~Full(t.id)
             /\ StepOf(t).what = "field" =>
                  /\ Len(c.fields) \in Nat /\ Len(c.fields) + 1 <= Len(f.fields)
                  /\ StepOf(t).name = f.fields[Len(c.fields) + 1].type /\ ~Full(t.id)
             /\ StepOf(t).what = "resolved" => Full(t.id)
<1> DEFINE f == File(t.id)
           c == class[t.id]
           L == LinkSteps(t.id)
<1>1. PICK s, n, m, k, last :
        /\ s = SuperSteps(f) /\ n = Len(f.interfaces) /\ m = Len(f.fields)
        /\ k = t.at /\ last = Len(L)
  OBVIOUS
<1>2. /\ Steps(t) = L /\ t.id[2] \in DOMAIN program.files /\ last \in Nat /\ k \in 1 .. last
      /\ LinkStep(f, t.id[2], k, last, StepOf(t)) /\ StepOf(t) = L[k]
  BY <1>1, StepIs DEF StepOf
<1>3. LinkShape(f, t.id[2], L)
  BY <1>2, LinkStepsAre
<1>4. n \in Nat /\ m \in Nat
  <2>1. /\ f.interfaces \in Seq(Names(program))
        /\ f.fields \in Seq([type : Names(program), static : BOOLEAN])
    BY <1>2, FileIs
  <2> HIDE DEF f
  <2> QED BY <1>1, <2>1
<1>5. s \in 0 .. 1 /\ (s = 0 <=> f.super = None)
  BY <1>1 DEF SuperSteps
<1>6. Come(f, L, c, k)
  BY <1>1 DEF Progress
<1> HIDE DEF f, c, L
<1>7. /\ c.super = None <=> (s = 0 \/ k = 1)
      /\ Len(c.fields) = Upto(k - 1 - s - n, 0, m)
  BY <1>1, <1>6 DEF Come
<1>8. last >= s + n + m + 2
  BY <1>1, <1>3 DEF LinkShape, MembersFrom
<1>9. Full(t.id) <=> Len(c.fields) = m /\ (f.super # None => c.super # None)
  BY <1>1 DEF Full, f, c
<1>9a. Len(c.fields) \in 0 .. m
  BY <1>2, <1>4, <1>5, <1>7 DEF Upto
<1>10. ASSUME StepOf(t).what = "super"
       PROVE  f.super # None /\ c.super = None /\ ~Full(t.id)
  <2>1. k = 1 /\ f.super # None
    BY <1>2, <1>10 DEF LinkStep
  <2> QED BY <1>7, <1>9, <2>1
<1>11. ASSUME StepOf(t).what = "field"
       PROVE  /\ Len(c.fields) \in Nat /\ Len(c.fields) + 1 <= m
              /\ StepOf(t).name = f.fields[Len(c.fields) + 1].type /\ ~Full(t.id)
  <2>1. k - s - n \in 1 .. m
    BY <1>1, <1>2, <1>11 DEF LinkStep
  <2>2. PICK j \in 1 .. m : j = k - s - n
    BY <2>1
  <2>3. k = s + n + j /\ Upto(k - 1 - s - n, 0, m) = j - 1
    BY <1>2, <1>4, <1>5, <2>2 DEF Upto
  <2>4. Len(c.fields) + 1 = j /\ Len(c.fields) \in Nat /\ Len(c.fields) # m
    BY <1>4, <1>7, <2>2, <2>3
  <2>5. L[s + n + j] = Step("field", f.fields[j].type)
    BY <1>1, <1>3, <2>2 DEF LinkShape
  <2>6. StepOf(t).name = f.fields[j].type
    BY <1>2, <2>3, <2>5 DEF Step
  <2>7. j <= m
    BY <1>4, <2>2
  <2> QED BY <1>9, <2>4, <2>6, <2>7
<1>12. ASSUME StepOf(t).what = "resolved" PROVE Full(t.id)
  <2>1. k = last - 1
    BY <1>2, <1>12 DEF LinkStep
  <2>2. k >= s + n + m + 1 /\ k \in Nat
    BY <1>2, <1>4, <1>5, <1>8, <2>1
  <2>3. Upto(k - 1 - s - n, 0, m) = m
    BY <1>4, <1>5, <2>2 DEF Upto
  <2>4. s = 1 => k # 1
    BY <1>4, <2>2
  <2>5. f.super # None => c.super # None
    BY <1>5, <1>7, <2>4
  <2> QED BY <1>7, <1>9, <2>3, <2>5
<1> QED BY <1>1, <1>9a, <1>10, <1>11, <1>12 DEF f, c

\* The super class comes with its size.
LEMMA SuperSized ==
  ASSUME SupersAreClasses, LinkingInv, SupersNamed, SizesInv, TakeSuper
  PROVE  SizesInv'
<1>1. stack # <<>> /\ ret \in Id /\ Top.kind = "link" /\ Now.what = "super"
  BY DEF TakeSuper, Take, Running
<1>2. PICK T, t, s : IsOpen(T, t, s)
  BY <1>1, Opened
<1>3. PICK c, r, x : c = class[t.id] /\ r = ret /\ x = t.id
  OBVIOUS
<1>4. /\ Table /\ program \in Programs /\ CallOK(t) /\ Top = t /\ Now = StepOf(t)
      /\ x \in DOMAIN class /\ r \in DOMAIN class /\ t.kind = "link" /\ Progress(t.id, t.at)
      /\ StepOf(t).what = "super"
  BY <1>1, <1>2, <1>3 DEF IsOpen, CallOK
<1>5. ClassOK(c, x) /\ class[r].object_size \in Nat
  BY <1>3, <1>4 DEF Table, ClassOK
<1>6. /\ DOMAIN c = Fields /\ c.object_size \in Nat /\ x[2] \in DOMAIN program.files
      /\ ~c.resolved /\ c.kind \in {"class", "interface"}
  <2>1. Fits("link", x)
    BY <1>3, <1>4 DEF CallOK
  <2>2. t.at # Len(Steps(t))
    BY <1>4, StepHas
  <2> QED BY <1>3, <1>4, <1>5, <2>1, <2>2 DEF ClassOK, CallOK, Fits, IsClass
<1>7. c.super = None /\ ~Full(x)
  BY <1>3, <1>4, LinkedUpto
<1>8. {"super", "kind", "fields", "object_size", "resolved", "pool"} \subseteq Fields
  BY DEF Fields
<1> DEFINE e == [c EXCEPT !.super = r, !.object_size = @ + class[r].object_size]
<1>9. DOMAIN e = Fields /\ e.super = r /\ e.object_size = c.object_size + class[r].object_size
      /\ e.kind = c.kind /\ e.fields = c.fields /\ e.resolved = c.resolved
  BY <1>6, <1>8
<1>10. PICK p : p = Pooled(e)
  OBVIOUS
<1>11. /\ class' = [class EXCEPT ![x] = p] /\ program' = program
       /\ early' = IF HasItsSize(r) THEN early ELSE early \cup {x}
  BY <1>3, <1>4, <1>10 DEF TakeSuper, Take
<1> HIDE DEF e
<1>12. /\ p.super = r /\ p.object_size = c.object_size + class[r].object_size
       /\ p.kind = c.kind /\ p.fields = c.fields /\ p.resolved = c.resolved
  BY <1>8, <1>9, <1>10 DEF Pooled
<1>13. /\ DOMAIN class' = DOMAIN class /\ class'[x] = p
       /\ \A d \in DOMAIN class : d # x => class'[d] = class[d]
  BY <1>4, <1>11
<1>14. OfFile(x)
  BY <1>3, <1>6 DEF OfFile
<1>15. SizeOK(x)'
  <2>1. CASE ~HasItsSize(r)
    BY <1>11, <2>1 DEF SizeOK
  <2>2. CASE HasItsSize(r) /\ x \in early
    BY <1>11, <2>2 DEF SizeOK
  <2>3. CASE HasItsSize(r) /\ x \notin early
    <3>1. r # x /\ class'[r] = class[r]
      BY <1>4, <1>7, <1>13, <2>3, HasItsSizeMeans
    <3>2. File(x)' = File(x) /\ File(r)' = File(r)
      BY <1>11 DEF File
    <3>3. c.object_size = SizeOfFirst(File(x), Len(c.fields)) + 0
      BY <1>3, <1>4, <1>7, <1>14, <2>3 DEF SizesInv, SizeOK
    <3>4. HasItsSize(r)'
      BY <1>11, <2>3, <3>1, <3>2 DEF HasItsSize
    <3>5. SizeOfFirst(File(x), Len(c.fields)) \in Nat
      <4>1. Len(c.fields) \in 0 .. Len(File(x).fields)
        BY <1>3, <1>4, LinkedUpto
      <4> QED BY <1>4, <1>6, <4>1, OwnSizeIs
    <3>6. p.object_size = SizeOfFirst(File(x), Len(p.fields)) + class[r].object_size
      BY <1>5, <1>12, <3>3, <3>5
    <3>7. r # None
      BY <1>1, <1>3, <1>4, NamesAre
    <3> QED BY <1>12, <1>13, <3>1, <3>2, <3>4, <3>6, <3>7 DEF SizeOK
  <2> QED BY <2>1, <2>2, <2>3
<1>16. early' \in {early, early \cup {x}} /\ ~class'[x].resolved
  BY <1>6, <1>11, <1>12, <1>13
<1> QED BY <1>4, <1>7, <1>11, <1>13, <1>14, <1>15, <1>16, SizesOne

\* A field comes with its size, if it is not static.
LEMMA FieldSized ==
  ASSUME SupersAreClasses, LinkingInv, SupersNamed, SizesInv, TakeField
  PROVE  SizesInv'
<1>1. stack # <<>> /\ ret \in Id /\ Top.kind = "link" /\ Now.what = "field"
  BY DEF TakeField, Take, Running
<1>2. PICK T, t, s : IsOpen(T, t, s)
  BY <1>1, Opened
<1>3. PICK c, r, x, b, k, w :
        /\ c = class[t.id] /\ r = ret /\ x = t.id /\ b = FieldStatic /\ k = Len(c.fields)
        /\ w = [type |-> r, static |-> b]
  OBVIOUS
<1>4. /\ Table /\ program \in Programs /\ CallOK(t) /\ Top = t /\ Now = StepOf(t)
      /\ x \in DOMAIN class /\ t.kind = "link" /\ Progress(t.id, t.at)
      /\ StepOf(t).what = "field" /\ r \in DOMAIN class
  BY <1>1, <1>2, <1>3 DEF IsOpen, CallOK
<1>5. ClassOK(c, x)
  BY <1>3, <1>4 DEF Table
<1>6. /\ DOMAIN c = Fields /\ c.object_size \in Nat /\ x[2] \in DOMAIN program.files
      /\ ~c.resolved /\ c.kind \in {"class", "interface"} /\ \E U : c.fields \in Seq(U)
  <2>1. Fits("link", x)
    BY <1>3, <1>4 DEF CallOK
  <2>2. t.at # Len(Steps(t))
    BY <1>4, StepHas
  <2> QED BY <1>3, <1>4, <1>5, <2>1, <2>2 DEF ClassOK, CallOK, Fits, IsClass
<1>7. /\ ~Full(x) /\ k + 1 <= Len(File(x).fields) /\ k \in 0 .. Len(File(x).fields)
      /\ StepOf(t).name = File(x).fields[k + 1].type
  BY <1>3, <1>4, LinkedUpto
<1>8. {"super", "kind", "fields", "object_size", "resolved", "pool"} \subseteq Fields
  BY DEF Fields
<1>9. r[2] = File(x).fields[k + 1].type /\ b = File(x).fields[k + 1].static
  <2>1. r[2] = StepOf(t).name
    <3>1. ret # None
      BY <1>1, <1>4, NamesAre
    <3> QED BY <1>1, <1>2, <1>3, <1>4, <3>1 DEF IsOpen
  <2> QED BY <1>3, <1>4, <1>7, <2>1 DEF FieldStatic
<1> DEFINE e == [c EXCEPT !.fields = Append(@, w),
                          !.object_size = IF b THEN @ ELSE @ + TypeSize(r[2])]
<1>10. /\ DOMAIN e = Fields /\ e.super = c.super /\ e.fields = Append(c.fields, w)
       /\ e.object_size = IF b THEN c.object_size ELSE c.object_size + TypeSize(r[2])
       /\ e.kind = c.kind /\ e.resolved = c.resolved
  BY <1>6, <1>8
<1>11. PICK p : p = Pooled(e)
  OBVIOUS
<1>12. /\ class' = [class EXCEPT ![x] = p] /\ program' = program /\ early' = early
  BY <1>3, <1>4, <1>11 DEF TakeField, Take
<1> HIDE DEF e
<1>13. /\ p.super = c.super /\ p.fields = Append(c.fields, w)
       /\ p.object_size = IF b THEN c.object_size ELSE c.object_size + TypeSize(r[2])
       /\ p.kind = c.kind /\ p.resolved = c.resolved
  BY <1>8, <1>10, <1>11 DEF Pooled
<1>14. /\ DOMAIN class' = DOMAIN class /\ class'[x] = p
       /\ \A d \in DOMAIN class : d # x => class'[d] = class[d]
  BY <1>4, <1>12
<1>15. OfFile(x)
  BY <1>3, <1>6 DEF OfFile
<1>16. Len(p.fields) = k + 1
  BY <1>3, <1>6, <1>13
<1>17. /\ SizeOfFirst(File(x), k + 1) = SizeOfFirst(File(x), k) + FieldSize(File(x).fields[k + 1])
       /\ SizeOfFirst(File(x), k) \in Nat
  BY <1>4, <1>6, <1>7, OwnSizeIs
<1>18. FieldSize(File(x).fields[k + 1]) = IF b THEN 0 ELSE TypeSize(r[2])
  BY <1>9 DEF FieldSize
<1>19. TypeSize(r[2]) \in Nat
  BY DEF TypeSize
<1>20. SizeOK(x)'
  <2>1. SUFFICES ASSUME x \notin early PROVE SizeOK(x)'
    BY <1>12 DEF SizeOK
  <2>2. PICK z : z = c.super
    OBVIOUS
  <2>3. /\ c.object_size = SizeOfFirst(File(x), k)
                            + (IF z = None THEN 0 ELSE class[z].object_size)
        /\ z # None => HasItsSize(z)
    BY <1>3, <1>4, <1>15, <2>1, <2>2 DEF SizesInv, SizeOK
  <2>4. z # None => z \in DOMAIN class /\ z # x /\ class'[z] = class[z]
    <3>1. z # None => z \in DOMAIN class
      BY <1>3, <1>4, <1>15, <2>2, SupersOfFiles
    <3> QED BY <1>7, <1>14, <2>3, <3>1, HasItsSizeMeans
  <2>5. z # None => HasItsSize(z)' /\ class[z].object_size \in Nat
    <3>1. File(z)' = File(z)
      BY <1>12 DEF File
    <3> QED BY <1>4, <1>12, <2>3, <2>4, <3>1 DEF HasItsSize, Table, ClassOK
  <2>6. p.object_size = SizeOfFirst(File(x), k + 1)
                          + (IF z = None THEN 0 ELSE class[z].object_size)
    <3>1. PICK u, v, a, o :
            /\ u = SizeOfFirst(File(x), k) /\ v = TypeSize(r[2]) /\ o = c.object_size
            /\ a = IF z = None THEN 0 ELSE class[z].object_size
      OBVIOUS
    <3>2. u \in Nat /\ v \in Nat /\ a \in Nat /\ o = u + a
      BY <1>17, <1>19, <2>3, <2>5, <3>1
    <3>3. SizeOfFirst(File(x), k + 1) = IF b THEN u + 0 ELSE u + v
      BY <1>17, <1>18, <3>1
    <3>4. p.object_size = IF b THEN o ELSE o + v
      BY <1>13, <3>1
    <3>5. p.object_size = SizeOfFirst(File(x), k + 1) + a
      BY <3>2, <3>3, <3>4
    <3> QED BY <3>1, <3>5
  <2>7. File(x)' = File(x)
    BY <1>12 DEF File
  <2> QED BY <1>13, <1>14, <1>16, <2>2, <2>4, <2>5, <2>6, <2>7 DEF SizeOK
<1>21. ~class'[x].resolved
  BY <1>6, <1>13, <1>14
<1> QED BY <1>4, <1>7, <1>12, <1>14, <1>15, <1>20, <1>21, SizesOne

\* At the end of resolve_class, a class is full.
LEMMA ResolvedSized ==
  ASSUME SupersAreClasses, LinkingInv, LinkingInv', SupersNamed, SizesInv, Resolved
  PROVE  SizesInv'
<1>1. stack # <<>> /\ Top.kind = "link" /\ Now.what = "resolved"
  BY DEF Resolved, Running
<1>2. PICK T, t, s : IsOpen(T, t, s)
  BY <1>1, Opened
<1>3. /\ Table /\ program \in Programs /\ CallOK(t) /\ Top = t /\ t.id \in DOMAIN class
      /\ Progress(t.id, t.at) /\ StepOf(t).what = "resolved" /\ t.kind = "link"
  BY <1>1, <1>2 DEF IsOpen, CallOK
<1>4. Full(t.id)
  BY <1>3, LinkedUpto
<1>5. PICK n : n = StaticSize(class[Top.id].fields)
  OBVIOUS
<1>6. /\ class' = [class EXCEPT ![t.id].resolved = TRUE, ![t.id].static_memory = n]
      /\ program' = program /\ early' = early
  BY <1>3, <1>5 DEF Resolved
<1>7. \A d \in DOMAIN class : DOMAIN class[d] = Fields
  BY <1>3 DEF Table, ClassOK
<1>8. {"super", "kind", "fields", "object_size", "resolved", "static_memory"} \subseteq Fields
  BY DEF Fields
<1>9. ASSUME NEW d \in DOMAIN class
      PROVE  /\ Alike(class'[d], class[d]) /\ class'[d].kind = class[d].kind
             /\ d # t.id => class'[d] = class[d]
  BY <1>6, <1>7, <1>8 DEF Alike
<1>10. DOMAIN class' = DOMAIN class
  BY <1>6
<1>11. Table'
  BY DEF LinkingInv, Good
<1>12. \A d \in DOMAIN class : class'[d].resolved => class[d].resolved \/ Full(d)
  BY <1>4, <1>9
<1> QED BY <1>3, <1>6, <1>9, <1>10, <1>11, <1>12, SizesAlike DEF OfFile

\* Arrays have no size of this kind.
LEMMA ArraySized ==
  ASSUME SupersAreClasses, LinkingInv, LinkingInv', SupersNamed, SizesInv, RegisterArray
  PROVE  SizesInv'
<1>1. stack # <<>> /\ Top.kind = "array" /\ \E c : Register(Top.id, c) /\ c.kind = "array"
  <2>1. PICK c : c = [NewClass("array", Top.id[2]) EXCEPT
                        !.component = Top.got[1], !.super = Top.got[2],
                        !.interfaces = ToSet(SubSeq(Top.got, 3, Len(Top.got)))]
    OBVIOUS
  <2>2. c.kind = "array"
    BY <2>1 DEF NewClass
  <2>3. Register(Top.id, c)
    BY <2>1 DEF RegisterArray
  <2> QED BY <2>2, <2>3 DEF RegisterArray, Running
<1>2. PICK T, t, s : IsOpen(T, t, s)
  BY <1>1, Opened
<1>3. PICK x, c : x = t.id /\ Register(x, c) /\ c.kind = "array"
  BY <1>1, <1>2 DEF IsOpen
<1>4. Table /\ Table' /\ x[2] \in Array
  BY <1>1, <1>2, <1>3 DEF IsOpen, LinkingInv, Good, CallOK, Fits
<1>5. /\ DOMAIN class' = DOMAIN class \cup {x} /\ class'[x] = c
      /\ \A d \in DOMAIN class : d # x => class'[d] = class[d]
  BY <1>3, Registers
<1>6. \A d \in DOMAIN class : OfFile(d) => d # x
  BY <1>4 DEF Table, ClassOK, OfFile
<1>7. program' = program /\ early' = early
  BY DEF RegisterArray
<1>8. class'[x].kind \notin {"class", "interface"}
  BY <1>3, <1>5
<1>9. \A d \in DOMAIN class :
        /\ OfFile(d) => Alike(class'[d], class[d]) /\ class'[d] = class[d]
        /\ class'[d].kind \in {"class", "interface"} => OfFile(d)
  BY <1>5, <1>6, <1>8 DEF Alike, OfFile
<1> QED BY <1>4, <1>5, <1>7, <1>8, <1>9, SizesAlike

\* Every step keeps the sizes.
LEMMA SizesKept ==
  ASSUME SupersAreClasses
  PROVE  Spec => [](Alone => SizesInv)
<1>1. Init => SizesInv
  BY DEF Init, SizesInv
<1>2. LinkingInv /\ LinkingInv' /\ SupersNamed /\ SizesInv /\ [Locked]_loading => SizesInv'
  <2>1. SUFFICES ASSUME LinkingInv, LinkingInv', SupersNamed, SizesInv, [Locked]_loading
                 PROVE  SizesInv'
    OBVIOUS
  <2>2. CASE UNCHANGED loading
    BY <2>1, <2>2 DEF loading, SizesInv, SizeOK, Full, OfFile, HasItsSize, File
  <2>3. CASE \E n \in Names(program), loader \in Loader \cup {Boot} :
               Request(n, loader) \/ DefineClass(n, loader)
    <3>1. program' = program /\ early' = early /\ EntersBare(<<>>)
      BY <2>3, LoadsBare, DefinesBare DEF Request, DefineClass
    <3> QED BY <2>1, <3>1, LoadsSized
  <2>4. CASE Ask
    <3>1. program' = program /\ early' = early
      BY <2>4 DEF Ask
    <3>2. EntersBare(stack) \/ (class' = class /\ stack' = stack)
      BY <2>4, LoadsBare DEF Ask
    <3>3. EntersBare(stack)
      BY <3>2 DEF EntersBare
    <3> QED BY <2>1, <3>1, <3>3, LoadsSized
  <2>5. CASE JavaDelegates \/ JavaDefines
    <3>1. program' = program /\ early' = early
      BY <2>5 DEF JavaDelegates, JavaDefines
    <3>2. \E calls : EntersBare(calls)
      BY <2>5, LoadsBare, DefinesBare DEF JavaDelegates, JavaDefines
    <3>3. PICK calls : EntersBare(calls)
      BY <3>2
    <3> QED BY <2>1, <3>1, <3>3, LoadsSized
  <2>6. CASE TakeSuper
    BY <2>1, <2>6, SuperSized
  <2>7. CASE TakeField
    BY <2>1, <2>7, FieldSized
  <2>8. CASE Resolved
    BY <2>1, <2>8, ResolvedSized
  <2>9. CASE RegisterArray
    BY <2>1, <2>9, ArraySized
  <2>10. CASE \/ MethodResolved \/ CreateObject \/ Sweep \/ Unwind \/ TakeForArray
              \/ JavaReturns \/ JavaFails \/ TakeInterface \/ TakeHandler \/ TakeType
    BY <2>1, <2>10, OthersSized
  <2> QED BY <2>1, <2>2, <2>3, <2>4, <2>5, <2>6, <2>7, <2>8, <2>9, <2>10 DEF Locked, Link
<1>3. [Next]_vars /\ Alone' => Alone /\ [Locked]_loading
  BY Loading
<1>4. (/\ (Alone => LinkingInv) /\ (Alone => LinkingInv)' /\ (Alone => SupersNamed)
       /\ (Alone => SizesInv) /\ [Next]_vars)
      => (Alone => SizesInv)'
  BY <1>2, <1>3
<1> QED BY <1>1, <1>4, LinkingCorrect, NamesKept, PTL DEF Spec

\* The function that the sizes of a chain are added by.
ChainIterate(it, chain, S) ==
  it = [s \in SUBSET S |->
          IF s = {} THEN 0
          ELSE LET x == CHOOSE x \in s : TRUE IN it[s \ {x}] + OwnSize(chain[x])]

\* The sizes of the classes of a chain, added.
TotalSize(chain) == FoldSeq(LAMBDA c, size : size + OwnSize(c), 0, chain)

\* The sizes of a chain are added in any order.
LEMMA ChainSizeIs ==
  ASSUME NEW chain, NEW n \in Nat, DOMAIN chain = 1 .. n, NEW w,
         \A i \in 1 .. n : w[i] = OwnSize(chain[i]) /\ w[i] \in Nat, NEW g, Sums(g, w, n)
  PROVE  TotalSize(chain) = g[1 .. n]
<1>1. PICK S : S = 1 .. n
  OBVIOUS
<1>2. PICK it : it = CHOOSE h : ChainIterate(h, chain, S)
  OBVIOUS
<1>3. g \in [SUBSET S -> Nat] /\ g[{}] = 0
      /\ \A R \in SUBSET S : \A x \in R : g[R] = g[R \ {x}] + w[x]
  BY <1>1 DEF Sums
<1>4. \A R \in SUBSET S :
        g[R] = IF R = {} THEN 0
               ELSE LET x == CHOOSE x \in R : TRUE IN g[R \ {x}] + OwnSize(chain[x])
  <2>1. SUFFICES ASSUME NEW R \in SUBSET S, R # {}
                 PROVE  g[R] = LET x == CHOOSE x \in R : TRUE
                               IN g[R \ {x}] + OwnSize(chain[x])
    BY <1>3
  <2>2. PICK x : x = CHOOSE y \in R : TRUE
    OBVIOUS
  <2>3. x \in R /\ x \in 1 .. n
    BY <1>1, <2>1, <2>2
  <2>4. g[R] = g[R \ {x}] + OwnSize(chain[x])
    BY <1>3, <2>3
  <2> QED BY <2>2, <2>4, Zenon
<1>5. ChainIterate(it, chain, S)
  <2>1. g = [R \in SUBSET S |-> g[R]]
    BY <1>3
  <2>2. ChainIterate(g, chain, S)
    BY <1>4, <2>1, Zenon DEF ChainIterate
  <2> QED BY <1>2, <2>2, Zenon
<1>6. Iterates(it, w, S)
  <2>1. ASSUME NEW R \in SUBSET S, R # {}, NEW x, x = CHOOSE y \in R : TRUE
        PROVE  it[R] = it[R \ {x}] + w[x]
    <3>1. x \in 1 .. n
      BY <1>1, <2>1
    <3>2. it[R] = it[R \ {x}] + OwnSize(chain[x])
      BY <1>5, <2>1, Zenon DEF ChainIterate
    <3> QED BY <3>1, <3>2
  <2>2. it[{}] = 0
    <3>1. {} \in SUBSET S
      OBVIOUS
    <3> QED BY <1>5, <3>1, Zenon DEF ChainIterate
  <2>3. ASSUME NEW R \in SUBSET S, R # {}
        PROVE  LET x == CHOOSE x \in R : TRUE
               IN it[R] = it[R \ {x}] + w[x] \/ (w[x] = 0 /\ it[R] = it[R \ {x}])
    BY <2>1, <2>3
  <2> QED BY <2>2, <2>3 DEF Iterates
<1>7. TotalSize(chain) = it[S]
  <2>1. TotalSize(chain)
          = (CHOOSE h : ChainIterate(h, chain, DOMAIN chain))[DOMAIN chain]
    BY Zenon DEF TotalSize, FoldSeq, FoldFunction, FoldFunctionOnSet, MapThenFoldSet,
                 ChainIterate
  <2> QED BY <1>1, <1>2, <2>1
<1>8. it[S] = g[S]
  BY <1>1, <1>6, SumIs
<1> QED BY <1>1, <1>7, <1>8

\* Where each is its own weight and what follows, the first is the sum.
LEMMA FirstIsSum ==
  ASSUME NEW n \in Nat \ {0}, NEW w, NEW g, Sums(g, w, n), \A i \in 1 .. n : w[i] \in Nat,
         NEW z, \A i \in 1 .. n : z[i] \in Nat, z[n] = w[n],
         \A i \in 1 .. n : i + 1 <= n => z[i] = w[i] + z[i + 1]
  PROVE  z[1] = g[1 .. n]
<1>1. /\ g[1 .. 0] = 0 /\ \A k \in 0 .. n : g[1 .. k] \in Nat
      /\ \A k \in 0 .. n : k + 1 <= n => g[1 .. k + 1] = g[1 .. k] + w[k + 1]
  BY SumsUpto
<1> DEFINE G(k) == g[1 .. k]
           T == {k \in Nat : k + 1 <= n /\ z[1] # G(k) + z[k + 1]}
<1>2. /\ G(0) = 0 /\ \A k \in 0 .. n : G(k) \in Nat
      /\ \A k \in 0 .. n : k + 1 <= n => G(k + 1) = G(k) + w[k + 1]
  BY <1>1
<1> HIDE DEF G
<1>3. T = {}
  <2>1. SUFFICES ASSUME T # {} PROVE FALSE
    OBVIOUS
  <2>2. PICK m \in T : \A k \in T : m <= k
    <3>1. T \in SUBSET Nat
      OBVIOUS
    <3> QED BY <2>1, <3>1, LeastNat
  <2>3. m \in Nat /\ m + 1 <= n /\ z[1] # G(m) + z[m + 1]
    OBVIOUS
  <2>4. CASE m = 0
    <3>1. 1 \in 1 .. n /\ z[1] \in Nat /\ 0 + 1 = 1
      OBVIOUS
    <3> QED BY <1>2, <2>3, <2>4, <3>1
  <2>5. CASE m # 0
    <3>1. PICK k \in Nat : m = k + 1
      <4>1. m - 1 \in Nat /\ m = (m - 1) + 1
        BY <2>3, <2>5
      <4> QED BY <4>1
    <3>2. k \in 0 .. n /\ k + 1 <= n /\ m \in 1 .. n /\ m + 1 \in 1 .. n /\ ~(m <= k)
      BY <2>3, <3>1
    <3>3. z[1] = G(k) + z[m]
      <4>1. k \notin T
        BY <2>2, <3>2
      <4> QED BY <3>1, <3>2, <4>1
    <3>4. G(m) = G(k) + w[m] /\ z[m] = w[m] + z[m + 1] /\ G(k) \in Nat
      BY <1>2, <2>3, <3>1, <3>2
    <3>5. w[m] \in Nat /\ z[m + 1] \in Nat /\ z[m] \in Nat
      BY <3>2
    <3>6. G(m) + z[m + 1] = z[1]
      BY <3>3, <3>4, <3>5
    <3> QED BY <2>3, <3>6
  <2> QED BY <2>4, <2>5
<1>4. PICK k \in Nat : n = k + 1
  <2>1. n - 1 \in Nat /\ n = (n - 1) + 1
    OBVIOUS
  <2> QED BY <2>1
<1>5. k \in 0 .. n /\ k + 1 <= n
  BY <1>4
<1>6. z[1] = G(k) + w[n]
  BY <1>3, <1>4, <1>5
<1>7. G(n) = G(k) + w[n]
  BY <1>2, <1>4, <1>5
<1> QED BY <1>6, <1>7 DEF G

\* The super classes of a class, and their super classes, end with a class that has none.
LEMMA ChainEnds ==
  ASSUME SupersEnd, Table, SupersNamed, Closed(class), NEW id \in DOMAIN class,
         NEW s, s = Chain(class, id)
  PROVE  Climbing(s) /\ Len(s) \in Nat \ {0} /\ s[1] = id /\ class[s[Len(s)]].super = None
<1>1. PICK n : n = Cardinality(DOMAIN class)
  OBVIOUS
<1>2. Climbed(s, class, id, n) /\ n \in Nat \ {0} /\ id # None
  BY <1>1, ChainIs DEF Closed
<1>3. /\ s \in Seq(DOMAIN class) /\ Len(s) <= n /\ s # <<>> /\ s[1] = id /\ Climbing(s)
      /\ Len(s) < n => class[s[Len(s)]].super = None
  BY <1>2 DEF Climbed, Climbing
<1>4. Len(s) \in Nat \ {0}
  BY <1>3
<1>5. SUFFICES ASSUME Len(s) = n, class[s[n]].super # None PROVE FALSE
  BY <1>2, <1>3, <1>4
<1>6. PICK x : x = class[s[n]].super
  OBVIOUS
<1>7. n \in 1 .. Len(s) /\ s[n] \in DOMAIN class
  BY <1>2, <1>3, <1>5
<1>8. x \in DOMAIN class
  BY <1>5, <1>6, <1>7 DEF Closed
<1>9. PICK u : u = Append(s, x)
  OBVIOUS
<1>10. /\ u \in Seq(DOMAIN class) /\ Len(u) = n + 1 /\ u[n + 1] = x
       /\ \A i \in 1 .. n : u[i] = s[i]
  BY <1>3, <1>5, <1>8, <1>9
<1>11. Climbing(u)
  <2>1. ASSUME NEW i \in 1 .. Len(u) - 1 PROVE u[i + 1] = class[u[i]].super
    <3>1. i \in 1 .. n
      BY <1>2, <1>10
    <3>2. CASE i = n
      BY <1>6, <1>10, <3>1, <3>2
    <3>3. CASE i # n
      <4>1. i \in 1 .. Len(s) - 1 /\ i + 1 \in 1 .. n
        BY <1>2, <1>5, <3>1, <3>3
      <4> QED BY <1>3, <1>10, <3>1, <4>1 DEF Climbing
    <3> QED BY <3>2, <3>3
  <2> QED BY <1>10, <2>1 DEF Climbing
<1> DEFINE I == 1 .. n + 1
<1>12. \A i, j \in I : u[i] = u[j] => i = j
  <2>1. \A i, j \in I : i < j => u[i] # u[j]
    BY <1>10, <1>11, NoneTwice
  <2> QED BY <1>2, <2>1
<1>13. IsFiniteSet(I) /\ Cardinality(I) = n + 1
  <2>1. PICK k \in Nat : k = n + 1
    BY <1>2
  <2>2. /\ IsFiniteSet(1 .. k) /\ Cardinality(1 .. k) = IF 1 > k THEN 0 ELSE k - 1 + 1
    BY FS_Interval
  <2>3. (IF 1 > k THEN 0 ELSE k - 1 + 1) = k
    OBVIOUS
  <2> QED BY <2>1, <2>2, <2>3
<1>14. {u[i] : i \in I} \subseteq DOMAIN class
  BY <1>10
<1> HIDE DEF I
<1>15. Cardinality({u[i] : i \in I}) = n + 1
  BY <1>12, <1>13, OneToOne
<1>16. Cardinality({u[i] : i \in I}) <= n
  BY <1>1, <1>14, FS_Subset DEF Closed
<1> QED BY <1>2, <1>15, <1>16

\* A class is one of those that its chain is of.
LEMMA IsAMeans ==
  ASSUME SupersEnd, Table, SupersNamed, Closed(class), NEW o \in DOMAIN class, NEW c,
         NEW s, s = Chain(class, o)
  PROVE  IsA(o, c) <=> \E i \in 1 .. Len(s) : s[i] = c
<1>1. Len(s) \in Nat \ {0} /\ s[1] = o
  BY ChainEnds
<1>2. 1 \in 1 .. Len(s) /\ 2 .. Len(s) \subseteq 1 .. Len(s)
      /\ \A i \in 1 .. Len(s) : i = 1 \/ i \in 2 .. Len(s)
  BY <1>1
<1>3. is_subclass_of(class, o, c) <=> \E i \in 2 .. Len(s) : s[i] = c
  BY DEF is_subclass_of
<1> QED BY <1>1, <1>2, <1>3 DEF IsA

\* What is above a class that an object is of, the object is of as well.
LEMMA IsAGoesUp ==
  ASSUME SupersEnd, Table, SupersNamed, Closed(class), NEW o \in DOMAIN class,
         NEW c \in DOMAIN class, IsA(o, c), NEW u, u = Chain(class, c), NEW k0 \in 1 .. Len(u)
  PROVE  IsA(o, u[k0])
<1> SUFFICES ASSUME ~IsA(o, u[k0]) PROVE FALSE
  OBVIOUS
<1>1. PICK s : s = Chain(class, o)
  OBVIOUS
<1>2. /\ Climbing(s) /\ Len(s) \in Nat \ {0} /\ class[s[Len(s)]].super = None
      /\ Climbing(u) /\ Len(u) \in Nat \ {0} /\ u[1] = c
  BY <1>1, ChainEnds
<1> DEFINE T == {k \in 1 .. Len(u) : ~IsA(o, u[k])}
<1>3. k0 \in T /\ T \in SUBSET Nat
  OBVIOUS
<1>4. PICK k \in T : \A j \in T : k <= j
  BY <1>3, LeastNat
<1>5. k \in 1 .. Len(u) /\ ~IsA(o, u[k])
  OBVIOUS
<1>6. k # 1
  BY <1>2, <1>5
<1>7. PICK j : j = k - 1
  OBVIOUS
<1>8. j \in 1 .. Len(u) - 1 /\ j \in 1 .. Len(u) /\ ~(k <= j) /\ j + 1 = k
  BY <1>2, <1>5, <1>6, <1>7
<1>9. IsA(o, u[j])
  BY <1>4, <1>8
<1>10. PICK i \in 1 .. Len(s) : s[i] = u[j]
  BY <1>1, <1>9, IsAMeans
<1>11. u[k] = class[s[i]].super /\ u[k] \in DOMAIN class
  BY <1>2, <1>5, <1>8, <1>10 DEF Climbing
<1>12. i # Len(s)
  BY <1>2, <1>11 DEF Closed
<1>13. i \in 1 .. Len(s) - 1 /\ i + 1 \in 1 .. Len(s)
  BY <1>2, <1>12
<1>14. s[i + 1] = u[k]
  BY <1>2, <1>11, <1>13 DEF Climbing
<1> QED BY <1>1, <1>5, <1>13, <1>14, IsAMeans

\* In programs whose super classes end, a call of a method that lookup_method has found
\* runs a method of a class that the object is of (lookup_method, Method::invoke).
THEOREM LinkingReaches ==
  ASSUME SupersEnd
  PROVE  Spec => []RunsOnItsObjects
<1>1. (Alone => LinkingInv /\ SupersNamed) => RunsOnItsObjects
  <2>1. SUFFICES ASSUME LinkingInv, SupersNamed,
                        NEW o \in DOMAIN class, NEW named \in DOMAIN class,
                        NEW caller \in DOMAIN class, NEW signature,
                        NEW d \in lookup_method(class, named, signature),
                        IsA(o, d), is_subclass_of(class, caller, d) => IsA(o, caller),
                        NEW runs, runs = invoke(class, d, signature, o, caller)
                 PROVE  IsA(o, runs) /\ signature \in class[runs].declared
    BY DEF RunsOnItsObjects, Rests, Alone
  <2>2. Table /\ \A e \in DOMAIN class : class[e].interfaces \subseteq DOMAIN class
    BY <2>1 DEF LinkingInv, Good, Table, ClassOK
  <2>3. Closed(class)
    BY <2>1, <2>2, TableClosed
  <2>4. d \in DOMAIN class /\ signature \in class[d].declared
    BY <2>1, <2>2, <2>3, LookupDeclares
  <2>5. CASE runs = lookupSpecial(class, d, signature, caller)
    <3>1. CASE runs = d
      BY <2>1, <2>4, <3>1
    <3>2. CASE runs # d
      <4>1. PICK u : u = Chain(class, caller)
        OBVIOUS
      <4>2. /\ is_subclass_of(class, caller, d)
            /\ runs = FirstDeclaring(class, Tail(u), signature)
        BY <2>5, <3>2, <4>1 DEF lookupSpecial
      <4>3. PICK i \in 2 .. Len(u) : u[i] = d
        BY <4>1, <4>2 DEF is_subclass_of
      <4>4. u \in Seq(DOMAIN class) /\ Len(u) \in Nat \ {0}
        BY <2>1, <2>2, <2>3, <4>1, ChainEnds DEF Climbing
      <4>5. PICK v : v = Tail(u)
        OBVIOUS
      <4>6. /\ Len(v) = Len(u) - 1 /\ Len(v) \in Nat
            /\ \A l \in 1 .. Len(v) : v[l] = u[l + 1] /\ l + 1 \in 1 .. Len(u)
        <5>1. u # <<>>
          BY <4>4
        <5> QED BY <4>4, <4>5, <5>1
      <4>7. i - 1 \in 1 .. Len(v) /\ v[i - 1] = d
        BY <4>3, <4>4, <4>6
      <4>8. PICK k \in 1 .. Len(v) : runs = v[k] /\ signature \in class[v[k]].declared
        BY <2>4, <4>2, <4>5, <4>6, <4>7, FirstIs
      <4>9. k + 1 \in 1 .. Len(u) /\ runs = u[k + 1]
        BY <4>6, <4>8
      <4>10. IsA(o, caller)
        BY <2>1, <4>2
      <4>11. IsA(o, u[k + 1])
        BY <2>1, <2>2, <2>3, <4>1, <4>9, <4>10, IsAGoesUp
      <4> QED BY <4>8, <4>9, <4>11
    <3> QED BY <3>1, <3>2
  <2>6. CASE runs # lookupSpecial(class, d, signature, caller)
    <3>1. PICK s : s = Chain(class, o)
      OBVIOUS
    <3>2. runs = FirstDeclaring(class, s, signature)
      BY <2>1, <2>6, <3>1 DEF invoke, lookupVirtual
    <3>3. Len(s) \in Nat
      BY <2>1, <2>2, <2>3, <3>1, ChainEnds
    <3>4. PICK i \in 1 .. Len(s) : s[i] = d
      BY <2>1, <2>2, <2>3, <3>1, IsAMeans
    <3>5. PICK k \in 1 .. Len(s) : runs = s[k] /\ signature \in class[s[k]].declared
      BY <2>4, <3>2, <3>3, <3>4, FirstIs
    <3> QED BY <2>1, <2>2, <2>3, <3>1, <3>5, IsAMeans
  <2> QED BY <2>5, <2>6
<1> QED BY <1>1, LinkingCorrect, NamesKept, PTL

\* Linked classes have the sizes of their fields and of those above.
LEMMA SizesFollow ==
  ASSUME SupersEnd, SupersAreClasses, Table, SupersNamed, SizesInv, Closed(class),
         NEW id \in DOMAIN class, class[id].kind = "class", class[id].resolved, id \notin early
  PROVE  class[id].object_size = TotalSize(Chain(class, id))
<1>1. PICK s, n : s = Chain(class, id) /\ n = Len(s)
  OBVIOUS
<1>2. /\ Climbing(s) /\ n \in Nat \ {0} /\ s[1] = id /\ class[s[n]].super = None
  BY <1>1, ChainEnds
<1>3. /\ \A i \in 1 .. n : s[i] \in DOMAIN class
      /\ \A i \in 1 .. n : i + 1 <= n => s[i + 1] = class[s[i]].super
      /\ DOMAIN s = 1 .. n
  BY <1>1, <1>2 DEF Climbing
<1> DEFINE T == {i \in 1 .. n : ~(OfFile(s[i]) /\ HasItsSize(s[i]))}
<1>4. T = {}
  <2>1. SUFFICES ASSUME T # {} PROVE FALSE
    OBVIOUS
  <2>2. PICK m \in T : \A k \in T : m <= k
    <3>1. T \in SUBSET Nat
      OBVIOUS
    <3> QED BY <2>1, <3>1, LeastNat
  <2>3. m \in 1 .. n /\ ~(OfFile(s[m]) /\ HasItsSize(s[m]))
    OBVIOUS
  <2>4. CASE m = 1
    <3>1. OfFile(id)
      BY DEF OfFile
    <3>2. HasItsSize(id)
      BY <3>1, HasItsSizeMeans DEF SizesInv
    <3> QED BY <1>2, <2>3, <2>4, <3>1, <3>2
  <2>5. CASE m # 1
    <3>1. PICK k \in Nat : m = k + 1 /\ k \in 1 .. n /\ ~(m <= k)
      <4>1. m - 1 \in Nat /\ m = (m - 1) + 1 /\ m - 1 \in 1 .. n /\ ~(m <= m - 1)
        BY <1>2, <2>3, <2>5
      <4> QED BY <4>1
    <3>2. OfFile(s[k]) /\ HasItsSize(s[k])
      <4>1. k \notin T
        BY <2>2, <3>1
      <4> QED BY <3>1, <4>1
    <3>3. s[k] \in DOMAIN class /\ s[m] = class[s[k]].super /\ s[m] \in DOMAIN class
      <4>1. k + 1 <= n
        BY <2>3, <3>1
      <4> QED BY <1>3, <2>3, <3>1, <4>1
    <3>4. class[s[k]].super # None
      BY <3>3 DEF Closed
    <3>5. OfFile(s[m])
      BY <3>2, <3>3, <3>4, SupersOfFiles
    <3>6. HasItsSize(s[m])
      BY <3>2, <3>3, <3>4, HasItsSizeMeans DEF SizesInv, SizeOK
    <3> QED BY <2>3, <3>5, <3>6
  <2> QED BY <2>4, <2>5
<1>5. PICK w, z : w = [i \in 1 .. n |-> OwnSize(s[i])]
                  /\ z = [i \in 1 .. n |-> class[s[i]].object_size]
  OBVIOUS
<1>6. ASSUME NEW i \in 1 .. n
      PROVE  /\ w[i] = OwnSize(s[i]) /\ w[i] \in Nat /\ z[i] \in Nat
             /\ z[i] = w[i] + (IF class[s[i]].super = None THEN 0
                               ELSE class[class[s[i]].super].object_size)
  <2>1. OfFile(s[i]) /\ HasItsSize(s[i]) /\ s[i] \in DOMAIN class
    BY <1>3, <1>4
  <2>2. PICK c : c = s[i]
    OBVIOUS
  <2>3. ClassOK(class[c], c) /\ OfFile(c) /\ HasItsSize(c) /\ program \in Programs
    BY <2>1, <2>2 DEF Table
  <2>4. class[c].object_size \in Nat /\ c[2] \in DOMAIN program.files
    BY <2>3 DEF ClassOK, OfFile
  <2>5. /\ OwnSize(c) = SizeOfFirst(File(c), Len(File(c).fields)) /\ OwnSize(c) \in Nat
    <3>1. PICK f : f = File(c)
      OBVIOUS
    <3>2. /\ Len(f.fields) \in Nat /\ OwnSize(c) = SizeOfFirst(f, Len(f.fields))
          /\ \A k \in 0 .. Len(f.fields) : SizeOfFirst(f, k) \in Nat
      BY <2>3, <2>4, <3>1, OwnSizeIs
    <3>3. Len(f.fields) \in 0 .. Len(f.fields)
      BY <3>2
    <3> QED BY <3>1, <3>2, <3>3
  <2>6. SizeOK(c) /\ c \notin early /\ Len(class[c].fields) = Len(File(c).fields)
    BY <2>1, <2>2, <2>3 DEF SizesInv, HasItsSize
  <2>7. class[c].object_size
          = OwnSize(c) + (IF class[c].super = None THEN 0 ELSE class[class[c].super].object_size)
    BY <2>5, <2>6 DEF SizeOK
  <2> QED BY <1>5, <2>2, <2>4, <2>5, <2>7
<1>7. PICK g : Sums(g, w, n)
  <2>1. n \in Nat /\ \A i \in 1 .. n : w[i] \in Nat
    BY <1>2, <1>6
  <2> QED BY <2>1, SumsExist
<1>8. z[n] = w[n]
  <2>1. n \in 1 .. n
    BY <1>2
  <2>2. w[n] \in Nat /\ z[n] = w[n] + 0
    BY <1>2, <1>6, <2>1
  <2> QED BY <2>2
<1>9. ASSUME NEW i \in 1 .. n, i + 1 <= n PROVE z[i] = w[i] + z[i + 1]
  <2>1. i + 1 \in 1 .. n
    BY <1>2, <1>9
  <2>2. s[i + 1] = class[s[i]].super /\ s[i + 1] \in DOMAIN class
    BY <1>3, <1>9, <2>1
  <2>3. class[s[i]].super # None
    BY <2>2 DEF Closed
  <2>4. z[i + 1] = class[class[s[i]].super].object_size
    BY <1>5, <2>1, <2>2
  <2> QED BY <1>6, <2>3, <2>4
<1>10. z[1] = g[1 .. n]
  BY <1>2, <1>6, <1>7, <1>8, <1>9, FirstIsSum
<1>11. TotalSize(s) = g[1 .. n]
  BY <1>2, <1>3, <1>6, <1>7, ChainSizeIs
<1>12. z[1] = class[id].object_size
  BY <1>2, <1>5
<1> QED BY <1>1, <1>10, <1>11, <1>12

\* In programs whose super classes end and are classes, the objects of a linked class
\* have the size of its own fields and of those that it inherits, in whatever order the
\* classes came to be linked (link_class, resolve_class), but for the early ones.
THEOREM LinkingSizes ==
  ASSUME SupersEnd, SupersAreClasses
  PROVE  Spec => []SizesAdd
<1>1. (Alone => LinkingInv /\ SupersNamed /\ SizesInv) => SizesAdd
  <2>1. SUFFICES ASSUME LinkingInv, SupersNamed, SizesInv PROVE SizesAdd
    BY Zenon DEF SizesAdd, Alone
  <2>2. Table
    BY <2>1 DEF LinkingInv, Good
  <2>3. Closed(class)
    BY <2>1, <2>2, TableClosed
  <2> QED BY <2>1, <2>2, <2>3, SizesFollow, Zenon DEF SizesAdd, TotalSize
<1> QED BY <1>1, LinkingCorrect, NamesKept, SizesKept, PTL
=============================================================================
