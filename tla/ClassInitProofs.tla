-------------------------- MODULE ClassInitProofs --------------------------
(***************************************************************************)
(* Theorems about module ClassInit, for every set of threads, every set of *)
(* classes and every assignment of superclasses, cyclic ones included.     *)
(*                                                                         *)
(* The inductive invariant has five parts.  MutexInv says how the          *)
(* activations of initialize_class lie under the mutex: whoever has passed *)
(* the check of the flag owns it, and an activation that waits for it is   *)
(* the innermost.  WorkInv relates the activations to the flags and to the *)
(* static initializers, and no class is worked on twice.  The others are   *)
(* about programs whose static initializers do not throw: CompleteInv      *)
(* (a class with its flag set is ready or being worked on), SuperInv (the  *)
(* superclass is asked first) and UseInv.                                  *)
(***************************************************************************)
EXTENDS ClassInit, SequenceTheorems, TLAPS

\* The activations of t, by their place in its stack.
Places(t) == 1 .. Len(stack[t])

\* An activation that has set the flag of its class.
Working(a) == a.at \in {"super", "begin", "clinit"}

MutexOf(t) ==
  /\ \A i \in Places(t) :
       /\ i > 1 => stack[t][i].at \in {"begin", "clinit"}
       /\ lock # t => stack[t][i].at = "lock"
  /\ lock = t => stack[t] # <<>> /\ (Len(stack[t]) = 1 => stack[t][1].at # "lock")

MutexInv == \A t \in Thread : MutexOf(t)

\* The flag and the static initializer of the class of an activation.
Sound(a) ==
  /\ Working(a) => a.class \in initialized
  /\ a.at \in {"super", "begin"} => clinit[a.class] = "none"
  /\ a.at = "clinit" => clinit[a.class] = "running"

SameWork(a, b) == Working(a) /\ Working(b) /\ a.class = b.class

WorkOf(t) ==
  /\ \A i \in Places(t) : Sound(stack[t][i])
  /\ \A i, j \in Places(t) : SameWork(stack[t][i], stack[t][j]) => i = j

WorkInv ==
  /\ \A t \in Thread : WorkOf(t)
  /\ \A c \in Class \ initialized : clinit[c] = "none"

\* Somebody works on a class.
WorkedOn(c) ==
  \E t \in Thread : \E i \in Places(t) :
    Working(stack[t][i]) /\ stack[t][i].class = c

CompleteInv ==
  "throw" \notin deeds =>
    /\ thrown = {}
    /\ \A c \in initialized : clinit[c] = "done" \/ WorkedOn(c)

\* The superclass of c, if there is one, has its flag set.
SuperMarked(c) == Super[c] # NoClass => Super[c] \in initialized

\* The activation at a place of t, if it is past the superclass, has that one
\* marked, or waits for the activation above it.
SuperAsked(t, i) ==
  stack[t][i].at = "begin" =>
    IF i = 1 THEN SuperMarked(stack[t][i].class)
    ELSE stack[t][i - 1].class = Super[stack[t][i].class]

SuperInv ==
  "throw" \notin deeds =>
    /\ \A c \in Class : clinit[c] # "none" => SuperMarked(c)
    /\ \A t \in Thread : \A i \in Places(t) : SuperAsked(t, i)

UseInv ==
  /\ \A t \in Thread : using[t] # NoClass => InJava(t)
  /\ SafeUse

IInv == TypeOK /\ MutexInv /\ WorkInv /\ CompleteInv /\ SuperInv /\ UseInv

-----------------------------------------------------------------------------
(* What the operations of ClassInit do to a stack of activations.          *)

Labels == {"lock", "check", "super", "begin", "clinit"}

\* The innermost activation comes first.
LEMMA Innermost ==
  ASSUME NEW s \in Seq(Activation), s # <<>>
  PROVE  /\ Len(s) \in Nat \ {0} /\ Head(s) = s[1]
         /\ \A i \in 1 .. Len(s) : s[i] \in Activation
  BY EmptySeq, LenProperties

\* Goto changes the label of the innermost activation, and nothing else.
LEMMA GotoRelabels ==
  ASSUME NEW s \in Seq(Activation), s # <<>>, NEW l \in Labels
  PROVE  /\ Goto(s, l) \in Seq(Activation) /\ Goto(s, l) # <<>>
         /\ Len(Goto(s, l)) = Len(s)
         /\ Goto(s, l)[1] = [class |-> s[1].class, at |-> l]
         /\ \A i \in 2 .. Len(s) : Goto(s, l)[i] = s[i]
<1> DEFINE a == [Head(s) EXCEPT !.at = l]
<1>0. Len(s) \in Nat \ {0} /\ Head(s) = s[1] /\ s[1] \in Activation
  BY Innermost
<1>1. a \in Activation /\ a = [class |-> s[1].class, at |-> l]
  BY <1>0 DEF Activation, Labels
<1>2. <<a>> \in Seq(Activation) /\ Len(<<a>>) = 1 /\ <<a>>[1] = a
  BY <1>1
<1>3. /\ Tail(s) \in Seq(Activation) /\ Len(Tail(s)) = Len(s) - 1
      /\ \A i \in 1 .. Len(Tail(s)) : Tail(s)[i] = s[i + 1]
  BY HeadTailProperties
<1> HIDE DEF a
<1>4. /\ <<a>> \o Tail(s) \in Seq(Activation)
      /\ Len(<<a>> \o Tail(s)) = Len(s)
      /\ \A i \in 1 .. Len(s) :
           (<<a>> \o Tail(s))[i] = IF i <= 1 THEN <<a>>[i] ELSE Tail(s)[i - 1]
  BY <1>0, <1>2, <1>3, ConcatProperties
<1> QED
  BY <1>0, <1>1, <1>2, <1>3, <1>4, EmptySeq DEF Goto, a

\* A new activation becomes the innermost and waits for the mutex.
LEMMA EnterPushes ==
  ASSUME NEW s \in Seq(Activation), NEW c \in Class
  PROVE  /\ Enter(c) \o s \in Seq(Activation) /\ Enter(c) \o s # <<>>
         /\ Len(Enter(c) \o s) = Len(s) + 1
         /\ (Enter(c) \o s)[1] = [class |-> c, at |-> "lock"]
         /\ \A i \in 2 .. Len(s) + 1 : (Enter(c) \o s)[i] = s[i - 1]
<1>1. /\ Enter(c) \in Seq(Activation) /\ Len(Enter(c)) = 1
      /\ Enter(c)[1] = [class |-> c, at |-> "lock"]
  BY DEF Enter, Activation
<1>2. Len(s) \in Nat
  BY LenProperties
<1>3. /\ Enter(c) \o s \in Seq(Activation)
      /\ Len(Enter(c) \o s) = Len(Enter(c)) + Len(s)
      /\ \A i \in 1 .. Len(Enter(c)) + Len(s) :
           (Enter(c) \o s)[i] = IF i <= Len(Enter(c)) THEN Enter(c)[i]
                                ELSE s[i - Len(Enter(c))]
  BY <1>1, ConcatProperties
<1>4. Enter(c) \o s # <<>>
  BY <1>1, <1>2, <1>3, EmptySeq
<1> QED
  BY <1>1, <1>2, <1>3, <1>4

\* Leaving uncovers the activation, or the Java code, that asked.
LEMMA TailPops ==
  ASSUME NEW s \in Seq(Activation), s # <<>>
  PROVE  /\ Tail(s) \in Seq(Activation) /\ Len(Tail(s)) = Len(s) - 1
         /\ \A i \in 1 .. Len(s) - 1 : Tail(s)[i] = s[i + 1]
         /\ Tail(s) = <<>> <=> Len(s) = 1
<1>1. /\ Tail(s) \in Seq(Activation) /\ Len(Tail(s)) = Len(s) - 1
      /\ \A i \in 1 .. Len(Tail(s)) : Tail(s)[i] = s[i + 1]
  BY HeadTailProperties
<1>2. Tail(s) = <<>> <=> Len(Tail(s)) = 0
  BY <1>1, EmptySeq
<1> QED
  BY <1>1, <1>2, Innermost

-----------------------------------------------------------------------------
(* The four ways in which a step of t changes the stacks.                  *)

OnlyStackOf(t) ==
  /\ stack \in [Thread -> Seq(Activation)] /\ stack' \in [Thread -> Seq(Activation)]
  /\ \A u \in Thread : /\ Len(stack[u]) \in Nat
                      /\ \A i \in 1 .. Len(stack[u]) : stack[u][i] \in Activation
  /\ \A u \in Thread \ {t} : stack'[u] = stack[u]

Relabels(t, l) ==
  /\ OnlyStackOf(t)
  /\ stack[t] # <<>> /\ stack'[t] # <<>> /\ Len(stack[t]) > 0
  /\ Len(stack'[t]) = Len(stack[t])
  /\ Head(stack[t]) = stack[t][1] /\ Head(stack'[t]) = stack'[t][1]
  /\ stack'[t][1] = [class |-> stack[t][1].class, at |-> l]
  /\ \A i \in 2 .. Len(stack[t]) : stack'[t][i] = stack[t][i]

Pushes(t, c) ==
  /\ OnlyStackOf(t)
  /\ stack'[t] # <<>> /\ Len(stack'[t]) = Len(stack[t]) + 1
  /\ stack[t] # <<>> => Len(stack[t]) > 0 /\ Head(stack[t]) = stack[t][1]
  /\ Head(stack'[t]) = stack'[t][1]
  /\ stack'[t][1] = [class |-> c, at |-> "lock"]
  /\ \A i \in 2 .. Len(stack[t]) + 1 : stack'[t][i] = stack[t][i - 1]

\* InitializeSuper for a class that has a superclass.
PushesSuper(t, c) ==
  /\ OnlyStackOf(t)
  /\ stack[t] # <<>> /\ stack'[t] # <<>> /\ Len(stack[t]) > 0
  /\ Len(stack'[t]) = Len(stack[t]) + 1
  /\ Head(stack[t]) = stack[t][1] /\ Head(stack'[t]) = stack'[t][1]
  /\ stack'[t][1] = [class |-> c, at |-> "lock"]
  /\ stack'[t][2] = [class |-> stack[t][1].class, at |-> "begin"]
  /\ \A i \in 3 .. Len(stack[t]) + 1 : stack'[t][i] = stack[t][i - 1]

Pops(t) ==
  /\ OnlyStackOf(t)
  /\ stack[t] # <<>> /\ Len(stack[t]) > 0 /\ Head(stack[t]) = stack[t][1]
  /\ Len(stack'[t]) = Len(stack[t]) - 1
  /\ Tail(stack[t]) = stack'[t] /\ (stack'[t] = <<>> <=> Len(stack[t]) = 1)
  /\ stack'[t] # <<>> => Head(stack'[t]) = stack'[t][1]
  /\ \A i \in 1 .. Len(stack[t]) - 1 : stack'[t][i] = stack[t][i + 1]

\* Goto(stack[t], l) relabels the innermost activation of t.
LEMMA StackRelabels ==
  ASSUME TypeOK, NEW t \in Thread, NEW l \in Labels, stack[t] # <<>>,
         stack' = [stack EXCEPT ![t] = Goto(@, l)]
  PROVE  Relabels(t, l)
<1>1. stack[t] \in Seq(Activation) /\ stack'[t] = Goto(stack[t], l)
  BY DEF TypeOK
<1>2. /\ stack'[t] \in Seq(Activation) /\ stack'[t] # <<>>
      /\ Len(stack'[t]) = Len(stack[t])
      /\ stack'[t][1] = [class |-> stack[t][1].class, at |-> l]
      /\ \A i \in 2 .. Len(stack[t]) : stack'[t][i] = stack[t][i]
  BY <1>1, GotoRelabels
<1>3. OnlyStackOf(t)
  BY <1>2, LenProperties, ElementOfSeq DEF TypeOK, OnlyStackOf
<1>4. Len(stack[t]) > 0 /\ Head(stack[t]) = stack[t][1] /\ Head(stack'[t]) = stack'[t][1]
  BY <1>1, <1>2, Innermost
<1> QED
  BY <1>2, <1>3, <1>4 DEF Relabels

\* A thread that asks for a class from its code gets an activation on top.
LEMMA StackPushes ==
  ASSUME TypeOK, NEW t \in Thread, NEW c \in Class,
         stack' = [stack EXCEPT ![t] = Enter(c) \o @]
  PROVE  Pushes(t, c)
<1>1. stack[t] \in Seq(Activation) /\ stack'[t] = Enter(c) \o stack[t]
  BY DEF TypeOK
<1>2. /\ stack'[t] \in Seq(Activation) /\ stack'[t] # <<>>
      /\ Len(stack'[t]) = Len(stack[t]) + 1
      /\ stack'[t][1] = [class |-> c, at |-> "lock"]
      /\ \A i \in 2 .. Len(stack[t]) + 1 : stack'[t][i] = stack[t][i - 1]
  BY <1>1, EnterPushes
<1>3. OnlyStackOf(t)
  BY <1>2, LenProperties, ElementOfSeq DEF TypeOK, OnlyStackOf
<1>4. /\ stack[t] # <<>> => Len(stack[t]) > 0 /\ Head(stack[t]) = stack[t][1]
      /\ Head(stack'[t]) = stack'[t][1]
  BY <1>1, <1>2, Innermost
<1> QED
  BY <1>2, <1>3, <1>4 DEF Pushes

\* A thread that asks for a superclass leaves its activation at "begin" below.
LEMMA StackPushesSuper ==
  ASSUME TypeOK, NEW t \in Thread, NEW c \in Class, stack[t] # <<>>,
         stack' = [stack EXCEPT ![t] = Enter(c) \o Goto(stack[t], "begin")]
  PROVE  PushesSuper(t, c)
<1> DEFINE s == Goto(stack[t], "begin")
<1>1. stack[t] \in Seq(Activation) /\ stack'[t] = Enter(c) \o s
  BY DEF TypeOK
<1>2. /\ s \in Seq(Activation) /\ s # <<>> /\ Len(s) = Len(stack[t])
      /\ s[1] = [class |-> stack[t][1].class, at |-> "begin"]
      /\ \A i \in 2 .. Len(stack[t]) : s[i] = stack[t][i]
  BY <1>1, GotoRelabels DEF Labels
<1> HIDE DEF s
<1> DEFINE r == Enter(c) \o s
<1>3. /\ r \in Seq(Activation) /\ r # <<>> /\ Len(r) = Len(s) + 1
      /\ r[1] = [class |-> c, at |-> "lock"]
      /\ \A i \in 2 .. Len(s) + 1 : r[i] = s[i - 1]
  BY <1>2, EnterPushes
<1> HIDE DEF r
<1>r. stack'[t] = r
  BY <1>1 DEF r
<1>4. OnlyStackOf(t)
  BY <1>r, <1>3, LenProperties, ElementOfSeq DEF TypeOK, OnlyStackOf
<1>5. /\ Len(stack[t]) \in Nat \ {0} /\ Head(stack[t]) = stack[t][1]
      /\ Head(stack'[t]) = stack'[t][1]
  BY <1>1, <1>r, <1>3, Innermost
<1>6. r[2] = s[1]
  BY <1>2, <1>3, <1>5
<1>7. ASSUME NEW i \in 3 .. Len(stack[t]) + 1 PROVE r[i] = stack[t][i - 1]
  BY <1>2, <1>3, <1>5, <1>7
<1> QED
  BY <1>r, <1>2, <1>3, <1>4, <1>5, <1>6, <1>7 DEF PushesSuper

\* A thread that leaves takes its innermost activation with it.
LEMMA StackPops ==
  ASSUME TypeOK, NEW t \in Thread, stack[t] # <<>>,
         stack' = [stack EXCEPT ![t] = Tail(@)]
  PROVE  Pops(t)
<1>1. stack[t] \in Seq(Activation) /\ stack'[t] = Tail(stack[t])
  BY DEF TypeOK
<1>2. /\ stack'[t] \in Seq(Activation) /\ Len(stack'[t]) = Len(stack[t]) - 1
      /\ \A i \in 1 .. Len(stack[t]) - 1 : stack'[t][i] = stack[t][i + 1]
      /\ stack'[t] = <<>> <=> Len(stack[t]) = 1
  BY <1>1, TailPops
<1>3. OnlyStackOf(t)
  BY <1>2, LenProperties, ElementOfSeq DEF TypeOK, OnlyStackOf
<1>4. /\ Len(stack[t]) > 0 /\ Head(stack[t]) = stack[t][1]
      /\ stack'[t] # <<>> => Head(stack'[t]) = stack'[t][1]
  BY <1>1, <1>2, Innermost
<1> QED
  BY <1>1, <1>2, <1>3, <1>4 DEF Pops

\* The innermost activation of t is about a class.
LEMMA CurrentClass ==
  ASSUME TypeOK, NEW t \in Thread, stack[t] # <<>>
  PROVE  Current(t) \in Class /\ Current(t) = stack[t][1].class
<1>1. stack[t] \in Seq(Activation)
  BY DEF TypeOK
<1>2. Head(stack[t]) = stack[t][1] /\ stack[t][1] \in Activation
  BY <1>1, Innermost
<1> QED BY <1>2 DEF Current, Activation

\* Which of them each action is.
LEMMA StepShape ==
  ASSUME TypeOK, NEW t \in Thread
  PROVE  /\ Lock(t) => Relabels(t, "check")
         /\ MarkInitialized(t) => Relabels(t, "super")
         /\ InitializeSuper(t) /\ Super[Current(t)] = NoClass => Relabels(t, "begin")
         /\ InitializeSuper(t) /\ Super[Current(t)] # NoClass =>
              PushesSuper(t, Super[Current(t)])
         /\ BeginStaticInit(t) => Relabels(t, "clinit")
         /\ AlreadyInitialized(t) \/ EndStaticInit(t) => Pops(t)
         /\ StaticInitThrows(t) \/ SuperThrows(t) => Pops(t)
         /\ \A c \in Class : Initialize(t, c) => Pushes(t, c)
<1> USE DEF At, Labels
<1>1. Lock(t) => Relabels(t, "check")
  BY StackRelabels DEF Lock
<1>2. MarkInitialized(t) => Relabels(t, "super")
  BY StackRelabels DEF MarkInitialized
<1>3. InitializeSuper(t) /\ Super[Current(t)] = NoClass => Relabels(t, "begin")
  <2> SUFFICES ASSUME InitializeSuper(t), Super[Current(t)] = NoClass
               PROVE  stack' = [stack EXCEPT ![t] = Goto(@, "begin")]
    BY StackRelabels DEF InitializeSuper
  <2> QED BY DEF InitializeSuper
<1>4. ASSUME InitializeSuper(t), Super[Current(t)] # NoClass
      PROVE  PushesSuper(t, Super[Current(t)])
  <2>1. Current(t) \in Class
    BY <1>4, CurrentClass DEF InitializeSuper
  <2>2. Super[Current(t)] \in Class
    BY <1>4, <2>1, ClassInitAssumption
  <2> QED BY <1>4, <2>2, StackPushesSuper DEF InitializeSuper
<1>5. BeginStaticInit(t) => Relabels(t, "clinit")
  BY StackRelabels DEF BeginStaticInit
<1>6. AlreadyInitialized(t) \/ EndStaticInit(t) => Pops(t)
  BY StackPops DEF AlreadyInitialized, EndStaticInit, ReturnOk, Leave
<1>7. StaticInitThrows(t) \/ SuperThrows(t) => Pops(t)
  BY StackPops DEF StaticInitThrows, SuperThrows, Leave
<1>8. ASSUME NEW c \in Class PROVE Initialize(t, c) => Pushes(t, c)
  BY StackPushes DEF Initialize
<1> QED BY <1>1, <1>2, <1>3, <1>4, <1>5, <1>6, <1>7, <1>8

-----------------------------------------------------------------------------
(* Every part of the invariant is kept by every step.                      *)

Step(t) ==
  \/ Proceeds(t) \/ Ends(t)
  \/ \E c \in Class : Initialize(t, c) \/ UseUnlocked(t, c)

LEMMA StepType ==
  ASSUME TypeOK, NEW t \in Thread, Step(t)
  PROVE  TypeOK'
<1> USE DEF TypeOK, Relabels, Pushes, PushesSuper, Pops, OnlyStackOf
<1>1. CASE Lock(t)
  BY <1>1, StepShape DEF Lock
<1>2. CASE MarkInitialized(t)
  <2>1. Relabels(t, "super") /\ Current(t) \in Class
    BY <1>2, StepShape, CurrentClass DEF MarkInitialized, At
  <2> QED BY <1>2, <2>1 DEF MarkInitialized
<1>3. CASE InitializeSuper(t)
  BY <1>3, StepShape DEF InitializeSuper
<1>4. CASE BeginStaticInit(t)
  BY <1>4, StepShape DEF BeginStaticInit
<1>5. CASE AlreadyInitialized(t) \/ EndStaticInit(t)
  <2>1. Pops(t) /\ Current(t) \in Class
    <3>1. Pops(t) /\ stack[t] # <<>>
      BY <1>5, StepShape DEF Pops
    <3> QED BY <3>1, CurrentClass
  <2>2. using' \in [Thread -> Class \cup {NoClass}]
    BY <1>5, <2>1 DEF AlreadyInitialized, EndStaticInit, ReturnOk
  <2> QED BY <1>5, <2>1, <2>2 DEF AlreadyInitialized, EndStaticInit, ReturnOk, Leave
<1>7. CASE StaticInitThrows(t) \/ SuperThrows(t)
  BY <1>7, StepShape DEF StaticInitThrows, SuperThrows, Leave
<1>8. ASSUME NEW c \in Class, Initialize(t, c) PROVE TypeOK'
  BY <1>8, StepShape DEF Initialize
<1>6. ASSUME NEW c \in Class, UseUnlocked(t, c) PROVE TypeOK'
  BY <1>6 DEF UseUnlocked
<1>9. CASE Used(t) \/ Catch(t)
  BY <1>9 DEF Used, Catch
<1> QED
  BY <1>1, <1>2, <1>3, <1>4, <1>5, <1>6, <1>7, <1>8, <1>9 DEF Step, Proceeds, Ends

\* A step of t leaves the other threads' activations alone, and takes the
\* mutex from none of them.
LEMMA StepOthers ==
  ASSUME TypeOK, MutexInv, NEW t \in Thread, Step(t), NEW u \in Thread \ {t}
  PROVE  stack'[u] = stack[u] /\ (lock' = u <=> lock = u)
<1>0. u # Nobody /\ t # Nobody /\ t # u /\ (stack[t] # <<>> => lock = t \/ stack[t][1].at = "lock")
  <2>1. stack[t] # <<>> => 1 \in 1 .. Len(stack[t])
    BY Innermost DEF TypeOK
  <2> QED BY <2>1, ClassInitAssumption DEF MutexInv, MutexOf, Places
<1>1. stack'[u] = stack[u]
  BY <1>0 DEF TypeOK, Step, Proceeds, Ends, Used, Lock, AlreadyInitialized,
     MarkInitialized, InitializeSuper, BeginStaticInit, SuperThrows, Catch,
     EndStaticInit, StaticInitThrows, Initialize, UseUnlocked, ReturnOk, Leave
<1>2. CASE Lock(t)
  BY <1>0, <1>1, <1>2 DEF Lock
<1>3. CASE UNCHANGED lock
  BY <1>1, <1>3
<1>4. CASE Leave(t) /\ stack[t] # <<>> /\ Head(stack[t]).at # "lock"
  <2>1. Head(stack[t]) = stack[t][1]
    BY <1>4, Innermost DEF TypeOK
  <2> QED BY <1>0, <1>1, <1>4, <2>1 DEF Leave
<1> QED
  BY <1>2, <1>3, <1>4 DEF Step, Proceeds, Ends, Used, AlreadyInitialized, At,
     MarkInitialized, InitializeSuper, BeginStaticInit, SuperThrows, Catch,
     EndStaticInit, StaticInitThrows, Initialize, UseUnlocked, ReturnOk

\* The mutex lets one thread at a time past the check of a flag.
LEMMA StepMutex ==
  ASSUME TypeOK, MutexInv, NEW t \in Thread, Step(t)
  PROVE  MutexInv'
<1>0. MutexOf(t) /\ lock \in Thread \cup {Nobody} /\ Nobody \notin Thread
  BY ClassInitAssumption DEF MutexInv, TypeOK
<1>s. SUFFICES MutexOf(t)'
  BY StepOthers DEF MutexInv, MutexOf, Places
<1> USE DEF MutexOf, Places
<1>1. CASE Lock(t)
  <2>1. Relabels(t, "check") /\ lock' = t /\ stack[t][1].at = "lock"
    BY <1>1, StepShape DEF Lock, At, Relabels
  <2>2. ASSUME NEW i \in 1 .. Len(stack'[t])
        PROVE  i > 1 => stack'[t][i].at \in {"begin", "clinit"}
    BY <1>0, <2>1, <2>2 DEF Relabels, OnlyStackOf
  <2>3. stack'[t] # <<>> /\ stack'[t][1].at # "lock"
    BY <2>1 DEF Relabels
  <2> QED BY <2>1, <2>2, <2>3
<1>2. CASE \/ MarkInitialized(t) \/ BeginStaticInit(t)
           \/ InitializeSuper(t) /\ Super[Current(t)] = NoClass
  <2>1. PICK l \in {"super", "begin", "clinit"} : Relabels(t, l)
    BY <1>2, StepShape
  <2>2. UNCHANGED lock /\ stack[t][1].at \in {"check", "super", "begin"}
    BY <1>2, <2>1 DEF MarkInitialized, BeginStaticInit, InitializeSuper, At, Relabels
  <2>3. lock = t
    BY <1>0, <2>1, <2>2 DEF Relabels, OnlyStackOf
  <2>4. ASSUME NEW i \in 1 .. Len(stack'[t])
        PROVE  i > 1 => stack'[t][i].at \in {"begin", "clinit"}
    BY <1>0, <2>1, <2>4 DEF Relabels, OnlyStackOf
  <2>5. stack'[t] # <<>> /\ stack'[t][1].at # "lock"
    BY <2>1 DEF Relabels
  <2> QED BY <2>2, <2>3, <2>4, <2>5
<1>3. CASE InitializeSuper(t) /\ Super[Current(t)] # NoClass
  <2>1. PushesSuper(t, Super[Current(t)])
    BY <1>3, StepShape
  <2>2. UNCHANGED lock /\ stack[t][1].at = "super"
    BY <1>3, <2>1 DEF InitializeSuper, At, PushesSuper
  <2>6. 1 \in 1 .. Len(stack[t])
    BY <2>1 DEF PushesSuper, OnlyStackOf
  <2>3. lock = t
    BY <1>0, <2>2, <2>6
  <2>4. ASSUME NEW i \in 1 .. Len(stack'[t])
        PROVE  i > 1 => stack'[t][i].at \in {"begin", "clinit"}
    <3>1. CASE i > 2
      <4>1. i - 1 \in 1 .. Len(stack[t]) /\ i - 1 > 1 /\ stack'[t][i] = stack[t][i - 1]
        BY <2>1, <2>4, <3>1 DEF PushesSuper, OnlyStackOf
      <4> QED BY <1>0, <4>1
    <3>2. CASE i <= 2
      BY <2>1, <2>4, <3>2 DEF PushesSuper
    <3> QED BY <3>1, <3>2
  <2>5. stack'[t] # <<>> /\ Len(stack'[t]) # 1
    BY <2>1 DEF PushesSuper, OnlyStackOf
  <2> QED BY <2>2, <2>3, <2>4, <2>5
<1>4. CASE AlreadyInitialized(t) \/ EndStaticInit(t) \/ StaticInitThrows(t) \/ SuperThrows(t)
  <2>1. Pops(t) /\ Leave(t)
    BY <1>4, StepShape
    DEF AlreadyInitialized, EndStaticInit, StaticInitThrows, SuperThrows, ReturnOk
  <2>2. stack[t][1].at \in {"check", "begin", "clinit"}
    BY <1>4, <2>1 DEF AlreadyInitialized, EndStaticInit, StaticInitThrows,
       SuperThrows, At, Pops
  <2>3. lock = t
    BY <1>0, <2>1, <2>2 DEF Pops, OnlyStackOf
  <2>4. ASSUME NEW i \in 1 .. Len(stack'[t])
        PROVE  stack'[t][i].at \in {"begin", "clinit"}
    BY <1>0, <2>1, <2>4 DEF Pops, OnlyStackOf
  <2>5. CASE stack'[t] = <<>>
    BY <1>0, <2>1, <2>5 DEF Pops, OnlyStackOf, Leave
  <2>6. CASE stack'[t] # <<>>
    <3>1. lock' = t
      BY <2>1, <2>3, <2>6 DEF Pops, Leave
    <3> QED BY <2>4, <2>6, <3>1
  <2> QED BY <2>5, <2>6
<1>5. ASSUME NEW c \in Class, Initialize(t, c) PROVE MutexOf(t)'
  <2>1. Pushes(t, c) /\ UNCHANGED lock
    BY <1>5, StepShape DEF Initialize
  <2>2. stack[t] # <<>> => stack[t][1].at = "clinit"
    BY <1>5, <2>1 DEF Initialize, InCode, InJava, Pushes
  <2>3. ASSUME NEW i \in 1 .. Len(stack'[t]), i > 1
        PROVE  stack'[t][i].at \in {"begin", "clinit"}
    <3>1. i - 1 \in 1 .. Len(stack[t]) /\ stack'[t][i] = stack[t][i - 1]
      BY <2>1, <2>3 DEF Pushes, OnlyStackOf
    <3> QED BY <1>0, <2>1, <2>2, <3>1 DEF Pushes, OnlyStackOf
  <2>4. CASE stack[t] = <<>>
    BY <1>0, <2>1, <2>3, <2>4 DEF Pushes
  <2>5. CASE stack[t] # <<>>
    <3>1. lock = t /\ Len(stack'[t]) # 1
      BY <1>0, <2>1, <2>2, <2>5 DEF Pushes, OnlyStackOf
    <3> QED BY <2>1, <2>3, <3>1 DEF Pushes
  <2> QED BY <2>4, <2>5
<1>6. CASE Used(t) \/ Catch(t) \/ \E c \in Class : UseUnlocked(t, c)
  BY <1>0, <1>6 DEF Used, Catch, UseUnlocked
<1> QED
  BY <1>1, <1>2, <1>3, <1>4, <1>5, <1>6 DEF Step, Proceeds, Ends

\* A thread whose innermost activation has passed the check has the mutex, and
\* nobody else works on any class.
LEMMA OwnerAlone ==
  ASSUME TypeOK, MutexInv, NEW t \in Thread, stack[t] # <<>>,
         stack[t][1].at # "lock"
  PROVE  /\ lock = t
         /\ \A u \in Thread \ {t} : \A i \in Places(u) : ~Working(stack[u][i])
<1>1. 1 \in Places(t)
  BY Innermost DEF TypeOK, Places
<1>2. lock = t
  BY <1>1 DEF MutexInv, MutexOf
<1> QED BY <1>2 DEF MutexInv, MutexOf, Working

\* The flags and the static initializers follow the activations, and no class
\* is worked on twice.
LEMMA StepWork ==
  ASSUME TypeOK, MutexInv, WorkInv, NEW t \in Thread, Step(t)
  PROVE  WorkInv'
<1>0. /\ WorkOf(t) /\ MutexOf(t)
      /\ initialized \subseteq Class /\ clinit \in [Class -> {"none", "running", "done", "failed"}]
  BY DEF WorkInv, MutexInv, TypeOK
<1>a. ASSUME UNCHANGED <<initialized, clinit>>, WorkOf(t)' PROVE WorkInv'
  BY <1>a, StepOthers DEF WorkInv, WorkOf, Places, Sound, SameWork, Working
<1>b. ASSUME stack[t] # <<>>, stack[t][1].at # "lock", WorkOf(t)',
             \A c \in Class \ initialized' : clinit'[c] = "none"
      PROVE  WorkInv'
  <2>1. ASSUME NEW u \in Thread \ {t} PROVE WorkOf(u)'
    <3>1. stack'[u] = stack[u] /\ \A i \in 1 .. Len(stack[u]) : ~Working(stack[u][i])
      BY <1>b, OwnerAlone, StepOthers DEF Places
    <3>2. ASSUME NEW i \in Places(u)' PROVE Sound(stack[u][i])' /\ ~Working(stack'[u][i])
      BY <3>1 DEF Sound, Working, Places
    <3> QED BY <3>2 DEF WorkOf, SameWork, Working
  <2> QED BY <1>b, <2>1 DEF WorkInv
<1>c. ASSUME \A i \in Places(t)' : Sound(stack[t][i])',
             \A i, j \in Places(t)' : SameWork(stack'[t][i], stack'[t][j]) => i = j
      PROVE  WorkOf(t)'
  BY <1>c DEF WorkOf, SameWork, Working
<1> USE DEF Places
<1>1. CASE Lock(t)
  <2>1. /\ Relabels(t, "check") /\ UNCHANGED <<initialized, clinit>>
        /\ stack[t][1].at = "lock"
    BY <1>1, StepShape DEF Lock, At, Relabels
  <2>2. ASSUME NEW i \in 1 .. Len(stack'[t])
        PROVE  /\ i \in 1 .. Len(stack[t])
               /\ stack'[t][i].at = "check" \/ stack'[t][i] = stack[t][i]
    BY <2>1, <2>2 DEF Relabels, OnlyStackOf
  <2>3. ASSUME NEW i \in 1 .. Len(stack'[t]) PROVE Sound(stack[t][i])'
    BY <1>0, <2>1, <2>2 DEF WorkOf, Sound, Working
  <2>4. ASSUME NEW i \in 1 .. Len(stack'[t]), NEW j \in 1 .. Len(stack'[t]),
               SameWork(stack'[t][i], stack'[t][j])
        PROVE  i = j
    BY <1>0, <2>2, <2>4 DEF WorkOf, SameWork, Working
  <2> QED BY <1>a, <1>c, <2>1, <2>3, <2>4
<1>2. CASE MarkInitialized(t)
  <2> DEFINE c == stack[t][1].class
  <2>1. /\ Relabels(t, "super") /\ stack[t][1].at = "check" /\ c \in Class \ initialized
        /\ UNCHANGED clinit /\ initialized' = initialized \cup {c}
    BY <1>2, StepShape, CurrentClass DEF MarkInitialized, At, Relabels
  <2>2. /\ clinit[c] = "none"
        /\ \A i \in 1 .. Len(stack[t]) :
             Working(stack[t][i]) => stack[t][i].class # c
    BY <1>0, <2>1 DEF WorkInv, WorkOf, Sound
  <2>3. ASSUME NEW i \in 1 .. Len(stack'[t])
        PROVE  /\ i \in 1 .. Len(stack[t])
               /\ IF i = 1 THEN stack'[t][i].at = "super" /\ stack'[t][i].class = c
                  ELSE stack'[t][i] = stack[t][i]
    BY <2>1, <2>3 DEF Relabels, OnlyStackOf
  <2>4. ASSUME NEW i \in 1 .. Len(stack'[t]) PROVE Sound(stack[t][i])'
    BY <1>0, <2>1, <2>2, <2>3 DEF WorkOf, Sound, Working
  <2>5. ASSUME NEW i \in 1 .. Len(stack'[t]), NEW j \in 1 .. Len(stack'[t]),
               SameWork(stack'[t][i], stack'[t][j])
        PROVE  i = j
    BY <1>0, <2>2, <2>3, <2>5 DEF WorkOf, SameWork
  <2>6. \A d \in Class \ initialized' : clinit'[d] = "none"
    BY <2>1 DEF WorkInv
  <2> QED BY <1>b, <1>c, <2>1, <2>4, <2>5, <2>6 DEF Relabels
<1>3. CASE InitializeSuper(t) /\ Super[Current(t)] = NoClass
  <2>1. /\ Relabels(t, "begin") /\ UNCHANGED <<initialized, clinit>>
        /\ stack[t][1].at = "super"
    BY <1>3, StepShape DEF InitializeSuper, At, Relabels
  <2>2. ASSUME NEW i \in 1 .. Len(stack'[t])
        PROVE  /\ i \in 1 .. Len(stack[t])
               /\ IF i = 1 THEN /\ stack'[t][i].class = stack[t][i].class
                               /\ stack'[t][i].at = "begin" /\ stack[t][i].at = "super"
                  ELSE stack'[t][i] = stack[t][i]
    BY <2>1, <2>2 DEF Relabels, OnlyStackOf
  <2>3. ASSUME NEW i \in 1 .. Len(stack'[t]) PROVE Sound(stack[t][i])'
    BY <1>0, <2>1, <2>2 DEF WorkOf, Sound, Working
  <2>4. ASSUME NEW i \in 1 .. Len(stack'[t]), NEW j \in 1 .. Len(stack'[t]),
               SameWork(stack'[t][i], stack'[t][j])
        PROVE  i = j
    BY <1>0, <2>2, <2>4 DEF WorkOf, SameWork, Working
  <2> QED BY <1>a, <1>c, <2>1, <2>3, <2>4
<1>4. CASE InitializeSuper(t) /\ Super[Current(t)] # NoClass
  <2>1. /\ PushesSuper(t, Super[Current(t)]) /\ UNCHANGED <<initialized, clinit>>
        /\ stack[t][1].at = "super"
    BY <1>4, StepShape DEF InitializeSuper, At, PushesSuper
  <2>2. ASSUME NEW i \in 1 .. Len(stack'[t]), stack'[t][i].at # "lock"
        PROVE  /\ i - 1 \in 1 .. Len(stack[t])
               /\ stack'[t][i].class = stack[t][i - 1].class
               /\ \/ stack'[t][i] = stack[t][i - 1]
                  \/ stack'[t][i].at = "begin" /\ stack[t][i - 1].at = "super"
    <3>1. CASE i > 2
      <4>1. i - 1 \in 1 .. Len(stack[t]) /\ i \in 3 .. Len(stack[t]) + 1
        BY <2>1, <2>2, <3>1 DEF PushesSuper, OnlyStackOf
      <4>2. stack'[t][i] = stack[t][i - 1]
        BY <2>1, <4>1 DEF PushesSuper
      <4> QED BY <4>1, <4>2
    <3>2. CASE i = 2
      <4>1. i - 1 = 1 /\ 1 \in 1 .. Len(stack[t])
        BY <2>1, <3>2 DEF PushesSuper, OnlyStackOf
      <4>2. stack'[t][i].class = stack[t][1].class /\ stack'[t][i].at = "begin"
        BY <2>1, <3>2 DEF PushesSuper
      <4> QED BY <2>1, <4>1, <4>2
    <3>3. CASE i = 1
      BY <2>1, <2>2, <3>3 DEF PushesSuper
    <3> QED BY <3>1, <3>2, <3>3
  <2>3. ASSUME NEW i \in 1 .. Len(stack'[t]) PROVE Sound(stack[t][i])'
    BY <1>0, <2>1, <2>2 DEF WorkOf, Sound, Working
  <2>4. ASSUME NEW i \in 1 .. Len(stack'[t]), NEW j \in 1 .. Len(stack'[t]),
               SameWork(stack'[t][i], stack'[t][j])
        PROVE  i = j
    <3>1. stack'[t][i].at # "lock" /\ stack'[t][j].at # "lock"
      BY <2>4 DEF SameWork, Working
    <3>2. i - 1 \in 1 .. Len(stack[t]) /\ j - 1 \in 1 .. Len(stack[t])
      BY <2>2, <3>1
    <3>3. SameWork(stack[t][i - 1], stack[t][j - 1])
      BY <2>1, <2>2, <2>4, <3>1 DEF SameWork, Working
    <3>4. i - 1 = j - 1
      BY <1>0, <3>2, <3>3 DEF WorkOf
    <3> QED BY <3>4
  <2> QED BY <1>a, <1>c, <2>1, <2>3, <2>4
<1>5. CASE BeginStaticInit(t)
  <2> DEFINE c == stack[t][1].class
  <2>1. /\ Relabels(t, "clinit") /\ stack[t][1].at = "begin" /\ c \in Class
        /\ UNCHANGED initialized /\ clinit' = [clinit EXCEPT ![c] = "running"]
    BY <1>5, StepShape, CurrentClass DEF BeginStaticInit, At, Relabels
  <2>2. /\ c \in initialized /\ 1 \in 1 .. Len(stack[t])
        /\ \A i \in 1 .. Len(stack[t]) :
             Working(stack[t][i]) /\ i # 1 => stack[t][i].class # c
    <3>1. 1 \in 1 .. Len(stack[t]) /\ Working(stack[t][1])
      BY <2>1 DEF Relabels, OnlyStackOf, Working
    <3> QED BY <1>0, <3>1 DEF WorkOf, Sound, SameWork
  <2>3. ASSUME NEW i \in 1 .. Len(stack'[t])
        PROVE  /\ i \in 1 .. Len(stack[t])
               /\ IF i = 1 THEN stack'[t][i].at = "clinit" /\ stack'[t][i].class = c
                  ELSE stack'[t][i] = stack[t][i]
    BY <2>1, <2>3 DEF Relabels, OnlyStackOf
  <2>4. ASSUME NEW i \in 1 .. Len(stack'[t]) PROVE Sound(stack[t][i])'
    <3>1. CASE i = 1
      BY <1>0, <2>1, <2>2, <2>3, <3>1 DEF Sound
    <3>2. CASE i # 1
      <4>1. /\ stack'[t][i] = stack[t][i] /\ Sound(stack[t][i]) /\ i \in 1 .. Len(stack[t])
            /\ Working(stack[t][i]) => stack[t][i].class # c /\ stack[t][i].class \in Class
        BY <1>0, <2>2, <2>3, <3>2 DEF WorkOf, Sound
      <4> QED BY <1>0, <2>1, <4>1 DEF Sound, Working
    <3> QED BY <3>1, <3>2
  <2>5. ASSUME NEW i \in 1 .. Len(stack'[t]), NEW j \in 1 .. Len(stack'[t]),
               SameWork(stack'[t][i], stack'[t][j])
        PROVE  i = j
    BY <1>0, <2>2, <2>3, <2>5 DEF WorkOf, SameWork
  <2>6. \A d \in Class \ initialized' : clinit'[d] = "none"
    BY <1>0, <2>1, <2>2 DEF WorkInv
  <2> QED BY <1>b, <1>c, <2>1, <2>4, <2>5, <2>6 DEF Relabels
<1>6. CASE AlreadyInitialized(t) \/ EndStaticInit(t) \/ StaticInitThrows(t) \/ SuperThrows(t)
  <2> DEFINE c == stack[t][1].class
  <2>1. /\ Pops(t) /\ UNCHANGED initialized /\ stack[t][1].at # "lock" /\ c \in Class
        /\ \/ UNCHANGED clinit
           \/ /\ stack[t][1].at = "clinit"
              /\ \E v \in {"done", "failed"} : clinit' = [clinit EXCEPT ![c] = v]
    BY <1>6, StepShape, CurrentClass
    DEF AlreadyInitialized, EndStaticInit, StaticInitThrows, SuperThrows, ReturnOk, At, Pops
  <2>2. ASSUME stack[t][1].at = "clinit"
        PROVE  /\ c \in initialized
               /\ \A i \in 1 .. Len(stack[t]) :
                    Working(stack[t][i]) /\ i # 1 => stack[t][i].class # c
    <3>1. 1 \in 1 .. Len(stack[t]) /\ Working(stack[t][1])
      BY <2>1, <2>2 DEF Pops, OnlyStackOf, Working
    <3> QED BY <1>0, <3>1 DEF WorkOf, Sound, SameWork
  <2>3. ASSUME NEW i \in 1 .. Len(stack'[t])
        PROVE  i + 1 \in 1 .. Len(stack[t]) /\ i + 1 # 1 /\ stack'[t][i] = stack[t][i + 1]
    BY <2>1, <2>3 DEF Pops, OnlyStackOf
  <2>4. ASSUME NEW i \in 1 .. Len(stack'[t]) PROVE Sound(stack[t][i])'
    <3>1. /\ stack'[t][i] = stack[t][i + 1] /\ Sound(stack[t][i + 1])
          /\ Working(stack[t][i + 1]) =>
               /\ stack[t][i + 1].class \in Class
               /\ stack[t][1].at = "clinit" => stack[t][i + 1].class # c
      BY <1>0, <2>2, <2>3 DEF WorkOf, Sound
    <3>2. Working(stack[t][i + 1]) => clinit'[stack[t][i + 1].class] = clinit[stack[t][i + 1].class]
      BY <1>0, <2>1, <3>1
    <3> QED BY <2>1, <3>1, <3>2 DEF Sound, Working
  <2>5. ASSUME NEW i \in 1 .. Len(stack'[t]), NEW j \in 1 .. Len(stack'[t]),
               SameWork(stack'[t][i], stack'[t][j])
        PROVE  i = j
    <3>1. i + 1 = j + 1
      BY <1>0, <2>3, <2>5 DEF WorkOf
    <3> QED BY <3>1
  <2>6. \A d \in Class \ initialized' : clinit'[d] = "none"
    BY <1>0, <2>1, <2>2 DEF WorkInv
  <2> QED BY <1>b, <1>c, <2>1, <2>4, <2>5, <2>6 DEF Pops
<1>7. ASSUME NEW c \in Class, Initialize(t, c) PROVE WorkInv'
  <2>1. Pushes(t, c) /\ UNCHANGED <<initialized, clinit>>
    BY <1>7, StepShape DEF Initialize
  <2>2. ASSUME NEW i \in 1 .. Len(stack'[t]), stack'[t][i].at # "lock"
        PROVE  i - 1 \in 1 .. Len(stack[t]) /\ stack'[t][i] = stack[t][i - 1]
    <3>1. i # 1
      BY <2>1, <2>2 DEF Pushes
    <3> QED BY <2>1, <2>2, <3>1 DEF Pushes, OnlyStackOf
  <2>3. ASSUME NEW i \in 1 .. Len(stack'[t]) PROVE Sound(stack[t][i])'
    BY <1>0, <2>1, <2>2 DEF WorkOf, Sound, Working
  <2>4. ASSUME NEW i \in 1 .. Len(stack'[t]), NEW j \in 1 .. Len(stack'[t]),
               SameWork(stack'[t][i], stack'[t][j])
        PROVE  i = j
    <3>1. i - 1 = j - 1
      BY <1>0, <2>2, <2>4 DEF WorkOf, SameWork, Working
    <3> QED BY <3>1
  <2> QED BY <1>a, <1>c, <2>1, <2>3, <2>4
<1>8. CASE Used(t) \/ Catch(t) \/ \E c \in Class : UseUnlocked(t, c)
  <2>1. UNCHANGED <<initialized, clinit, stack>>
    BY <1>8 DEF Used, Catch, UseUnlocked
  <2> QED BY <2>1 DEF WorkInv, WorkOf, Sound, SameWork, Working
<1> QED
  BY <1>1, <1>2, <1>3, <1>4, <1>5, <1>6, <1>7, <1>8 DEF Step, Proceeds, Ends

-----------------------------------------------------------------------------
(* Programs whose static initializers do not throw.                        *)

\* While t takes steps, a class that is worked on stays so if t does not stop.
LEMMA WorkGoesOn ==
  ASSUME NEW t \in Thread, NEW c, WorkedOn(c),
         \A u \in Thread \ {t} : stack'[u] = stack[u],
         \A i \in Places(t) : Working(stack[t][i]) /\ stack[t][i].class = c =>
           \E j \in Places(t)' : Working(stack'[t][j]) /\ stack'[t][j].class = c
  PROVE  WorkedOn(c)'
<1>1. PICK u \in Thread : \E i \in Places(u) : Working(stack[u][i]) /\ stack[u][i].class = c
  BY DEF WorkedOn
<1>2. CASE u = t
  BY <1>1, <1>2 DEF WorkedOn, Working
<1>3. CASE u # t
  BY <1>1, <1>3 DEF WorkedOn, Working, Places
<1> QED BY <1>2, <1>3

\* A class whose flag is set is ready or worked on.
LEMMA StepComplete ==
  ASSUME TypeOK, CompleteInv, NEW t \in Thread, Step(t)
  PROVE  CompleteInv'
<1> SUFFICES ASSUME "throw" \notin deeds
             PROVE  /\ thrown' = {}
                    /\ \A c \in initialized' : clinit'[c] = "done" \/ WorkedOn(c)'
  <2>1. deeds' = deeds
    BY DEF Step, Proceeds, Ends, Used, Lock, AlreadyInitialized,
     MarkInitialized, InitializeSuper, BeginStaticInit, SuperThrows, Catch,
     EndStaticInit, StaticInitThrows, Initialize, UseUnlocked
  <2> QED BY <2>1 DEF CompleteInv
<1>0. /\ thrown = {} /\ \A c \in initialized : clinit[c] = "done" \/ WorkedOn(c)
      /\ initialized \subseteq Class /\ clinit \in [Class -> {"none", "running", "done", "failed"}]
  BY DEF CompleteInv, TypeOK
<1>1. CASE Lock(t) \/ (InitializeSuper(t) /\ Super[Current(t)] = NoClass)
  <2>1. /\ \E l \in {"check", "begin"} : Relabels(t, l) /\ (l = "check" => stack[t][1].at = "lock")
        /\ UNCHANGED <<initialized, clinit, thrown>>
    BY <1>1, StepShape DEF Lock, InitializeSuper, At, Relabels
  <2>2. ASSUME NEW c, NEW i \in Places(t), Working(stack[t][i]), stack[t][i].class = c
        PROVE  i \in Places(t)' /\ Working(stack'[t][i]) /\ stack'[t][i].class = c
    BY <2>1, <2>2 DEF Relabels, OnlyStackOf, Places, Working
  <2>3. ASSUME NEW c, WorkedOn(c) PROVE WorkedOn(c)'
    BY <2>1, <2>2, <2>3, WorkGoesOn DEF Relabels, OnlyStackOf
  <2> QED BY <1>0, <2>1, <2>3
<1>2. CASE MarkInitialized(t)
  <2> DEFINE d == stack[t][1].class
  <2>1. /\ Relabels(t, "super") /\ stack[t][1].at = "check" /\ UNCHANGED <<clinit, thrown>>
        /\ initialized' = initialized \cup {d}
    BY <1>2, StepShape, CurrentClass DEF MarkInitialized, At, Relabels
  <2>2. ASSUME NEW c, NEW i \in Places(t), Working(stack[t][i]), stack[t][i].class = c
        PROVE  i \in Places(t)' /\ Working(stack'[t][i]) /\ stack'[t][i].class = c
    BY <2>1, <2>2 DEF Relabels, OnlyStackOf, Places, Working
  <2>3. ASSUME NEW c, WorkedOn(c) PROVE WorkedOn(c)'
    BY <2>1, <2>2, <2>3, WorkGoesOn DEF Relabels, OnlyStackOf
  <2>4. ASSUME NEW c, c = d PROVE WorkedOn(c)'
    <3>1. 1 \in Places(t)' /\ Working(stack'[t][1]) /\ stack'[t][1].class = c
      BY <2>1, <2>4 DEF Relabels, OnlyStackOf, Places, Working
    <3> QED BY <3>1 DEF WorkedOn, Working
  <2>5. ASSUME NEW c \in initialized' PROVE clinit'[c] = "done" \/ WorkedOn(c)'
    BY <1>0, <2>1, <2>3, <2>4, <2>5
  <2> QED BY <1>0, <2>1, <2>5
<1>3. CASE InitializeSuper(t) /\ Super[Current(t)] # NoClass
  <2>1. /\ PushesSuper(t, Super[Current(t)]) /\ UNCHANGED <<initialized, clinit, thrown>>
    BY <1>3, StepShape DEF InitializeSuper
  <2>2. ASSUME NEW c, NEW i \in Places(t), Working(stack[t][i]), stack[t][i].class = c
        PROVE  /\ i + 1 \in Places(t)' /\ Working(stack'[t][i + 1])
               /\ stack'[t][i + 1].class = c
    <3>1. i \in 1 .. Len(stack[t]) /\ i + 1 \in 1 .. Len(stack'[t])
      BY <2>1 DEF PushesSuper, OnlyStackOf, Places
    <3>2. CASE i = 1
      BY <2>1, <2>2, <3>1, <3>2 DEF PushesSuper, Places, Working
    <3>3. CASE i # 1
      <4>1. stack'[t][i + 1] = stack[t][i]
        BY <2>1, <3>1, <3>3 DEF PushesSuper, OnlyStackOf
      <4> QED BY <2>2, <3>1, <4>1 DEF Places, Working
    <3> QED BY <3>2, <3>3
  <2>3. ASSUME NEW c, WorkedOn(c) PROVE WorkedOn(c)'
    BY <2>1, <2>2, <2>3, WorkGoesOn DEF PushesSuper, OnlyStackOf
  <2> QED BY <1>0, <2>1, <2>3
<1>4. CASE BeginStaticInit(t)
  <2> DEFINE d == stack[t][1].class
  <2>1. /\ Relabels(t, "clinit") /\ UNCHANGED <<initialized, thrown>>
        /\ clinit' = [clinit EXCEPT ![d] = "running"]
    BY <1>4, StepShape, CurrentClass DEF BeginStaticInit, At, Relabels
  <2>2. ASSUME NEW c, NEW i \in Places(t), Working(stack[t][i]), stack[t][i].class = c
        PROVE  i \in Places(t)' /\ Working(stack'[t][i]) /\ stack'[t][i].class = c
    BY <2>1, <2>2 DEF Relabels, OnlyStackOf, Places, Working
  <2>3. ASSUME NEW c, WorkedOn(c) PROVE WorkedOn(c)'
    BY <2>1, <2>2, <2>3, WorkGoesOn DEF Relabels, OnlyStackOf
  <2>4. ASSUME NEW c, c = d PROVE WorkedOn(c)'
    <3>1. 1 \in Places(t)' /\ Working(stack'[t][1]) /\ stack'[t][1].class = c
      BY <2>1, <2>4 DEF Relabels, OnlyStackOf, Places, Working
    <3> QED BY <3>1 DEF WorkedOn, Working
  <2>5. ASSUME NEW c \in initialized' PROVE clinit'[c] = "done" \/ WorkedOn(c)'
    BY <1>0, <2>1, <2>3, <2>4, <2>5
  <2> QED BY <1>0, <2>1, <2>5
<1>5. CASE AlreadyInitialized(t) \/ EndStaticInit(t)
  <2> DEFINE d == stack[t][1].class
  <2>1. /\ Pops(t) /\ UNCHANGED <<initialized, thrown>> /\ d \in Class
        /\ \/ UNCHANGED clinit /\ stack[t][1].at = "check"
           \/ clinit' = [clinit EXCEPT ![d] = "done"]
    BY <1>5, StepShape, CurrentClass DEF AlreadyInitialized, EndStaticInit, ReturnOk, At, Pops
  <2>2. ASSUME NEW c, clinit'[c] # "done", c \in Class,
               NEW i \in Places(t), Working(stack[t][i]), stack[t][i].class = c
        PROVE  /\ i - 1 \in Places(t)' /\ Working(stack'[t][i - 1])
               /\ stack'[t][i - 1].class = c
    <3>1. i # 1
      BY <1>0, <2>1, <2>2 DEF Working
    <3>2. i - 1 \in 1 .. Len(stack'[t]) /\ i - 1 \in 1 .. Len(stack[t]) - 1 /\ (i - 1) + 1 = i
      BY <2>1, <3>1 DEF Pops, OnlyStackOf, Places
    <3>3. stack'[t][i - 1] = stack[t][i]
      BY <2>1, <3>2 DEF Pops
    <3> QED BY <2>2, <3>2, <3>3 DEF Places, Working
  <2>3. ASSUME NEW c \in Class, clinit'[c] # "done", WorkedOn(c) PROVE WorkedOn(c)'
    BY <2>1, <2>2, <2>3, WorkGoesOn DEF Pops, OnlyStackOf
  <2> QED BY <1>0, <2>1, <2>3
<1>6. ASSUME NEW b \in Class, Initialize(t, b)
      PROVE  /\ thrown' = {}
             /\ \A c \in initialized' : clinit'[c] = "done" \/ WorkedOn(c)'
  <2>1. Pushes(t, b) /\ UNCHANGED <<initialized, clinit, thrown>>
    BY <1>6, StepShape DEF Initialize
  <2>2. ASSUME NEW c, NEW i \in Places(t), Working(stack[t][i]), stack[t][i].class = c
        PROVE  /\ i + 1 \in Places(t)' /\ Working(stack'[t][i + 1])
               /\ stack'[t][i + 1].class = c
    <3>1. i + 1 \in 1 .. Len(stack'[t]) /\ i + 1 \in 2 .. Len(stack[t]) + 1 /\ (i + 1) - 1 = i
      BY <2>1 DEF Pushes, OnlyStackOf, Places
    <3>2. stack'[t][i + 1] = stack[t][i]
      BY <2>1, <3>1 DEF Pushes
    <3> QED BY <2>2, <3>1, <3>2 DEF Places, Working
  <2>3. ASSUME NEW c, WorkedOn(c) PROVE WorkedOn(c)'
    BY <2>1, <2>2, <2>3, WorkGoesOn DEF Pushes, OnlyStackOf
  <2> QED BY <1>0, <2>1, <2>3
<1>7. CASE Used(t) \/ Catch(t) \/ \E c \in Class : UseUnlocked(t, c)
  <2>1. UNCHANGED <<initialized, clinit, stack, thrown>>
    BY <1>0, <1>7 DEF Used, Catch, UseUnlocked
  <2> QED BY <1>0, <2>1 DEF WorkedOn, Working, Places
<1>8. CASE StaticInitThrows(t) \/ SuperThrows(t)
  BY <1>0, <1>8 DEF StaticInitThrows, SuperThrows
<1> QED
  BY <1>1, <1>2, <1>3, <1>4, <1>5, <1>6, <1>7, <1>8 DEF Step, Proceeds, Ends

\* No step of a program changes what it does.
LEMMA StepDeeds ==
  ASSUME NEW t \in Thread, Step(t) PROVE deeds' = deeds
  BY DEF Step, Proceeds, Ends, Used, Lock, AlreadyInitialized, MarkInitialized,
     InitializeSuper, BeginStaticInit, SuperThrows, Catch, EndStaticInit,
     StaticInitThrows, Initialize, UseUnlocked

\* The superclass is asked before the static initializer begins.
LEMMA StepSuper ==
  ASSUME TypeOK, MutexInv, WorkInv, CompleteInv, SuperInv, NEW t \in Thread, Step(t)
  PROVE  SuperInv'
<1> SUFFICES ASSUME "throw" \notin deeds
             PROVE  /\ \A c \in Class : clinit'[c] # "none" => SuperMarked(c)'
                    /\ \A u \in Thread : \A i \in Places(u)' : SuperAsked(u, i)'
  BY StepDeeds DEF SuperInv
<1>0. /\ thrown = {} /\ initialized \subseteq Class
      /\ clinit \in [Class -> {"none", "running", "done", "failed"}]
      /\ \A c \in Class : clinit[c] # "none" => SuperMarked(c)
      /\ \A u \in Thread : \A i \in Places(u) : SuperAsked(u, i)
      /\ \A i \in Places(t) : Sound(stack[t][i])
  BY DEF CompleteInv, SuperInv, TypeOK, WorkInv, WorkOf
<1>1. initialized \subseteq initialized'
  BY DEF Step, Proceeds, Ends, Used, Lock, AlreadyInitialized, MarkInitialized,
     InitializeSuper, BeginStaticInit, SuperThrows, Catch, EndStaticInit,
     StaticInitThrows, Initialize, UseUnlocked
<1>2. ASSUME \A i \in Places(t)' : SuperAsked(t, i)',
             \A c \in Class : clinit'[c] # "none" /\ clinit[c] = "none" => SuperMarked(c)
      PROVE  /\ \A c \in Class : clinit'[c] # "none" => SuperMarked(c)'
             /\ \A u \in Thread : \A i \in Places(u)' : SuperAsked(u, i)'
  <2>1. ASSUME NEW c \in Class, clinit'[c] # "none" PROVE SuperMarked(c)'
    BY <1>0, <1>1, <1>2, <2>1 DEF SuperMarked
  <2>2. ASSUME NEW u \in Thread \ {t}, NEW i \in Places(u)' PROVE SuperAsked(u, i)'
    <3>1. stack'[u] = stack[u] /\ i \in Places(u)
      BY StepOthers DEF Places
    <3> QED BY <1>0, <1>1, <3>1 DEF SuperAsked, SuperMarked
  <2> QED BY <1>2, <2>1, <2>2
<1>3. CASE Lock(t) \/ MarkInitialized(t)
  <2>1. UNCHANGED clinit /\ \E l \in {"check", "super"} : Relabels(t, l)
    BY <1>3, StepShape DEF Lock, MarkInitialized
  <2>2. ASSUME NEW i \in Places(t)', stack'[t][i].at = "begin" PROVE SuperAsked(t, i)'
    <3>1. i # 1 /\ i \in 1 .. Len(stack[t]) /\ stack'[t][i] = stack[t][i] /\ SuperAsked(t, i)
      BY <1>0, <2>1, <2>2 DEF Relabels, OnlyStackOf, Places
    <3>2. stack'[t][i - 1].class = stack[t][i - 1].class
      BY <2>1, <3>1 DEF Relabels, OnlyStackOf
    <3> QED BY <3>1, <3>2 DEF SuperAsked
  <2> QED BY <1>2, <2>1, <2>2 DEF SuperAsked
<1>4. CASE InitializeSuper(t) /\ Super[Current(t)] = NoClass
  <2>1. /\ UNCHANGED clinit /\ Relabels(t, "begin")
        /\ Super[stack[t][1].class] = NoClass
    BY <1>4, StepShape, CurrentClass DEF InitializeSuper, At
  <2>2. ASSUME NEW i \in Places(t)', stack'[t][i].at = "begin" PROVE SuperAsked(t, i)'
    <3>1. CASE i = 1
      BY <2>1, <3>1 DEF Relabels, SuperAsked, SuperMarked
    <3>2. CASE i # 1
      <4>0. i \in 2 .. Len(stack[t]) /\ i \in Places(t)
        BY <2>1, <3>2 DEF Relabels, OnlyStackOf, Places
      <4>1. i \in 1 .. Len(stack[t]) /\ stack'[t][i] = stack[t][i] /\ SuperAsked(t, i)
        BY <1>0, <2>1, <4>0 DEF Relabels, Places
      <4>2. stack'[t][i - 1].class = stack[t][i - 1].class
        BY <2>1, <3>2, <4>1 DEF Relabels, OnlyStackOf
      <4> QED BY <2>2, <3>2, <4>1, <4>2 DEF SuperAsked
    <3> QED BY <3>1, <3>2
  <2> QED BY <1>2, <2>1, <2>2 DEF SuperAsked
<1>5. CASE InitializeSuper(t) /\ Super[Current(t)] # NoClass
  <2>1. /\ UNCHANGED clinit /\ PushesSuper(t, Super[stack[t][1].class])
    BY <1>5, StepShape, CurrentClass DEF InitializeSuper, At
  <2>2. ASSUME NEW i \in Places(t)', stack'[t][i].at = "begin" PROVE SuperAsked(t, i)'
    <3>1. CASE i = 1
      BY <2>1, <2>2, <3>1 DEF PushesSuper
    <3>2. CASE i = 2
      <4>1. /\ i - 1 = 1 /\ stack'[t][1].class = Super[stack[t][1].class]
            /\ stack'[t][2].class = stack[t][1].class
        BY <2>1, <3>2 DEF PushesSuper
      <4> QED BY <3>2, <4>1 DEF SuperAsked
    <3>3. CASE i > 2
      <4>1. /\ i \in 3 .. Len(stack[t]) + 1 /\ i - 1 \in 1 .. Len(stack[t])
            /\ i - 1 # 1 /\ i - 2 \in 1 .. Len(stack[t]) /\ (i - 1) - 1 = i - 2
        BY <2>1, <3>3 DEF PushesSuper, OnlyStackOf, Places
      <4>2. stack'[t][i] = stack[t][i - 1] /\ SuperAsked(t, i - 1)
        BY <1>0, <2>1, <4>1 DEF PushesSuper, Places
      <4>3. stack'[t][i - 1].class = stack[t][i - 2].class
        <5>1. CASE i = 3
          <6>1. i - 1 = 2 /\ i - 2 = 1
            BY <5>1
          <6> QED BY <2>1, <6>1 DEF PushesSuper
        <5>2. CASE i # 3
          <6>1. i - 1 \in 3 .. Len(stack[t]) + 1
            BY <2>1, <3>3, <4>1, <5>2 DEF PushesSuper, OnlyStackOf
          <6> QED BY <2>1, <4>1, <6>1 DEF PushesSuper
        <5> QED BY <5>1, <5>2
      <4>4. stack[t][i - 2].class = Super[stack[t][i - 1].class]
        BY <2>2, <4>1, <4>2 DEF SuperAsked
      <4> QED BY <3>3, <4>2, <4>3, <4>4 DEF SuperAsked
    <3> QED BY <2>1, <3>1, <3>2, <3>3 DEF PushesSuper, OnlyStackOf, Places
  <2> QED BY <1>2, <2>1, <2>2 DEF SuperAsked
<1>6. CASE BeginStaticInit(t)
  <2> DEFINE d == stack[t][1].class
  <2>1. /\ Relabels(t, "clinit") /\ stack[t][1].at = "begin" /\ d \in Class
        /\ clinit' = [clinit EXCEPT ![d] = "running"]
    BY <1>6, StepShape, CurrentClass DEF BeginStaticInit, At, Relabels
  <2>2. ASSUME NEW i \in Places(t)', stack'[t][i].at = "begin" PROVE SuperAsked(t, i)'
    <3>1. i # 1 /\ i \in 1 .. Len(stack[t]) /\ stack'[t][i] = stack[t][i] /\ SuperAsked(t, i)
      BY <1>0, <2>1, <2>2 DEF Relabels, OnlyStackOf, Places
    <3>2. stack'[t][i - 1].class = stack[t][i - 1].class
      BY <2>1, <3>1 DEF Relabels, OnlyStackOf
    <3> QED BY <3>1, <3>2 DEF SuperAsked
  <2>3. SuperMarked(d)
    <3>1. 1 \in Places(t)
      BY <2>1 DEF Relabels, OnlyStackOf, Places
    <3> QED BY <1>0, <2>1, <3>1 DEF SuperAsked
  <2>4. ASSUME NEW c \in Class, clinit'[c] # "none", clinit[c] = "none" PROVE SuperMarked(c)
    BY <1>0, <2>1, <2>3, <2>4
  <2> QED BY <1>2, <2>2, <2>4 DEF SuperAsked
<1>7. CASE AlreadyInitialized(t) \/ EndStaticInit(t)
  <2> DEFINE d == stack[t][1].class
  <2>1. /\ Pops(t) /\ d \in Class
        /\ \/ UNCHANGED clinit /\ d \in initialized
           \/ /\ clinit' = [clinit EXCEPT ![d] = "done"] /\ stack[t][1].at = "clinit"
    BY <1>7, StepShape, CurrentClass
    DEF AlreadyInitialized, EndStaticInit, ReturnOk, At, Pops
  <2>2. 1 \in Places(t) /\ Sound(stack[t][1])
    BY <1>0, <2>1 DEF Pops, OnlyStackOf, Places
  <2>3. d \in initialized
    BY <2>1, <2>2 DEF Sound, Working
  <2>4. ASSUME NEW c \in Class, clinit'[c] # "none", clinit[c] = "none" PROVE SuperMarked(c)
    BY <1>0, <2>1, <2>2, <2>4 DEF Sound
  <2>5. ASSUME NEW i \in Places(t)', stack'[t][i].at = "begin" PROVE SuperAsked(t, i)'
    <3>1. /\ i \in 1 .. Len(stack[t]) - 1 /\ i + 1 \in Places(t) /\ (i + 1) - 1 = i
          /\ i + 1 # 1
      BY <2>1 DEF Pops, OnlyStackOf, Places
    <3>2. stack'[t][i] = stack[t][i + 1] /\ SuperAsked(t, i + 1)
      BY <1>0, <2>1, <3>1 DEF Pops
    <3>3. stack[t][i].class = Super[stack[t][i + 1].class]
      BY <2>5, <3>1, <3>2 DEF SuperAsked
    <3>4. CASE i = 1
      BY <1>1, <2>3, <3>2, <3>3, <3>4 DEF SuperAsked, SuperMarked
    <3>5. CASE i # 1
      <4>1. i - 1 \in 1 .. Len(stack[t]) - 1 /\ (i - 1) + 1 = i
        BY <2>1, <3>1, <3>5 DEF Pops, OnlyStackOf
      <4>2. stack'[t][i - 1] = stack[t][i]
        BY <2>1, <4>1 DEF Pops
      <4> QED BY <3>2, <3>3, <3>5, <4>2 DEF SuperAsked
    <3> QED BY <3>4, <3>5
  <2> QED BY <1>2, <2>4, <2>5 DEF SuperAsked
<1>8. ASSUME NEW b \in Class, Initialize(t, b)
      PROVE  /\ \A c \in Class : clinit'[c] # "none" => SuperMarked(c)'
             /\ \A u \in Thread : \A i \in Places(u)' : SuperAsked(u, i)'
  <2>1. /\ Pushes(t, b) /\ UNCHANGED clinit
        /\ stack[t] # <<>> => stack[t][1].at = "clinit"
    BY <1>8, StepShape DEF Initialize, InCode, InJava, Pushes
  <2>2. ASSUME NEW i \in Places(t)', stack'[t][i].at = "begin" PROVE SuperAsked(t, i)'
    <3>1. i # 1
      BY <2>1, <2>2 DEF Pushes
    <3>2. /\ i \in 2 .. Len(stack[t]) + 1 /\ i - 1 \in 1 .. Len(stack[t])
      BY <2>1, <3>1 DEF Pushes, OnlyStackOf, Places
    <3>3. stack'[t][i] = stack[t][i - 1] /\ SuperAsked(t, i - 1)
      BY <1>0, <2>1, <3>2 DEF Pushes, Places
    <3>4. stack[t] # <<>>
      BY <3>2, EmptySeq
    <3>5. i - 1 # 1
      BY <2>1, <2>2, <3>3, <3>4
    <3>6. /\ i - 1 \in 2 .. Len(stack[t]) + 1 /\ (i - 1) - 1 = i - 2
      BY <2>1, <3>2, <3>5 DEF Pushes, OnlyStackOf
    <3>7. stack'[t][i - 1] = stack[t][i - 2]
      BY <2>1, <3>6 DEF Pushes
    <3>8. stack[t][i - 2].class = Super[stack[t][i - 1].class]
      BY <2>2, <3>3, <3>5, <3>6 DEF SuperAsked
    <3> QED BY <3>1, <3>3, <3>7, <3>8 DEF SuperAsked
  <2> QED BY <1>2, <2>1, <2>2 DEF SuperAsked
<1>9. CASE Used(t) \/ Catch(t) \/ \E c \in Class : UseUnlocked(t, c)
  <2>1. UNCHANGED <<initialized, clinit, stack>>
    BY <1>9 DEF Used, Catch, UseUnlocked
  <2> QED BY <1>0, <2>1 DEF SuperAsked, SuperMarked, Places
<1>10. CASE StaticInitThrows(t) \/ SuperThrows(t)
  BY <1>0, <1>10 DEF StaticInitThrows, SuperThrows
<1> QED
  BY <1>3, <1>4, <1>5, <1>6, <1>7, <1>8, <1>9, <1>10 DEF Step, Proceeds, Ends

\* A thread that uses a class runs Java code, and the class is ready or its own.
LEMMA StepUse ==
  ASSUME TypeOK, MutexInv, WorkInv, CompleteInv, UseInv, NEW t \in Thread, Step(t)
  PROVE  UseInv'
<1>1. ASSUME NEW u \in Thread, using'[u] # NoClass PROVE InJava(u)'
  <2>1. CASE u # t
    <3>1. stack'[u] = stack[u]
      BY <2>1, StepOthers
    <3>2. using'[u] = using[u]
      BY <2>1 DEF TypeOK, Step, Proceeds, Ends, Used, Lock, AlreadyInitialized,
         MarkInitialized, InitializeSuper, BeginStaticInit, SuperThrows, Catch,
         EndStaticInit, StaticInitThrows, Initialize, UseUnlocked, ReturnOk
    <3> QED BY <1>1, <3>1, <3>2 DEF UseInv, InJava
  <2>2. CASE u = t
    <3>1. CASE AlreadyInitialized(t) \/ EndStaticInit(t)
      <4>1. Pops(t) /\ using[t] # NoClass => InJava(t)
        BY <3>1, StepShape DEF UseInv
      <4>2. CASE AskedByCode(t)
        BY <2>2, <3>1, <4>2, StepShape DEF AskedByCode, InJava, Pops
      <4>3. CASE ~AskedByCode(t)
        <5>1. UNCHANGED using
          BY <3>1, <4>3 DEF AlreadyInitialized, EndStaticInit, ReturnOk
        <5>2. CASE AlreadyInitialized(t)
          BY <1>1, <2>2, <5>1, <5>2 DEF UseInv, InJava, AlreadyInitialized, At
        <5>3. CASE EndStaticInit(t)
          BY <1>1, <2>2, <5>1, <5>3 DEF EndStaticInit, InCode
        <5> QED BY <3>1, <5>2, <5>3
      <4> QED BY <4>2, <4>3
    <3>2. CASE Used(t) \/ Catch(t) \/ \E c \in Class : UseUnlocked(t, c)
      BY <1>1, <2>2, <3>2 DEF UseInv, InJava, Used, Catch, UseUnlocked, InCode
    <3>3. CASE \/ Lock(t) \/ MarkInitialized(t) \/ InitializeSuper(t)
               \/ BeginStaticInit(t) \/ SuperThrows(t)
      <4>1. UNCHANGED using /\ stack[t] # <<>> /\ Head(stack[t]).at # "clinit"
        BY <3>3 DEF Lock, MarkInitialized, InitializeSuper, BeginStaticInit, SuperThrows, At
      <4> QED BY <1>1, <2>2, <4>1 DEF UseInv, InJava
    <3>4. CASE StaticInitThrows(t) \/ \E c \in Class : Initialize(t, c)
      BY <1>1, <2>2, <3>4 DEF StaticInitThrows, Initialize, InCode
    <3> QED BY <3>1, <3>2, <3>3, <3>4 DEF Step, Proceeds, Ends
  <2> QED BY <2>1, <2>2
<1>2. ASSUME deeds = {}, NEW c \in Class, clinit[c] = "done" PROVE clinit'[c] = "done"
  <2>1. clinit \in [Class -> {"none", "running", "done", "failed"}]
    BY DEF TypeOK
  <2>2. CASE BeginStaticInit(t)
    <3>1. /\ Relabels(t, "clinit") /\ stack[t][1].at = "begin"
          /\ clinit' = [clinit EXCEPT ![stack[t][1].class] = "running"]
      BY <2>2, StepShape, CurrentClass DEF BeginStaticInit, At, Relabels
    <3>2. Sound(stack[t][1])
      BY <3>1 DEF WorkInv, WorkOf, Relabels, OnlyStackOf, Places
    <3> QED BY <1>2, <2>1, <3>1, <3>2 DEF Sound
  <2>3. CASE EndStaticInit(t)
    BY <1>2, <2>1, <2>3 DEF EndStaticInit
  <2> QED
    BY <1>2, <2>2, <2>3 DEF Step, Proceeds, Ends, Used, Lock, AlreadyInitialized,
       MarkInitialized, InitializeSuper, SuperThrows, Catch, StaticInitThrows,
       Initialize, UseUnlocked
<1>3. ASSUME deeds = {}, NEW u \in Thread, NEW c, using'[u] = c, c # NoClass
      PROVE  Ready(u, c)'
  <2>0. /\ thrown = {} /\ c \in Class
        /\ \A d \in initialized : clinit[d] = "done" \/ WorkedOn(d)
    BY <1>3, StepType DEF CompleteInv, TypeOK
  <2>1. ASSUME using[u] = c, stack'[u] = stack[u] PROVE Ready(u, c)'
    <3>1. Ready(u, c)
      BY <1>3, <2>1 DEF UseInv, SafeUse
    <3> QED BY <1>2, <1>3, <2>0, <2>1, <3>1 DEF Ready, Initializing
  <2>2. CASE u # t
    <3>1. using'[u] = using[u]
      BY <2>2 DEF TypeOK, Step, Proceeds, Ends, Used, Lock, AlreadyInitialized,
         MarkInitialized, InitializeSuper, BeginStaticInit, SuperThrows, Catch,
         EndStaticInit, StaticInitThrows, Initialize, UseUnlocked, ReturnOk
    <3> QED BY <1>3, <2>1, <2>2, <3>1, StepOthers
  <2>3. CASE u = t /\ AskedByCode(t) /\ (AlreadyInitialized(t) \/ EndStaticInit(t))
    <3>0. stack[t] # <<>> /\ ReturnOk(t)
      BY <2>3 DEF AlreadyInitialized, EndStaticInit, At
    <3>1. c = stack[t][1].class
      BY <1>3, <2>3, <3>0, CurrentClass DEF ReturnOk, TypeOK
    <3>2. CASE EndStaticInit(t)
      BY <2>0, <2>3, <3>0, <3>1, <3>2, CurrentClass DEF EndStaticInit, TypeOK, Ready
    <3>3. CASE AlreadyInitialized(t)
      <4>1. Pops(t) /\ stack[t][1].at = "check" /\ c \in initialized /\ UNCHANGED clinit
        BY <3>1, <3>3, StepShape, CurrentClass DEF AlreadyInitialized, At, Pops
      <4>2. CASE clinit[c] = "done"
        BY <4>1, <4>2 DEF Ready
      <4>3. CASE WorkedOn(c)
        <5>1. PICK i \in Places(t) : Working(stack[t][i]) /\ stack[t][i].class = c
          BY <4>1, <4>3, OwnerAlone DEF WorkedOn, Pops
        <5>2. i # 1
          BY <4>1, <5>1 DEF Working
        <5>3. i - 1 \in 1 .. Len(stack[t]) - 1 /\ (i - 1) + 1 = i
          BY <4>1, <5>2 DEF Pops, OnlyStackOf, Places
        <5>4. stack'[t][i - 1].class = c
          BY <4>1, <5>1, <5>3 DEF Pops
        <5>5. i - 1 \in DOMAIN stack'[t]
          BY <4>1, <5>3, LenProperties DEF Pops, OnlyStackOf
        <5> QED BY <2>3, <5>4, <5>5 DEF Ready, Initializing
      <4> QED BY <2>0, <4>1, <4>2, <4>3
    <3> QED BY <2>3, <3>2, <3>3
  <2>4. CASE u = t /\ ~(AskedByCode(t) /\ (AlreadyInitialized(t) \/ EndStaticInit(t)))
    <3>0. stack[t] # <<>> /\ using[t] = c => Head(stack[t]).at = "clinit"
      BY <1>3 DEF UseInv, InJava
    <3>1. CASE AlreadyInitialized(t) \/ EndStaticInit(t)
      <4>1. using[t] = c /\ stack[t] # <<>>
        BY <1>3, <2>4, <3>1 DEF AlreadyInitialized, EndStaticInit, ReturnOk, At
      <4> QED BY <1>3, <3>0, <3>1, <4>1
              DEF AlreadyInitialized, EndStaticInit, InCode, At
    <3>2. CASE Lock(t) \/ MarkInitialized(t) \/ InitializeSuper(t) \/ BeginStaticInit(t)
      BY <1>3, <2>4, <3>0, <3>2
      DEF Lock, MarkInitialized, InitializeSuper, BeginStaticInit, At
    <3>3. CASE StaticInitThrows(t) \/ SuperThrows(t)
      BY <1>3, <2>0, <3>3 DEF StaticInitThrows, SuperThrows
    <3>4. CASE Used(t)
      BY <1>3, <2>4, <3>4 DEF Used, TypeOK
    <3>5. CASE Catch(t)
      BY <2>0, <3>5 DEF Catch
    <3>6. CASE \E d \in Class : Initialize(t, d) \/ UseUnlocked(t, d)
      BY <1>3, <2>4, <3>6 DEF Initialize, UseUnlocked, InCode
    <3> QED BY <3>1, <3>2, <3>3, <3>4, <3>5, <3>6 DEF Step, Proceeds, Ends
  <2> QED BY <2>2, <2>3, <2>4
<1> QED BY <1>1, <1>3, StepDeeds DEF UseInv, SafeUse

-----------------------------------------------------------------------------
(* Theorems.                                                               *)

\* At the start nobody initializes anything.
LEMMA InitIInv == Init => IInv
<1> SUFFICES ASSUME Init PROVE IInv
  OBVIOUS
<1>1. TypeOK
  BY DEF Init, TypeOK, Activation
<1>2. ASSUME NEW t \in Thread PROVE stack[t] = <<>> /\ Places(t) = {} /\ lock # t
  BY <1>2, ClassInitAssumption DEF Init, Places
<1>3. MutexInv /\ WorkInv
  BY <1>2 DEF Init, MutexInv, MutexOf, WorkInv, WorkOf
<1>4. CompleteInv /\ SuperInv /\ UseInv
  BY <1>2 DEF Init, CompleteInv, SuperInv, UseInv, SafeUse
<1> QED BY <1>1, <1>3, <1>4 DEF IInv

\* The invariant is inductive.
LEMMA NextIInv == IInv /\ [Next]_vars => IInv'
<1>1. ASSUME IInv, NEW t \in Thread, Step(t) PROVE IInv'
  BY <1>1, StepType, StepMutex, StepWork, StepComplete, StepSuper, StepUse DEF IInv
<1>2. ASSUME IInv, UNCHANGED vars PROVE IInv'
  BY <1>2 DEF IInv, vars, TypeOK, MutexInv, MutexOf, Places, WorkInv, WorkOf, Sound,
     SameWork, Working, CompleteInv, WorkedOn, SuperInv, SuperMarked, SuperAsked,
     UseInv, InJava, SafeUse, Ready, Initializing
<1> QED BY <1>1, <1>2 DEF Next, Step

\* In every reachable state.
LEMMA AlwaysIInv == Spec => []IInv
BY InitIInv, NextIInv, PTL DEF Spec

\* The variables keep their types: every activation is about a class, and a
\* thread uses a class or none (ClassLoader::initialize_class).
THEOREM TypeCorrect == Spec => []TypeOK
<1>1. IInv => TypeOK
  BY DEF IInv
<1> QED BY <1>1, AlwaysIInv, PTL

\* No static initializer starts before that of the superclass has ended, or
\* somebody is initializing the superclass: ClassLoader::initialize_class asks
\* for it between the flag and the static initializer.
THEOREM SuperclassFirst == Spec => []SuperFirst
<1>1. ASSUME IInv PROVE SuperFirst
  <2> SUFFICES ASSUME "throw" \notin deeds, NEW c \in Class, clinit[c] # "none",
                      Super[c] # NoClass, clinit[Super[c]] # "done"
               PROVE  \E t \in Thread : Initializing(t, Super[c])
    BY <1>1 DEF IInv, SuperFirst
  <2>1. Super[c] \in initialized
    BY <1>1 DEF IInv, SuperInv, SuperMarked
  <2>2. WorkedOn(Super[c])
    BY <1>1, <2>1 DEF IInv, CompleteInv
  <2>3. PICK t \in Thread : \E i \in Places(t) : stack[t][i].class = Super[c]
    BY <2>2 DEF WorkedOn
  <2>4. DOMAIN stack[t] = Places(t)
    BY <1>1, LenProperties DEF IInv, TypeOK, Places
  <2> QED BY <2>3, <2>4 DEF Initializing
<1> QED BY <1>1, AlwaysIInv, PTL

\* A thread that has asked for a class uses it only when its static initializer
\* has ended, or from within it (Interpreter and Method::invoke, which call
\* ClassLoader::initialize_class before every use).
THEOREM UseIsSafe == Spec => []SafeUse
<1>1. IInv => SafeUse
  BY DEF IInv, UseInv
<1> QED BY <1>1, AlwaysIInv, PTL

\* A static initializer runs at most once, also when it leads back to its own
\* class or throws: the flag is set under the mutex before it is run.
THEOREM RunsOnce == Spec => OnceOnly
<1>1. ASSUME IInv, NEW t \in Thread, Step(t), NEW c \in Class, clinit'[c] = "running"
      PROVE  clinit[c] \in {"none", "running"}
  <2>1. CASE BeginStaticInit(t)
    <3>1. /\ Relabels(t, "clinit") /\ stack[t][1].at = "begin"
          /\ clinit' = [clinit EXCEPT ![stack[t][1].class] = "running"]
      BY <1>1, <2>1, StepShape, CurrentClass DEF IInv, BeginStaticInit, At, Relabels
    <3>2. clinit[stack[t][1].class] = "none"
      BY <1>1, <3>1 DEF IInv, WorkInv, WorkOf, Sound, Relabels, OnlyStackOf, Places
    <3> QED BY <1>1, <3>1, <3>2 DEF IInv, TypeOK
  <2>2. CASE EndStaticInit(t) \/ StaticInitThrows(t)
    BY <1>1, <2>2 DEF EndStaticInit, StaticInitThrows, IInv, TypeOK
  <2>3. CASE UNCHANGED clinit
    BY <1>1, <2>3
  <2> QED
    BY <1>1, <2>1, <2>2, <2>3 DEF Step, Proceeds, Ends, Used, Lock, AlreadyInitialized,
       MarkInitialized, InitializeSuper, SuperThrows, Catch, Initialize, UseUnlocked
<1>2. IInv /\ [Next]_vars =>
        [\A c \in Class : clinit'[c] = "running" => clinit[c] \in {"none", "running"}]_vars
  BY <1>1 DEF Next, Step
<1> QED BY <1>2, AlwaysIInv, PTL DEF Spec, OnceOnly
=============================================================================
