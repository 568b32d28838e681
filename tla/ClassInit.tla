----------------------------- MODULE ClassInit -----------------------------
(***************************************************************************)
(* The initialization of classes (ClassLoader::initialize_class) and those *)
(* who ask for it.  One recursive mutex, _load_mutex, is held from the     *)
(* check of the flag to the end of the static initializer, which is Java   *)
(* code and may use any other class.  The flag is set before.              *)
(*                                                                         *)
(* The interpreter and Method::invoke call initialize_class for every use; *)
(* Object::new_object, Field::get_static and set_static and Unsafe look at *)
(* the flag first, without the mutex.                                      *)
(***************************************************************************)
EXTENDS Naturals, Sequences

CONSTANTS
  Thread,
  Class,
  Super,     \* the direct superclass of a class, or NoClass
  NoClass,
  Nobody,    \* no thread
  Programs   \* what happens in a program: sets of Deeds

\* throw: static initializers throw.
\* unlocked: classes are used by those who do not take the mutex.
Deeds == {"throw", "unlocked"}

ASSUME ClassInitAssumption ==
  /\ NoClass \notin Class /\ Nobody \notin Thread
  /\ Super \in [Class -> Class \cup {NoClass}]
  /\ Programs \subseteq SUBSET Deeds

VARIABLES
  initialized,  \* the classes whose flag is set
  clinit,       \* how far the static initializer of a class has come
  lock,         \* the owner of _load_mutex
  stack,        \* the activations of initialize_class, the innermost first
  using,        \* the class a thread uses now, sure that it is initialized
  thrown,       \* the threads with an exception on its way up
  deeds         \* what happens in this program, fixed from the start

vars == <<initialized, clinit, lock, stack, using, thrown, deeds>>

Activation == [class : Class, at : {"lock", "check", "super", "begin", "clinit"}]

TypeOK ==
  /\ initialized \subseteq Class
  /\ clinit \in [Class -> {"none", "running", "done", "failed"}]
  /\ lock \in Thread \cup {Nobody}
  /\ stack \in [Thread -> Seq(Activation)]
  /\ using \in [Thread -> Class \cup {NoClass}]
  /\ thrown \subseteq Thread
  /\ deeds \in Programs

Init ==
  /\ initialized = {}
  /\ clinit = [c \in Class |-> "none"]
  /\ lock = Nobody
  /\ stack = [t \in Thread |-> <<>>]
  /\ using = [t \in Thread |-> NoClass]
  /\ thrown = {}
  /\ deeds \in Programs

-----------------------------------------------------------------------------
\* The innermost activation of t is at a label and nothing is thrown.
At(t, label) ==
  /\ t \notin thrown
  /\ stack[t] # <<>> /\ Head(stack[t]).at = label

Current(t) == Head(stack[t]).class
Goto(s, label) == <<[Head(s) EXCEPT !.at = label]>> \o Tail(s)
Enter(c) == <<[class |-> c, at |-> "lock"]>>

\* The thread runs Java code: its own, or a static initializer.
InJava(t) == stack[t] # <<>> => Head(stack[t]).at = "clinit"

InCode(t) ==
  /\ using[t] = NoClass /\ t \notin thrown
  /\ InJava(t)

\* RETURN_UNLOCK: the mutex is free when the outermost activation is left.
Leave(t) ==
  /\ stack' = [stack EXCEPT ![t] = Tail(@)]
  /\ lock' = IF Tail(stack[t]) = <<>> THEN Nobody ELSE lock

\* To whoever asked on behalf of a use, and not of a subclass.
AskedByCode(t) == Tail(stack[t]) = <<>> \/ Tail(stack[t])[1].at = "clinit"

ReturnOk(t) ==
  /\ Leave(t)
  /\ using' = IF AskedByCode(t) THEN [using EXCEPT ![t] = Current(t)] ELSE using

-----------------------------------------------------------------------------
Initialize(t, c) ==
  /\ InCode(t)
  /\ stack' = [stack EXCEPT ![t] = Enter(c) \o @]
  /\ UNCHANGED <<initialized, clinit, lock, using, thrown, deeds>>

UseUnlocked(t, c) ==
  /\ InCode(t)
  /\ "unlocked" \in deeds /\ c \in initialized
  /\ using' = [using EXCEPT ![t] = c]
  /\ UNCHANGED <<initialized, clinit, lock, stack, thrown, deeds>>

Used(t) ==
  /\ using[t] # NoClass
  /\ using' = [using EXCEPT ![t] = NoClass]
  /\ UNCHANGED <<initialized, clinit, lock, stack, thrown, deeds>>

\* Mutation: whoever comes goes in.
LockNothing(t) ==
  /\ At(t, "lock")
  /\ lock' = t
  /\ stack' = [stack EXCEPT ![t] = Goto(@, "check")]
  /\ UNCHANGED <<initialized, clinit, using, thrown, deeds>>

Lock(t) ==
  /\ At(t, "lock")
  /\ lock \in {t, Nobody}
  /\ lock' = t
  /\ stack' = [stack EXCEPT ![t] = Goto(@, "check")]
  /\ UNCHANGED <<initialized, clinit, using, thrown, deeds>>

AlreadyInitialized(t) ==
  /\ At(t, "check")
  /\ Current(t) \in initialized
  /\ ReturnOk(t)
  /\ UNCHANGED <<initialized, clinit, thrown, deeds>>

\* Mutation: the flag is left for later.
MarkNothing(t) ==
  /\ At(t, "check")
  /\ Current(t) \notin initialized
  /\ stack' = [stack EXCEPT ![t] = Goto(@, "super")]
  /\ UNCHANGED <<initialized, clinit, lock, using, thrown, deeds>>

MarkInitialized(t) ==
  /\ At(t, "check")
  /\ Current(t) \notin initialized
  /\ initialized' = initialized \cup {Current(t)}
  /\ stack' = [stack EXCEPT ![t] = Goto(@, "super")]
  /\ UNCHANGED <<clinit, lock, using, thrown, deeds>>

\* Mutation: the superclass is left alone.
InitializeNoSuper(t) ==
  /\ At(t, "super")
  /\ stack' = [stack EXCEPT ![t] = Goto(@, "begin")]
  /\ UNCHANGED <<initialized, clinit, lock, using, thrown, deeds>>

InitializeSuper(t) ==
  /\ At(t, "super")
  /\ LET super == Super[Current(t)]
         rest == Goto(stack[t], "begin")
     IN  stack' = [stack EXCEPT ![t] =
                     IF super = NoClass THEN rest ELSE Enter(super) \o rest]
  /\ UNCHANGED <<initialized, clinit, lock, using, thrown, deeds>>

BeginStaticInit(t) ==
  /\ At(t, "begin")
  /\ clinit' = [clinit EXCEPT ![Current(t)] = "running"]
  /\ stack' = [stack EXCEPT ![t] = Goto(@, "clinit")]
  /\ UNCHANGED <<initialized, lock, using, thrown, deeds>>

\* Mutation: the mutex is not given back.
EndStaticInitLocked(t) ==
  /\ At(t, "clinit") /\ InCode(t)
  /\ clinit' = [clinit EXCEPT ![Current(t)] = "done"]
  /\ stack' = [stack EXCEPT ![t] = Tail(@)]
  /\ UNCHANGED <<initialized, lock, using, thrown, deeds>>

EndStaticInit(t) ==
  /\ At(t, "clinit") /\ InCode(t)
  /\ clinit' = [clinit EXCEPT ![Current(t)] = "done"]
  /\ ReturnOk(t)
  /\ UNCHANGED <<initialized, thrown, deeds>>

\* A static initializer throws, or does not catch what came up to it.
StaticInitThrows(t) ==
  /\ "throw" \in deeds
  /\ stack[t] # <<>> /\ Head(stack[t]).at = "clinit" /\ using[t] = NoClass
  /\ clinit' = [clinit EXCEPT ![Current(t)] = "failed"]
  /\ Leave(t)
  /\ thrown' = thrown \cup {t}
  /\ UNCHANGED <<initialized, using, deeds>>

\* The superclass could not be initialized.
SuperThrows(t) ==
  /\ t \in thrown
  /\ stack[t] # <<>> /\ Head(stack[t]).at = "begin"
  /\ Leave(t)
  /\ UNCHANGED <<initialized, clinit, using, thrown, deeds>>

Catch(t) ==
  /\ t \in thrown /\ InJava(t)
  /\ thrown' = thrown \ {t}
  /\ UNCHANGED <<initialized, clinit, lock, stack, using, deeds>>

-----------------------------------------------------------------------------
Proceeds(t) ==
  \/ Used(t) \/ Lock(t) \/ AlreadyInitialized(t) \/ MarkInitialized(t)
  \/ InitializeSuper(t) \/ BeginStaticInit(t) \/ SuperThrows(t) \/ Catch(t)

Ends(t) == EndStaticInit(t) \/ StaticInitThrows(t)

Next ==
  \E t \in Thread :
    \/ Proceeds(t) \/ Ends(t)
    \/ \E c \in Class : Initialize(t, c) \/ UseUnlocked(t, c)

Spec == Init /\ [][Next]_vars

(***************************************************************************)
(* Fairness: the operating system runs every thread, and a static          *)
(* initializer ends, however many classes it uses before.                  *)
(***************************************************************************)
Fairness == \A t \in Thread : WF_vars(Proceeds(t)) /\ SF_vars(Ends(t))
FairSpec == Spec /\ Fairness

-----------------------------------------------------------------------------
(* Properties.                                                             *)

\* t is initializing c.
Initializing(t, c) == \E i \in DOMAIN stack[t] : stack[t][i].class = c

\* The static initializer of a class runs at most once, although it may lead
\* back to its own class in any number of ways.
OnceOnly ==
  [][\A c \in Class : clinit'[c] = "running" => clinit[c] \in {"none", "running"}]_vars

\* No static initializer starts before that of the superclass has ended,
\* unless it is the superclass whose initializer asks for it.  (The types of
\* the variables are checked on the way.)
SuperFirst ==
  /\ TypeOK
  /\ "throw" \notin deeds => \A c \in Class :
       clinit[c] # "none" /\ Super[c] # NoClass =>
         \/ clinit[Super[c]] = "done"
         \/ \E t \in Thread : Initializing(t, Super[c])

\* A class that is used by a thread that has asked for its initialization is
\* initialized, or the thread itself is doing it.
Ready(t, c) == clinit[c] = "done" \/ Initializing(t, c)
SafeUse == deeds = {} => \A t \in Thread : using[t] # NoClass => Ready(t, using[t])

\* Threads whose static initializers use each other's classes do not lock
\* each other out: the mutex comes free.
LockComesFree == lock # Nobody ~> lock = Nobody
=============================================================================
