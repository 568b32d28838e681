----------------------------- MODULE References -----------------------------
(***************************************************************************)
(* JNI references and the roots of the collector (jni/Implementation.cpp,  *)
(* VirtualMachine.cpp, Method::invokeNative, jdk/openjdk/JVM.cpp).         *)
(*                                                                         *)
(* A reference is the object's address.  What keeps its object alive is an *)
(* entry of the same address in a list: that of the native frame on top,   *)
(* the one list of the virtual machine for all threads without frames, or  *)
(* the list of global references.  Lists hold an address as often as it    *)
(* was added: they are bags.  held is what JNI has given to the program    *)
(* and the program has not given back, which the code does not know.       *)
(*                                                                         *)
(* Native code runs during a collection.  The parts of a JNI function      *)
(* between THREAD_BLOCK and THREAD_UNBLOCK do not, and are one step here;  *)
(* a function that finds or creates an object outside and adds the         *)
(* reference inside takes two, and so do the beginning and the end of a    *)
(* native call, for which the collector does not wait either.  Java code   *)
(* is stopped between two instructions (module Safepoint says when).       *)
(***************************************************************************)
EXTENDS Integers, Sequences, FiniteSets, Bags, SequencesExt

CONSTANTS
  Thread,
  Object,
  Null,
  Depth,    \* bound: how many frames each thread may have
  MaxRefs   \* bound: how many references are held at a time

ASSUME ReferencesAssumption ==
  /\ IsFiniteSet(Thread) /\ IsFiniteSet(Object)
  /\ Null \notin Object
  /\ Depth \in [Thread -> Nat] /\ MaxRefs \in Nat

VARIABLES
  heap,        \* the container of all objects
  place,       \* what a static field refers to, or a field of an object in use
  globals,     \* _global_references
  vmLocals,    \* _local_references
  frames,      \* the frames of each thread
  base,        \* what is held by the code of a thread outside its frames
  uncaught,    \* _uncaught_exception of each thread
  doing,       \* what a thread does outside THREAD_BLOCK with which object
  unlisted     \* the objects with a reference that no list knows of

vars == <<heap, place, globals, vmLocals, frames, base, uncaught, doing, unlisted>>
graph == <<heap, place, unlisted>>
stack == <<frames, base, uncaught>>

Optional == Object \cup {Null}
IsRefs(bag) == IsABag(bag) /\ BagToSet(bag) \subseteq Object

\* localReferences belongs to native frames, local (the local variables and
\* operands) to Java ones.  wanted: the caller makes a reference of the result.
NativeFrame(wanted) ==
  [type |-> "native", localReferences |-> EmptyBag, held |-> EmptyBag, local |-> Null,
   exception |-> Null, wanted |-> wanted]
JavaFrame(o, wanted) ==
  [type |-> "java", localReferences |-> EmptyBag, held |-> EmptyBag, local |-> o,
   exception |-> Null, wanted |-> wanted]

Code == [what |-> "code", object |-> Null]
Doings == {"code", "ref", "throw", "construct", "enter", "result", "rethrow"}

TypeOK ==
  /\ heap \subseteq Object /\ unlisted \subseteq Object
  /\ place \in Optional /\ uncaught \in [Thread -> Optional]
  /\ IsRefs(globals) /\ IsRefs(vmLocals) /\ \A t \in Thread : IsRefs(base[t])
  /\ \A t \in Thread :
       /\ Len(frames[t]) <= Depth[t]
       /\ doing[t].object \in Optional
       /\ doing[t].what \in Doings
       /\ \A i \in DOMAIN frames[t] : LET f == frames[t][i] IN
            /\ f.type \in {"java", "native"} /\ f.wanted \in BOOLEAN
            /\ IsRefs(f.localReferences) /\ IsRefs(f.held)
            /\ {f.local, f.exception} \subseteq Optional

Init ==
  /\ heap = {}
  /\ place = Null
  /\ globals = EmptyBag
  /\ vmLocals = EmptyBag
  /\ frames = [t \in Thread |-> <<>>]
  /\ base = [t \in Thread |-> EmptyBag]
  /\ uncaught = [t \in Thread |-> Null]
  /\ doing = [t \in Thread |-> Code]
  /\ unlisted = {}

-----------------------------------------------------------------------------
(* The lists of references. *)

Top(t) == Last(frames[t])
SetTop(t, f) == [frames EXCEPT ![t][Len(frames[t])] = f]

InNative(t) == doing[t] = Code /\ (frames[t] # <<>> => Top(t).type = "native")
InJava(t) == doing[t] = Code /\ frames[t] # <<>> /\ Top(t).type = "java"

\* What native code of t may use: the local references of its frames and the
\* global ones.  Using one whose object is deleted is undefined and left out.
HeldBy(t) ==
  BagToSet(base[t]) \cup UNION {BagToSet(frames[t][i].held) : i \in DOMAIN frames[t]}
Usable(t) == (HeldBy(t) \cup BagToSet(globals)) \cap heap
HeldHere(t) == BagToSet(IF frames[t] = <<>> THEN base[t] ELSE Top(t).held)

Room ==
  LET count(t) == FoldLeft(LAMBDA n, f : n + BagCardinality(f.held),
                           BagCardinality(base[t]), frames[t])
  IN BagCardinality(globals) + MapThenSumSet(count, Thread) < MaxRefs

\* A Java frame on top is a fatal error, which no JNI function comes to.
AddLocalRef(t, o) ==
  IF o = Null THEN UNCHANGED <<vmLocals, frames, base>>
  ELSE /\ Room
       /\ IF frames[t] = <<>>
          THEN /\ vmLocals' = vmLocals (+) SetToBag({o})
               /\ base' = [base EXCEPT ![t] = @ (+) SetToBag({o})]
               /\ UNCHANGED frames
          ELSE /\ Top(t).type = "native"
               /\ frames' = SetTop(t, [Top(t) EXCEPT !.localReferences = @ (+) SetToBag({o}),
                                                     !.held = @ (+) SetToBag({o})])
               /\ UNCHANGED <<vmLocals, base>>

\* Mutant: the list of the virtual machine is always looked through as well.
RemoveLocalRefEverywhere(t, o) ==
  /\ vmLocals' = vmLocals (-) SetToBag({o})
  /\ IF frames[t] = <<>>
     THEN base' = [base EXCEPT ![t] = @ (-) SetToBag({o})] /\ UNCHANGED frames
     ELSE /\ frames' = SetTop(t, [Top(t) EXCEPT !.localReferences = @ (-) SetToBag({o}),
                                                !.held = @ (-) SetToBag({o})])
          /\ UNCHANGED base

\* Mutant: only the list of the virtual machine is looked through.
RemoveLocalRefVmOnly(t, o) ==
  /\ vmLocals' = vmLocals (-) SetToBag({o})
  /\ IF frames[t] = <<>>
     THEN base' = [base EXCEPT ![t] = @ (-) SetToBag({o})] /\ UNCHANGED frames
     ELSE /\ frames' = SetTop(t, [Top(t) EXCEPT !.held = @ (-) SetToBag({o})])
          /\ UNCHANGED base

\* What the list of the frame on top lacks is looked for in the one of the
\* virtual machine, whoever has put it there.
RemoveLocalRef(t, o) ==
  LET inFrame == frames[t] # <<>> /\ BagIn(o, Top(t).localReferences) IN
  /\ vmLocals' = IF inFrame THEN vmLocals ELSE vmLocals (-) SetToBag({o})
  /\ IF frames[t] = <<>>
     THEN base' = [base EXCEPT ![t] = @ (-) SetToBag({o})] /\ UNCHANGED frames
     ELSE /\ frames' = SetTop(t, [Top(t) EXCEPT !.localReferences = @ (-) SetToBag({o}),
                                                !.held = @ (-) SetToBag({o})])
          /\ UNCHANGED base

AddGlobalRef(o) == Room /\ globals' = globals (+) SetToBag({o})

RemoveGlobalRef(o) == globals' = globals (-) SetToBag({o})

-----------------------------------------------------------------------------
(* Objects and what marks them. *)

\* What the program of t has in hand, and what the lists have for it.
Holds(t) ==
  {uncaught[t]} \cup HeldBy(t)
  \cup UNION {{frames[t][i].local, frames[t][i].exception} : i \in DOMAIN frames[t]}
Listed ==
  BagToSet(globals) \cup BagToSet(vmLocals)
  \cup UNION {UNION {BagToSet(frames[t][i].localReferences) : i \in DOMAIN frames[t]}
              : t \in Thread}

\* An address is used again when nothing is left that names the old object.
Named == Listed \cup UNION {Holds(t) \cup {doing[t].object} : t \in Thread}
Fresh == {o \in Object \ heap : o \notin Named}

Allocate(o) ==
  /\ o \in Fresh
  /\ heap' = heap \cup {o}
  /\ unlisted' = unlisted \ {o}

\* What collectGarbage marks.  It goes on from there to the objects that these
\* refer to (module Collector).
FrameRoots(f) ==
  {f.exception} \cup IF f.type = "java" THEN {f.local} ELSE BagToSet(f.localReferences)
\* Mutant: exceptions that no frame has any more are forgotten.
RootsInFrames ==
  {place} \cup BagToSet(globals) \cup BagToSet(vmLocals)
  \cup UNION {UNION {FrameRoots(frames[t][i]) : i \in DOMAIN frames[t]} : t \in Thread}

Roots ==
  {place} \cup BagToSet(globals) \cup BagToSet(vmLocals)
  \cup UNION {{uncaught[t]} \cup UNION {FrameRoots(frames[t][i]) : i \in DOMAIN frames[t]}
              : t \in Thread}

\* An object that a thread is about to make a reference of, to return or to
\* throw may be among those that are taken; what it gets then names no object.
\* A frame that has no list yet ends the process (Safepoint.CollectFollowsNull).
Collect ==
  LET live == heap \cap Roots IN
  /\ \A t \in Thread : doing[t].what # "enter"
  /\ UNCHANGED <<place, globals, vmLocals, stack, doing>>
  /\ heap' = live
  /\ unlisted' = (unlisted \cup ({doing[t].object : t \in Thread} \ (live \cup {Null})))
                 \cap (live \cup Named)

-----------------------------------------------------------------------------
(* Functions that a native method calls; each is in its source one function *)
(* of the JNI table or of JVM.cpp, or a family of them.                     *)

\* After this part the function adds a reference to o, or throws it, or calls
\* the constructor with it.
Then(t, what, o) == doing' = [doing EXCEPT ![t] = [what |-> what, object |-> o]]

NewLocalRef(t) ==
  /\ InNative(t)
  /\ \E o \in Usable(t) : AddLocalRef(t, o)
  /\ UNCHANGED <<graph, globals, uncaught, doing>>

NewGlobalRef(t) ==
  /\ InNative(t)
  /\ \E o \in Usable(t) : AddGlobalRef(o)
  /\ UNCHANGED <<graph, vmLocals, stack, doing>>

DeleteGlobalRef(t) ==
  /\ InNative(t)
  /\ \E o \in BagToSet(globals) : RemoveGlobalRef(o)
  /\ UNCHANGED <<graph, vmLocals, stack, doing>>

\* Of the references of the method that runs: deleting others is not for it.
DeleteLocalRef(t) ==
  /\ InNative(t)
  /\ \E o \in HeldHere(t) : RemoveLocalRef(t, o)
  /\ UNCHANGED <<graph, globals, uncaught, doing>>

AllocObject(t) ==
  /\ InNative(t)
  /\ \E o \in Fresh : Allocate(o) /\ AddLocalRef(t, o)
  /\ UNCHANGED <<place, globals, uncaught, doing>>

NewObject(t) ==
  /\ InNative(t)
  /\ \E o \in Fresh : Allocate(o) /\ AddLocalRef(t, o) /\ Then(t, "construct", o)
  /\ UNCHANGED <<place, globals, uncaught>>

\* What other natives of JVM.cpp do as well (JVM_NewArray, JVM_GetClassName):
\* the object is created before the block: nothing refers to it for a while.
CreateOutside(t) ==
  /\ InNative(t)
  /\ \E o \in Fresh : Allocate(o) /\ Then(t, "ref", o)
  /\ UNCHANGED <<place, globals, vmLocals, stack>>

NewObjectArray(t) == CreateOutside(t)

JVM_Clone(t) == CreateOutside(t)

\* The string goes to the program without an entry in any list.
NewString(t) ==
  /\ InNative(t) /\ Room
  /\ \E o \in Fresh :
       /\ heap' = heap \cup {o}
       /\ unlisted' = unlisted \cup {o}
       /\ IF frames[t] = <<>>
          THEN base' = [base EXCEPT ![t] = @ (+) SetToBag({o})] /\ UNCHANGED frames
          ELSE frames' = SetTop(t, [Top(t) EXCEPT !.held = @ (+) SetToBag({o})]) /\ UNCHANGED base
  /\ UNCHANGED <<place, globals, vmLocals, uncaught, doing>>

\* The field is read before the block, which another thread may use to change
\* the field and the collector to take the object.
GetObjectField(t) ==
  /\ InNative(t)
  /\ Then(t, "ref", place)
  /\ UNCHANGED <<graph, globals, vmLocals, stack>>

GetObjectArrayElement(t) ==
  /\ InNative(t)
  /\ AddLocalRef(t, place)
  /\ UNCHANGED <<graph, globals, uncaught, doing>>

SetObjectField(t) ==
  /\ InNative(t)
  /\ \E v \in Usable(t) \cup {Null} : place' = v
  /\ UNCHANGED <<heap, unlisted, globals, vmLocals, stack, doing>>

\* Outside frames, JNI_ERR.
SetException(t, o) ==
  IF frames[t] = <<>> THEN UNCHANGED frames
  ELSE frames' = SetTop(t, [Top(t) EXCEPT !.exception = o])

Throw(t) ==
  /\ InNative(t)
  /\ \E o \in Usable(t) : SetException(t, o)
  /\ UNCHANGED <<graph, globals, vmLocals, base, uncaught, doing>>

ThrowNew(t) ==
  /\ InNative(t)
  /\ \E o \in Fresh : Allocate(o) /\ Then(t, "throw", o)
  /\ UNCHANGED <<place, globals, vmLocals, stack>>

ThrowIt(t) ==
  /\ doing[t].what = "throw"
  /\ SetException(t, doing[t].object)
  /\ doing' = [doing EXCEPT ![t] = Code]
  /\ UNCHANGED <<graph, globals, vmLocals, base, uncaught>>

OccurredException(t) == IF frames[t] = <<>> THEN uncaught[t] ELSE Top(t).exception

ExceptionOccurred(t) ==
  /\ InNative(t)
  /\ Then(t, "ref", OccurredException(t))
  /\ UNCHANGED <<graph, globals, vmLocals, stack>>

ExceptionClear(t) ==
  /\ InNative(t)
  /\ IF frames[t] = <<>>
     THEN uncaught' = [uncaught EXCEPT ![t] = Null] /\ UNCHANGED frames
     ELSE frames' = SetTop(t, [Top(t) EXCEPT !.exception = Null]) /\ UNCHANGED uncaught
  /\ UNCHANGED <<graph, globals, vmLocals, base, doing>>

\* The end of every function that has found its object outside the block.
MakeRef(t) ==
  /\ doing[t].what = "ref"
  /\ AddLocalRef(t, doing[t].object)
  /\ doing' = [doing EXCEPT ![t] = Code]
  /\ UNCHANGED <<graph, globals, uncaught>>

-----------------------------------------------------------------------------
(* Calls and returns. *)

\* A method of o, called with nothing but o.  The frame of a native one is there
\* before its list of references.
Push(t, o, type, wanted) ==
  /\ Len(frames[t]) < Depth[t]
  /\ IF type = "native"
     THEN /\ frames' = [frames EXCEPT ![t] = Append(@, NativeFrame(wanted))]
          /\ Then(t, "enter", o)
     ELSE /\ frames' = [frames EXCEPT ![t] = Append(@, JavaFrame(o, wanted))]
          /\ doing' = [doing EXCEPT ![t] = Code]

\* The collector skips the thread by now, so others run while the list is filled.
SetLocalReferences(t) ==
  /\ doing[t].what = "enter"
  /\ AddLocalRef(t, doing[t].object)
  /\ doing' = [doing EXCEPT ![t] = Code]
  /\ UNCHANGED <<graph, globals, uncaught>>

\* Call<Type>Method and its relatives; wanted for those with Object in the name.
CallMethod(t) ==
  /\ InNative(t)
  /\ \E o \in Usable(t), type \in {"java", "native"}, wanted \in BOOLEAN :
       Push(t, o, type, wanted)
  /\ UNCHANGED <<graph, globals, vmLocals, base, uncaught>>

CallConstructor(t) ==
  /\ doing[t].what = "construct"
  /\ Push(t, doing[t].object, "java", FALSE)
  /\ UNCHANGED <<graph, globals, vmLocals, base, uncaught>>

\* What is left of the frames gets the result of a method.
Deliver(t, rest, wanted, result) ==
  IF rest # <<>> /\ Last(rest).type = "java"
  THEN /\ frames' = [frames EXCEPT ![t] = Front(rest) \o <<[Last(rest) EXCEPT !.local = result]>>]
       /\ UNCHANGED doing
  ELSE /\ frames' = [frames EXCEPT ![t] = rest]
       /\ IF wanted THEN Then(t, "ref", result) ELSE UNCHANGED doing

\* A Java frame on top catches the exception or goes, up to a native frame.
\* With no frame at all the code looks at a frame that is not there: left out.
Unwind(t, rest, exception) ==
  LET JavaFrom(i) == \A j \in i .. Len(rest) : rest[j].type = "java"
      To(frame, i) == frames' = [frames EXCEPT ![t] = Append(SubSeq(rest, 1, i - 1), frame)]
  IN /\ rest # <<>>
     /\ \/ /\ \E i \in 1 .. Len(rest) :
               \/ JavaFrom(i) /\ To([rest[i] EXCEPT !.local = exception], i)
               \/ /\ rest[i].type = "native" /\ JavaFrom(i + 1)
                  /\ To([rest[i] EXCEPT !.exception = exception], i)
           /\ UNCHANGED uncaught
        \/ /\ JavaFrom(1)
           /\ frames' = [frames EXCEPT ![t] = <<>>]
           /\ uncaught' = [uncaught EXCEPT ![t] = exception]

\* The frame goes, with its list, before the caller has what comes of the call;
\* the collector is not waited for in between.
NativeReturn(t) ==
  /\ InNative(t) /\ frames[t] # <<>>
  /\ frames' = [frames EXCEPT ![t] = Front(@)]
  /\ \E result \in Usable(t) \cup {Null} :
       LET rest == Front(frames[t]) IN
       IF Top(t).exception # Null THEN rest # <<>> /\ Then(t, "rethrow", Top(t).exception)
       ELSE IF rest # <<>> /\ Last(rest).type = "java" THEN Then(t, "result", result)
       ELSE IF Top(t).wanted THEN Then(t, "ref", result)
       ELSE UNCHANGED doing
  /\ UNCHANGED <<graph, globals, vmLocals, base, uncaught>>

\* The instruction pushes what the native method has returned.
PushResult(t) ==
  /\ doing[t].what = "result" /\ frames[t] # <<>> /\ Top(t).type = "java"
  /\ frames' = SetTop(t, [Top(t) EXCEPT !.local = doing[t].object])
  /\ doing' = [doing EXCEPT ![t] = Code]
  /\ UNCHANGED <<graph, globals, vmLocals, base, uncaught>>

Rethrow(t) ==
  /\ doing[t].what = "rethrow"
  /\ Unwind(t, frames[t], doing[t].object)
  /\ doing' = [doing EXCEPT ![t] = Code]
  /\ UNCHANGED <<graph, globals, vmLocals, base>>

JavaReturn(t) ==
  /\ InJava(t)
  /\ Deliver(t, Front(frames[t]), Top(t).wanted, Top(t).local)
  /\ UNCHANGED <<graph, globals, vmLocals, base, uncaught>>

JavaThrow(t) ==
  /\ InJava(t) /\ Top(t).local # Null
  /\ Unwind(t, frames[t], Top(t).local)
  /\ UNCHANGED <<graph, globals, vmLocals, base, doing>>

JavaCall(t) ==
  /\ InJava(t) /\ Top(t).local # Null
  /\ \E type \in {"java", "native"} : Push(t, Top(t).local, type, FALSE)
  /\ UNCHANGED <<graph, globals, vmLocals, base, uncaught>>

JavaNew(t) ==
  /\ InJava(t)
  /\ \E o \in Fresh :
       Allocate(o) /\ frames' = SetTop(t, [Top(t) EXCEPT !.local = o])
  /\ UNCHANGED <<place, globals, vmLocals, base, uncaught, doing>>

JavaGetStatic(t) ==
  /\ InJava(t)
  /\ frames' = SetTop(t, [Top(t) EXCEPT !.local = place])
  /\ UNCHANGED <<graph, globals, vmLocals, base, uncaught, doing>>

\* Also aconst_null before it.
JavaPutStatic(t) ==
  /\ InJava(t)
  /\ place' \in {Top(t).local, Null}
  /\ UNCHANGED <<heap, unlisted, globals, vmLocals, stack, doing>>

\* The roots in the terms of JNI: references that the program holds.
HeldRoots ==
  {place} \cup BagToSet(globals) \cup UNION {Holds(t) : t \in Thread}

\* What a program does with a reference that names no object is undefined: its
\* behaviours end there.
Defined == HeldRoots \subseteq heap \cup {Null}

Next ==
  /\ Defined
  /\ \/ Collect
     \/ \E t \in Thread :
          \/ NewLocalRef(t) \/ NewGlobalRef(t) \/ DeleteGlobalRef(t) \/ DeleteLocalRef(t)
          \/ AllocObject(t) \/ NewObject(t)
          \/ NewObjectArray(t) \/ JVM_Clone(t) \/ NewString(t)
          \/ GetObjectField(t) \/ GetObjectArrayElement(t)
          \/ SetObjectField(t)
          \/ Throw(t) \/ ThrowNew(t) \/ ThrowIt(t) \/ ExceptionOccurred(t) \/ ExceptionClear(t)
          \/ MakeRef(t) \/ CallMethod(t) \/ CallConstructor(t) \/ SetLocalReferences(t)
          \/ NativeReturn(t) \/ PushResult(t) \/ Rethrow(t)
          \/ JavaReturn(t) \/ JavaThrow(t) \/ JavaCall(t) \/ JavaNew(t)
          \/ JavaGetStatic(t) \/ JavaPutStatic(t)

Spec == Init /\ [][Next]_vars

-----------------------------------------------------------------------------

\* Every reference that JNI has given out and not taken back, every pending
\* exception and every value of a Java frame names an object that is there,
\* whatever the other threads and the collector do; but for objects that the
\* code has handed out before, or without, listing them, and for results and
\* exceptions of a native method that a collection found in neither its frame
\* nor that of the caller.
HeldStaysAlive ==
  \A o \in HeldRoots : o # Null => o \in heap \cup unlisted

Copies(o, bag) == IF BagIn(o, bag) THEN bag[o] ELSE 0

\* The references to o that code outside frames holds, each thread counting its.
HeldOutside(o) == UNION {{t} \X (1 .. Copies(o, base[t])) : t \in Thread}

\* The lists hold exactly the references that have been given out, each in the
\* list of the frame it belongs to: nobody takes back what is another's, and
\* none is forgotten in a list.  (The types of the variables are checked on the
\* way.)
ListsHoldTheHeld ==
  TypeOK /\ \A o \in Object \ unlisted :
    /\ Copies(o, vmLocals) = Cardinality(HeldOutside(o))
    /\ \A t \in Thread : \A i \in DOMAIN frames[t] :
         Copies(o, frames[t][i].localReferences) = Copies(o, frames[t][i].held)

\* A collection keeps what the program can still reach, not counting objects
\* whose reference was not listed, and takes everything else.
CollectsExactly ==
  [][Collect => /\ (heap \cap HeldRoots) \ unlisted \subseteq heap'
                /\ heap' \subseteq HeldRoots]_vars

=============================================================================
