----------------------------- MODULE Safepoint -----------------------------
(***************************************************************************)
(* How the collector stops the threads of the virtual machine and lets     *)
(* them go on (VirtualMachine::suspend_vm_threads, resume_vm_threads, the  *)
(* macros THREAD_BLOCK, THREAD_UNBLOCK and SAFEPOINT of Thread.hpp).       *)
(*                                                                         *)
(* A mutator runs Java code, native code, or the part of a JNI function    *)
(* between THREAD_BLOCK and THREAD_UNBLOCK.  It notices a request to wait  *)
(* only at a safepoint of the interpreter (a branch, a call that returned  *)
(* normally, athrow); in the JNI functions it is kept out by block_mutex,  *)
(* which the collector holds.  A call of a native method goes through      *)
(* several places of Method::invokeNative, at which the collector takes    *)
(* the thread for one that is in native code.  Thread states are those of  *)
(* Thread.hpp, with every write to them a step, since the collector reads  *)
(* them unlocked.                                                          *)
(*                                                                         *)
(* The collector walks the thread list three times, holding its lock; the  *)
(* order of the list is abstracted to any order.  wait_mutex is left out:  *)
(* its thread holds it except in the wait, and nobody else takes it.       *)
(***************************************************************************)
EXTENDS VMThreads

CONSTANTS
  Mutator,   \* the VM threads
  Collector  \* the collector thread

ASSUME SafepointAssumption ==
  Nobody \notin Mutator /\ Collector \notin Mutator /\ Nobody # Collector

VARIABLES
  listed,     \* the threads in the thread list
  requested,  \* the threads whose _wait_requested is set
  block,      \* the owner of each block_mutex
  lock,       \* the owner of a mutex the mutators share
  gc,         \* what the collector is doing
  todo,       \* threads the collector has not yet reached in this walk
  cur,        \* the thread the collector is at
  role        \* what kind of thread it is

gcVars == <<gc, todo, cur, vm, deeds>>
vars == <<listed, state, requested, block, lock, pc, role, gcVars>>

State == {"NEW", "RUNNABLE", "BLOCKED", "WAITING", "TERMINATED"}
PC == {"new", "java", "javaLock", "polled", "going", "asleep", "woken", "check",
       "pushed", "nativeLock", "native", "leaving", "popped",
       "jniCall", "jni", "jniLock", "idle", "ending", "dead"}

\* A Java thread; the initial thread, which has no frame while it is in the
\* embedder's own code, and then called main; and the finalizer.
Role == {"none", "thread", "embedder", "main", "finalizer"}
GC == {"idle", "block", "lockBlock", "request", "await", "frames", "spin",
       "collect", "resume", "unblock", "clear", "notify"}

TypeOK ==
  /\ listed \subseteq Mutator
  /\ state \in [Mutator -> State]
  /\ requested \subseteq Mutator
  /\ block \in [Mutator -> Mutator \cup {Nobody, Collector}]
  /\ lock \in Mutator \cup {Nobody}
  /\ pc \in [Mutator -> PC]
  /\ gc \in GC
  /\ todo \subseteq Mutator
  /\ cur \in Mutator \cup {Nobody}
  /\ vm \in {"alive", "exited"}
  /\ role \in [Mutator -> Role]
  /\ deeds \in Programs

Init ==
  /\ listed = {}
  /\ state = [t \in Mutator |-> "NEW"]
  /\ requested = {}
  /\ block = [t \in Mutator |-> Nobody]
  /\ lock = Nobody
  /\ pc = [t \in Mutator |-> "new"]
  /\ gc = "idle"
  /\ todo = {}
  /\ cur = Nobody
  /\ vm = "alive"
  /\ role = [t \in Mutator |-> "none"]
  /\ deeds \in Programs

Alive(t) == state[t] \notin {"NEW", "TERMINATED"}

-----------------------------------------------------------------------------
(* Mutators.                                                               *)

SetState(t, s) == state' = [state EXCEPT ![t] = s]

\* The collector holds the lock of the thread list while it is not idle.
List(t, r) ==
  /\ gc = "idle"
  /\ listed' = listed \cup {t}
  /\ SetState(t, "RUNNABLE")
  /\ role' = [role EXCEPT ![t] = r]
  /\ UNCHANGED <<requested, block, lock, gcVars>>

\* A Java thread that was started attaches itself and runs its run method ...
AttachStarted(t) == Move(t, "new", "java") /\ List(t, "thread")

\* ... and JNI_CreateJavaVM attaches the initial thread, which is in native
\* code.
AttachEmbedder(t) ==
  /\ \A u \in Mutator : role[u] \notin {"embedder", "main"}
  /\ Move(t, "new", "native")
  /\ List(t, "embedder")

\* A thread whose run method has returned, or that the launcher detaches.
Detach(t) ==
  /\ lock # t
  /\ \/ role[t] = "thread" /\ Move(t, "java", "dead")
     \/ role[t] = "embedder" /\ Move(t, "native", "dead")
  /\ SetState(t, "TERMINATED")
  /\ UNCHANGED <<listed, requested, block, lock, role, gcVars>>

\* The finalizer is a thread like others in Java code, but ...
AttachFinalizer(t) ==
  /\ "finalizer" \in deeds /\ \A u \in Mutator : role[u] # "finalizer"
  /\ Move(t, "new", "java") /\ List(t, "finalizer")

\* ... it says by itself that it waits for objects to finalize ...
FinalizerWaits(t) ==
  /\ role[t] = "finalizer" /\ lock # t
  /\ Move(t, "java", "idle")
  /\ SetState(t, "WAITING")
  /\ UNCHANGED <<listed, requested, block, lock, role, gcVars>>

\* ... and goes on without asking.
FinalizerWakes(t) ==
  /\ Move(t, "idle", "java")
  /\ SetState(t, "RUNNABLE")
  /\ UNCHANGED <<listed, requested, block, lock, role, gcVars>>

\* At the end it takes itself off the list, whose lock it has to wait for.
FinalizerLeaves(t) ==
  /\ role[t] = "finalizer" /\ lock # t
  /\ Move(t, "java", "ending")
  /\ SetState(t, "BLOCKED")
  /\ UNCHANGED <<listed, requested, block, lock, role, gcVars>>

FinalizerEnds(t) ==
  /\ gc = "idle"
  /\ Move(t, "ending", "dead")
  /\ listed' = listed \ {t}
  /\ SetState(t, "TERMINATED")
  /\ UNCHANGED <<requested, block, lock, role, gcVars>>

\* SAFEPOINT: while a wait is requested, wait on the thread's condition.
Poll(t) ==
  /\ \/ /\ t \in requested
        /\ Move(t, "java", "polled") \/ Move(t, "check", "polled")
     \/ t \notin requested /\ Move(t, "check", "java")
  /\ UNCHANGED <<listed, state, requested, block, lock, role, gcVars>>

\* Mutation: the thread waits without telling.
SayNothing(t) ==
  /\ Move(t, "polled", "going")
  /\ UNCHANGED <<listed, state, requested, block, lock, role, gcVars>>

SayWaiting(t) ==
  /\ Move(t, "polled", "going")
  /\ SetState(t, "WAITING")
  /\ UNCHANGED <<listed, requested, block, lock, role, gcVars>>

FallAsleep(t) ==
  /\ Move(t, "going", "asleep")
  /\ UNCHANGED <<listed, state, requested, block, lock, role, gcVars>>

SpuriousWakeup(t) ==
  /\ "spurious" \in deeds
  /\ Move(t, "asleep", "woken")
  /\ UNCHANGED <<listed, state, requested, block, lock, role, gcVars>>

WakeUp(t) ==
  /\ Move(t, "woken", "check")
  /\ SetState(t, "RUNNABLE")
  /\ UNCHANGED <<listed, requested, block, lock, role, gcVars>>

\* A mutex sets BLOCKED before it tries and RUNNABLE when it has got it, in
\* Java code, for a synchronized native method, and inside the JNI functions.
LockCall(t) ==
  /\ "lock" \in deeds /\ lock # t
  /\ \/ Move(t, "java", "javaLock")
     \/ Move(t, "pushed", "nativeLock")
     \/ Move(t, "jni", "jniLock")
  /\ SetState(t, "BLOCKED")
  /\ UNCHANGED <<listed, requested, block, lock, role, gcVars>>

LockTaken(t) ==
  /\ lock = Nobody
  /\ \/ Move(t, "javaLock", "java")
     \/ Move(t, "nativeLock", "native")
     \/ Move(t, "jniLock", "jni")
  /\ lock' = t
  /\ SetState(t, "RUNNABLE")
  /\ UNCHANGED <<listed, requested, block, role, gcVars>>

Unlock(t) ==
  /\ vm = "alive" /\ pc[t] \in {"java", "jni", "leaving"}
  /\ lock = t
  /\ lock' = Nobody
  /\ UNCHANGED <<listed, state, requested, block, pc, role, gcVars>>

\* invokeNative pushes a native frame, whose localReferences are null, ...
ToNative(t) ==
  /\ "native" \in deeds
  /\ Move(t, "java", "pushed")
  /\ UNCHANGED <<listed, state, requested, block, lock, role, gcVars>>

\* ... gives it the list with the arguments and calls the function.  (A
\* synchronized method takes its monitor in between: LockCall.)
CallNative(t) ==
  /\ Move(t, "pushed", "native")
  /\ UNCHANGED <<listed, state, requested, block, lock, role, gcVars>>

\* The function returns; the native frame is still there, ...
NativeReturns(t) ==
  /\ role[t] # "embedder"
  /\ Move(t, "native", "leaving")
  /\ UNCHANGED <<listed, state, requested, block, lock, role, gcVars>>

\* ... is popped, ...
PopFrame(t) ==
  /\ Move(t, "leaving", "popped")
  /\ UNCHANGED <<listed, state, requested, block, lock, role, gcVars>>

\* ... the result is pushed on the caller's frame.  The invoke instructions
\* end with a safepoint ...
PushResult(t) ==
  /\ Move(t, "popped", "check")
  /\ UNCHANGED <<listed, state, requested, block, lock, role, gcVars>>

\* ... which they skip when the call left an exception.
NativeThrows(t) ==
  /\ "throw" \in deeds
  /\ Move(t, "popped", "java")
  /\ UNCHANGED <<listed, state, requested, block, lock, role, gcVars>>

\* The Call<Type>Method functions have no THREAD_BLOCK.
CallJava(t) ==
  /\ role[t] = "embedder" \/ "callback" \in deeds
  /\ Move(t, "native", "java")
  /\ role' = [role EXCEPT ![t] = IF @ = "embedder" THEN "main" ELSE @]
  /\ UNCHANGED <<listed, state, requested, block, lock, gcVars>>

\* The method returns to the embedder, or to a native method.
JavaReturns(t) ==
  /\ \/ role[t] = "main" /\ lock # t /\ role' = [role EXCEPT ![t] = "embedder"]
     \/ {"native", "callback"} \subseteq deeds /\ UNCHANGED role
  /\ Move(t, "java", "native")
  /\ UNCHANGED <<listed, state, requested, block, lock, gcVars>>

\* THREAD_BLOCK ... THREAD_UNBLOCK.
JniCall(t) ==
  /\ Move(t, "native", "jniCall")
  /\ SetState(t, "BLOCKED")
  /\ UNCHANGED <<listed, requested, block, lock, role, gcVars>>

JniBlocked(t) ==
  /\ block[t] = Nobody
  /\ Move(t, "jniCall", "jni")
  /\ block' = [block EXCEPT ![t] = t]
  /\ SetState(t, "RUNNABLE")
  /\ UNCHANGED <<listed, requested, lock, role, gcVars>>

JniReturns(t) ==
  /\ Move(t, "jni", "native")
  /\ block' = [block EXCEPT ![t] = Nobody]
  /\ UNCHANGED <<listed, state, requested, lock, role, gcVars>>

-----------------------------------------------------------------------------
(* The collector.                                                          *)

mutatorVars == <<listed, state, requested, block, lock, pc>>

Phase(from, to) ==
  /\ vm = "alive" /\ gc = from
  /\ gc' = to /\ UNCHANGED <<role, deeds>>

\* A walk over the thread list: it starts ...
Start(from, walk, threads) ==
  /\ Phase(from, walk)
  /\ todo' = threads /\ cur' = Nobody

\* ... and passes over the threads that are not alive.
Reach(walk, next) ==
  \E t \in todo :
    /\ todo' = todo \ {t}
    /\ IF Alive(t) THEN cur' = t /\ Phase(walk, next)
                   ELSE UNCHANGED cur /\ Phase(walk, walk)

\* collectGarbage: lock the thread list and suspend.
StartCollection ==
  /\ Start("idle", "block", listed)
  /\ UNCHANGED <<mutatorVars, vm>>

ReachToBlock == Reach("block", "lockBlock") /\ UNCHANGED <<mutatorVars, vm>>

LockBlock ==
  /\ Phase("lockBlock", "request")
  /\ block[cur] = Nobody
  /\ block' = [block EXCEPT ![cur] = Collector]
  /\ UNCHANGED <<listed, state, requested, lock, pc, todo, cur, vm>>

RequestWait ==
  /\ Phase("request", "block")
  /\ requested' = requested \cup {cur}
  /\ UNCHANGED <<listed, state, block, lock, pc, todo, cur, vm>>

StartAwait ==
  /\ todo = {}
  /\ Start("block", "await", listed)
  /\ UNCHANGED <<mutatorVars, vm>>

ReachToAwait == Reach("await", "frames") /\ UNCHANGED <<mutatorVars, vm>>

\* The top frame is native.  The initial thread has no frame in native code.
NativeFrame(t) ==
  /\ pc[t] \in {"pushed", "nativeLock", "native", "leaving", "jniCall", "jni", "jniLock"}
  /\ role[t] # "embedder"

LookAtFrames ==
  /\ \/ Phase("frames", "await") /\ NativeFrame(cur)
     \/ Phase("frames", "spin") /\ ~NativeFrame(cur)
  /\ UNCHANGED <<mutatorVars, todo, cur, vm>>

\* Mutation: the collector does not wait.
AwaitNobody ==
  /\ Phase("spin", "await")
  /\ UNCHANGED <<mutatorVars, todo, cur, vm>>

AwaitNotRunnable ==
  /\ Phase("spin", "await")
  /\ state[cur] # "RUNNABLE"
  /\ UNCHANGED <<mutatorVars, todo, cur, vm>>

Suspended ==
  /\ todo = {}
  /\ Phase("await", "collect")
  /\ UNCHANGED <<mutatorVars, todo, cur, vm>>

\* Mark and sweep, of which only the thread list matters here: terminated
\* threads whose java.lang.Thread is not referenced are deleted.
Collect ==
  /\ \E deleted \in SUBSET {t \in listed : state[t] = "TERMINATED"} :
       /\ listed' = listed \ deleted
       /\ Start("collect", "resume", listed \ deleted)
  /\ \A t \in listed : pc[t] # "pushed"
  /\ UNCHANGED <<state, requested, block, lock, pc, vm>>

\* To mark what a native frame refers to, its localReferences are followed.
CollectFollowsNull ==
  /\ \E t \in listed : pc[t] = "pushed"
  /\ Phase("collect", "collect")
  /\ vm' = "exited"
  /\ UNCHANGED <<mutatorVars, todo, cur>>

\* resume_vm_threads, and collectGarbage unlocks the thread list.
ReachToResume == Reach("resume", "unblock") /\ UNCHANGED <<mutatorVars, vm>>

\* pthread_mutex_unlock refuses a thread that does not hold the mutex.
Unblock ==
  /\ Phase("unblock", "clear")
  /\ IF block[cur] = Collector
       THEN block' = [block EXCEPT ![cur] = Nobody] /\ UNCHANGED vm
       ELSE vm' = "exited" /\ UNCHANGED block
  /\ UNCHANGED <<listed, state, requested, lock, pc, todo, cur>>

\* Mutation: the request is not cleared.
ClearNothing ==
  /\ Phase("clear", "notify")
  /\ UNCHANGED <<mutatorVars, todo, cur, vm>>

ClearRequest ==
  /\ Phase("clear", "notify")
  /\ requested' = requested \ {cur}
  /\ UNCHANGED <<listed, state, block, lock, pc, todo, cur, vm>>

\* Only a thread that sleeps in the condition already hears of it.
NotifyAll ==
  /\ Phase("notify", "resume")
  /\ pc' = IF pc[cur] = "asleep" THEN [pc EXCEPT ![cur] = "woken"] ELSE pc
  /\ UNCHANGED <<listed, state, requested, block, lock, todo, cur, vm>>

EndCollection ==
  /\ todo = {}
  /\ Phase("resume", "idle")
  /\ cur' = Nobody
  /\ UNCHANGED <<mutatorVars, todo, vm>>

-----------------------------------------------------------------------------
\* What a thread does sooner or later, unless it is kept waiting.
Proceeds(t) ==
  \/ Poll(t) \/ SayWaiting(t) \/ FallAsleep(t) \/ WakeUp(t)
  \/ LockTaken(t) \/ JniBlocked(t) \/ JniReturns(t)
  \/ CallNative(t) \/ PopFrame(t) \/ PushResult(t) \/ FinalizerEnds(t)

\* What a thread may do or leave.
Chooses(t) ==
  \/ AttachStarted(t) \/ AttachEmbedder(t) \/ Detach(t) \/ LockCall(t)
  \/ ToNative(t) \/ NativeReturns(t) \/ NativeThrows(t) \/ CallJava(t)
  \/ JavaReturns(t) \/ JniCall(t) \/ SpuriousWakeup(t)
  \/ AttachFinalizer(t) \/ FinalizerWaits(t) \/ FinalizerWakes(t) \/ FinalizerLeaves(t)

CollectorProceeds ==
  \/ ReachToBlock \/ LockBlock \/ RequestWait \/ StartAwait
  \/ ReachToAwait \/ LookAtFrames \/ AwaitNotRunnable \/ Suspended
  \/ Collect \/ CollectFollowsNull \/ ReachToResume \/ Unblock \/ ClearRequest \/ NotifyAll \/ EndCollection

Next ==
  \/ \E t \in Mutator : Proceeds(t) \/ Unlock(t) \/ Chooses(t)
  \/ StartCollection \/ CollectorProceeds

Spec == Init /\ [][Next]_vars

(***************************************************************************)
(* Fairness: the operating system runs every thread.  Java code reaches a  *)
(* safepoint, gives back the locks it takes, and a JNI function returns;   *)
(* native code need not come back.  The mutexes are POSIX mutexes, which   *)
(* promise no order, so only weak fairness.                                *)
(***************************************************************************)
Fairness ==
  /\ WF_vars(CollectorProceeds)
  /\ \A t \in Mutator : WF_vars(Proceeds(t)) /\ WF_vars(Unlock(t))
FairSpec == Spec /\ Fairness

-----------------------------------------------------------------------------
(* Properties.                                                             *)

\* While the collector marks and sweeps, no thread runs code of the virtual
\* machine that uses objects: Java code, the part of a JNI function that is
\* guarded by THREAD_BLOCK, and what invokeNative does before and after the
\* function.  All this moves references out of the collector's sight, and an
\* object whose reference moves is freed in use.
InTheVM(t) == pc[t] \in {"java", "jni", "pushed", "leaving", "popped"}
WorldStands == gc = "collect" => \A t \in listed : ~InTheVM(t)

\* That much is sure (VirtualMachine::suspend_vm_threads) for programs without
\* native methods whose threads take no locks, before there is a finalizer.
\* With native methods, of programs whose threads take no locks, do not call
\* back from native code and do not throw in it, it is sure that nobody runs
\* Java code or is between THREAD_BLOCK and THREAD_UNBLOCK; what invokeNative
\* does at either end of a call goes on while the collector works, although a
\* thread that returns "will be blocked" (the comment at VirtualMachine.cpp:391).
StopTheWorld ==
  /\ deeds \subseteq {"spurious"} => WorldStands
  /\ deeds \subseteq {"native", "spurious"} =>
       (gc = "collect" => \A t \in listed : pc[t] \notin {"java", "jni"})

\* The collector unlocks block_mutex only of threads it has locked it of,
\* although threads end while it is at work (Mutex::unlock would end the
\* process); and without native methods nothing else ends the process.
NoFatal ==
  /\ gc = "unblock" => block[cur] = Collector
  /\ "native" \notin deeds => vm = "alive"

\* The collector lets go of exactly those it has stopped: it unlocks nobody
\* else, and once the thread list is unlocked, no living thread is kept out of
\* the virtual machine or asked to wait (VirtualMachine::resume_vm_threads).
AllReleased ==
  /\ NoFatal
  /\ gc = "idle" => \A t \in listed :
       Alive(t) => block[t] # Collector /\ t \notin requested

\* A collection (SimpleGarbageCollector::collectGarbage) comes to its end, and
\* the threads that wait for it go on, if all threads run Java code only:
\* native code can keep the collector waiting for ever, in a thread that is
\* RUNNABLE and has no native frame yet.
CollectionEnds ==
  (deeds = {} /\ gc # "idle" /\ \A t \in listed : role[t] = "thread") ~> gc = "idle"
=============================================================================
