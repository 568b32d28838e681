---------------------------- MODULE ThreadProofs ----------------------------
(***************************************************************************)
(* Theorems about the threads of the virtual machine, for every set of     *)
(* them.  First those about module Safepoint, then, from CountInv on,      *)
(* those about module ThreadLifecycle.                                     *)
(*                                                                         *)
(* IInv says what a thread's life implies for it (Lifecycle) and how far   *)
(* the walks of the collector have come (Blocking, Releasing); it gives    *)
(* NoFatal and AllReleased whatever the mutators do.  For StopTheWorld,    *)
(* Stopped says where a thread is that the collector has passed, as long   *)
(* as mutators take no locks, do not call back from native code, do not    *)
(* throw in it, and none is the finalizer.                                 *)
(*                                                                         *)
(* CountInv: the counter of threads is the number of threads that are      *)
(* counted, and each thread that is not yet counted has a starter that     *)
(* waits for it; so the virtual machine does not go down before its last   *)
(* thread that is not a daemon, if there are fewer than the counter's      *)
(* range.                                                                  *)
(***************************************************************************)
EXTENDS Safepoint, ThreadLifecycle, FiniteSetTheorems, TLAPS

Lifecycle ==
  \A t \in Mutator :
    /\ pc[t] = "new" <=> state[t] = "NEW"
    /\ pc[t] = "dead" <=> state[t] = "TERMINATED"
    /\ pc[t] = "new" =>
         t \notin listed /\ t \notin requested /\ block[t] = Nobody
    /\ pc[t] \in {"jni", "jniLock"} => block[t] = t
    /\ pc[t] \in {"pushed", "nativeLock", "leaving", "popped"} => "native" \in deeds
    /\ pc[t] \in {"native", "jniCall", "jni", "jniLock"} =>
         role[t] = "embedder" \/ "native" \in deeds
    /\ role[t] = "embedder" => pc[t] \in {"native", "jniCall", "jni", "jniLock", "dead"}
    /\ pc[t] = "new" => role[t] = "none"

Resuming == {"resume", "unblock", "clear", "notify"}

\* The thread at hand is in the list and is not dealt with again.
Walking ==
  /\ gc # "idle" => todo \subseteq listed
  /\ gc \notin {"idle", "block", "await", "collect", "resume"} =>
       cur \in listed \ todo

Held(t)     == Alive(t) => block[t] = Collector /\ t \in requested
Released(t) == Alive(t) => block[t] # Collector /\ t \notin requested

Blocking ==
  /\ gc = "block" => \A t \in listed \ todo : Held(t)
  /\ gc \in {"lockBlock", "request"} =>
       \A t \in listed \ (todo \cup {cur}) : Held(t)
  /\ gc = "request" => block[cur] = Collector
  /\ gc \in {"await", "frames", "spin", "collect"} => \A t \in listed : Held(t)

Releasing ==
  /\ gc \in Resuming => \A t \in todo : Held(t)
  /\ gc = "unblock" => block[cur] = Collector
  /\ gc = "clear" => block[cur] # Collector
  /\ gc \in {"unblock", "clear"} =>
       \A t \in listed \ (todo \cup {cur}) : Released(t)
  /\ gc \in {"resume", "notify"} => \A t \in listed \ todo : Released(t)
  /\ gc = "idle" => \A t \in listed : Released(t)

Lives == "native" \notin deeds => vm = "alive"

IInv == TypeOK /\ Lifecycle /\ Walking /\ Blocking /\ Releasing /\ Lives

-----------------------------------------------------------------------------

LEMMA InitIInv == Init => IInv
  BY SafepointAssumption DEF Init, IInv, TypeOK, Lifecycle, Walking, Blocking,
     Releasing, Resuming, Held, Released, Lives, Alive, State, PC, GC, Role

\* A step of a mutator: other threads keep what they have, its own step does
\* not give back a block_mutex the collector has taken.
LEMMA MutatorIInv ==
  ASSUME IInv, NEW u \in Mutator, Proceeds(u) \/ Unlock(u) \/ Chooses(u)
  PROVE  IInv'
<1> USE SafepointAssumption DEF IInv, TypeOK, Lifecycle, Walking, Blocking,
      Releasing, Resuming, Held, Released, Lives, Alive, State, PC, GC, Role, Move,
      SetState, gcVars
<1>1. CASE Poll(u)
  BY <1>1 DEF Poll
<1>2. CASE SayWaiting(u)
  BY <1>2 DEF SayWaiting
<1>3. CASE FallAsleep(u)
  BY <1>3 DEF FallAsleep
<1>4. CASE WakeUp(u)
  BY <1>4 DEF WakeUp
<1>5. CASE LockTaken(u)
  BY <1>5 DEF LockTaken
<1>6. CASE JniBlocked(u)
  BY <1>6 DEF JniBlocked
<1>7. CASE JniReturns(u)
  BY <1>7 DEF JniReturns
<1>8. CASE Unlock(u)
  BY <1>8 DEF Unlock
<1>9. CASE AttachStarted(u)
  BY <1>9 DEF AttachStarted, List
<1>10. CASE AttachEmbedder(u)
  BY <1>10 DEF AttachEmbedder, List
<1>11. CASE Detach(u)
  BY <1>11 DEF Detach
<1>12. CASE LockCall(u)
  BY <1>12 DEF LockCall
<1>13. CASE ToNative(u)
  BY <1>13 DEF ToNative
<1>14. CASE NativeReturns(u)
  BY <1>14 DEF NativeReturns
<1>15. CASE NativeThrows(u)
  BY <1>15 DEF NativeThrows
<1>16. CASE CallJava(u)
  BY <1>16 DEF CallJava
<1>17. CASE JniCall(u)
  BY <1>17 DEF JniCall
<1>18. CASE SpuriousWakeup(u)
  BY <1>18 DEF SpuriousWakeup
<1>19. CASE CallNative(u)
  BY <1>19 DEF CallNative
<1>20. CASE PopFrame(u)
  BY <1>20 DEF PopFrame
<1>21. CASE PushResult(u)
  BY <1>21 DEF PushResult
<1>22. CASE JavaReturns(u)
  BY <1>22 DEF JavaReturns
<1>23. CASE AttachFinalizer(u)
  BY <1>23 DEF AttachFinalizer, List
<1>24. CASE FinalizerWaits(u)
  BY <1>24 DEF FinalizerWaits
<1>25. CASE FinalizerWakes(u)
  BY <1>25 DEF FinalizerWakes
<1>26. CASE FinalizerLeaves(u)
  BY <1>26 DEF FinalizerLeaves
<1>27. CASE FinalizerEnds(u)
  BY <1>27 DEF FinalizerEnds
<1> QED
  BY <1>1, <1>2, <1>3, <1>4, <1>5, <1>6, <1>7, <1>8, <1>9, <1>10, <1>11, <1>12,
     <1>13, <1>14, <1>15, <1>16, <1>17, <1>18, <1>19, <1>20, <1>21, <1>22, <1>23,
     <1>24, <1>25, <1>26, <1>27 DEF Proceeds, Chooses

\* A step of the collector moves one walk forward.
LEMMA CollectorIInv ==
  ASSUME IInv, StartCollection \/ CollectorProceeds
  PROVE  IInv'
<1> USE SafepointAssumption DEF IInv, TypeOK, Lifecycle, Walking, Blocking,
      Releasing, Resuming, Held, Released, Lives, Alive, State, PC, GC, Role, Phase,
      mutatorVars
<1>1. CASE StartCollection
  BY <1>1 DEF StartCollection, Start
<1>2. CASE ReachToBlock
  BY <1>2 DEF ReachToBlock, Reach
<1>3. CASE LockBlock
  BY <1>3 DEF LockBlock
<1>4. CASE RequestWait
  BY <1>4 DEF RequestWait
<1>5. CASE StartAwait
  BY <1>5 DEF StartAwait, Start
<1>6. CASE ReachToAwait
  BY <1>6 DEF ReachToAwait, Reach
<1>7. CASE LookAtFrames
  BY <1>7 DEF LookAtFrames
<1>8. CASE AwaitNotRunnable
  BY <1>8 DEF AwaitNotRunnable
<1>9. CASE Suspended
  BY <1>9 DEF Suspended
<1>10. CASE Collect
  BY <1>10 DEF Collect, Start
<1>11. CASE ReachToResume
  BY <1>11 DEF ReachToResume, Reach
<1>12. CASE Unblock
  BY <1>12 DEF Unblock
<1>13. CASE ClearRequest
  BY <1>13 DEF ClearRequest
<1>14. CASE NotifyAll
  BY <1>14 DEF NotifyAll
<1>15. CASE EndCollection
  BY <1>15 DEF EndCollection
<1>16. CASE CollectFollowsNull
  BY <1>16 DEF CollectFollowsNull
<1> QED
  BY <1>1, <1>2, <1>3, <1>4, <1>5, <1>6, <1>7, <1>8, <1>9, <1>10, <1>11, <1>12,
     <1>13, <1>14, <1>15, <1>16 DEF CollectorProceeds

LEMMA AlwaysIInv == Spec => []IInv
<1>1. IInv /\ UNCHANGED vars => IInv'
  BY DEF IInv, TypeOK, Lifecycle, Walking, Blocking, Releasing, Resuming, Held,
     Released, Lives, Alive, vars, gcVars
<1>2. IInv /\ [Next]_vars => IInv'
  BY <1>1, MutatorIInv, CollectorIInv DEF Next
<1> QED
  BY InitIInv, <1>2, PTL DEF Spec

-----------------------------------------------------------------------------
\* Every variable keeps its type.
THEOREM TypeCorrect == Spec => []TypeOK
  BY AlwaysIInv, PTL DEF IInv

\* The collector never unlocks a block_mutex it does not hold, although
\* threads end while it works (VirtualMachine::resume_vm_threads), and without
\* native methods it does not end the process.
THEOREM NeverFatal == Spec => []NoFatal
<1>1. IInv => NoFatal
  BY DEF IInv, Releasing, Lives, NoFatal
<1> QED
  BY AlwaysIInv, <1>1, PTL

\* Every collection lets go of all the threads it has stopped.
THEOREM EverybodyReleased == Spec => []AllReleased
<1>1. IInv /\ NoFatal => AllReleased
  BY DEF IInv, Releasing, Released, AllReleased
<1> QED
  BY AlwaysIInv, NeverFatal, <1>1, PTL

-----------------------------------------------------------------------------
(* Stopping the world.                                                     *)

Tame == deeds \subseteq {"native", "spurious"}

\* A thread that cannot get back to Java code or into a JNI function.
Quiet(t) ==
  /\ pc[t] \in {"polled", "going", "asleep", "woken", "check", "pushed", "native",
                "leaving", "popped", "jniCall", "dead"}
  /\ role[t] = "embedder" => pc[t] # "native"

Stopped ==
  /\ \A t \in Mutator :
       pc[t] \notin {"javaLock", "nativeLock", "jniLock", "idle", "ending"}
  /\ \A t \in Mutator : role[t] # "finalizer"
  /\ \A t \in Mutator : state[t] \notin {"RUNNABLE", "NEW", "TERMINATED"} =>
       pc[t] \in {"going", "asleep", "woken", "jniCall"}
  /\ gc = "await" => \A t \in listed \ todo : Quiet(t)
  /\ gc \in {"frames", "spin"} => \A t \in listed \ (todo \cup {cur}) : Quiet(t)
  /\ gc = "collect" => \A t \in listed : Quiet(t)

LEMMA InitStopped == Init => Stopped
  BY DEF Init, Stopped

LEMMA MutatorStopped ==
  ASSUME Tame, IInv, Stopped,
         NEW u \in Mutator, Proceeds(u) \/ Unlock(u) \/ Chooses(u)
  PROVE  Stopped'
<1> USE SafepointAssumption DEF IInv, TypeOK, Lifecycle, Walking, Blocking, Held,
      Alive, Stopped, Quiet, Lifecycle, Tame, Move, SetState, gcVars
<1>1. CASE Poll(u)
  BY <1>1 DEF Poll
<1>2. CASE SayWaiting(u)
  BY <1>2 DEF SayWaiting
<1>3. CASE FallAsleep(u)
  BY <1>3 DEF FallAsleep
<1>4. CASE WakeUp(u)
  BY <1>4 DEF WakeUp
<1>5. CASE LockTaken(u)
  BY <1>5 DEF LockTaken
<1>6. CASE JniBlocked(u)
  BY <1>6 DEF JniBlocked
<1>7. CASE JniReturns(u)
  BY <1>7 DEF JniReturns
<1>8. CASE Unlock(u)
  BY <1>8 DEF Unlock
<1>9. CASE AttachStarted(u)
  BY <1>9 DEF AttachStarted, List
<1>10. CASE AttachEmbedder(u)
  BY <1>10 DEF AttachEmbedder, List
<1>11. CASE Detach(u)
  BY <1>11 DEF Detach
<1>12. CASE LockCall(u)
  BY <1>12 DEF LockCall
<1>13. CASE ToNative(u)
  BY <1>13 DEF ToNative
<1>14. CASE NativeReturns(u)
  BY <1>14 DEF NativeReturns
<1>15. CASE NativeThrows(u)
  BY <1>15 DEF NativeThrows
<1>16. CASE CallJava(u)
  BY <1>16 DEF CallJava
<1>17. CASE JniCall(u)
  BY <1>17 DEF JniCall
<1>18. CASE SpuriousWakeup(u)
  BY <1>18 DEF SpuriousWakeup
<1>19. CASE CallNative(u)
  BY <1>19 DEF CallNative
<1>20. CASE PopFrame(u)
  BY <1>20 DEF PopFrame
<1>21. CASE PushResult(u)
  BY <1>21 DEF PushResult
<1>22. CASE JavaReturns(u)
  BY <1>22 DEF JavaReturns
<1>23. CASE AttachFinalizer(u)
  BY <1>23 DEF AttachFinalizer, List
<1>24. CASE FinalizerWaits(u)
  BY <1>24 DEF FinalizerWaits
<1>25. CASE FinalizerWakes(u)
  BY <1>25 DEF FinalizerWakes
<1>26. CASE FinalizerLeaves(u)
  BY <1>26 DEF FinalizerLeaves
<1>27. CASE FinalizerEnds(u)
  BY <1>27 DEF FinalizerEnds
<1> QED
  BY <1>1, <1>2, <1>3, <1>4, <1>5, <1>6, <1>7, <1>8, <1>9, <1>10, <1>11, <1>12,
     <1>13, <1>14, <1>15, <1>16, <1>17, <1>18, <1>19, <1>20, <1>21, <1>22, <1>23,
     <1>24, <1>25, <1>26, <1>27 DEF Proceeds, Chooses

LEMMA CollectorStopped ==
  ASSUME IInv, Stopped, StartCollection \/ CollectorProceeds
  PROVE  Stopped'
<1> USE SafepointAssumption DEF IInv, TypeOK, Lifecycle, Walking, Alive, Stopped,
      Quiet, Phase, mutatorVars, PC, State
<1>1. CASE StartCollection
  BY <1>1 DEF StartCollection, Start
<1>2. CASE ReachToBlock
  BY <1>2 DEF ReachToBlock, Reach
<1>3. CASE LockBlock
  BY <1>3 DEF LockBlock
<1>4. CASE RequestWait
  BY <1>4 DEF RequestWait
<1>5. CASE StartAwait
  BY <1>5 DEF StartAwait, Start
<1>6. CASE ReachToAwait
  BY <1>6 DEF ReachToAwait, Reach
<1>7. CASE LookAtFrames
  BY <1>7 DEF LookAtFrames, NativeFrame, Blocking, Held
<1>8. CASE AwaitNotRunnable
  BY <1>8 DEF AwaitNotRunnable
<1>9. CASE Suspended
  BY <1>9 DEF Suspended
<1>10. CASE Collect
  BY <1>10 DEF Collect, Start
<1>11. CASE ReachToResume
  BY <1>11 DEF ReachToResume, Reach
<1>12. CASE Unblock
  BY <1>12 DEF Unblock
<1>13. CASE ClearRequest
  BY <1>13 DEF ClearRequest
<1>14. CASE NotifyAll
  BY <1>14 DEF NotifyAll
<1>15. CASE EndCollection
  BY <1>15 DEF EndCollection
<1>16. CASE CollectFollowsNull
  BY <1>16 DEF CollectFollowsNull
<1> QED
  BY <1>1, <1>2, <1>3, <1>4, <1>5, <1>6, <1>7, <1>8, <1>9, <1>10, <1>11, <1>12,
     <1>13, <1>14, <1>15, <1>16 DEF CollectorProceeds

\* While the collector works, no thread runs code of the virtual machine that
\* uses objects, if there are no native methods; with native methods, none runs
\* Java code or is between THREAD_BLOCK and THREAD_UNBLOCK; as long as mutators
\* neither take locks, call back from native code, nor throw in it, and none is
\* the finalizer (VirtualMachine::suspend_vm_threads).
THEOREM WorldStops == Spec => []StopTheWorld
<1>1. Stopped /\ UNCHANGED vars => Stopped'
  BY DEF Stopped, Quiet, vars, gcVars
<1>2. (Tame => Stopped) /\ IInv /\ [Next]_vars => (Tame => Stopped)'
  <2>1. [Next]_vars => (Tame <=> Tame')
    <3>1. ASSUME NEW u \in Mutator, Proceeds(u) \/ Unlock(u) \/ Chooses(u)
          PROVE  deeds' = deeds
      BY <3>1 DEF Proceeds, Chooses, List, gcVars, Poll, SayWaiting, FallAsleep,
         WakeUp, LockTaken, JniBlocked, JniReturns, Unlock, AttachStarted,
         AttachEmbedder, Detach, LockCall, ToNative, NativeReturns,
         NativeThrows, CallJava, JniCall, SpuriousWakeup, CallNative, PopFrame,
         PushResult, JavaReturns, AttachFinalizer, FinalizerWaits,
         FinalizerWakes, FinalizerLeaves, FinalizerEnds
    <3>2. StartCollection \/ CollectorProceeds => deeds' = deeds
      BY DEF CollectorProceeds, Phase, Start, Reach, mutatorVars,
         StartCollection, ReachToBlock, LockBlock, RequestWait, StartAwait,
         ReachToAwait, LookAtFrames, AwaitNotRunnable, Suspended, Collect,
         CollectFollowsNull, ReachToResume, Unblock, ClearRequest, NotifyAll,
         EndCollection
    <3> QED
      BY <3>1, <3>2 DEF Next, vars, gcVars, Tame
  <2> QED
    BY <2>1, <1>1, MutatorStopped, CollectorStopped DEF Next
<1>3. IInv /\ (Tame => Stopped) => StopTheWorld
  BY DEF IInv, TypeOK, Lifecycle, Tame, Stopped, Quiet, StopTheWorld, WorldStands,
     InTheVM
<1> QED
  BY InitStopped, AlwaysIInv, <1>2, <1>3, PTL DEF Spec

-----------------------------------------------------------------------------
(* How threads come and go.                                                *)

CountedAt == {"counted", "list", "run", "detach", "uncounting"}
Counted == {t \in Thread \ Daemon : pc[t] \in CountedAt}

Types ==
  /\ count \in 0..Modulus-1
  /\ loaded \in [Thread -> 0..Modulus-1]
  /\ state \in [Thread -> {"NEW", "ALIVE", "TERMINATED"}]
  /\ pc \in [Thread -> Place]
  /\ starts \in [Thread -> Thread \cup {Nobody}]

\* Only the threads that were never attached are NEW, and a thread that is
\* still to be counted is being started.
Starting ==
  \A t \in Thread :
    /\ state[t] = "NEW" <=> pc[t] \in {"new", "attach", "counting", "counted"}
    /\ starts[t] # Nobody => pc[t] = "run"
    /\ pc[t] \in {"attach", "counting"} => \E s \in Thread : starts[s] = t
    /\ pc[t] \in InCounter => t \notin Daemon

\* Where threads do not race, one of them at a time is in the counter.
Exact ==
  /\ count = Cardinality(Counted)
  /\ \A t \in Thread : pc[t] \in InCounter => loaded[t] = count
  /\ \A t, u \in Thread : pc[t] \in InCounter /\ pc[u] \in InCounter => t = u

CountInv == Types /\ Starting /\ (Counting => Exact)

-----------------------------------------------------------------------------

LEMMA FiniteCounted ==
  /\ IsFiniteSet(Counted)
  /\ Cardinality(Counted) \in Nat
  /\ Cardinality(Counted) < Modulus
<1>1. Counted \subseteq Thread
  BY DEF Counted
<1> QED
  BY <1>1, FS_Subset, FS_CardinalityType, LifecycleAssumption

\* The counter counts up and down by one as long as it does not wrap around.
LEMMA Up == ASSUME NEW n \in Nat, n + 1 < Modulus PROVE (n + 1) % Modulus = n + 1
  BY LifecycleAssumption
LEMMA Down ==
  ASSUME NEW n \in Nat, 0 < n, n < Modulus
  PROVE  (n + Modulus - 1) % Modulus = n - 1
<1>1. n + Modulus - 1 = 1 * Modulus + (n - 1) /\ n - 1 \in 0..Modulus-1
  BY LifecycleAssumption
<1> QED
  BY <1>1, LifecycleAssumption, Z3

LEMMA InitCountInv == LifecycleInit => CountInv
<1> SUFFICES ASSUME LifecycleInit PROVE CountInv
  OBVIOUS
<1>1. Counted = {Main}
  BY LifecycleAssumption DEF LifecycleInit, Counted, CountedAt
<1>2. Cardinality({Main}) = 1
  BY FS_Singleton
<1>3. Modulus > 1
  BY <1>1, <1>2, FiniteCounted, LifecycleAssumption
<1>4. Types /\ Starting
  BY <1>3, LifecycleAssumption DEF LifecycleInit, Types, Starting, Place, InCounter
<1>5. Exact
  BY <1>1, <1>2 DEF LifecycleInit, Exact, InCounter
<1> QED
  BY <1>4, <1>5 DEF CountInv

-----------------------------------------------------------------------------
\* Types and Starting do not depend on the races.
LEMMA StepTypes ==
  ASSUME CountInv, [LifecycleNext]_lifecycleVars
  PROVE  Types' /\ Starting'
<1> USE LifecycleAssumption DEF CountInv, Types, Starting, Place, InCounter, Move
<1>1. ASSUME NEW s \in Thread, NEW t \in Thread, StartThread(s, t)
      PROVE  Types' /\ Starting'
  BY <1>1 DEF StartThread
<1>2. ASSUME NEW t \in Thread, StartReturns(t) PROVE Types' /\ Starting'
  BY <1>2 DEF StartReturns
<1>3. ASSUME NEW t \in Thread, Count(t) PROVE Types' /\ Starting'
  BY <1>3 DEF Count, Load
<1>4. ASSUME NEW t \in Thread, Increment(t) PROVE Types' /\ Starting'
  <2>1. count' \in 0..Modulus-1
    BY <1>4 DEF Increment
  <2> QED
    BY <1>4, <2>1 DEF Increment
<1>5. ASSUME NEW t \in Thread, AttachNative(t) PROVE Types' /\ Starting'
  BY <1>5 DEF AttachNative
<1>6. ASSUME NEW t \in Thread, Enlist(t) PROVE Types' /\ Starting'
  BY <1>6 DEF Enlist
<1>7. ASSUME NEW t \in Thread, DetachNative(t) PROVE Types' /\ Starting'
  BY <1>7 DEF DetachNative
<1>8. ASSUME NEW t \in Thread, Uncount(t) PROVE Types' /\ Starting'
  BY <1>8 DEF Uncount, Load
<1>9. ASSUME NEW t \in Thread, Decrement(t) PROVE Types' /\ Starting'
  <2>1. count' \in 0..Modulus-1
    BY <1>9 DEF Decrement
  <2> QED
    BY <1>9, <2>1 DEF Decrement
<1>10. ASSUME NEW t \in Thread, Terminate(t) PROVE Types' /\ Starting'
  BY <1>10 DEF Terminate
<1>11. ASSUME NEW t \in Thread, DeleteTerminated(t) PROVE Types' /\ Starting'
  BY <1>11 DEF DeleteTerminated
<1>12. CASE DestroyJavaVM \/ Waits
  <2>1. UNCHANGED threadVars
    BY <1>12 DEF DestroyJavaVM, Waits, TestCount, FindNonDaemon, Join, Joined,
       StopDaemons
  <2> QED
    BY <2>1 DEF threadVars
<1>13. CASE UNCHANGED lifecycleVars
  BY <1>13 DEF lifecycleVars
<1> QED
  BY <1>1, <1>2, <1>3, <1>4, <1>5, <1>6, <1>7, <1>8, <1>9, <1>10, <1>11,
     <1>12, <1>13 DEF LifecycleNext, Attaches, Detaches

\* Only Increment and Decrement change who is counted, by one.
LEMMA StepExact ==
  ASSUME CountInv, Counting, [LifecycleNext]_lifecycleVars
  PROVE  Exact'
<1> USE LifecycleAssumption DEF CountInv, Types, Starting, Exact, Place, InCounter,
      CountedAt, Counting, Move
<1> DEFINE Same == count' = count /\ Counted' = Counted
<1>a. ASSUME Same, loaded' = loaded,
             \A u \in Thread : pc'[u] \in InCounter => pc[u] \in InCounter
      PROVE  Exact'
  <2>1. count' = Cardinality(Counted)'
    BY <1>a
  <2> QED
    BY <1>a, <2>1
<1>1. ASSUME NEW s \in Thread, NEW t \in Thread, StartThread(s, t) PROVE Exact'
  <2>1. Same
    BY <1>1 DEF StartThread, Counted
  <2>2. loaded' = loaded /\ \A u \in Thread : pc'[u] \in InCounter => pc[u] \in InCounter
    BY <1>1 DEF StartThread
  <2> QED
    BY <2>1, <2>2, <1>a
<1>2. ASSUME NEW t \in Thread, StartReturns(t) PROVE Exact'
  BY <1>2, <1>a DEF StartReturns, Counted
<1>3. ASSUME NEW t \in Thread, Count(t) PROVE Exact'
  <2>1. Same
    BY <1>3 DEF Count, Counted
  <2> QED
    BY <1>3, <2>1 DEF Count, Load
<1>4. ASSUME NEW t \in Thread, Increment(t) PROVE Exact'
  <2>1. Counted' = Counted \cup {t} /\ t \notin Counted
    BY <1>4 DEF Increment, Counted
  <2>2. Cardinality(Counted') = Cardinality(Counted) + 1
    BY <2>1, FiniteCounted, FS_AddElement
  <2>3. Cardinality(Counted') < Modulus
    <3>1. Counted' \subseteq Thread
      BY DEF Counted
    <3>2. Cardinality(Counted') <= Cardinality(Thread)
      BY <3>1, FS_Subset, LifecycleAssumption
    <3>3. Cardinality(Thread) \in Nat /\ Cardinality(Counted) \in Nat
      BY FS_CardinalityType, FiniteCounted, LifecycleAssumption
    <3> QED
      BY <2>2, <3>2, <3>3, LifecycleAssumption
  <2>4. count' = Cardinality(Counted')
    BY <1>4, <2>2, <2>3, FiniteCounted, Up DEF Increment
  <2> QED
    BY <1>4, <2>4 DEF Increment
<1>5. ASSUME NEW t \in Thread, AttachNative(t) \/ Enlist(t) \/ Terminate(t)
      PROVE  Exact'
  <2>1. Same
    BY <1>5 DEF AttachNative, Enlist, Terminate, Counted
  <2>2. loaded' = loaded /\ \A u \in Thread : pc'[u] \in InCounter => pc[u] \in InCounter
    BY <1>5 DEF AttachNative, Enlist, Terminate
  <2> QED
    BY <2>1, <2>2, <1>a
<1>6. ASSUME NEW t \in Thread, DetachNative(t) PROVE Exact'
  <2>1. Same
    BY <1>6 DEF DetachNative, Counted
  <2>2. loaded' = loaded /\ \A u \in Thread : pc'[u] \in InCounter => pc[u] \in InCounter
    BY <1>6 DEF DetachNative
  <2> QED
    BY <2>1, <2>2, <1>a
<1>7. ASSUME NEW t \in Thread, Uncount(t) PROVE Exact'
  <2>1. Same
    BY <1>7 DEF Uncount, Counted
  <2> QED
    BY <1>7, <2>1 DEF Uncount, Load
<1>8. ASSUME NEW t \in Thread, Decrement(t) PROVE Exact'
  <2>1. Counted' = Counted \ {t} /\ t \in Counted
    BY <1>8 DEF Decrement, Counted
  <2>2. Cardinality(Counted') = Cardinality(Counted) - 1
    BY <2>1, FiniteCounted, FS_RemoveElement
  <2>3. Cardinality(Counted) > 0
    BY <2>1, FiniteCounted, FS_EmptySet
  <2>4. count' = Cardinality(Counted')
    BY <1>8, <2>2, <2>3, FiniteCounted, Down DEF Decrement
  <2> QED
    BY <1>8, <2>4 DEF Decrement
<1>9. ASSUME NEW t \in Thread, DeleteTerminated(t) PROVE Exact'
  BY <1>9, <1>a DEF DeleteTerminated, Counted
<1>10. CASE DestroyJavaVM \/ Waits
  <2>1. UNCHANGED threadVars
    BY <1>10 DEF DestroyJavaVM, Waits, TestCount, FindNonDaemon, Join, Joined,
       StopDaemons
  <2> QED
    BY <2>1, <1>a DEF threadVars, Counted
<1>11. CASE UNCHANGED lifecycleVars
  BY <1>11, <1>a DEF lifecycleVars, Counted
<1> QED
  BY <1>1, <1>2, <1>3, <1>4, <1>5, <1>6, <1>7, <1>8, <1>9, <1>10, <1>11
     DEF LifecycleNext, Attaches, Detaches

LEMMA DeedsFixed == [LifecycleNext]_lifecycleVars => deeds' = deeds
  BY DEF LifecycleNext, lifecycleVars, waitVars, threadVars, StartThread,
     StartReturns, Attaches, Count, Increment, AttachNative, Enlist, DetachNative,
     Detaches, Uncount, Decrement, Terminate, DeleteTerminated, DestroyJavaVM,
     Waits, TestCount, FindNonDaemon, Join, Joined, StopDaemons

LEMMA AlwaysCountInv == LifecycleSpec => []CountInv
<1>1. CountInv /\ [LifecycleNext]_lifecycleVars => CountInv'
  BY StepTypes, StepExact, DeedsFixed DEF CountInv, Counting
<1> QED
  BY InitCountInv, <1>1, PTL DEF LifecycleSpec

-----------------------------------------------------------------------------
\* wait_for_threads does not end the virtual machine, at whatever place it is,
\* while a thread that is not a daemon runs, whoever started it.
THEOREM NobodyLeftBehind == LifecycleSpec => NoEarlyEnd
<1>1. ASSUME CountInv, LifecycleNext, Counting, GoesDown
      PROVE  count = 0
  <2> USE <1>1 DEF GoesDown, InLoop, Counting, Move, Wait
  <2>1. ASSUME NEW s \in Thread, NEW t \in Thread, StartThread(s, t) PROVE count = 0
    BY <2>1 DEF StartThread, waitVars
  <2>2. ASSUME NEW t \in Thread,
               StartReturns(t) \/ Attaches(t) \/ DetachNative(t) \/ Detaches(t) \/ DeleteTerminated(t)
        PROVE  count = 0
    BY <2>2 DEF waitVars, StartReturns, Attaches, Count, Increment, AttachNative, Enlist,
       DetachNative, Detaches, Uncount, Decrement, Terminate, DeleteTerminated
  <2>3. CASE DestroyJavaVM \/ TestCount \/ FindNonDaemon \/ Joined \/ StopDaemons
    BY <2>3 DEF DestroyJavaVM, TestCount, FindNonDaemon, Joined, StopDaemons
  <2>4. CASE Join
    BY <2>4 DEF Join
  <2> QED
    BY <2>1, <2>2, <2>3, <2>4 DEF LifecycleNext, Waits
<1>2. ASSUME CountInv, LifecycleNext, Counting, GoesDown,
             NEW t \in Thread \ Daemon, Runs(t)
      PROVE  \E s \in Daemon : starts[s] = t
  <2>1. Counted = {}
    BY <1>1, <1>2, FiniteCounted, FS_EmptySet DEF CountInv, Exact, Counting
  <2>2. pc[t] \in {"attach", "counting"}
    BY <1>2, <2>1 DEF Runs, Counted, CountedAt, CountInv, Types, Place
  <2>3. PICK s \in Thread : starts[s] = t
    BY <1>2, <2>2 DEF CountInv, Starting
  <2>4. pc[s] = "run"
    BY <1>2, <2>3, LifecycleAssumption DEF CountInv, Starting
  <2> QED
    BY <2>1, <2>3, <2>4 DEF Counted, CountedAt
<1>3. CountInv /\ [LifecycleNext]_lifecycleVars =>
        [Counting /\ GoesDown =>
           \A t \in Thread \ Daemon : Runs(t) => \E s \in Daemon : starts[s] = t]_lifecycleVars
  BY <1>2
<1> QED
  BY AlwaysCountInv, <1>3, PTL DEF LifecycleSpec, NoEarlyEnd
=============================================================================
