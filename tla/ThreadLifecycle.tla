-------------------------- MODULE ThreadLifecycle --------------------------
(***************************************************************************)
(* How VM threads come and go, and how the virtual machine waits for them  *)
(* before it ends: Thread::start and threadStart (jvm/thread/Thread.cpp),  *)
(* attach_thread, detach_thread and wait_for_threads (VirtualMachine.cpp). *)
(*                                                                         *)
(* The initial thread is attached by JNI_CreateJavaVM; the launcher        *)
(* detaches it when main has returned, and then calls DestroyJavaVM, which *)
(* waits.  _non_daemon_thread_count is a plain uint32_t that every thread  *)
(* increments and decrements: a load and a store.  Of Thread::_state only  *)
(* NEW, TERMINATED and the rest are told apart.                            *)
(*                                                                         *)
(* The finalizer and the collector are taken as init_gc would start them:  *)
(* they end when they are told to.                                         *)
(***************************************************************************)
EXTENDS VMThreads, Sequences

CONSTANTS
  Thread,    \* the VM threads of a program
  Main,      \* the initial thread
  Daemon,    \* the daemon threads
  Modulus    \* of the counter: 2^32 in the code

ASSUME LifecycleAssumption ==
  /\ IsFiniteSet(Thread) /\ Main \in Thread \ Daemon
  /\ Nobody \notin Thread
  /\ Modulus \in Nat /\ Cardinality(Thread) < Modulus

VARIABLES
  list,    \* the thread list
  count,   \* _non_daemon_thread_count
  loaded,  \* the value a thread in ++ or -- has loaded
  native,  \* the threads whose _native_thread is set
  starts,  \* the thread that a thread is starting
  wait,    \* where wait_for_threads is
  joinee   \* the thread it joins

waitVars == <<wait, joinee, vm>>
lifecycleVars == <<list, count, loaded, state, native, pc, starts, waitVars, deeds>>

Place == {"new", "attach", "counting", "counted", "list", "run",
          "detach", "uncounting", "terminate", "dead"}
InCounter == {"counting", "uncounting"}

LifecycleTypeOK ==
  /\ list \in Seq(Thread)
  /\ count \in 0..Modulus-1
  /\ loaded \in [Thread -> 0..Modulus-1]
  /\ state \in [Thread -> {"NEW", "ALIVE", "TERMINATED"}]
  /\ native \subseteq Thread
  /\ pc \in [Thread -> Place]
  /\ starts \in [Thread -> Thread \cup {Nobody}]
  /\ wait \in {"off", "test", "find", "join", "joining", "stop", "done"}
  /\ joinee \in Thread \cup {Nobody}
  /\ vm \in {"alive", "exited"}
  /\ deeds \in Programs

LifecycleInit ==
  /\ list = <<Main>>
  /\ count = 1
  /\ loaded = [t \in Thread |-> 0]
  /\ state = [t \in Thread |-> IF t = Main THEN "ALIVE" ELSE "NEW"]
  /\ native = {Main}
  /\ pc = [t \in Thread |-> IF t = Main THEN "run" ELSE "new"]
  /\ starts = [t \in Thread |-> Nobody]
  /\ wait = "off"
  /\ joinee = Nobody
  /\ vm = "alive"
  /\ deeds \in Programs

-----------------------------------------------------------------------------
(* Starting a thread.                                                      *)

\* Thread::start: create the native thread ...
StartThread(s, t) ==
  /\ pc[s] = "run" /\ starts[s] = Nobody
  /\ Move(t, "new", "attach")
  /\ starts' = [starts EXCEPT ![s] = t]
  /\ UNCHANGED <<list, count, loaded, state, native, waitVars, deeds>>

\* Mutation: start does not wait.
StartReturnsAtOnce(s) ==
  /\ vm = "alive" /\ starts[s] # Nobody
  /\ starts' = [starts EXCEPT ![s] = Nobody]
  /\ UNCHANGED <<list, count, loaded, state, native, pc, waitVars, deeds>>

\* ... and wait until it has got somewhere.
StartReturns(s) ==
  /\ vm = "alive" /\ starts[s] # Nobody
  /\ state[starts[s]] # "NEW"
  /\ starts' = [starts EXCEPT ![s] = Nobody]
  /\ UNCHANGED <<list, count, loaded, state, native, pc, waitVars, deeds>>

-----------------------------------------------------------------------------
(* attach_thread and detach_thread.                                        *)

\* Others keep out of the counter, except in a program where they race.
Load(t) ==
  /\ "race" \in deeds \/ \A u \in Thread : pc[u] \notin InCounter
  /\ loaded' = [loaded EXCEPT ![t] = count]

Count(t) ==
  /\ \/ t \notin Daemon /\ Move(t, "attach", "counting") /\ Load(t)
     \/ t \in Daemon /\ Move(t, "attach", "counted") /\ UNCHANGED loaded
  /\ UNCHANGED <<list, count, state, native, starts, waitVars, deeds>>

Increment(t) ==
  /\ Move(t, "counting", "counted")
  /\ count' = (loaded[t] + 1) % Modulus
  /\ UNCHANGED <<list, loaded, state, native, starts, waitVars, deeds>>

\* attach_native; wait_mutex().lock() sets the state.
AttachNative(t) ==
  /\ Move(t, "counted", "list")
  /\ native' = native \cup {t}
  /\ state' = [state EXCEPT ![t] = "ALIVE"]
  /\ UNCHANGED <<list, count, loaded, starts, waitVars, deeds>>

Enlist(t) ==
  /\ Move(t, "list", "run")
  /\ list' = Append(list, t)
  /\ UNCHANGED <<count, loaded, state, native, starts, waitVars, deeds>>

\* The run method, or main, has returned.
DetachNative(t) ==
  /\ starts[t] = Nobody
  /\ Move(t, "run", "detach")
  /\ native' = native \ {t}
  /\ UNCHANGED <<list, count, loaded, state, starts, waitVars, deeds>>

\* Mutation: the counter is left alone.
UncountNothing(t) ==
  /\ Move(t, "detach", "terminate")
  /\ UNCHANGED <<list, count, loaded, state, native, starts, waitVars, deeds>>

Uncount(t) ==
  /\ \/ t \notin Daemon /\ Move(t, "detach", "uncounting") /\ Load(t)
     \/ t \in Daemon /\ Move(t, "detach", "terminate") /\ UNCHANGED loaded
  /\ UNCHANGED <<list, count, state, native, starts, waitVars, deeds>>

Decrement(t) ==
  /\ Move(t, "uncounting", "terminate")
  /\ count' = (loaded[t] + Modulus - 1) % Modulus
  /\ UNCHANGED <<list, loaded, state, native, starts, waitVars, deeds>>

Terminate(t) ==
  /\ Move(t, "terminate", "dead")
  /\ state' = [state EXCEPT ![t] = "TERMINATED"]
  /\ UNCHANGED <<list, count, loaded, native, starts, waitVars, deeds>>

\* deleteTerminatedVMThreads: the java.lang.Thread of a thread that is being
\* started is referenced by the frame of its starter.
DeleteTerminated(t) ==
  /\ vm = "alive" /\ "collect" \in deeds
  /\ state[t] = "TERMINATED" /\ \E i \in DOMAIN list : list[i] = t
  /\ \A s \in Thread : starts[s] # t
  /\ list' = SelectSeq(list, LAMBDA u : u # t)
  /\ UNCHANGED <<count, loaded, state, native, pc, starts, waitVars, deeds>>

-----------------------------------------------------------------------------
(* wait_for_threads, called when the launcher has detached the main thread. *)

threadVars == <<list, count, loaded, state, native, pc, starts, deeds>>
Wait(from, to) == vm = "alive" /\ wait = from /\ wait' = to

DestroyJavaVM ==
  /\ pc[Main] = "dead"
  /\ Wait("off", "test")
  /\ UNCHANGED <<threadVars, joinee, vm>>

TestCount ==
  /\ \/ count # 0 /\ Wait("test", "find")
     \/ count = 0 /\ Wait("test", "stop")
  /\ UNCHANGED <<threadVars, joinee, vm>>

NonDaemon(t) == t \notin Daemon

\* The first thread of the list that is not a daemon, running or not.
FindNonDaemon ==
  /\ \/ /\ \E i \in DOMAIN list : NonDaemon(list[i])
        /\ joinee' = SelectSeq(list, NonDaemon)[1]
        /\ Wait("find", "join")
     \/ /\ \A i \in DOMAIN list : ~NonDaemon(list[i])
        /\ Wait("find", "test")
        /\ UNCHANGED joinee
  /\ UNCHANGED <<threadVars, vm>>

\* pthread_join(0), or of what a deleted thread has left in memory, is
\* undefined: it returns with an error or, in some programs, is the end of the
\* process.
Join ==
  /\ IF joinee \in native
       THEN Wait("join", "joining") /\ UNCHANGED vm
       ELSE /\ Wait("join", "test")
            /\ \/ UNCHANGED vm
               \/ "join" \in deeds /\ vm' = "exited"
  /\ UNCHANGED <<threadVars, joinee>>

Joined ==
  /\ Wait("joining", "test")
  /\ pc[joinee] = "dead"
  /\ UNCHANGED <<threadVars, joinee, vm>>

\* Thread::stop detaches the stopped thread from here, which unlocks its
\* wait_mutex: Mutex::unlock ends the process, since the mutex is not ours.
StopDaemons ==
  /\ Wait("stop", "done")
  /\ vm' = IF \E i \in DOMAIN list : state[list[i]] = "ALIVE"
             THEN "exited" ELSE "alive"
  /\ UNCHANGED <<threadVars, joinee>>

-----------------------------------------------------------------------------
Attaches(t) == Count(t) \/ Increment(t) \/ AttachNative(t) \/ Enlist(t)
Detaches(t) == Uncount(t) \/ Decrement(t) \/ Terminate(t)
Waits == TestCount \/ FindNonDaemon \/ Join \/ Joined \/ StopDaemons

LifecycleNext ==
  \/ \E s, t \in Thread : StartThread(s, t)
  \/ \E t \in Thread :
       \/ StartReturns(t) \/ Attaches(t)
       \/ DetachNative(t) \/ Detaches(t) \/ DeleteTerminated(t)
  \/ DestroyJavaVM \/ Waits

LifecycleSpec == LifecycleInit /\ [][LifecycleNext]_lifecycleVars

(***************************************************************************)
(* Fairness: the operating system runs the threads that attach, detach or  *)
(* wait.  A run method need not return.                                    *)
(***************************************************************************)
LifecycleFairness ==
  /\ WF_lifecycleVars(Waits)
  /\ \A t \in Thread : WF_lifecycleVars(Attaches(t)) /\ WF_lifecycleVars(Detaches(t))
FairLifecycleSpec == LifecycleSpec /\ LifecycleFairness

-----------------------------------------------------------------------------
(* Properties.                                                             *)

\* A thread that is created and has not yet run its method to the end.
Runs(t) == pc[t] \notin {"new", "terminate", "dead"}

\* The counter is exact, and a join of a thread that has detached comes back.
Counting == {"race", "join"} \cap deeds = {}

InLoop == wait \in {"off", "test", "find", "join", "joining"}
GoesDown == InLoop /\ (wait' = "stop" \/ vm' = "exited")

\* The virtual machine does not go down, at whatever place wait_for_threads is,
\* before the last thread that is not a daemon (VirtualMachine.hpp:176: "Waits
\* for the termination of all non daemon threads."), as long as the counter is
\* not changed by two threads at the same time and no join ends the process:
\* Thread::start returns only when the new thread is counted, so that its
\* starter cannot leave before.  What a daemon starts in the meantime comes too
\* late.
NoEarlyEnd ==
  [][Counting /\ GoesDown =>
       \A t \in Thread \ Daemon : Runs(t) => \E s \in Daemon : starts[s] = t]_lifecycleVars

\* Once all of them have ended, the wait is over: the loop of wait_for_threads
\* is left from wherever it is, in the middle of a join too, and without a
\* crash.  (The types of the variables are checked on the way.)
Ended == \A t \in Thread \ Daemon : pc[t] \in {"new", "dead"}
WaitEnds ==
  /\ []LifecycleTypeOK
  /\ (Counting /\ InLoop /\ wait # "off" /\ Ended) ~> (wait \in {"stop", "done"} \/ ~Ended)
=============================================================================
