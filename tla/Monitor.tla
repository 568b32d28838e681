------------------------------ MODULE Monitor ------------------------------
(***************************************************************************)
(* One coldspot monitor (jvm/Monitor.cpp): a recursive pthread mutex       *)
(* (jvm/thread/Mutex.cpp), a pthread condition (jvm/thread/Condition.cpp)  *)
(* and the field _owner, which is written after the mutex is taken, read   *)
(* without it, and never cleared.                                          *)
(*                                                                         *)
(* A thread is a client of the monitor: it may call an operation whenever  *)
(* it is in the Java code outside the monitor's functions (pc "run").      *)
(* Each access to memory that other threads read is a step of its own.     *)
(* Compiled Java code enters and leaves in pairs and calls wait and notify *)
(* only inside; a thread in Rogue may also call exit, notify and wait      *)
(* outside, as hand-written bytecode or JNI code can.  NestedWait lets a   *)
(* client wait while it has entered the monitor more than once.            *)
(***************************************************************************)
EXTENDS Integers

CONSTANTS
  Thread,      \* the threads that use the monitor
  NoThread,    \* the null pointer of _owner and "the mutex is free"
  Rogue,       \* the threads that call exit, notify and wait when outside
  NestedWait,  \* may a client wait with more than one entry?
  MaxNest      \* bound: entries of one thread

ASSUME MonitorAssumption ==
  /\ NoThread \notin Thread
  /\ Rogue \subseteq Thread
  /\ NestedWait \in BOOLEAN
  /\ MaxNest \in Nat \ {0}

VARIABLES
  holder,  \* the thread that holds the pthread mutex, or NoThread
  count,   \* the recursion count of the pthread mutex
  owner,   \* Monitor::_owner
  pc,      \* where a thread is inside the monitor's functions
  state,   \* Thread::_state
  nest,    \* entries minus exits of a thread, as its own code counts them
  result,  \* what the thread's last call returned
  vm       \* "exited" once EXIT_FATAL has ended the process

vars == <<holder, count, owner, pc, state, nest, result, vm>>

PC     == {"run", "lock", "locked", "unlock", "park", "parked", "relock", "woken"}
State  == {"RUNNABLE", "BLOCKED", "WAITING"}
Result == {"ok", "busy", "illegal_state", "illegal_argument"}

TypeOK ==
  /\ holder \in Thread \cup {NoThread}
  /\ count \in 0..MaxNest
  /\ owner \in Thread \cup {NoThread}
  /\ pc \in [Thread -> PC]
  /\ state \in [Thread -> State]
  /\ nest \in [Thread -> 0..MaxNest]
  /\ result \in [Thread -> Result]
  /\ vm \in {"alive", "exited"}

Init ==
  /\ holder = NoThread
  /\ count = 0
  /\ owner = NoThread
  /\ pc = [t \in Thread |-> "run"]
  /\ state = [t \in Thread |-> "RUNNABLE"]
  /\ nest = [t \in Thread |-> 0]
  /\ result = [t \in Thread |-> "ok"]
  /\ vm = "alive"

-----------------------------------------------------------------------------
(* The pthread mutex and the waiters of the pthread condition.             *)

Available(t) == holder \in {t, NoThread}

TakeMutex(t) ==
  /\ Available(t)
  /\ holder' = t
  /\ count' = count + 1

\* A recursive mutex is free again only when its last level is given back.
GiveMutex(t) ==
  /\ count' = count - 1
  /\ holder' = IF count = 1 THEN NoThread ELSE t

Waiters == {t \in Thread : pc[t] = "parked"}

Goto(t, label) == pc' = [pc EXCEPT ![t] = label]
Return(t, r)   == result' = [result EXCEPT ![t] = r]

\* A call can be made: the thread runs Java code and the process lives.
Calls(t) == vm = "alive" /\ pc[t] = "run"
At(t, label) == vm = "alive" /\ pc[t] = label

-----------------------------------------------------------------------------
(* enter and try_enter.                                                    *)

\* Bound: a thread nests at most MaxNest entries.
MayEnter(t) == nest[t] < MaxNest /\ (holder = t => count < MaxNest)

\* Mutation: lock does not tell that it may block.
EnterCallSilently(t) ==
  /\ Calls(t) /\ MayEnter(t)
  /\ Goto(t, "lock")
  /\ UNCHANGED <<holder, count, owner, state, nest, result, vm>>

EnterCall(t) ==
  /\ Calls(t) /\ MayEnter(t)
  /\ state' = [state EXCEPT ![t] = "BLOCKED"]
  /\ Goto(t, "lock")
  /\ UNCHANGED <<holder, count, owner, nest, result, vm>>

Acquire(t) ==
  /\ At(t, "lock")
  /\ TakeMutex(t)
  /\ Goto(t, "locked")
  /\ UNCHANGED <<owner, state, nest, result, vm>>

TryEnter(t) ==
  /\ Calls(t) /\ MayEnter(t)
  /\ \/ TakeMutex(t) /\ Goto(t, "locked") /\ UNCHANGED result
     \/ ~Available(t) /\ Return(t, "busy") /\ UNCHANGED <<holder, count, pc>>
  /\ UNCHANGED <<owner, state, nest, vm>>

EnterReturn(t) ==
  /\ At(t, "locked")
  /\ state' = [state EXCEPT ![t] = "RUNNABLE"]
  /\ owner' = t
  /\ nest' = [nest EXCEPT ![t] = @ + 1]
  /\ Goto(t, "run") /\ Return(t, "ok")
  /\ UNCHANGED <<holder, count, vm>>

-----------------------------------------------------------------------------
(* exit.                                                                   *)

MayExit(t) == nest[t] > 0 \/ t \in Rogue

Outer(n) == IF n = 0 THEN 0 ELSE n - 1

\* The code that called exit has left, whatever exit says about it.
ExitCall(t) ==
  /\ Calls(t) /\ MayExit(t)
  /\ nest' = [nest EXCEPT ![t] = Outer(@)]
  /\ IF owner # t
       THEN Return(t, "illegal_state") /\ UNCHANGED pc
       ELSE Goto(t, "unlock") /\ UNCHANGED result
  /\ UNCHANGED <<holder, count, owner, state, vm>>

\* Mutation: exit does not unlock.
UnlockForgotten(t) ==
  /\ At(t, "unlock")
  /\ Return(t, "ok") /\ Goto(t, "run")
  /\ UNCHANGED <<holder, count, owner, state, nest, vm>>

\* Mutation: all levels of the mutex are given back at once.
UnlockAll(t) ==
  /\ At(t, "unlock")
  /\ holder' = NoThread /\ count' = 0
  /\ Return(t, "ok") /\ Goto(t, "run")
  /\ UNCHANGED <<owner, state, nest, vm>>

\* pthread_mutex_unlock refuses a thread that does not hold the mutex.
Unlock(t) ==
  /\ At(t, "unlock")
  /\ IF holder = t
       THEN GiveMutex(t) /\ Return(t, "ok") /\ UNCHANGED vm
       ELSE vm' = "exited" /\ UNCHANGED <<holder, count, result>>
  /\ Goto(t, "run")
  /\ UNCHANGED <<owner, state, nest>>

-----------------------------------------------------------------------------
(* notify and notify_all: the signal reaches whoever is parked.            *)

Wake(S) == pc' = [t \in Thread |-> IF t \in S THEN "relock" ELSE pc[t]]

NotifyRefused(t) ==
  /\ owner # t
  /\ Return(t, "illegal_state")
  /\ UNCHANGED pc

NotifyCall(t) ==
  /\ Calls(t) /\ MayExit(t)
  /\ \/ NotifyRefused(t)
     \/ /\ owner = t
        /\ IF Waiters = {} THEN UNCHANGED pc ELSE \E w \in Waiters : Wake({w})
        /\ Return(t, "ok")
  /\ UNCHANGED <<holder, count, owner, state, nest, vm>>

NotifyAllCall(t) ==
  /\ Calls(t) /\ MayExit(t)
  /\ \/ NotifyRefused(t)
     \/ owner = t /\ Wake(Waiters) /\ Return(t, "ok")
  /\ UNCHANGED <<holder, count, owner, state, nest, vm>>

-----------------------------------------------------------------------------
(* wait.                                                                   *)

MayWait(t) ==
  \/ nest[t] = 1
  \/ nest[t] = 0 /\ t \in Rogue
  \/ nest[t] > 1 /\ NestedWait

\* The argument is zero, positive or negative.  A positive one is accepted and
\* then dropped: Condition::wait gets none, and would not use it.
WaitCall(t, ms) ==
  /\ Calls(t) /\ MayWait(t)
  /\ IF owner # t
       THEN Return(t, "illegal_state") /\ UNCHANGED <<pc, state>>
     ELSE IF ms < 0
       THEN Return(t, "illegal_argument") /\ UNCHANGED <<pc, state>>
     ELSE /\ state' = [state EXCEPT ![t] = "WAITING"]
          /\ Goto(t, "park") /\ UNCHANGED result
  /\ UNCHANGED <<holder, count, owner, nest, vm>>

\* Mutation: the thread sleeps with the mutex.
ParkHolding(t) ==
  /\ At(t, "park")
  /\ Goto(t, "parked")
  /\ UNCHANGED <<holder, count, owner, state, nest, result, vm>>

\* pthread_cond_wait gives back one level of the mutex.  Called without the
\* mutex it returns an error at once, which Condition::wait ignores.
Park(t) ==
  /\ At(t, "park")
  /\ IF holder = t
       THEN GiveMutex(t) /\ Goto(t, "parked")
       ELSE Goto(t, "woken") /\ UNCHANGED <<holder, count>>
  /\ UNCHANGED <<owner, state, nest, result, vm>>

\* POSIX lets pthread_cond_wait return without a signal.
SpuriousWakeup(t) ==
  /\ At(t, "parked")
  /\ Goto(t, "relock")
  /\ UNCHANGED <<holder, count, owner, state, nest, result, vm>>

Relock(t) ==
  /\ At(t, "relock")
  /\ TakeMutex(t)
  /\ Goto(t, "woken")
  /\ UNCHANGED <<owner, state, nest, result, vm>>

\* Mutation: _owner still names whoever entered meanwhile.
WaitReturnUnowned(t) ==
  /\ At(t, "woken")
  /\ state' = [state EXCEPT ![t] = "RUNNABLE"]
  /\ Goto(t, "run") /\ Return(t, "ok")
  /\ UNCHANGED <<holder, count, owner, nest, vm>>

WaitReturn(t) ==
  /\ At(t, "woken")
  /\ state' = [state EXCEPT ![t] = "RUNNABLE"]
  /\ owner' = t
  /\ Goto(t, "run") /\ Return(t, "ok")
  /\ UNCHANGED <<holder, count, nest, vm>>

-----------------------------------------------------------------------------
Client(t) ==
  \/ EnterCall(t) \/ TryEnter(t) \/ ExitCall(t)
  \/ NotifyCall(t) \/ NotifyAllCall(t)
  \/ \E ms \in -1..1 : WaitCall(t, ms)

Inner(t) ==
  \/ Acquire(t) \/ EnterReturn(t) \/ Unlock(t)
  \/ Park(t) \/ Relock(t) \/ WaitReturn(t)

Next == \E t \in Thread : Client(t) \/ Inner(t) \/ SpuriousWakeup(t)

Spec == Init /\ [][Next]_vars

(***************************************************************************)
(* Fairness: the operating system runs every thread that can take a step   *)
(* inside the monitor's functions, and programs leave what they enter.     *)
(* POSIX promises no order among the threads that want the mutex, so a     *)
(* single thread's acquisition is not fair to it: only weak fairness.      *)
(***************************************************************************)
Fairness == \A t \in Thread : WF_vars(Inner(t)) /\ WF_vars(ExitCall(t))
FairSpec == Spec /\ Fairness

-----------------------------------------------------------------------------
(* Properties.                                                             *)

\* The thread's code is between an enter that returned and the matching exit,
\* and has not given the monitor up to wait.
Inside(t) == nest[t] > 0 /\ pc[t] \notin {"parked", "relock"}

\* No two threads are inside the monitor at once (Monitor.hpp: "The monitor
\* is used to synchronize an object").  It holds however Rogue threads call.
MutualExclusion == \A t, u \in Thread : Inside(t) /\ Inside(u) => t = u

\* A thread that calls exit, notify and wait only while inside is never told
\* IllegalMonitorStateException: _owner, which others overwrite when they
\* enter and when their wait returns, names the caller whenever it checks.
NeverRefused == \A t \in Thread : result[t] # "illegal_state"

\* pthread_mutex_unlock is never called by a thread that does not hold the
\* mutex, which would end the process (Mutex::unlock).
NoFatal == vm = "alive"

\* A thread parked in wait does not keep the others out of the monitor.
WaitReleases == \A t \in Waiters : holder # t

\* The state other threads read (Thread.getState, the suspension of threads
\* by the collector): RUNNABLE in Java code, and never RUNNABLE while the
\* thread sleeps in the mutex or in the condition.
StateTellsBlocking ==
  \A t \in Thread :
    /\ pc[t] = "run" => state[t] = "RUNNABLE"
    /\ pc[t] \in {"lock", "parked", "relock"} => state[t] # "RUNNABLE"

\* When a wait returns, its thread holds the mutex exactly as often as its
\* code has entered, and no earlier entry of it is lost.
WaitRestores ==
  [][\A t \in Thread :
       pc[t] = "woken" /\ pc'[t] = "run" => holder' = t /\ count' = nest[t]]_vars

\* Some thread gets the monitor whenever some thread asks for it: an exit or
\* a wait never leaves the mutex taken behind it.
Wanting == \E t \in Thread : pc[t] \in {"lock", "relock"}
NoLockout == Wanting ~> \E t \in Thread : pc[t] \in {"locked", "woken"}

\* The monitor of a Java object, as its program sees it: waiting threads are
\* in pc "parked" or "relock" and get back the entries they had.
Java == INSTANCE JavaMonitor WITH
  lockOwner <- holder,
  entries   <- count,
  waitSet   <- Waiters,
  notified  <- {t \in Thread : pc[t] = "relock"},
  saved     <- [t \in Thread |->
                  IF pc[t] \in {"parked", "relock"} THEN nest[t] ELSE 0]

JavaSpec == Java!Spec
=============================================================================
