---------------------------- MODULE ObjectProofs ----------------------------
(***************************************************************************)
(* Theorems about what happens to objects: that they are locked (module    *)
(* Monitor), and that they are collected (module Collector).               *)
(*                                                                         *)
(* Monitor, for every set of threads and every bound MaxNest.  What holds  *)
(* whatever the Rogue threads call is proved first, from IInv; what needs  *)
(* every client to call exit, notify and wait only while inside (Rogue =   *)
(* {}) is proved from Honest, which adds to IInv that the mutex is held    *)
(* exactly as often as the clients count and that _owner names whoever is  *)
(* about to be checked.                                                    *)
(*                                                                         *)
(* Collector, for any finite set of objects, any object graph and any      *)
(* order of collections and finalizers.  The lists of the finalizer are in *)
(* the way of the obvious invariant, that what is reached is not deleted:  *)
(* an object on them refers to others that nobody else may reach.  What is *)
(* inductive is that references lead from a stage of an object's life to   *)
(* the same or an earlier one, the container of all objects being the      *)
(* first, so that an object is deleted only after all that refer to it.    *)
(***************************************************************************)
EXTENDS Monitor, Collector, TLAPS

\* The levels of the mutex that t's code accounts for.
Holds(t) ==
  IF pc[t] = "locked" \/ (pc[t] = "unlock" /\ nest[t] > 0) THEN nest[t] + 1
  ELSE IF pc[t] \in {"parked", "relock"} THEN Outer(nest[t])
  ELSE nest[t]

MutexInv == holder = NoThread <=> count = 0

RoomInv ==
  \A t \in Thread :
    /\ pc[t] \in {"lock", "parked", "relock"} /\ holder = t => count < MaxNest
    /\ pc[t] \in {"lock", "locked"} => nest[t] < MaxNest

HoldInv == \A t \in Thread : Holds(t) > 0 => holder = t /\ Holds(t) <= count

IInv == TypeOK /\ MutexInv /\ RoomInv /\ HoldInv

-----------------------------------------------------------------------------

LEMMA InitIInv == Init => IInv
<1> SUFFICES ASSUME Init PROVE IInv
  OBVIOUS
<1> USE MonitorAssumption DEF Init
<1>1. TypeOK
  BY DEF TypeOK, PC, State, Result
<1>2. MutexInv /\ RoomInv
  BY DEF MutexInv, RoomInv
<1>3. HoldInv
  BY DEF HoldInv, Holds, Outer
<1> QED
  BY <1>1, <1>2, <1>3 DEF IInv

\* Every step of a thread keeps IInv: one step of the proof per action, and
\* the other threads are untouched because none of them holds the mutex.
LEMMA StepIInv ==
  ASSUME IInv, NEW t \in Thread, Client(t) \/ Inner(t) \/ SpuriousWakeup(t)
  PROVE  IInv'
<1> USE MonitorAssumption DEF IInv, TypeOK, MutexInv, RoomInv, HoldInv, Holds,
      Outer, PC, State, Result, Goto, Return, Calls, At
<1>1. CASE EnterCall(t)
  BY <1>1 DEF EnterCall, MayEnter
<1>2. CASE TryEnter(t)
  BY <1>2 DEF TryEnter, MayEnter, TakeMutex, Available
<1>3. CASE ExitCall(t)
  BY <1>3 DEF ExitCall, MayExit
<1>4. CASE NotifyCall(t)
  BY <1>4 DEF NotifyCall, NotifyRefused, Wake, Waiters
<1>5. CASE NotifyAllCall(t)
  BY <1>5 DEF NotifyAllCall, NotifyRefused, Wake, Waiters
<1>6. ASSUME NEW ms \in -1..1, WaitCall(t, ms) PROVE IInv'
  <2>1. TypeOK' /\ MutexInv' /\ RoomInv'
    BY <1>6 DEF WaitCall, MayWait
  <2>2. ASSUME NEW u \in Thread, Holds(u)' > 0
        PROVE  holder' = u /\ Holds(u)' <= count'
    <3>1. CASE u = t
      BY <1>6, <2>2, <3>1 DEF WaitCall, MayWait
    <3>2. CASE u # t
      BY <1>6, <2>2, <3>2 DEF WaitCall, MayWait
    <3> QED BY <3>1, <3>2
  <2> QED BY <2>1, <2>2
<1>7. CASE Acquire(t)
  BY <1>7 DEF Acquire, TakeMutex, Available
<1>8. CASE EnterReturn(t)
  <2>1. TypeOK' /\ MutexInv' /\ RoomInv'
    BY <1>8 DEF EnterReturn
  <2>2. ASSUME NEW u \in Thread, Holds(u)' > 0
        PROVE  holder' = u /\ Holds(u)' <= count'
    <3>1. CASE u = t
      BY <1>8, <2>2, <3>1 DEF EnterReturn
    <3>2. CASE u # t
      BY <1>8, <2>2, <3>2 DEF EnterReturn
    <3> QED BY <3>1, <3>2
  <2> QED BY <2>1, <2>2
<1>9. CASE Unlock(t)
  <2>1. TypeOK' /\ MutexInv' /\ RoomInv'
    BY <1>9 DEF Unlock, GiveMutex
  <2>2. ASSUME NEW u \in Thread, Holds(u)' > 0
        PROVE  holder' = u /\ Holds(u)' <= count'
    <3>1. CASE u = t
      BY <1>9, <2>2, <3>1 DEF Unlock, GiveMutex
    <3>2. CASE u # t
      BY <1>9, <2>2, <3>2 DEF Unlock, GiveMutex
    <3> QED BY <3>1, <3>2
  <2> QED BY <2>1, <2>2
<1>10. CASE Park(t)
  BY <1>10 DEF Park, GiveMutex
<1>11. CASE Relock(t)
  BY <1>11 DEF Relock, TakeMutex, Available
<1>12. CASE WaitReturn(t)
  BY <1>12 DEF WaitReturn
<1>13. CASE SpuriousWakeup(t)
  BY <1>13 DEF SpuriousWakeup
<1> QED
  BY <1>1, <1>2, <1>3, <1>4, <1>5, <1>6, <1>7, <1>8, <1>9, <1>10, <1>11,
     <1>12, <1>13 DEF Client, Inner

LEMMA AlwaysIInv == Spec => []IInv
<1>1. IInv /\ [Next]_vars => IInv'
  <2> SUFFICES ASSUME IInv, [Next]_vars PROVE IInv'
    OBVIOUS
  <2>1. CASE Next
    BY <2>1, StepIInv DEF Next
  <2>2. CASE UNCHANGED vars
    BY <2>2 DEF vars, IInv, TypeOK, MutexInv, RoomInv, HoldInv, Holds
  <2> QED BY <2>1, <2>2
<1> QED BY <1>1, InitIInv, PTL DEF Spec

\* Every variable keeps its type, whatever the Rogue threads call: in
\* particular the recursion count stays within what the clients may nest.
THEOREM TypeCorrect == Spec => []TypeOK
<1>1. IInv => TypeOK
  BY DEF IInv
<1> QED BY <1>1, AlwaysIInv, PTL

\* Two threads are never inside the monitor at once.  Calls out of place by
\* Rogue threads corrupt _owner but cannot take the mutex from its holder.
THEOREM Exclusion == Spec => []MutualExclusion
<1>1. IInv => MutualExclusion
  <2> SUFFICES ASSUME IInv, NEW t \in Thread, Inside(t) PROVE holder = t
    BY DEF MutualExclusion
  <2>1. nest[t] \in 0..MaxNest /\ Holds(t) > 0
    BY MonitorAssumption DEF IInv, TypeOK, Inside, Holds
  <2> QED BY <2>1 DEF IInv, HoldInv
<1> QED BY <1>1, AlwaysIInv, PTL

-----------------------------------------------------------------------------
(* The state that other threads read.                                      *)

\* What _state says at each place.  TryEnter comes to "locked" without telling
\* that it may block, so that one place allows two states.
StateInv ==
  \A t \in Thread :
    /\ pc[t] \in {"run", "unlock"} => state[t] = "RUNNABLE"
    /\ pc[t] = "lock" => state[t] = "BLOCKED"
    /\ pc[t] \in {"park", "parked", "relock", "woken"} => state[t] = "WAITING"

\* A thread writes its own state, and others move it only from "parked" to
\* "relock", where the state is the same.
LEMMA StepStateInv ==
  ASSUME TypeOK, StateInv, NEW t \in Thread,
         Client(t) \/ Inner(t) \/ SpuriousWakeup(t)
  PROVE  StateInv'
<1> USE DEF TypeOK, StateInv, PC, State, Goto, Return, Calls, At
<1>1. CASE EnterCall(t)
  BY <1>1 DEF EnterCall
<1>2. CASE TryEnter(t)
  BY <1>2 DEF TryEnter
<1>3. CASE ExitCall(t)
  BY <1>3 DEF ExitCall
<1>4. CASE NotifyCall(t) \/ NotifyAllCall(t)
  BY <1>4 DEF NotifyCall, NotifyAllCall, NotifyRefused, Wake, Waiters
<1>5. ASSUME NEW ms \in -1..1, WaitCall(t, ms) PROVE StateInv'
  BY <1>5 DEF WaitCall
<1>6. CASE Acquire(t) \/ EnterReturn(t) \/ Unlock(t)
  BY <1>6 DEF Acquire, EnterReturn, Unlock
<1>7. CASE Park(t) \/ Relock(t) \/ WaitReturn(t) \/ SpuriousWakeup(t)
  BY <1>7 DEF Park, Relock, WaitReturn, SpuriousWakeup
<1> QED
  BY <1>1, <1>2, <1>3, <1>4, <1>5, <1>6, <1>7 DEF Client, Inner

\* The state that Thread.getState and the collector read never says RUNNABLE
\* of a thread that sleeps in the mutex or in the condition, and always of one
\* in Java code: also after a refused call, a wait that could not park, and a
\* spurious wakeup, and whatever the Rogue threads call.
THEOREM StateIsTrue == Spec => []StateTellsBlocking
<1>1. Init => StateInv
  BY DEF Init, StateInv
<1>2. IInv /\ StateInv /\ [Next]_vars => StateInv'
  <2> SUFFICES ASSUME IInv, StateInv, [Next]_vars PROVE StateInv'
    OBVIOUS
  <2>1. CASE UNCHANGED vars
    BY <2>1 DEF vars, StateInv
  <2> QED BY <2>1, StepStateInv DEF Next, IInv
<1>3. StateInv => StateTellsBlocking
  BY DEF StateInv, StateTellsBlocking
<1> QED BY <1>1, <1>2, <1>3, AlwaysIInv, PTL DEF Spec

-----------------------------------------------------------------------------
(* Clients that call exit, notify and wait only while inside.              *)

\* The levels of the mutex that t's code accounts for, to the last one.
Levels(t) ==
  IF pc[t] \in {"locked", "unlock"} THEN nest[t] + 1
  ELSE IF pc[t] \in {"parked", "relock"} THEN Outer(nest[t])
  ELSE nest[t]

LevelInv ==
  \A t \in Thread : Levels(t) = IF holder = t THEN count ELSE 0

OwnerInv ==
  \A t \in Thread :
    /\ pc[t] \in {"park", "parked", "relock", "woken"} => nest[t] > 0
    /\ pc[t] \in {"unlock", "park"} => owner = t
    /\ pc[t] \in {"run", "lock", "locked"} /\ nest[t] > 0 => owner = t

Honest == IInv /\ LevelInv /\ OwnerInv /\ NeverRefused /\ NoFatal

LEMMA InitHonest == Init => Honest
<1> SUFFICES ASSUME Init PROVE Honest
  OBVIOUS
<1>1. IInv
  BY InitIInv
<1> QED
  BY <1>1, MonitorAssumption
  DEF Init, Honest, LevelInv, Levels, OwnerInv, NeverRefused, NoFatal, Outer

\* Only the thread that holds the mutex writes _owner, so that no other
\* thread can be on its way to a check of _owner.
LEMMA StepHonest ==
  ASSUME Rogue = {}, Honest,
         NEW t \in Thread, Client(t) \/ Inner(t) \/ SpuriousWakeup(t)
  PROVE  Honest'
<1> USE MonitorAssumption DEF Honest, LevelInv, OwnerInv, NeverRefused, NoFatal,
      Levels, Outer, PC, State, Result, Goto, Return, Calls, At
<1>0. IInv' /\ TypeOK /\ MutexInv
  BY StepIInv DEF IInv
<1> USE <1>0 DEF TypeOK, MutexInv
<1>1. CASE EnterCall(t)
  BY <1>1 DEF EnterCall, MayEnter
<1>2. CASE TryEnter(t)
  BY <1>2 DEF TryEnter, MayEnter, TakeMutex, Available
<1>3. CASE ExitCall(t)
  BY <1>3 DEF ExitCall, MayExit
<1>4. CASE NotifyCall(t)
  BY <1>4 DEF NotifyCall, NotifyRefused, Wake, Waiters, MayExit
<1>5. CASE NotifyAllCall(t)
  BY <1>5 DEF NotifyAllCall, NotifyRefused, Wake, Waiters, MayExit
<1>6. ASSUME NEW ms \in -1..1, WaitCall(t, ms) PROVE Honest'
  BY <1>6 DEF WaitCall, MayWait
<1>7. CASE Acquire(t)
  BY <1>7 DEF Acquire, TakeMutex, Available
<1>8. CASE EnterReturn(t)
  BY <1>8 DEF EnterReturn
<1>9. CASE Unlock(t)
  BY <1>9 DEF Unlock, GiveMutex
<1>10. CASE Park(t)
  BY <1>10 DEF Park, GiveMutex
<1>11. CASE Relock(t)
  BY <1>11 DEF Relock, TakeMutex, Available
<1>12. CASE WaitReturn(t)
  BY <1>12 DEF WaitReturn
<1>13. CASE SpuriousWakeup(t)
  BY <1>13 DEF SpuriousWakeup
<1> QED
  BY <1>1, <1>2, <1>3, <1>4, <1>5, <1>6, <1>7, <1>8, <1>9, <1>10, <1>11,
     <1>12, <1>13 DEF Client, Inner

LEMMA AlwaysHonest == ASSUME Rogue = {} PROVE Spec => []Honest
<1>1. Honest /\ [Next]_vars => Honest'
  <2> SUFFICES ASSUME Honest, [Next]_vars PROVE Honest'
    OBVIOUS
  <2>1. CASE Next
    BY <2>1, StepHonest DEF Next
  <2>2. CASE UNCHANGED vars
    BY <2>2 DEF vars, Honest, IInv, TypeOK, MutexInv, RoomInv, HoldInv, Holds,
       LevelInv, Levels, OwnerInv, NeverRefused, NoFatal
  <2> QED BY <2>1, <2>2
<1> QED BY <1>1, InitHonest, PTL DEF Spec

\* A client that keeps to its turn is never refused, although _owner is read
\* without the mutex and is overwritten by every thread that enters or wakes.
THEOREM HonestNeverRefused == ASSUME Rogue = {} PROVE Spec => []NeverRefused
<1>1. Honest => NeverRefused
  BY DEF Honest
<1> QED BY <1>1, AlwaysHonest, PTL

\* ... and never makes the process end in Mutex::unlock.
THEOREM HonestNoFatal == ASSUME Rogue = {} PROVE Spec => []NoFatal
<1>1. Honest => NoFatal
  BY DEF Honest
<1> QED BY <1>1, AlwaysHonest, PTL

\* When a wait returns, the mutex is held as often as the thread had entered.
THEOREM HonestWaitRestores == ASSUME Rogue = {} PROVE Spec => WaitRestores
<1>1. Honest /\ [Next]_vars =>
        [\A t \in Thread :
           pc[t] = "woken" /\ pc'[t] = "run" => holder' = t /\ count' = nest[t]]_vars
  <2> SUFFICES ASSUME Honest, Next, NEW t \in Thread,
                      pc[t] = "woken", pc'[t] = "run"
               PROVE  holder' = t /\ count' = nest[t]
    OBVIOUS
  <2>0. TypeOK /\ holder = t /\ count = nest[t]
    BY MonitorAssumption DEF Honest, IInv, TypeOK, LevelInv, Levels, OwnerInv
  <2>1. PICK u \in Thread : Client(u) \/ Inner(u) \/ SpuriousWakeup(u)
    BY DEF Next
  <2>2. u = t
    BY <2>0, <2>1 DEF Client, Inner, SpuriousWakeup, EnterCall, TryEnter,
       ExitCall,
       NotifyCall, NotifyAllCall, NotifyRefused, WaitCall, Acquire, EnterReturn,
       Unlock, Park, Relock, WaitReturn, Wake, Waiters, Goto, TypeOK
  <2>3. UNCHANGED <<holder, count>>
    BY <2>0, <2>1, <2>2 DEF Client, Inner, SpuriousWakeup, EnterCall, TryEnter,
       ExitCall, NotifyCall, NotifyAllCall, WaitCall, Acquire, EnterReturn, Unlock,
       Park, Relock, WaitReturn, Calls, At
  <2> QED BY <2>0, <2>3
<1> QED BY <1>1, AlwaysHonest, PTL DEF Spec, WaitRestores

-----------------------------------------------------------------------------
(* Clients that, besides, wait only with a single entry.                   *)

SingleWait ==
  \A t \in Thread : pc[t] \in {"park", "parked", "relock", "woken"} => nest[t] = 1

LEMMA StepSingleWait ==
  ASSUME Rogue = {}, NestedWait = FALSE, Honest, SingleWait, Next
  PROVE  SingleWait'
<1>1. PICK t \in Thread : Client(t) \/ Inner(t) \/ SpuriousWakeup(t)
  BY DEF Next
<1> USE MonitorAssumption DEF Honest, IInv, TypeOK, SingleWait, Goto, Calls, At
<1>2. CASE Client(t)
  <2>1. CASE \E ms \in -1..1 : WaitCall(t, ms)
    BY <2>1 DEF WaitCall, MayWait
  <2>2. CASE EnterCall(t) \/ TryEnter(t) \/ ExitCall(t)
    BY <2>2 DEF EnterCall, TryEnter, ExitCall
  <2>3. CASE NotifyCall(t) \/ NotifyAllCall(t)
    BY <2>3 DEF NotifyCall, NotifyAllCall, NotifyRefused, Wake, Waiters
  <2> QED BY <1>2, <2>1, <2>2, <2>3 DEF Client
<1>3. CASE Inner(t)
  BY <1>3 DEF Inner, Acquire, EnterReturn, Unlock, Park, Relock, WaitReturn
<1>4. CASE SpuriousWakeup(t)
  BY <1>4 DEF SpuriousWakeup
<1> QED BY <1>1, <1>2, <1>3, <1>4

LEMMA AlwaysSingleWait ==
  ASSUME Rogue = {}, NestedWait = FALSE PROVE Spec => [](Honest /\ SingleWait)
<1>1. Init => SingleWait
  BY DEF Init, SingleWait
<1>2. Honest /\ SingleWait /\ [Next]_vars => SingleWait'
  <2> SUFFICES ASSUME Honest, SingleWait, [Next]_vars PROVE SingleWait'
    OBVIOUS
  <2>1. CASE UNCHANGED vars
    BY <2>1 DEF vars, SingleWait
  <2> QED BY <2>1, StepSingleWait
<1> QED BY <1>1, <1>2, AlwaysHonest, PTL DEF Spec

\* A thread that waits leaves the monitor open to the others.
THEOREM SingleWaitReleases ==
  ASSUME Rogue = {}, NestedWait = FALSE PROVE Spec => []WaitReleases
<1>1. Honest /\ SingleWait => WaitReleases
  <2> SUFFICES ASSUME Honest, SingleWait, NEW t \in Thread, pc[t] = "parked"
               PROVE  holder # t
    BY DEF WaitReleases, Waiters
  <2>1. Levels(t) = 0
    BY DEF SingleWait, Levels, Outer
  <2> QED
    BY <2>1, MonitorAssumption DEF Honest, IInv, MutexInv, LevelInv
<1> QED BY <1>1, AlwaysSingleWait, PTL

-----------------------------------------------------------------------------
(* The monitor implements module JavaMonitor.                              *)

LEMMA JavaInit == Init => Java!Init
  BY MonitorAssumption DEF Init, Java!Init, Waiters

LEMMA JavaStep ==
  ASSUME Rogue = {}, NestedWait = FALSE, Honest, SingleWait,
         NEW t \in Thread, Client(t) \/ Inner(t) \/ SpuriousWakeup(t)
  PROVE  Java!Next \/ UNCHANGED Java!vars
<1> DEFINE relock == {u \in Thread : pc[u] = "relock"}
           saved  == [u \in Thread |->
                        IF pc[u] \in {"parked", "relock"} THEN nest[u] ELSE 0]
<1> USE MonitorAssumption DEF Goto, Return, Calls, At
<1>0. /\ TypeOK /\ MutexInv /\ LevelInv /\ OwnerInv
      /\ nest \in [Thread -> 0..MaxNest] /\ pc \in [Thread -> PC]
      /\ count \in 0..MaxNest
  BY DEF Honest, IInv, TypeOK
<1>s. ASSUME Waiters' = Waiters, relock' = relock, saved' = saved,
             UNCHANGED <<holder, count>>
      PROVE  UNCHANGED Java!vars
  BY <1>s DEF Java!vars
<1>1. CASE EnterCall(t)
  <2>1. Waiters' = Waiters /\ relock' = relock /\ saved' = saved
    BY <1>0, <1>1 DEF EnterCall, Waiters
  <2> QED BY <2>1, <1>1, <1>s DEF EnterCall
<1>2. CASE Acquire(t) \/ (TryEnter(t) /\ Available(t))
  <2>1. Waiters' = Waiters /\ relock' = relock /\ saved' = saved
    BY <1>0, <1>2 DEF Acquire, TryEnter, Waiters
  <2>2. t \notin Waiters \cup relock
    BY <1>2 DEF Acquire, TryEnter, Waiters
  <2>3. Java!Lock(t)
    BY <2>1, <2>2, <1>2
    DEF Java!Lock, Java!Suspended, Acquire, TryEnter, TakeMutex, Available
  <2> QED BY <2>3 DEF Java!Next
<1>3. CASE TryEnter(t) /\ ~Available(t)
  BY <1>3, <1>s DEF TryEnter, TakeMutex, Waiters
<1>4. CASE EnterReturn(t) \/ ExitCall(t) \/ WaitReturn(t)
  <2>1. Waiters' = Waiters /\ relock' = relock /\ saved' = saved
    BY <1>0, <1>4 DEF EnterReturn, ExitCall, WaitReturn, Waiters
  <2> QED BY <2>1, <1>4, <1>s DEF EnterReturn, ExitCall, WaitReturn
<1>5. CASE \E ms \in -1..1 : WaitCall(t, ms)
  <2>1. Waiters' = Waiters /\ relock' = relock /\ saved' = saved
    BY <1>0, <1>5 DEF WaitCall, Waiters
  <2> QED BY <2>1, <1>5, <1>s DEF WaitCall
<1>6. CASE Unlock(t)
  <2>1. Waiters' = Waiters /\ relock' = relock /\ saved' = saved
    BY <1>0, <1>6 DEF Unlock, Waiters
  <2>2. holder = t
    BY <1>0, <1>6 DEF Unlock, LevelInv, Levels
  <2>3. Java!Unlock(t)
    BY <2>1, <2>2, <1>6 DEF Java!Unlock, Unlock, GiveMutex
  <2> QED BY <2>3 DEF Java!Next
<1>7. ASSUME NEW S \in SUBSET Waiters, Wake(S), UNCHANGED <<holder, count, nest>>
      PROVE  Java!Wake(S)
  <2>1. Waiters' = Waiters \ S /\ relock' = relock \cup S
    BY <1>7 DEF Wake, Waiters
  <2>2. saved' = saved
    BY <1>0, <1>7 DEF Wake, Waiters
  <2> QED BY <1>7, <2>1, <2>2 DEF Java!Wake
<1>8. ASSUME NotifyCall(t) \/ NotifyAllCall(t) PROVE holder = t
  BY <1>0, <1>8 DEF NotifyCall, NotifyAllCall, MayExit, LevelInv, Levels
<1>9. CASE NotifyCall(t)
  <2>1. CASE UNCHANGED pc
    BY <1>9, <2>1, <1>s DEF NotifyCall, Waiters
  <2>2. ASSUME NEW w \in Waiters, Wake({w}) PROVE Java!Notify(t)
    BY <1>7, <1>8, <1>9, <2>2 DEF NotifyCall, Java!Notify
  <2> QED BY <1>9, <2>1, <2>2 DEF NotifyCall, NotifyRefused, Java!Next
<1>10. CASE NotifyAllCall(t)
  <2>1. CASE UNCHANGED pc
    BY <1>10, <2>1, <1>s DEF NotifyAllCall, Waiters
  <2>2. CASE Wake(Waiters)
    <3>1. Java!Wake(Waiters)
      <4>1. Waiters' = {} /\ relock' = relock \cup Waiters /\ saved' = saved
        BY <1>0, <1>10, <2>2 DEF NotifyAllCall, Wake, Waiters
      <4> QED BY <1>10, <4>1 DEF NotifyAllCall, Java!Wake
    <3>2. Java!NotifyAll(t)
      BY <1>8, <1>10, <3>1 DEF Java!NotifyAll
    <3> QED BY <3>2 DEF Java!Next
  <2> QED BY <1>10, <2>1, <2>2 DEF NotifyAllCall, NotifyRefused
<1>11. CASE Park(t)
  <2>1. nest[t] = 1 /\ holder = t /\ count = 1
    BY <1>0, <1>11 DEF Park, SingleWait, LevelInv, Levels
  <2>2. /\ Waiters' = Waiters \cup {t} /\ relock' = relock
        /\ saved' = [saved EXCEPT ![t] = 1]
    BY <1>0, <1>11, <2>1 DEF Park, Waiters
  <2>3. Java!Wait(t)
    BY <1>11, <2>1, <2>2 DEF Park, GiveMutex, Java!Wait
  <2> QED BY <2>3 DEF Java!Next
<1>12. CASE Relock(t)
  <2>1. nest[t] = 1 /\ holder = NoThread /\ count = 0 /\ saved[t] = 1
    BY <1>0, <1>12 DEF Relock, TakeMutex, Available, SingleWait, LevelInv,
       Levels,
       Outer, MutexInv
  <2>2. /\ Waiters' = Waiters /\ relock' = relock \ {t}
        /\ saved' = [saved EXCEPT ![t] = 0]
    BY <1>0, <1>12 DEF Relock, Waiters
  <2>3. Java!Resume(t)
    BY <1>12, <2>1, <2>2 DEF Relock, TakeMutex, Java!Resume
  <2> QED BY <2>3 DEF Java!Next
<1>13. CASE SpuriousWakeup(t)
  <2>1. Wake({t}) /\ t \in Waiters
    BY <1>0, <1>13 DEF SpuriousWakeup, Wake, Waiters
  <2> QED
    BY <1>7, <1>13, <2>1 DEF SpuriousWakeup, Java!SpuriousWake, Java!Next
<1> QED
  BY <1>1, <1>2, <1>3, <1>4, <1>5, <1>6, <1>9, <1>10, <1>11, <1>12, <1>13
  DEF Client, Inner

\* Every behaviour of the mutex, condition and owner field is a behaviour of
\* the Java monitor of module JavaMonitor, when clients call in turn and wait
\* only with a single entry.
THEOREM Implementation ==
  ASSUME Rogue = {}, NestedWait = FALSE PROVE Spec => JavaSpec
<1>1. Honest /\ SingleWait /\ [Next]_vars => [Java!Next]_(Java!vars)
  <2> SUFFICES ASSUME Honest, SingleWait, [Next]_vars
               PROVE  Java!Next \/ UNCHANGED Java!vars
    OBVIOUS
  <2>1. CASE UNCHANGED vars
    BY <2>1 DEF vars, Java!vars, Waiters
  <2> QED BY <2>1, JavaStep DEF Next
<1> QED BY <1>1, JavaInit, AlwaysSingleWait, PTL DEF Spec, JavaSpec, Java!Spec

-----------------------------------------------------------------------------
(* The collector.                                                          *)

\* No reference leads out of a set of objects.
Keeps(S) == \A o \in S : field[o] \in S \cup {Null}

\* An object is in one place at a time.
ListsInv ==
  /\ heap \cap in = {} /\ heap \cap current = {} /\ heap \cap out = {}
  /\ in \cap current = {} /\ in \cap out = {} /\ current \cap out = {}

\* In programs in which nothing else happens (no Deeds).
StagesInv ==
  deeds = {} =>
    /\ roots \subseteq heap
    /\ Keeps(heap) /\ Keeps(heap \cup in) /\ Keeps(heap \cup in \cup current)
    /\ \A o \in Object \ Allocated : field[o] = Null

CollectorInv == CollectorTypeOK /\ ListsInv /\ StagesInv

-----------------------------------------------------------------------------
(* What is reached.                                                        *)

\* Closure gives the least set that has the first objects and keeps the edges.
LEMMA ClosureIsLeast ==
  ASSUME NEW from \in SUBSET Object, NEW edges \in SUBSET (Object \X Object)
  PROVE  /\ from \subseteq Closure(from, edges)
         /\ Closure(from, edges) \in Closed(edges)
         /\ \A S \in Closed(edges) : from \subseteq S => Closure(from, edges) \subseteq S
<1>1. from \subseteq Closure(from, edges)
  BY DEF Closure
<1>2. ASSUME NEW e \in edges, e[1] \in Closure(from, edges)
      PROVE  e[2] \in Closure(from, edges)
  BY <1>2 DEF Closure, Closed
<1>3. Closure(from, edges) \in SUBSET Object
  BY DEF Closure
<1> QED BY <1>1, <1>2, <1>3 DEF Closure, Closed

\* A set of objects that no reference leads out of.
LEMMA KeepsIsClosed ==
  ASSUME CollectorTypeOK, NEW S \in SUBSET Object, Keeps(S)
  PROVE  S \in Closed(Edges)
BY CollectorAssumption DEF Keeps, Closed, Edges

\* What is reached stays in a set that no reference leads out of.
LEMMA ReachStays ==
  ASSUME CollectorTypeOK, NEW from \in SUBSET Object, NEW S \in SUBSET Object,
         Keeps(S), from \subseteq S
  PROVE  Reach(from) \subseteq S
<1>1. Edges \in SUBSET (Object \X Object)
  BY DEF Edges
<1> QED BY <1>1, KeepsIsClosed, ClosureIsLeast DEF Reach

\* The objects reached keep their references among themselves.
LEMMA ReachKeeps ==
  ASSUME CollectorTypeOK, NEW from \in SUBSET Object
  PROVE  Keeps(Reach(from)) /\ Reach(from) \subseteq Object
<1>1. Edges \in SUBSET (Object \X Object)
  BY DEF Edges
<1>2. Reach(from) \in Closed(Edges) /\ Reach(from) \subseteq Object
  BY <1>1, ClosureIsLeast DEF Reach, Closed
<1>3. ASSUME NEW o \in Reach(from), field[o] # Null
      PROVE  field[o] \in Reach(from)
  <2>1. o \in Object /\ field[o] \in Object
    BY <1>2, <1>3 DEF CollectorTypeOK
  <2>2. <<o, field[o]>> \in Edges
    BY <2>1 DEF Edges
  <2> QED BY <1>2, <1>3, <2>2 DEF Closed
<1> QED BY <1>2, <1>3 DEF Keeps

\* A marking that starts from the program and the finalizer finds what they
\* reach: marks kept on the lists of the finalizer are not in its way.
LEMMA MarksTheReached ==
  ASSUME CollectorInv, deeds = {}, Kept \cap (in \cup current) = {}
  PROVE  Marked(Starts, Kept) = Reach(Starts)
<1> DEFINE free == {e \in Object \X Object :
                      e[1] \notin Kept \cup heirs /\ field[e[1]] = e[2]}
           all  == heap \cup in \cup current
<1>0. CollectorTypeOK /\ heirs = {} /\ Keeps(all) /\ all \subseteq Object /\ Starts \subseteq all
  BY DEF CollectorInv, CollectorTypeOK, StagesInv, Starts
<1>1. Marked(Starts, Kept) = Closure(Starts, free)
  BY DEF Marked
<1>2. /\ free \in SUBSET (Object \X Object) /\ free \subseteq Edges
      /\ Edges \in SUBSET (Object \X Object)
  BY DEF Edges
<1>3. Closed(Edges) \subseteq Closed(free)
  BY <1>2 DEF Closed
<1>4. ASSUME NEW e \in Edges, e[1] \in all PROVE e \in free
  BY <1>0, <1>4 DEF Edges, Kept
<1> HIDE DEF free
<1>5. all \in Closed(free)
  BY <1>0, <1>3, KeepsIsClosed
<1>6. Closure(Starts, free) \subseteq all /\ Closure(Starts, free) \in Closed(free)
  <2>1. Starts \in SUBSET Object
    BY <1>0
  <2>2. /\ \A S \in Closed(free) : Starts \subseteq S => Closure(Starts, free) \subseteq S
        /\ Closure(Starts, free) \in Closed(free)
    BY <1>2, <2>1, ClosureIsLeast
  <2> QED BY <1>0, <1>5, <2>2
<1>7. Closure(Starts, free) \in Closed(Edges)
  BY <1>4, <1>6 DEF Closed
<1>8. Reach(Starts) \subseteq Closure(Starts, free)
  BY <1>0, <1>2, <1>7, ClosureIsLeast DEF Reach
<1>9. Closure(Starts, free) \subseteq Reach(Starts)
  BY <1>0, <1>2, <1>3, ClosureIsLeast DEF Reach
<1> QED BY <1>1, <1>8, <1>9

-----------------------------------------------------------------------------
(* Every part of the invariant is kept by every step.                      *)

\* At the start there are no objects.
LEMMA InitCollectorInv == CollectorInit => CollectorInv
BY CollectorAssumption
DEF CollectorInit, CollectorInv, CollectorTypeOK, ListsInv, StagesInv, Keeps, Allocated

\* The variables keep their types.
LEMMA StepType ==
  ASSUME CollectorTypeOK, CollectorNext PROVE CollectorTypeOK'
<1> USE CollectorAssumption DEF CollectorTypeOK, program, lists, graph
<1>1. ASSUME NEW o \in Object, Allocate(o) \/ Load(o) \/ Drop(o) PROVE CollectorTypeOK'
  BY <1>1 DEF Allocate, Load, Drop
<1>2. ASSUME NEW o \in Object, NEW p \in Object \cup {Null}, Store(o, p) PROVE CollectorTypeOK'
  BY <1>2 DEF Store
<1>3. CASE Take
  BY <1>3 DEF Take
<1>4. CASE Begin \/ EndFinalize
  BY <1>4 DEF Begin, BeginFinalize, EndFinalize
<1>5. CASE Published
  BY <1>5 DEF Published, Publish
<1>6. CASE Put
  BY <1>6 DEF Put
<1>7. CASE MarkAndMove
  <2>1. Marked(Starts, Kept) \subseteq Object
    BY DEF Marked, Closure
  <2> QED BY <1>7, <2>1 DEF MarkAndMove, Kept
<1>8. CASE RemoveFinalized
  BY <1>8 DEF RemoveFinalized, Cleared
<1> QED
  BY <1>1, <1>2, <1>3, <1>4, <1>5, <1>6, <1>7, <1>8 DEF CollectorNext, Program

\* No step puts an object on a second list.
LEMMA StepLists ==
  ASSUME CollectorTypeOK, ListsInv, CollectorNext PROVE ListsInv'
<1> USE DEF ListsInv, program, lists, graph
<1>1. CASE Program
  BY <1>1 DEF Program, Allocate, Load, Drop, Store, Allocated
<1>2. CASE Take \/ Begin \/ Published \/ EndFinalize \/ Put
  BY <1>2 DEF Take, Begin, BeginFinalize, Published, Publish, EndFinalize, Put
<1>3. CASE MarkAndMove
  BY <1>3 DEF MarkAndMove
<1>4. CASE RemoveFinalized
  BY <1>4 DEF RemoveFinalized
<1> QED BY <1>1, <1>2, <1>3, <1>4 DEF CollectorNext

\* References keep leading to the same stage or an earlier one.
LEMMA StepStages ==
  ASSUME CollectorInv, CollectorNext PROVE StagesInv'
<1> SUFFICES ASSUME deeds' = {} PROVE StagesInv'
  BY DEF StagesInv
<1>0. deeds = {}
  BY DEF CollectorNext, Program, Allocate, Load, Drop, Store, Take, Begin, BeginFinalize,
     Published, Publish, EndFinalize, Put, MarkAndMove, RemoveFinalized, program
<1>t. /\ CollectorTypeOK /\ ListsInv /\ roots \subseteq heap
      /\ Keeps(heap) /\ Keeps(heap \cup in) /\ Keeps(heap \cup in \cup current)
      /\ \A o \in Object \ Allocated : field[o] = Null
  BY <1>0 DEF CollectorInv, StagesInv
<1> USE DEF Keeps, Allocated, program, lists, graph
<1>1. ASSUME NEW o \in Object, Allocate(o) PROVE StagesInv'
  BY <1>t, <1>1 DEF Allocate, StagesInv
<1>2. ASSUME NEW o \in Object, Load(o) \/ Drop(o) PROVE StagesInv'
  BY <1>t, <1>2 DEF Load, Drop, StagesInv
<1>3. ASSUME NEW o \in Object, NEW p \in Object \cup {Null}, Store(o, p) PROVE StagesInv'
  <2>1. /\ o \in heap \cup current /\ p \in heap \cup {Null}
        /\ field' = [field EXCEPT ![o] = p] /\ field \in [Object -> Object \cup {Null}]
        /\ UNCHANGED <<heap, in, current, out, roots>>
    BY <1>t, <1>3 DEF Store, CollectorTypeOK
  <2>2. \A q \in Object : field'[q] = field[q] \/ field'[q] \in heap \cup {Null}
    BY <2>1
  <2>3. heap \cup in \cup current \cup out \subseteq Object
    BY <1>t DEF CollectorTypeOK
  <2>4. \A q \in Object \ Allocated : field'[q] = Null
    BY <1>t, <2>1
  <2> QED BY <1>t, <2>1, <2>2, <2>3, <2>4 DEF StagesInv
<1>4. CASE Take
  <2>1. /\ in' = {} /\ current' = in /\ current = {}
        /\ UNCHANGED <<heap, out, field, roots>>
    BY <1>4 DEF Take
  <2> QED BY <1>t, <2>1 DEF StagesInv
<1>5. CASE Begin \/ EndFinalize
  BY <1>t, <1>5 DEF Begin, BeginFinalize, EndFinalize, StagesInv
<1>6. CASE Published
  BY <1>0, <1>t, <1>6 DEF Published, Publish, StagesInv
<1>7. CASE Put
  BY <1>t, <1>7 DEF Put, StagesInv
<1>8. CASE MarkAndMove
  <2>1. Kept \cap (in \cup current) = {}
    BY <1>0, <1>8 DEF MarkAndMove
  <2>2. Marked(Starts, Kept) = Reach(Starts)
    BY <1>0, <2>1, MarksTheReached
  <2>3. Starts \in SUBSET Object /\ roots \subseteq Starts
    BY <1>t DEF Starts, CollectorTypeOK
  <2>4. /\ \A o \in Reach(Starts) : field[o] \in Reach(Starts) \cup {Null}
        /\ roots \subseteq Reach(Starts)
    <3>1. Edges \in SUBSET (Object \X Object)
      BY DEF Edges
    <3> QED BY <1>t, <2>3, <3>1, ReachKeeps, ClosureIsLeast DEF Reach
  <2>5. /\ heap' = heap \cap Reach(Starts) /\ in' = in \cup (heap \ Reach(Starts))
        /\ UNCHANGED <<current, out, field, roots>>
    BY <1>8, <2>2 DEF MarkAndMove, Kept
  <2> QED BY <1>t, <2>4, <2>5 DEF StagesInv
<1>9. CASE RemoveFinalized
  <2>1. /\ field' = [o \in Object |-> IF o \in out THEN Null ELSE field[o]]
        /\ out' = {} /\ UNCHANGED <<heap, in, current, roots>>
        /\ heap \cup in \cup current \cup out \subseteq Object
    BY <1>t, <1>9 DEF RemoveFinalized, Cleared, CollectorTypeOK
  <2>2. \A o \in Object : field'[o] \in {field[o], Null}
    BY <2>1
  <2>3. \A o \in Object \ Allocated' : field'[o] = Null
    BY <1>t, <2>1
  <2> QED BY <1>t, <2>1, <2>2, <2>3 DEF StagesInv
<1> HIDE DEF Keeps, Allocated
<1>10. CASE Program
  BY <1>1, <1>2, <1>3, <1>10 DEF Program
<1> QED BY <1>4, <1>5, <1>6, <1>7, <1>8, <1>9, <1>10 DEF CollectorNext

\* The invariant holds in every reachable state.
LEMMA AlwaysCollectorInv == CollectorSpec => []CollectorInv
<1>1. ASSUME CollectorInv, CollectorNext PROVE CollectorInv'
  BY <1>1, StepType, StepLists, StepStages DEF CollectorInv
<1>2. ASSUME CollectorInv, UNCHANGED collectorVars PROVE CollectorInv'
  BY <1>2 DEF collectorVars, CollectorInv, CollectorTypeOK, ListsInv, StagesInv, Keeps, Allocated
<1> QED BY <1>1, <1>2, InitCollectorInv, PTL DEF CollectorSpec

-----------------------------------------------------------------------------
(* Theorems.                                                               *)

\* Nothing that the program can reach leaves the container of all objects, and
\* neither the object that is finalized nor what its finalizer may look at is
\* deleted meanwhile (SimpleGarbageCollector::collectGarbage and
\* removeFinalizedObjects), in programs whose classes inherit no fields, whose
\* finalizers resurrect nothing and whose collections find no stale marks.
THEOREM LiveAreKept == CollectorSpec => []LiveStayInHeap
<1>1. ASSUME CollectorInv PROVE LiveStayInHeap
  <2>0. CollectorTypeOK /\ heap \subseteq Object /\ roots \subseteq Object
    BY <1>1 DEF CollectorInv, CollectorTypeOK
  <2>1. ASSUME deeds = {} PROVE Reach(roots) \subseteq heap
    BY <1>1, <2>0, <2>1, ReachStays DEF CollectorInv, StagesInv
  <2>2. ASSUME deeds = {}, finalizing # Null PROVE Reach({finalizing}) \subseteq Allocated
    <3>1. /\ {finalizing} \subseteq heap \cup in \cup current
          /\ heap \cup in \cup current \subseteq Object
      BY <2>0, <2>2 DEF CollectorTypeOK
    <3>2. Reach({finalizing}) \subseteq heap \cup in \cup current
      BY <1>1, <2>0, <2>2, <3>1, ReachStays DEF CollectorInv, StagesInv
    <3> QED BY <3>2 DEF Allocated
  <2> QED BY <2>0, <2>1, <2>2 DEF LiveStayInHeap
<1> QED BY <1>1, AlwaysCollectorInv, PTL

\* A collection takes exactly what neither the program nor the finalizer can
\* reach, and nothing is deleted before its finalizer has returned.
THEOREM CollectionIsExact == CollectorSpec => CollectsExactly
<1>1. ASSUME CollectorInv, deeds = {}, MarkAndMove PROVE heap' = heap \cap Reach(Starts)
  <2>1. Kept \cap (in \cup current) = {}
    BY <1>1 DEF MarkAndMove
  <2> QED BY <1>1, <2>1, MarksTheReached DEF MarkAndMove, Kept
<1>2. ASSUME CollectorInv, CollectorNext
      PROVE  Allocated \ Allocated' \subseteq out /\ out' \ out \subseteq done
  BY <1>2 DEF CollectorNext, Program, Allocate, Load, Drop, Store, Take, Begin, BeginFinalize,
     Published, Publish, EndFinalize, Put, MarkAndMove, RemoveFinalized, Allocated,
     lists, graph
<1>3. CollectorInv /\ [CollectorNext]_collectorVars =>
        [/\ deeds = {} /\ MarkAndMove => heap' = heap \cap Reach(Starts)
         /\ Allocated \ Allocated' \subseteq out /\ out' \ out \subseteq done]_collectorVars
  BY <1>1, <1>2
<1> QED BY <1>3, AlwaysCollectorInv, PTL DEF CollectorSpec, CollectsExactly
=============================================================================
