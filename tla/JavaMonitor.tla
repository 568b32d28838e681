---------------------------- MODULE JavaMonitor ----------------------------
(***************************************************************************)
(* What a Java program may rely on when it synchronizes on one object: the *)
(* re-entrant lock with a wait set that the monitor instructions, the      *)
(* synchronized methods and Object.wait/notify/notifyAll promise.  Every   *)
(* operation is one atomic step.  Module Monitor shows that the mutex, the *)
(* condition and the owner field of jvm/Monitor.cpp implement it.          *)
(***************************************************************************)
EXTENDS Naturals

CONSTANTS Thread,   \* the threads that synchronize on the object
          NoThread  \* "nobody", not a thread

VARIABLES
  lockOwner,  \* the thread inside the monitor, or NoThread
  entries,    \* how often lockOwner has entered without leaving
  waitSet,    \* threads that wait for a notification
  notified,   \* threads that were notified and want the monitor back
  saved       \* the entries a waiting or notified thread gets back

vars == <<lockOwner, entries, waitSet, notified, saved>>

Init ==
  /\ lockOwner = NoThread
  /\ entries = 0
  /\ waitSet = {}
  /\ notified = {}
  /\ saved = [t \in Thread |-> 0]

Suspended(t) == t \in waitSet \cup notified

Lock(t) ==
  /\ ~Suspended(t)
  /\ lockOwner \in {t, NoThread}
  /\ lockOwner' = t
  /\ entries' = entries + 1
  /\ UNCHANGED <<waitSet, notified, saved>>

Unlock(t) ==
  /\ lockOwner = t
  /\ entries' = entries - 1
  /\ lockOwner' = IF entries = 1 THEN NoThread ELSE t
  /\ UNCHANGED <<waitSet, notified, saved>>

\* A waiting thread gives the monitor up completely, however often it had
\* entered it.
Wait(t) ==
  /\ lockOwner = t
  /\ lockOwner' = NoThread
  /\ entries' = 0
  /\ saved' = [saved EXCEPT ![t] = entries]
  /\ waitSet' = waitSet \cup {t}
  /\ UNCHANGED notified

Wake(S) ==
  /\ waitSet' = waitSet \ S
  /\ notified' = notified \cup S
  /\ UNCHANGED <<lockOwner, entries, saved>>

Notify(t)    == lockOwner = t /\ \E w \in waitSet : Wake({w})
NotifyAll(t) == lockOwner = t /\ Wake(waitSet)

\* Java allows a waiting thread to wake without a notification.
SpuriousWake == \E w \in waitSet : Wake({w})

\* A notified thread gets the monitor back with the entries it had.
Resume(t) ==
  /\ t \in notified
  /\ lockOwner = NoThread
  /\ lockOwner' = t
  /\ entries' = saved[t]
  /\ saved' = [saved EXCEPT ![t] = 0]
  /\ notified' = notified \ {t}
  /\ UNCHANGED waitSet

Next ==
  \/ SpuriousWake
  \/ \E t \in Thread :
       Lock(t) \/ Unlock(t) \/ Wait(t) \/ Notify(t) \/ NotifyAll(t) \/ Resume(t)

Spec == Init /\ [][Next]_vars
=============================================================================
