----------------------------- MODULE VMThreads -----------------------------
(***************************************************************************)
(* What the two models of the threads of the virtual machine have in       *)
(* common: Safepoint, in which they are stopped, and ThreadLifecycle, in   *)
(* which they come and go.                                                 *)
(***************************************************************************)
EXTENDS Integers, FiniteSets

CONSTANTS
  Nobody,   \* no thread, the null pointer
  Programs  \* what the threads of a program may do: sets of Deeds

\* In Safepoint
\*   lock: take a mutex or monitor another thread may hold.
\*   native: call native methods, which call JNI functions.
\*   callback: call Java methods from native code.
\*   throw: return from native methods with an exception.
\*   spurious: wake up without a signal, as POSIX lets pthread_cond_wait do.
\*   finalizer: one of them is the finalizer.
\* In ThreadLifecycle
\*   race: two threads are in ++ or -- of the counter at the same time.
\*   collect: the collector runs and deletes terminated threads.
\*   join: pthread_join of a thread that has detached ends the process.
Deeds == {"lock", "native", "callback", "throw", "spurious", "finalizer",
          "race", "collect", "join"}

ASSUME ProgramsAssumption == Programs \subseteq SUBSET Deeds

VARIABLES
  state,  \* Thread::_state
  pc,     \* what a thread is doing
  vm,     \* "exited" after EXIT_FATAL, which SIGSEGV leads to as well
  deeds   \* what the threads of this program do, fixed from the start

Move(t, from, to) ==
  /\ vm = "alive"
  /\ pc[t] = from
  /\ pc' = [pc EXCEPT ![t] = to]
=============================================================================
