------------------------------ MODULE MCFrames ------------------------------
(* Instances of Frames for TLC. *)
EXTENDS Frames, TLC

CONSTANTS run, work, open, nat,  \* methods
          lock, e1, e2           \* a lock and two exceptions

Methods == {run, work, open, nat}

\* work is synchronized and catches e1 thrown by its third instruction; open
\* catches e2 from its first instruction on; nat is native and synchronized.
Entry(s, t, c) == [start |-> s, end |-> s + 1, target |-> t, catches |-> c]

Lengths == (run :> 2) @@ (work :> 5) @@ (open :> 3) @@ (nat :> 1)
Tables  == (run :> <<>>) @@ (work :> <<Entry(2, 4, {e1})>>)
           @@ (open :> <<Entry(0, 2, {e2})>>) @@ (nat :> <<>>)
Syncs   == (run :> NoLock) @@ (work :> lock) @@ (open :> NoLock) @@ (nat :> lock)

Tame == SUBSET {"edge"}
=============================================================================
