---------------------------- MODULE MCReferences ----------------------------
(* Instances of References for TLC. *)
EXTENDS References

CONSTANTS o1, o2, o3, t1, t2

Two == {o1, o2}
Three == Two \cup {o3}
\* One thread calls methods, the other is the launcher, which has no frames.
Depths == t1 :> 2 @@ t2 :> 0
Symmetric == Permutations(Object)
=============================================================================
