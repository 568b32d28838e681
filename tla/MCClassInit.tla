---------------------------- MODULE MCClassInit ----------------------------
(* Instances of ClassInit for TLC. *)
EXTENDS ClassInit, TLC

CONSTANTS t1, t2, A, B, C

Threads == {t1, t2}
Classes == {A, B, C}

\* B extends A; C stands alone.
BExtendsA == (B :> A) @@ (A :> NoClass) @@ (C :> NoClass)

Everything == SUBSET Deeds
=============================================================================
