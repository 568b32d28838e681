----------------------------- MODULE MCLinking -----------------------------
(* Instances of Linking for TLC. *)
EXTENDS Linking

CONSTANTS Obj, Cls, Clone, A, B, I, J, ArrA, ArrB, Long, m, init, l1

F(type) == [type |-> type, static |-> FALSE]
S(type) == [type |-> type, static |-> TRUE]
M(signature, handlers, types) == [signature |-> signature, handlers |-> handlers, types |-> types]
File0(super, interfaces, fields, methods) ==
  [interface |-> FALSE, super |-> super, interfaces |-> interfaces,
   fields |-> fields, methods |-> methods]
Interface(interfaces, methods) == [File0(Obj, interfaces, <<>>, methods) EXCEPT !.interface = TRUE]

\* Object names Class in a method, and the other way round, as in Java.
Base ==
  Obj :> File0(None, <<>>, <<>>, <<M(m, <<>>, <<Cls>>)>>)
  @@ Cls :> File0(Obj, <<Clone>>, <<F(Obj)>>, <<M(init, <<>>, <<Cls>>)>>)
  @@ Clone :> Interface(<<>>, <<>>)

BaseAt == [n \in {Obj, Cls, Clone} |-> "boot"]
ElementIn == ArrA :> A @@ ArrB :> ArrA

\* A is the super class of B and has a field of its type, before one of its own.
Circle ==
  [files |-> A :> File0(Obj, <<>>, <<F(B), F(Long), S(Long)>>, <<M(m, <<>>, <<ArrA>>)>>)
             @@ B :> File0(A, <<>>, <<F(Long)>>, <<M(m, <<A>>, <<>>)>>) @@ Base,
   place |-> A :> "boot" @@ B :> "boot" @@ BaseAt]

\* A has a field of the array of itself.
OwnArray ==
  [files |-> A :> File0(Obj, <<I>>, <<S(ArrA), F(ArrB)>>, <<M(m, <<>>, <<B>>)>>)
             @@ B :> File0(A, <<>>, <<F(Long)>>, <<M(init, <<>>, <<A>>)>>)
             @@ I :> Interface(<<>>, <<M(m, <<>>, <<ArrA>>)>>) @@ Base,
   place |-> A :> "boot" @@ B :> "boot" @@ I :> "boot" @@ BaseAt]

\* J extends I; A implements J.
Interfaces ==
  [files |-> A :> File0(Obj, <<J>>, <<F(I)>>, <<M(m, <<Obj, B, Obj>>, <<>>)>>)
             @@ B :> File0(A, <<>>, <<>>, <<M(init, <<>>, <<ArrA>>)>>)
             @@ I :> Interface(<<>>, <<M(m, <<>>, <<ArrB>>)>>)
             @@ J :> Interface(<<I>>, <<>>) @@ Base,
   place |-> [n \in {A, B, I, J} |-> "boot"] @@ BaseAt]

\* Nobody has I, which B needs.
Missing ==
  [files |-> A :> File0(Obj, <<>>, <<F(B)>>, <<M(m, <<>>, <<ArrB>>)>>)
             @@ B :> File0(A, <<>>, <<F(I), S(Long)>>, <<>>) @@ Base,
   place |-> A :> "boot" @@ B :> "boot" @@ I :> "nowhere" @@ BaseAt]

\* A and B come from a loader of the program.
Own ==
  [files |-> A :> File0(Obj, <<>>, <<F(B)>>, <<M(m, <<B>>, <<ArrA>>)>>)
             @@ B :> File0(A, <<>>, <<F(Long)>>, <<M(m, <<>>, <<A>>)>>) @@ Base,
   place |-> A :> "own" @@ B :> "own" @@ BaseAt]

\* A class is missing that java/lang/Class needs.
NoClass ==
  [files |-> A :> File0(Obj, <<>>, <<F(Long)>>, <<>>)
             @@ [Base EXCEPT ![Cls].methods = <<M(init, <<>>, <<I>>)>>],
   place |-> A :> "boot" @@ B :> "nowhere" @@ I :> "nowhere" @@ BaseAt]

All == {Circle, OwnArray, Interfaces, Missing, Own, NoClass}

\* The programs are such as compilers give.
ASSUME SupersAssumption == SupersEnd /\ SupersAreClasses
=============================================================================
