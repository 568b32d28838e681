---------------------------- MODULE MCInterpreter ----------------------------
(* Instances of Interpreter for TLC. *)
EXTENDS Interpreter

MCBits == [t \in Type |-> IF t = "reference" THEN {0, 1} ELSE IF t = "long" THEN {1, 2} ELSE {1}]

\* main calls the others; shuffle has room for every form of dup2_x2.
MCCallees ==
  [main |-> {"static", "virtual", "native"}, shuffle |-> {}, static |-> {},
   virtual |-> {}, native |-> {}]
MCParams ==
  [main |-> <<>>, shuffle |-> <<>>, static |-> <<"long", "int">>, virtual |-> <<"long">>,
   native |-> <<"long", "reference">>]
MCResult ==
  [main |-> "void", shuffle |-> "void", static |-> "int", virtual |-> "long", native |-> "long"]
MCMaxStack == [main |-> 4, shuffle |-> 6, static |-> 1, virtual |-> 2, native |-> 1]
MCMaxLocals == [main |-> 0, shuffle |-> 0, static |-> 3, virtual |-> 3, native |-> 4]
=============================================================================
