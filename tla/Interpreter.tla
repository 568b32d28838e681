----------------------------- MODULE Interpreter ------------------------------
(***************************************************************************)
(* What the interpreter's instructions do to operands and local variables  *)
(* (Interpreter::execute, fill_parameters, Method::invokeJava), with the   *)
(* numbers left open.                                                      *)
(*                                                                         *)
(* An operand is one Value, whatever its type.  Where a class file counts  *)
(* in words, as in dup2 and in the numbers of local variables, the code    *)
(* goes by the tag of the value that it finds.  WordFrames says what it    *)
(* has to come to.                                                         *)
(*                                                                         *)
(* The programs are those a verifier admits: an instruction finds operands *)
(* and local variables of the types it is made for, and no more words are  *)
(* pushed than the class file declares.                                    *)
(***************************************************************************)
EXTENDS Naturals, Sequences, FiniteSets

CONSTANTS
  Type,          \* of the values in this model, out of AllTypes
  Bits,          \* the contents that a value of a type may have
  Method,
  Static, Native,
  Entry,         \* the methods that native code calls
  Callees,       \* the methods that a method's code calls
  Params,        \* the types of a method's parameters
  Result,        \* the type of its result, or "void"
  MaxStack, MaxLocals,   \* in words, as in the class file
  Depth,         \* the number of frames
  NoValue        \* what is in memory before something is stored

Wide == {"long", "double"}
Narrow == {"boolean", "byte", "char", "short"}
AllTypes == Wide \cup Narrow \cup {"int", "float", "reference"}

\* 0 is null.
Value == UNION {[type : {t}, bits : Bits[t]] : t \in Type}

\* What the verifier makes of a type.
Kind(t) == IF t \in Narrow THEN "int" ELSE t
Kinds(values) == [i \in DOMAIN values |-> Kind(values[i].type)]

\* The words that a type takes in a class file.
Words(t) == IF t = "void" THEN 0 ELSE IF t \in Wide THEN 2 ELSE 1

WordsOf(types) ==
  Len(types) + Cardinality({i \in DOMAIN types : types[i] \in Wide})

\* The types that are popped for a call, the object first.
Arguments(m) == (IF m \in Static THEN <<>> ELSE <<"reference">>) \o Params[m]

ASSUME InterpreterAssumption ==
  /\ {"int", "reference"} \subseteq Type /\ Type \subseteq AllTypes
  /\ Bits \in [Type -> SUBSET Nat]
  /\ Static \subseteq Method /\ Native \subseteq Method
  /\ Entry \subseteq Method \ Native
  /\ Callees \in [Method -> SUBSET Method]
  /\ Params \in [Method -> Seq(Type)]
  /\ Result \in [Method -> Type \cup {"void"}]
  /\ MaxStack \in [Method -> Nat \ {0}] /\ MaxLocals \in [Method -> Nat]
  /\ \A m \in Method : WordsOf(Arguments(m)) <= MaxLocals[m]
  /\ Depth \in Nat \ {0}
  /\ NoValue \notin Value

VARIABLE frames    \* the frames of Java methods, the current one last

Locals(m) == 0 .. MaxLocals[m] - 1

\* readable is not in the code: the local variables that may be read.
IsFrame(f) ==
  /\ DOMAIN f = {"method", "stack", "locals", "readable"}
  /\ f.method \in Method
  /\ f.stack \in Seq(Value)
  /\ f.locals \in [Locals(f.method) -> Value \cup {NoValue}]
  /\ f.readable \subseteq Locals(f.method)

TypeOK ==
  /\ Len(frames) <= Depth
  /\ \A p \in DOMAIN frames : IsFrame(frames[p])

Init == frames = <<>>

-----------------------------------------------------------------------------
Current == frames[Len(frames)]
Callers == SubSeq(frames, 1, Len(frames) - 1)

Running == frames # <<>>

\* The last n operands, and the ones below.
Upper(n) == SubSeq(Current.stack, Len(Current.stack) - n + 1, Len(Current.stack))
Lower(n) == SubSeq(Current.stack, 1, Len(Current.stack) - n)

\* The last of the operands have these types.
Finds(types) ==
  /\ Running /\ Len(types) <= Len(Current.stack)
  /\ Kinds(Upper(Len(types))) = [i \in DOMAIN types |-> Kind(types[i])]

\* So many words can be on the stack of the current method.
Holds(words) == words <= MaxStack[Current.method]

Fits(stack) == Holds(WordsOf(Kinds(stack)))

SetStack(stack) == frames' = [frames EXCEPT ![Len(frames)].stack = stack]

\* The operand that has been pushed n before the last one.
Top(n) == Current.stack[Len(Current.stack) - n + 1]

\* The test for TYPE_LONG and TYPE_DOUBLE.
IsWide(v) == v.type \in Wide

\* The words of the last n operands, as the verifier counts them.
Has(n, widths) ==
  /\ Running /\ n <= Len(Current.stack)
  /\ \A i \in 1 .. n : Words(Top(i).type) = widths[i]

-----------------------------------------------------------------------------
(* Instructions by the types that they pop and push, in the order of the   *)
(* interpreter's cases.                                                    *)

Effect(in, out) == [in |-> in, out |-> out]

Elements(t) ==
  {Effect(<<"reference", "int">>, t), Effect(<<"reference", "int", t>>, "void")}

Arithmetic(t) ==
  {Effect(<<>>, t), Effect(<<t>>, t), Effect(<<t, t>>, t), Effect(<<t, t>>, "int")}

Conversions(t, targets) == {Effect(<<t>>, u) : u \in targets}

\* aaload ... arraylength, without loads and stores.
ReferenceInstructions ==
  Elements("reference") \cup
  {Effect(<<>>, "reference"), Effect(<<"int">>, "reference"), Effect(<<"reference">>, "int")}

\* d2f ... dsub
DoubleInstructions ==
  Elements("double") \cup Arithmetic("double") \cup
  Conversions("double", {"float", "int", "long"})

\* f2d ... fsub
FloatInstructions ==
  Elements("float") \cup Arithmetic("float") \cup
  Conversions("float", {"double", "int", "long"})

\* getfield, getstatic, putfield, putstatic: the value has the field's type.
FieldInstructions ==
  UNION {{Effect(<<"reference">>, t), Effect(<<>>, t),
          Effect(<<"reference", t>>, "void"), Effect(<<t>>, "void")} : t \in Type}

\* i2b ... ixor, and the elements of arrays of smaller types.
IntInstructions ==
  Elements("int") \cup Arithmetic("int") \cup
  Conversions("int", {"float", "double", "long"})

\* if_acmpeq ... ifnull, and the switches: a condition is popped.
BranchInstructions ==
  {Effect(<<"int">>, "void"), Effect(<<"int", "int">>, "void"),
   Effect(<<"reference">>, "void"), Effect(<<"reference", "reference">>, "void")}

\* l2d ... lxor, where shifts have an int on top.
LongInstructions ==
  Elements("long") \cup Arithmetic("long") \cup
  Conversions("long", {"float", "double", "int"}) \cup {Effect(<<"long", "int">>, "long")}

\* ldc, ldc_w, ldc2_w
ConstantInstructions ==
  {Effect(<<>>, t) : t \in {"int", "float", "reference", "long", "double"}}

\* monitorenter ... newarray, and instanceof.
ObjectInstructions ==
  {Effect(<<"reference">>, "void"), Effect(<<"reference">>, "int"),
   Effect(<<>>, "reference"), Effect(<<"int">>, "reference"),
   Effect(<<"int", "int">>, "reference")}

Instructions ==
  {e \in ReferenceInstructions \cup DoubleInstructions \cup FloatInstructions
           \cup FieldInstructions \cup IntInstructions \cup BranchInstructions
           \cup LongInstructions \cup ConstantInstructions \cup ObjectInstructions :
     /\ \A i \in DOMAIN e.in : e.in[i] \in Type
     /\ e.out \in Type \cup {"void"}}

\* The value is tagged with the type that the C++ expression has.
Pushed(t) == IF t = "void" THEN {<<>>} ELSE {<<v>> : v \in {w \in Value : w.type = t}}

Execute(e) ==
  /\ Finds(e.in)
  /\ \E result \in Pushed(e.out) :
       LET stack == Lower(Len(e.in)) \o result
       IN  Fits(stack) /\ SetStack(stack)

-----------------------------------------------------------------------------
(* Local variables.                                                        *)

\* TLOAD, TLOAD_N
Load(i) ==
  /\ Running /\ i \in Current.readable
  /\ LET stack == Append(Current.stack, Current.locals[i])
     IN  Fits(stack) /\ SetStack(stack)

\* What can still be read when n words have been written to i.
ReadableAfter(i, n) ==
  {k \in Current.readable :
     {k, k + Words(Current.locals[k].type) - 1} \cap (i .. i + n - 1) = {}} \cup {i}

\* TSTORE, TSTORE_N
Store(i) ==
  /\ Running /\ Current.stack # <<>>
  /\ LET n == Words(Top(1).type)
     IN  /\ i + n <= MaxLocals[Current.method]
         /\ frames' = [frames EXCEPT
              ![Len(frames)].stack = Lower(1),
              ![Len(frames)].locals[i] = Top(1),
              ![Len(frames)].readable = ReadableAfter(i, n)]

\* iinc: the variable keeps its tag.
Increment(i) ==
  /\ Running /\ i \in Current.readable /\ Kind(Current.locals[i].type) = "int"
  /\ \E bits \in Bits[Current.locals[i].type] :
       frames' = [frames EXCEPT ![Len(frames)].locals[i].bits = bits]

-----------------------------------------------------------------------------
(* Instructions that move any operands.                                    *)

Pop1 == Has(1, <<1>>) /\ SetStack(Lower(1))

Pop2Result == IF IsWide(Top(1)) THEN Lower(1) ELSE Lower(2)

Pop2 ==
  /\ Has(1, <<2>>) \/ Has(2, <<1, 1>>)
  /\ SetStack(Pop2Result)

Swap == Has(2, <<1, 1>>) /\ SetStack(Lower(2) \o <<Top(1), Top(2)>>)

DupResult == Append(Current.stack, Top(1))

DupX1Result == Lower(2) \o <<Top(1), Top(2), Top(1)>>

\* Mutation: two values below the copy are pushed in the wrong order.
DupX2Crossed ==
  IF IsWide(Top(2))
  THEN Lower(2) \o <<Top(1), Top(2), Top(1)>>
  ELSE Lower(3) \o <<Top(1), Top(2), Top(3), Top(1)>>

DupX2Result ==
  IF IsWide(Top(2))
  THEN Lower(2) \o <<Top(1), Top(2), Top(1)>>
  ELSE Lower(3) \o <<Top(1), Top(3), Top(2), Top(1)>>

Dup2Result ==
  IF IsWide(Top(1))
  THEN Lower(1) \o <<Top(1), Top(1)>>
  ELSE Lower(2) \o <<Top(2), Top(1), Top(2), Top(1)>>

Dup2X1Result ==
  IF IsWide(Top(1)) /\ ~IsWide(Top(2))
  THEN Lower(2) \o <<Top(1), Top(2), Top(1)>>
  ELSE Lower(3) \o <<Top(2), Top(1), Top(3), Top(2), Top(1)>>

\* No operand is pushed again when the tags fit no form of the instruction.
Dup2X2Result ==
  LET wide == [n \in 1 .. 4 |-> n <= Len(Current.stack) /\ IsWide(Top(n))]
  IN  IF wide[1] /\ wide[2]
      THEN Lower(2) \o <<Top(1), Top(2), Top(1)>>
      ELSE IF ~wide[1] /\ ~wide[2] /\ wide[3]
      THEN Lower(3) \o <<Top(2), Top(1), Top(3), Top(2), Top(1)>>
      ELSE IF wide[1] /\ ~wide[2] /\ ~wide[3]
      THEN Lower(3) \o <<Top(1), Top(3), Top(2), Top(1)>>
      ELSE IF ~wide[1] /\ ~wide[2] /\ ~wide[3] /\ ~wide[4]
      THEN Lower(4) \o <<Top(2), Top(1), Top(4), Top(3), Top(2), Top(1)>>
      ELSE Lower(4)

Rearrange(result) == Fits(result) /\ SetStack(result)

Dup == Has(1, <<1>>) /\ Rearrange(DupResult)
DupX1 == Has(2, <<1, 1>>) /\ Rearrange(DupX1Result)
DupX2 == (Has(2, <<1, 2>>) \/ Has(3, <<1, 1, 1>>)) /\ Rearrange(DupX2Result)
Dup2 == (Has(1, <<2>>) \/ Has(2, <<1, 1>>)) /\ Rearrange(Dup2Result)
Dup2X1 == (Has(2, <<2, 1>>) \/ Has(3, <<1, 1, 1>>)) /\ Rearrange(Dup2X1Result)

Dup2X2 ==
  /\ \/ Has(4, <<1, 1, 1, 1>>) \/ Has(3, <<2, 1, 1>>)
     \/ Has(3, <<1, 1, 2>>) \/ Has(2, <<2, 2>>)
  /\ Rearrange(Dup2X2Result)

-----------------------------------------------------------------------------
(* Calls.                                                                  *)

Reference == {v \in Value : v.type = "reference"}
Null == [type |-> "reference", bits |-> 0]

\* Mutation: long and double take one local variable.
PositionNarrow(object, parameters, i) == (IF object = Null THEN 0 ELSE 1) + i - 1

\* The local variable of parameter i, by the tags of those before it.
Position(object, parameters, i) ==
  LET wideBefore == {j \in 1 .. i - 1 : IsWide(parameters[j])}
  IN  (IF object = Null THEN 0 ELSE 1) + i - 1 + Cardinality(wideBefore)

\* The local variables of a new frame, in memory that had others before.
Received(m, object, parameters) ==
  LET places == {Position(object, parameters, i) : i \in DOMAIN parameters}
      At(k) == CHOOSE i \in DOMAIN parameters : Position(object, parameters, i) = k
  IN  [k \in Locals(m) |->
         IF k = 0 /\ object # Null THEN object
         ELSE IF k \in places THEN parameters[At(k)]
         ELSE NoValue]

\* invokeJava, with null for the object of a static method.
NewFrame(m, object, parameters) ==
  LET locals == Received(m, object, parameters)
  IN  [method |-> m, stack |-> <<>>, locals |-> locals,
       readable |-> {k \in Locals(m) : locals[k] # NoValue}]

\* fill_parameters
PoppedObject(m) == IF m \in Static THEN Null ELSE Top(Len(Params[m]) + 1)
PoppedParameters(m) == Upper(Len(Params[m]))

\* A call that is verified, and not one on null, which throws.
Calls(m) ==
  /\ Running /\ m \in Callees[Current.method]
  /\ Finds(Arguments(m))
  /\ m \notin Static => PoppedObject(m) # Null
  /\ Holds(WordsOf(Kinds(Lower(Len(Arguments(m))))) + Words(Result[m]))

Invoke(m) ==
  /\ m \notin Native /\ Calls(m) /\ Len(frames) < Depth
  /\ frames' = [frames EXCEPT ![Len(frames)].stack = Lower(Len(Arguments(m)))]
                 \o << NewFrame(m, PoppedObject(m), PoppedParameters(m)) >>

\* invokeNative: the value gets the type that the method declares.
InvokeNative(m) ==
  /\ m \in Native /\ Calls(m)
  /\ \E result \in Pushed(Result[m]) : SetStack(Lower(Len(Arguments(m))) \o result)

\* Native code calls a method of this thread that has no other frame.
Run(m) ==
  /\ ~Running /\ m \in Entry
  /\ \E object \in (IF m \in Static THEN {Null} ELSE Reference \ {Null}),
        parameters \in {p \in [DOMAIN Params[m] -> Value] : 
                          \A i \in DOMAIN p : p[i].type = Params[m][i]} :
       frames' = << NewFrame(m, object, parameters) >>

\* TRETURN and RETURN, and the push by the instruction that has called.
Return ==
  /\ Running
  /\ LET n == IF Result[Current.method] = "void" THEN 0 ELSE 1
     IN  /\ n = 1 => Finds(<<Result[Current.method]>>)
         /\ frames' = IF Callers = <<>>
                      THEN <<>>
                      ELSE [Callers EXCEPT ![Len(Callers)].stack = @ \o Upper(n)]

-----------------------------------------------------------------------------
(* Exceptions.                                                             *)

\* throw_exception with a handler in frame p.
Caught(p, exception) ==
  Append(SubSeq(frames, 1, p - 1), [frames[p] EXCEPT !.stack = <<exception>>])

\* Any instruction that throws, and any call that comes back with an exception.
Throw(p, exception) ==
  /\ Running /\ exception # Null
  /\ frames' = IF p = 0 THEN <<>> ELSE Caught(p, exception)

\* multianewarray with a negative size: the break leaves the loop over the sizes
\* and not the instruction, which creates an array out of the sizes so far.
ThrowNegativeSize(exception, array) ==
  /\ Finds(<<"int", "int">>)
  /\ exception # Null /\ array # Null
  /\ LET handler == Caught(Len(frames), exception)
     IN  frames' = [handler EXCEPT ![Len(frames)].stack = Append(@, array)]
  /\ Holds(2)

-----------------------------------------------------------------------------
Index == UNION {Locals(m) : m \in Method}

Next ==
  \/ \E e \in Instructions : Execute(e)
  \/ \E i \in Index : Load(i) \/ Store(i) \/ Increment(i)
  \/ Pop1 \/ Pop2 \/ Swap \/ Dup \/ DupX1 \/ DupX2 \/ Dup2 \/ Dup2X1 \/ Dup2X2
  \/ \E m \in Method : Invoke(m) \/ InvokeNative(m) \/ Run(m)
  \/ Return
  \/ \E p \in 0 .. Len(frames), e \in Reference : Throw(p, e)
  \/ \E e, a \in Reference : ThrowNegativeSize(e, a)

Spec == Init /\ [][Next]_frames

-----------------------------------------------------------------------------
(* Properties.                                                             *)

\* The words that a value is made of.
AsWords(v) == IF IsWide(v) THEN << <<v, 1>>, <<v, 2>> >> ELSE << <<v, 1>> >>

StackInWords(values) ==
  LET upTo[i \in 0 .. Len(values)] == IF i = 0 THEN <<>> ELSE upTo[i - 1] \o AsWords(values[i])
  IN  upTo[Len(values)]

NoWord == <<NoValue, 0>>

LocalsInWords(f) ==
  LET Reads(k) == k \in f.readable
      SecondHalf(k) == Reads(k - 1) /\ IsWide(f.locals[k - 1])
  IN  [k \in Locals(f.method) |->
         IF Reads(k) THEN <<f.locals[k], 1>>
         ELSE IF SecondHalf(k) THEN <<f.locals[k - 1], 2>>
         ELSE NoWord]

InWords ==
  [p \in DOMAIN frames |-> [stack |-> StackInWords(frames[p].stack),
                            locals |-> LocalsInWords(frames[p])]]

Word == INSTANCE WordFrames WITH frames <- InWords

\* Each instruction comes to what the class file means, in words: the types by
\* which pop2 and the dup instructions choose their form are right, and a value
\* with its tag can stand for two words, on the stack and in local variables.
\* Arguments arrive in the local variables the class file means, results on the
\* stack of the caller, and a handler finds the exception and nothing else.
\* (The types of the variables are checked on the way.)
WordsAsSpecified ==
  []TypeOK /\ [][
     /\ \A e \in Instructions : Execute(e) => Word!Compute(WordsOf(e.in), Words(e.out))
     /\ \A i \in Index :
          /\ Load(i) => Word!Load(i, Words(Current.locals[i].type))
          /\ Store(i) => Word!Store(i, Words(Top(1).type))
          /\ Increment(i) => Word!Increment(i)
     /\ (Pop1 => Word!Pop(1)) /\ (Pop2 => Word!Pop(2)) /\ (Swap => Word!Swap)
     /\ (Dup => Word!Dup(1, 0)) /\ (DupX1 => Word!Dup(1, 1)) /\ (DupX2 => Word!Dup(1, 2))
     /\ (Dup2 => Word!Dup(2, 0)) /\ (Dup2X1 => Word!Dup(2, 1))
     /\ (Dup2X2 => Word!Dup(2, 2))
     /\ \A m \in Method :
          /\ Invoke(m) => Word!Invoke(WordsOf(Arguments(m)), MaxLocals[m])
          /\ InvokeNative(m) => Word!Compute(WordsOf(Arguments(m)), Words(Result[m]))
     /\ Return => Word!Return(Words(Result[Current.method]))
     /\ \A p \in 0 .. Len(frames), e \in Reference : Throw(p, e) => Word!Throw(p)]_frames
=============================================================================
