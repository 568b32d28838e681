-------------------------------- MODULE Values --------------------------------
(***************************************************************************)
(* Numbers in the virtual machine (Value, the arithmetic of                *)
(* Interpreter::execute, and the memory of Array and Field).               *)
(*                                                                         *)
(* A Value is a tag and one unsigned word as wide as a long, whatever its  *)
(* type; the getters as_int, as_byte and so on take as many bits of it as  *)
(* they want.  Fields and elements of arrays are as wide as their type and *)
(* are copied into the word and out of it.                                 *)
(*                                                                         *)
(* The number is in Java, where it is the operand, or in native code, where*)
(* it is a value of C: arguments and results of native methods (NativeCall,*)
(* with libffi) and of the methods that native code calls                  *)
(* (Call<Type>Method), and fields and elements that native code reads and  *)
(* writes (Get<Type>Field, Unsafe).  Java code and native code pass it on  *)
(* as often as they like.  A Java compiler cuts an int to a smaller type   *)
(* before it passes or returns it as one.                                  *)
(*                                                                         *)
(* A program has one operand and one field or array element, and computes  *)
(* with constants.  java and javaCell are the numbers that the Java        *)
(* virtual machine specification has at their place.  Integers have few    *)
(* bits; a double is a small integer or NaN, since its arithmetic is that  *)
(* of the processor, and a float is known by its bits.                     *)
(***************************************************************************)
EXTENDS Integers

CONSTANTS
  Width,      \* the bits of each type but double
  Double,     \* the doubles that are numbers
  NaN,
  Programs    \* what happens in a program: sets of Deeds

Narrow == {"boolean", "byte", "char", "short"}
Integral == Narrow \cup {"int", "long"}
Types == Integral \cup {"float", "double"}

\* swap: a compare-and-swap finds another value than the expected one.
\* static: Unsafe is used on a static field.
\* signed: a negative byte or short is in memory and is loaded.
\* divide: the least integer is divided by -1.
\* range: a double that is no int, or no number, is converted.
\* compare: doubles are compared that are not equal.
Deeds == {"signed", "divide", "range", "compare", "swap", "static"}

IsSetting ==
  /\ Width \in [Types \ {"double"} -> Nat \ {0}]
  /\ \A t \in Narrow : Width[t] < Width["int"]
  /\ Width["int"] < Width["long"] /\ Width["float"] = Width["int"]
  /\ Double \subseteq Int /\ NaN \notin Int
  /\ Programs \subseteq SUBSET Deeds

VARIABLES
  operand,    \* the Value on the stack, or the value of C
  cell,       \* the type of a field or element, and its bits
  java,       \* the number that the operand is to be
  javaCell,   \* the number that the cell is to hold
  vm,         \* "killed" by a trap of the processor
  deeds,      \* what happens in this program, fixed from the start
  side        \* where the number is: in "java" or in "native" code

vars == <<operand, cell, java, javaCell, vm, deeds, side>>

-----------------------------------------------------------------------------
(* Value.hpp                                                               *)

Word == 2 ^ Width["long"]

\* A conversion to a signed type of w bits.
Signed(n, w) ==
  LET low == n % 2 ^ w IN IF low < 2 ^ (w - 1) THEN low ELSE low - 2 ^ w

Least(t) == -(2 ^ (Width[t] - 1))
Range(t) ==
  IF t = "boolean" THEN {0, 1}
  ELSE IF t = "double" THEN Double \cup {NaN}
  ELSE IF t \in {"char", "float"} THEN 0 .. 2 ^ Width[t] - 1
  ELSE Least(t) .. -Least(t) - 1

\* The constructors for integral types: the sign fills the word.
New(t, n) == [type |-> t, value |-> n % Word]
NewDouble(d) == [type |-> "double", value |-> d]

\* The constructor for float reads a whole word from where the float is, and
\* with it what is behind.
NewFloat(bits, behind) == [type |-> "float", value |-> behind * 2 ^ Width["float"] + bits]
Behind == 0 .. 2 ^ (Width["long"] - Width["float"]) - 1

AsInt(v) == Signed(v.value, Width["int"])
AsLong(v) == Signed(v.value, Width["long"])
AsByte(v) == Signed(v.value, Width["byte"])
AsShort(v) == Signed(v.value, Width["short"])
AsChar(v) == v.value % 2 ^ Width["char"]
AsFloat(v) == v.value % 2 ^ Width["float"]

IsInt(v) == v.type \in Narrow \cup {"int"}

\* What the getter for the operand's type reads.
Read(v) ==
  IF IsInt(v) THEN AsInt(v)
  ELSE IF v.type = "long" THEN AsLong(v)
  ELSE IF v.type = "float" THEN AsFloat(v)
  ELSE v.value

\* As many bytes of the word as the type has.
Bits(t, word) == IF t = "double" THEN word ELSE word % 2 ^ Width[t]

-----------------------------------------------------------------------------
IsValue(v) ==
  /\ v.type \in Types
  /\ v.value \in IF v.type = "double" THEN Double \cup {NaN} ELSE 0 .. Word - 1

TypeOK ==
  /\ cell.type \in Types
  /\ cell.bits \in IF cell.type = "double" THEN Double \cup {NaN} ELSE 0 .. 2 ^ Width[cell.type] - 1
  /\ java \in Range("long") \cup Double \cup {NaN}
  /\ javaCell \in Range("long") \cup Double \cup {NaN}
  /\ vm \in {"running", "killed"}
  /\ deeds \in Programs
  /\ side \in {"java", "native"}
  /\ side = "java" => IsValue(operand)
  /\ side = "native" => operand.type \in Types /\ operand.value \in Range(operand.type)

Init ==
  /\ operand = New("int", 0) /\ java = 0
  /\ cell \in {[type |-> t, bits |-> 0] : t \in Types} /\ javaCell = 0
  /\ vm = "running" /\ side = "java"
  /\ deeds \in Programs

\* The bits in memory are those of the number that Java has there.
HoldsWhatJavaHas == cell.bits = Bits(cell.type, javaCell)

\* What a program does after its first wrong number is not explored.
Running == vm = "running" /\ Read(operand) = java /\ HoldsWhatJavaHas

\* The instruction leaves v where the specification has n.
Push(v, n) ==
  /\ operand' = v /\ java' = n
  /\ UNCHANGED <<cell, javaCell, vm, deeds>>

-----------------------------------------------------------------------------
(* Constants: iconst_0 ... sipush, lconst_0, dconst_0, and the entries of   *)
(* the constant pool for ldc and ldc2_w.                                   *)

Constant ==
  /\ Running
  /\ \/ \E n \in Range("short") : Push(New("int", n), n)
     \/ \E n \in {0, 1} : Push(New("long", n), n)
     \/ \E d \in {0, 1} \cap Double : Push(NewDouble(d), d)

\* get_integer_from_cp: the bytes of the class file become a jint.
PoolInteger ==
  /\ Running
  /\ \E bytes \in 0 .. 2 ^ Width["int"] - 1 :
       LET n == Signed(bytes, Width["int"]) IN Push(New("int", n), n)

\* get_double_from_cp
PoolDouble == Running /\ \E d \in Double \cup {NaN} : Push(NewDouble(d), d)

\* get_float_from_cp
PoolFloat ==
  /\ Running
  /\ \E bytes \in Range("float"), behind \in Behind : Push(NewFloat(bytes, behind), bytes)

\* get_long_from_cp: both halves are unsigned.
Join(high, low) == high * 2 ^ Width["int"] + low

PoolLong ==
  /\ Running
  /\ \E n \in Range("long") :
       LET word == n % Word
       IN  Push(New("long", Join(word \div 2 ^ Width["int"], word % 2 ^ Width["int"])), n)

-----------------------------------------------------------------------------
(* Arithmetic with a constant of the same type.                            *)

\* The types of int and long instructions.
Computed == IF IsInt(operand) THEN "int" ELSE operand.type

Magnitude(n) == IF n < 0 THEN -n ELSE n
Sign(n) == IF n < 0 THEN -1 ELSE 1

\* The division of C++ cuts off the fraction.
Quotient(a, b) == Sign(a) * Sign(b) * (Magnitude(a) \div Magnitude(b))
Remainder(a, b) == a - b * Quotient(a, b)

\* The processor takes the low bits of the number of bits to shift.
Distance(t, n) == n % Width[t]

\* By the specification: a = b * q + r, where r has the sign of a.
JavaRemainder(a, b) ==
  CHOOSE r \in 1 - Magnitude(b) .. Magnitude(b) - 1 :
    /\ (a - r) % Magnitude(b) = 0
    /\ a > 0 => r >= 0
    /\ a < 0 => r <= 0
    /\ a = 0 => r = 0
JavaQuotient(a, b) == 
  LET multiple == a - JavaRemainder(a, b)
  IN  CHOOSE q \in -Magnitude(a) .. Magnitude(a) : q * b = multiple

\* By the specification: what >> gives, and 2 << ~s more if a is negative.
JavaUnsignedShift(t, a, s) ==
  LET shifted == a \div 2 ^ s
  IN  Signed(IF a < 0 THEN shifted + 2 ^ (Width[t] - s) ELSE shifted, Width[t])

\* iadd, isub, imul, ineg and the same for long.  The results are what the
\* processor leaves, although C++ does not define them when they overflow.
Linear(t, n) ==
  LET a == Read(operand)
      Wrapped(r) == New(t, Signed(r, Width[t]))
      Exactly(r) == Signed(r, Width[t])
  IN  \/ Push(Wrapped(a + n), Exactly(java + n))
      \/ Push(Wrapped(a - n), Exactly(java - n))
      \/ Push(Wrapped(a * n), Exactly(java * n))
      \/ Push(Wrapped(-a), Exactly(-java))

\* idiv, irem, ldiv, lrem: zero throws, and one division is not defined.
Divide(t, n) ==
  LET a == Read(operand)
  IN  /\ n # 0
      /\ ~(a = Least(t) /\ n = -1)
      /\ \/ Push(New(t, Quotient(a, n)), Signed(JavaQuotient(java, n), Width[t]))
         \/ Push(New(t, Remainder(a, n)), JavaRemainder(java, n))

\* Some processors trap, others give the least integer again, or 0.
DivideLeast(t) ==
  /\ Running /\ Computed = t
  /\ "divide" \in deeds
  /\ Read(operand) = Least(t)
  /\ \/ Push(New(t, Least(t)), Least(t))
     \/ Push(New(t, 0), 0)
     \/ vm' = "killed" /\ UNCHANGED <<operand, cell, java, javaCell, deeds>>

\* ishl, ishr, iushr, lshl, lshr, lushr
Shift(t, n) ==
  LET a == Read(operand)
      s == Distance(t, n)
  IN  \/ Push(New(t, Signed(a * 2 ^ s, Width[t])), Signed(java * 2 ^ (n % Width[t]), Width[t]))
      \/ Push(New(t, a \div 2 ^ s), java \div 2 ^ (n % Width[t]))
      \/ Push(New(t, Signed((a % 2 ^ Width[t]) \div 2 ^ s, Width[t])),
              JavaUnsignedShift(t, java, n % Width[t]))

Compute(t) ==
  /\ Running /\ Computed = t
  /\ \E n \in Range(t) : Linear(t, n) \/ Divide(t, n) \/ Shift(t, n)

\* iinc, and the store that puts the variable there: the tag stays as it is.
Increment ==
  /\ Running /\ IsInt(operand)
  /\ \E n \in Range("byte") :
       Push([operand EXCEPT !.value = Signed(AsInt(operand) + n, Width["int"]) % Word],
            Signed(java + n, Width["int"]))

-----------------------------------------------------------------------------
(* Conversions and comparisons.                                            *)

\* i2b, i2c, i2s
Truncate ==
  /\ Running /\ IsInt(operand)
  /\ \/ Push(New("int", AsByte(operand)), Signed(java, Width["byte"]))
     \/ Push(New("int", AsChar(operand)), java % 2 ^ Width["char"])
     \/ Push(New("int", AsShort(operand)), Signed(java, Width["short"]))

\* i2l
Widen == Running /\ IsInt(operand) /\ Push(New("long", AsInt(operand)), java)

\* l2i
Cut ==
  /\ Running /\ operand.type = "long"
  /\ Push(New("int", Signed(AsLong(operand), Width["int"])), Signed(java, Width["int"]))

Compared(a, b) == IF a > b THEN 1 ELSE IF a = b THEN 0 ELSE -1

\* lcmp
CompareLong ==
  /\ Running /\ operand.type = "long"
  /\ \E n \in Range("long") : Push(New("int", Compared(AsLong(operand), n)), Compared(java, n))

\* i2d, for the integers that are doubles in this model.
ToDouble ==
  /\ Running /\ IsInt(operand) /\ {AsInt(operand), java} \subseteq Double
  /\ Push(NewDouble(AsInt(operand)), java)

JavaToInt(d) ==
  IF d = NaN THEN 0
  ELSE IF d < Least("int") THEN Least("int")
  ELSE IF d > -Least("int") - 1 THEN -Least("int") - 1
  ELSE d

\* d2i: a double out of range is converted to the nearest int, or NaN to 0, by
\* some processors, and to the least int by others.
ToInt ==
  /\ Running /\ operand.type = "double"
  /\ operand.value \notin Range("int") => "range" \in deeds
  /\ \/ Push(New("int", JavaToInt(operand.value)), JavaToInt(java))
     \/ /\ operand.value \notin Range("int")
        /\ Push(New("int", Least("int")), JavaToInt(java))

Below(a, b) == NaN \notin {a, b} /\ a < b

\* dcmpg and dcmpl, which are the same here.
ComparedDouble(value1, value2) ==
  IF Below(value2, value1) THEN -1
  ELSE IF NaN \notin {value1, value2} /\ value1 = value2 THEN 0
  ELSE 1

\* By the specification, with the result for NaN.
JavaComparedDouble(a, b, unordered) ==
  IF NaN \in {a, b} THEN unordered ELSE Compared(a, b)

CompareDouble ==
  /\ Running /\ operand.type = "double"
  /\ \E d \in Double \cup {NaN}, unordered \in {-1, 1} :
       /\ operand.value # d => "compare" \in deeds
       /\ d = NaN => "compare" \in deeds
       /\ Push(New("int", ComparedDouble(operand.value, d)),
               JavaComparedDouble(java, d, unordered))

-----------------------------------------------------------------------------
(* Fields and elements of arrays.                                          *)

\* What the specification has in a field of a type after a store of n.
JavaNarrow(t, n) ==
  IF t = "boolean" THEN n % 2
  ELSE IF t = "char" THEN n % 2 ^ Width[t]
  ELSE IF t \in {"byte", "short"} THEN Signed(n, Width[t])
  ELSE n

\* Mutation: the bytes at the other end of the word are copied.
StoreHigh ==
  /\ Running /\ IsInt(operand) /\ cell.type \in Narrow
  /\ cell' = [cell EXCEPT !.bits = operand.value \div 2 ^ (Width["long"] - Width[cell.type])]
  /\ javaCell' = JavaNarrow(cell.type, java)
  /\ UNCHANGED <<operand, java, vm, deeds>>

\* Array::set_value and Field::value_to_memory: as many bytes as the type has
\* are copied from the word.  The programs store only 0 and 1 as boolean.
Store ==
  /\ Running
  /\ \/ IsInt(operand) /\ cell.type \in Narrow \cup {"int"}
     \/ operand.type = cell.type
  /\ cell.type = "boolean" => java \in {0, 1}
  /\ cell' = [cell EXCEPT !.bits = Bits(cell.type, operand.value)]
  /\ javaCell' = JavaNarrow(cell.type, java)
  /\ UNCHANGED <<operand, java, vm, deeds>>

\* A byte or a short is loaded by copying its bits into a word of zeros.
LosesSign == cell.type \in {"byte", "short"} /\ javaCell < 0

Loads == Running /\ (LosesSign => "signed" \in deeds)

\* Array::get_value<T>: caload, iaload, laload, faload, daload.
LoadElement ==
  /\ Loads
  /\ \/ cell.type = "char" /\ Push(New("int", cell.bits), javaCell)
     \/ /\ cell.type \in {"int", "long"}
        /\ Push(New(cell.type, Signed(cell.bits, Width[cell.type])), javaCell)
     \/ /\ cell.type = "float"
        /\ \E behind \in Behind : Push(NewFloat(cell.bits, behind), javaCell)
     \/ cell.type = "double" /\ Push(NewDouble(cell.bits), javaCell)

\* Array::get_value: baload and saload.
LoadSmallElement ==
  /\ Loads /\ cell.type \in {"boolean", "byte", "short"}
  /\ Push(New("int", Signed(cell.bits, Width["int"])), javaCell)

\* Field::value_from_memory: the Value gets the type of the field.
LoadField ==
  /\ Loads
  /\ Push([type |-> cell.type, value |-> cell.bits], javaCell)

-----------------------------------------------------------------------------
\* What happens in Java: side is left alone.
JavaNext ==
  \/ \E t \in {"int", "long"} : Compute(t) \/ DivideLeast(t)
  \/ Constant \/ PoolInteger \/ PoolDouble \/ PoolFloat \/ PoolLong \/ Increment
  \/ Truncate \/ Widen \/ Cut \/ CompareLong
  \/ ToDouble \/ ToInt \/ CompareDouble
  \/ Store \/ LoadElement \/ LoadSmallElement \/ LoadField

-----------------------------------------------------------------------------
(* Java and native code.                                                   *)

\* A value of C: the number itself, and the bits of a float.
OfC(t, n) == [type |-> t, value |-> n]

InJava == side = "java" /\ Running
InNative(t) ==
  /\ side = "native" /\ vm = "running"
  /\ operand.type = t /\ operand.value = java
  /\ HoldsWhatJavaHas

\* The number goes on as v, on the given side, and Java has n for it.
Continue(where, v, n) ==
  /\ operand' = v /\ java' = n /\ side' = where
  /\ UNCHANGED <<cell, javaCell, vm, deeds>>

-----------------------------------------------------------------------------
(* Value: as_boolean ... as_double.                                        *)

\* jboolean is as wide as jbyte.
AsBoolean(v) == v.value % 2 ^ Width["byte"]

As(t, v) ==
  CASE t = "boolean" -> AsBoolean(v)
    [] t = "byte" -> AsByte(v)
    [] t = "char" -> AsChar(v)
    [] t = "short" -> AsShort(v)
    [] t = "int" -> AsInt(v)
    [] t = "long" -> AsLong(v)
    [] t = "float" -> AsFloat(v)
    [] t = "double" -> v.value

\* The operand may be passed and returned as a t.
Fits(t) ==
  /\ \/ IsInt(operand) /\ t \in Narrow \cup {"int"}
     \/ operand.type = t
  /\ java \in Range(t)

-----------------------------------------------------------------------------
(* Native methods.                                                         *)

\* Mutation: a byte is described as unsigned.
UnsignedArgument(t, v) == IF t = "byte" THEN AsBoolean(v) ELSE As(t, v)

\* libffi is given the address of the word, and takes as much as the
\* parameter's type says.
FfiArgument(t, v) == As(t, v)

\* NativeCall::call
CallNative(t) == InJava /\ Fits(t) /\ Continue("native", OfC(t, FfiArgument(t, operand)), java)

\* libffi widens an integral result to ffi_arg, by the result's type; a float
\* is written to the beginning of it, which was zero.
FfiResult(t, n) == IF t = "double" THEN n ELSE n % Word

\* invokeNative: the result gets the type that the method declares.
NativeReturns(t) ==
  InNative(t) /\ Continue("java", [type |-> t, value |-> FfiResult(t, operand.value)], java)

\* Native code computes a number.
Invent(t) == \E u \in Types : InNative(u) /\ \E n \in Range(t) : Continue("native", OfC(t, n), n)

-----------------------------------------------------------------------------
(* Methods that native code calls.                                         *)

\* A value of C becomes a Value by the constructor for its type.
Constructed(t, n) ==
  IF t = "double" THEN {NewDouble(n)}
  ELSE IF t = "float" THEN {NewFloat(n, behind) : behind \in Behind}
  ELSE {New(t, n)}

\* FROM_VA_LIST: C has promoted small types to int and float to double.
FromVaList(t, promoted) ==
  Constructed(t, IF t \in Narrow THEN As(t, New("int", promoted)) ELSE promoted)

\* Value::by: the member of the union that has the type.
By(t, jvalue) == Constructed(t, jvalue)

\* The parameter is taken from a va_list or from an array of jvalue.
Parameters(t, n) == FromVaList(t, n) \cup By(t, n)

\* call_virtual, call_nonvirtual, call_static
CallJava(t) == InNative(t) /\ \E v \in Parameters(t, operand.value) : Continue("java", v, java)

\* They throw when the object is null, and the result is that of no method:
\* the getter of any type reads zero from it.
CallOnNull(t) ==
  /\ \E u \in Types : InNative(u)
  /\ Continue("native", OfC(t, As(t, [type |-> "void", value |-> 0])), 0)

\* The getter of the type in the function's name reads the method's result.
Got(t) == InJava /\ Fits(t) /\ Continue("native", OfC(t, As(t, operand)), java)

\* Call<Type>Method and CallNonvirtual<Type>Method, in all three forms.
InstanceMethodReturns(t) == Got(t)

\* CallStatic<Type>Method
StaticMethodReturns(t) == Got(t)

-----------------------------------------------------------------------------
(* Fields that native code reads and writes.                               *)

\* *((T*) memory)
FromMemory(t) == As(t, [type |-> t, value |-> cell.bits])

\* Native code reads n.
Reads(n) ==
  /\ \E u \in Types : InNative(u)
  /\ Continue("native", OfC(cell.type, n), javaCell)

\* *((T*) memory) = value
Writes ==
  /\ InNative(cell.type)
  /\ cell' = [cell EXCEPT !.bits = Bits(cell.type, operand.value)]
  /\ javaCell' = java
  /\ UNCHANGED <<operand, java, vm, deeds, side>>

\* Get<Type>Field, Set<Type>Field
AccessField == Reads(FromMemory(cell.type)) \/ Writes

\* GetStatic<Type>Field: the field is copied into a word, and read from there
\* by the getter, which for byte is as_boolean.
GetStaticField ==
  LET v == [type |-> cell.type, value |-> cell.bits]
  IN  Reads(IF cell.type = "byte" THEN Signed(AsBoolean(v), Width["byte"]) ELSE As(cell.type, v))

\* Field::set_static<T>
SetStaticField == Writes

-----------------------------------------------------------------------------
(* Unsafe.                                                                 *)

\* get and put at an offset of an object, or at an address.
UnsafeAccess == Reads(FromMemory(cell.type)) \/ Writes

\* The bit that marks the offset of a static field stays in the offset: memory
\* far behind that of the class is accessed.
UnsafeStaticAccess ==
  /\ "static" \in deeds
  /\ \/ /\ \E u \in Types : InNative(u)
        /\ vm' = "killed" /\ UNCHANGED <<operand, cell, java, javaCell, deeds, side>>
     \/ \E n \in Range(cell.type) : Reads(n)
     \/ InNative(cell.type) /\ javaCell' = java
        /\ UNCHANGED <<operand, cell, java, vm, deeds, side>>

\* What is in memory after the comparison.
Swapped(expected) ==
  IF FromMemory(cell.type) = expected THEN operand.value ELSE FromMemory(cell.type)

\* compareAndSwap says that it has swapped, whether it has or not.
CompareAndSwap ==
  /\ InNative(cell.type) /\ cell.type \in {"int", "long"}
  /\ \E expected \in Range(cell.type) :
       /\ javaCell # expected => "swap" \in deeds
       /\ cell' = [cell EXCEPT !.bits = Bits(cell.type, Swapped(expected))]
       /\ javaCell' = IF javaCell = expected THEN java ELSE javaCell
       /\ operand' = OfC("boolean", 1)
       /\ java' = IF javaCell = expected THEN 1 ELSE 0
  /\ UNCHANGED <<vm, deeds, side>>

-----------------------------------------------------------------------------
Next ==
  \/ InJava /\ JavaNext /\ UNCHANGED side
  \/ \E t \in Types : CallNative(t) \/ NativeReturns(t) \/ Invent(t)
  \/ \E t \in Types : CallJava(t) \/ CallOnNull(t)
  \/ \E t \in Types : InstanceMethodReturns(t) \/ StaticMethodReturns(t)
  \/ AccessField \/ GetStaticField \/ SetStaticField
  \/ UnsafeAccess \/ UnsafeStaticAccess \/ CompareAndSwap

Spec == Init /\ [][Next]_vars

-----------------------------------------------------------------------------
(* Properties.                                                             *)

\* Programs that do nothing of what is known to go wrong.
Claimed == deeds \subseteq {"divide"}

Number == IF side = "native" THEN operand.value ELSE Read(operand)

\* Whatever a program computes, converts, stores, loads and passes between Java
\* and native code, the number is the one that Java has there, and so is the one
\* in memory, unless the program loads negative bytes or shorts, or does
\* something else of what is known to go wrong.  (The types of the variables
\* are checked on the way.)
NumbersAsJava == TypeOK /\ (Claimed => Number = java /\ HoldsWhatJavaHas)
=============================================================================
