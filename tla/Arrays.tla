------------------------------- MODULE Arrays -------------------------------
(***************************************************************************)
(* Arrays (Array.cpp, ObjectAllocator::allocate_array, the instructions of *)
(* the interpreter and the functions of JNI and of the port to OpenJDK     *)
(* that make, read, write, copy and clone them).                           *)
(*                                                                         *)
(* Memory is a row of cells, each with one digit of a number; arrays lie   *)
(* in it one behind the other.  Code accesses it by address, so what is    *)
(* beyond the end of one array is in the next, or in no memory.  java is   *)
(* what Java has for the same program.  A behaviour ends with the first    *)
(* step in which they differ.                                              *)
(***************************************************************************)
EXTENDS Integers, Sequences, FiniteSets

CONSTANTS
  Width,          \* the cells of an element, by the kind of its type
  Digits,         \* the number of values of a cell
  Space,          \* the sizes of memory are computed modulo this
  Cells,          \* as many cells can be allocated
  Length,         \* the lengths that programs ask for
  Index,          \* the indices, positions and lengths of parts
  Castable,       \* the elements that may be stored, by the class
  ArrayPrograms,  \* [deeds, count]: what a program does of what is known to go wrong
                  \* (see ArraysAsJava), and how many arrays it makes
  Nobody

Primitive == {"byte", "char"}
Classes == {"Object", "Own"}
Deeds == {"huge", "beyond", "overlap", "types", "store", "loader", "nested", "partial", "negative"}

IsSetting ==
  /\ Width \in [Primitive \cup {"reference"} -> Nat \ {0}]
  /\ \A n \in {Digits, Space, Cells} : n \in Nat \ {0}
  /\ Length \subseteq Int /\ Index \subseteq Int
  /\ Castable \in [Classes -> SUBSET (0 .. Digits ^ Width["reference"] - 1)]
  /\ \A p \in ArrayPrograms : p.deeds \subseteq Deeds /\ p.count \in Nat

VARIABLES
  arrays,   \* the arrays, in the order in which they were made
  memory,   \* the cells that are allocated
  java,     \* the arrays that Java has
  agreed,   \* the last operation had the outcome that it has in Java
  exempt    \* one of ArrayPrograms

vars == <<arrays, memory, java, agreed, exempt>>

Arrays == 1 .. Len(arrays)

\* What comes of an operation is <<what>>, or <<"value">> followed by numbers.
Outcome(code, j) == agreed' = (code = j)
Done == agreed' = TRUE
Killed == <<"killed">>

-----------------------------------------------------------------------------
(* Classes of arrays.  The code has one for each loader and spelling of    *)
(* its name ("[I", "[LA;" and "[L[I;"), Java one for each component.  A    *)
(* primitive type is <<type>>, a class <<loader, name>>, and the class of  *)
(* an array <<loader, spelling>> followed by the class of the component.   *)

\* The loader that a class of the program has: its own, or none.
ProgramLoader == IF "loader" \in exempt.deeds THEN "own" ELSE "boot"

ClassOf(loader, n) == <<IF n = "Own" THEN loader ELSE "boot", n>>

ArrayClass(loader, spelling, component) == <<loader, spelling>> \o component

Component(class) == SubSeq(class, 3, Len(class))

IsPrimitive(c) == Len(c) = 1
IsArray(c) == Len(c) > 2

WidthOf(c) == Width[IF IsPrimitive(c) THEN c[1] ELSE "reference"]
ElementWidth(a) == WidthOf(Component(arrays[a].class))

\* What a loader, asked by name, has for the component: the bootstrap loader
\* does not find a class of another one.  The library has made arrays of bytes
\* and chars before any program runs.
Found(loader, component) ==
  IF IsPrimitive(component) THEN component
  ELSE IF IsArray(component) THEN [component EXCEPT ![1] = loader]
  ELSE IF component[1] = "own" /\ loader = "boot" THEN Nobody
  ELSE component

\* The name of an array of arrays is not spelled as in Java.
MayNest(component) == IsArray(component) => "nested" \in exempt.deeds

JavaClass(component) ==
  IF IsArray(component) THEN <<"array">> \o Component(component)
  ELSE <<component[Len(component)]>>

-----------------------------------------------------------------------------
(* Memory.                                                                 *)

Zeros(n) == [i \in 1 .. n |-> 0]

\* The cells of n elements of the array from an index on.
Start(a, i) == arrays[a].start + i * ElementWidth(a)
Cell(a, i, k) == Start(a, i) + k

Allocated(cell) == cell \in 1 .. Len(memory)

Digit(v, k) == (v \div Digits ^ k) % Digits

Number(cells, at, width) ==
  LET low[k \in 0 .. width] == IF k = 0 THEN 0 ELSE low[k - 1] + cells[at + k - 1] * Digits ^ (k - 1)
  IN low[width]

\* ((T*) memory)[index], for a T of the given width.
ReadMemory(a, i, width) ==
  LET at == arrays[a].start + i * width
  IN IF \A k \in 0 .. width - 1 : Allocated(at + k) THEN Number(memory, at, width) ELSE Nobody

Written(cells, at, v, width) ==
  [c \in DOMAIN cells |-> IF c \in at .. at + width - 1 THEN Digit(v, c - at) ELSE cells[c]]

-----------------------------------------------------------------------------
(* New arrays.                                                             *)

\* ObjectAllocator::allocate_array: the size is a number of 32 bits.
\* Mutation: the memory has one cell for each element.
AllocateCells(component, n) == n % Space

AllocatedSize(component, n) == (WidthOf(component) * n) % Space

Add(class, n, elements) ==
  LET size == AllocatedSize(Component(class), n)
  IN /\ WidthOf(Component(class)) * n >= Space => "huge" \in exempt.deeds
     /\ Len(arrays) < exempt.count
     /\ IF Len(memory) + size > Cells
          THEN /\ "huge" \in exempt.deeds    \* nobody looks whether there was memory
               /\ Outcome(Killed, <<"memory">>)
               /\ UNCHANGED <<arrays, memory, java, exempt>>
          ELSE /\ arrays' = Append(arrays, [class |-> class, length |-> n,
                                            start |-> Len(memory) + 1, size |-> size])
               /\ memory' = memory \o Zeros(size)
               /\ java' = Append(java, [component |-> JavaClass(Component(class)),
                                        elements |-> elements])
               /\ Done
               /\ UNCHANGED exempt

NoElements(n) == [i \in 0 .. n - 1 |-> 0]

\* The operation throws, as in Java.
Throw == Done /\ UNCHANGED <<arrays, memory, java, exempt>>

\* An array of n elements: an exception if that is negative, else what f makes.
Make(n, make) == IF n < 0 THEN Throw ELSE make

\* NEWARRAY, and new_primitive_array, called by New<Type>Array.
NewPrimitive(type, n) ==
  Make(n, Add(ArrayClass("boot", "[", <<type>>), n, NoElements(n)))

\* ANEWARRAY: the component is resolved for the class of the method.
Anewarray(component, n) ==
  /\ MayNest(component)
  /\ Make(n, Add(ArrayClass(ProgramLoader, "[L", component), n, NoElements(n)))

\* new_array, called by JVM_NewArray, and new_object_array: they ask the
\* bootstrap loader.
NewFor(component, n) ==
  LET found == Found("boot", component)
      spelling == IF IsPrimitive(component) THEN "[" ELSE "[L"
  IN /\ MayNest(component)
     /\ Make(n,
          IF found = Nobody
            THEN /\ Outcome(<<"no class">>, <<"done">>)
                 /\ UNCHANGED <<arrays, memory, java, exempt>>
            ELSE Add(ArrayClass("boot", spelling, found), n, NoElements(n)))

\* The digits of a row of elements.
Filled(elements, width) ==
  [c \in 1 .. Len(elements) * width |-> Digit(elements[(c - 1) \div width + 1], (c - 1) % width)]

AddWith(class, n, elements) ==
  /\ Len(arrays) < exempt.count
  /\ n * WidthOf(Component(class)) + Len(memory) <= Cells
  /\ arrays' = Append(arrays, [class |-> class, length |-> n, start |-> Len(memory) + 1,
                               size |-> n * WidthOf(Component(class))])
  /\ memory' = memory \o Filled(elements, WidthOf(Component(class)))
  /\ java' = Append(java, [component |-> JavaClass(Component(class)),
                           elements |-> [i \in 0 .. n - 1 |-> elements[i + 1]]])
  /\ Done /\ UNCHANGED exempt

\* new_char_array, for the text of a string.
NewCharArray(text) == AddWith(ArrayClass("boot", "[", <<"char">>), Len(text), text)

\* NewObjectArray of JNI fills the array with an element.
NewObjectArray(component, n, init) ==
  LET found == Found("boot", component)
  IN /\ found # Nobody /\ ~ IsArray(component)
     /\ init \in Castable[component[2]]
     /\ Make(n, AddWith(ArrayClass("boot", "[L", found), n, [i \in 1 .. n |-> init]))

-----------------------------------------------------------------------------
(* Elements.                                                               *)

\* Array::validate_index
\* Mutation: an index may be the length.
ValidUpToLength(a, i) == i >= 0 /\ i <= arrays[a].length

ValidIndex(a, i) == i >= 0 /\ i < arrays[a].length

\* What Java promises to who asks for the element i.
Promised(a, i) ==
  IF i \in DOMAIN java[a].elements THEN <<"value", java[a].elements[i]>> ELSE <<"exception">>

\* get_value: generic, and by a type of C as wide as the elements.
\* xALOAD, GetObjectArrayElement, JVM_GetArrayElement
Load(a, i) ==
  IF ~ ValidIndex(a, i) THEN Throw
  ELSE /\ LET v == ReadMemory(a, i, ElementWidth(a))
          IN Outcome(IF v = Nobody THEN Killed ELSE <<"value", v>>, Promised(a, i))
       /\ UNCHANGED <<arrays, memory, java, exempt>>

\* The elements of the array that Java may store in it.
Storable(a) ==
  LET c == Component(arrays[a].class)
  IN IF IsPrimitive(c) THEN 0 .. Digits ^ WidthOf(c) - 1
     ELSE IF IsArray(c) THEN {0} ELSE Castable[c[2]]

JavaSet(a, i, v) == java' = [java EXCEPT ![a].elements[i] = v]

\* set_value does not look whether the element may be in the array.
\* xASTORE, SetObjectArrayElement, JVM_SetArrayElement
Store(a, i, v) ==
  IF ~ ValidIndex(a, i) THEN Throw
  ELSE /\ v \in Storable(a) \/ "store" \in exempt.deeds
       /\ memory' = Written(memory, Start(a, i), v, ElementWidth(a))
       /\ IF v \in Storable(a) /\ i \in DOMAIN java[a].elements THEN JavaSet(a, i, v) /\ Done
          ELSE Outcome(<<"done">>, <<"store">>) /\ UNCHANGED java
       /\ UNCHANGED <<arrays, exempt>>

\* ARRAYLENGTH, GetArrayLength, JVM_GetArrayLength
ArrayLength(a) ==
  /\ Outcome(<<"value", arrays[a].length>>, <<"value", Cardinality(DOMAIN java[a].elements)>>)
  /\ UNCHANGED <<arrays, memory, java, exempt>>

\* The instructions look for a null array.
OnNull == Throw

-----------------------------------------------------------------------------
(* Rows of elements.                                                       *)

Within(a, from, n) == from >= 0 /\ n >= 0 /\ from + n <= arrays[a].length

\* What memcpy may leave when it copies n cells: as if by way of a buffer, and
\* if the cells overlap, also cell by cell from either end.
Up(cells, from, to, n) ==
  LET after[k \in 0 .. n] ==
        IF k = 0 THEN cells ELSE [after[k - 1] EXCEPT ![to + k - 1] = after[k - 1][from + k - 1]]
  IN after[n]
Down(cells, from, to, n) ==
  LET after[k \in 0 .. n] ==
        IF k = 0 THEN cells ELSE [after[k - 1] EXCEPT ![to + n - k] = after[k - 1][from + n - k]]
  IN after[n]

Moved(cells, from, to, n) ==
  [c \in DOMAIN cells |-> IF c \in to .. to + n - 1 THEN cells[c - to + from] ELSE cells[c]]

Memcpy(from, to, n) == {Moved(memory, from, to, n), Up(memory, from, to, n), Down(memory, from, to, n)}

\* copy_elements, called by JVM_ArrayCopy: the width is that of the source, and
\* nothing is checked.  A negative length is a huge one for memcpy.
CopyWidth(src) == ElementWidth(src)

\* Mutation: the position in the destination is not scaled.
CopyUnscaled(src, dest, i, j, n) ==
  Memcpy(Start(src, i), arrays[dest].start + j, n * CopyWidth(src))

CopyElements(src, dest, i, j, n) ==
  Memcpy(Start(src, i), arrays[dest].start + j * CopyWidth(src), n * CopyWidth(src))

\* The copy stays in the memory that is allocated.
CopyStays(src, dest, i, j, n) ==
  LET w == CopyWidth(src)
      to == arrays[dest].start + j * w
  IN n >= 0 /\ (n > 0 => \A c \in {Start(src, i), to, Start(src, i + n) - 1, to + n * w - 1} :
                           Allocated(c))

Overlap(src, dest, i, j, n) ==
  n > 0 /\ src = dest /\ i # j /\ i < j + n /\ j < i + n

SameKind(src, dest) ==
  LET c == Component(arrays[src].class)
      d == Component(arrays[dest].class)
  IN IsPrimitive(c) \/ IsPrimitive(d) => c = d

\* System.arraycopy in Java.
JavaCopy(src, dest, i, j, n) ==
  IF ~ SameKind(src, dest) THEN <<"store">>
  ELSE IF ~ (Within(src, i, n) /\ Within(dest, j, n)) THEN <<"index">>
  ELSE IF \E k \in i .. i + n - 1 : java[src].elements[k] \notin Storable(dest) THEN <<"store">>
  ELSE <<"done">>

ArrayCopy(src, dest, i, j, n) ==
  /\ ~ SameKind(src, dest) => "types" \in exempt.deeds
  /\ ~ (Within(src, i, n) /\ Within(dest, j, n)) => "beyond" \in exempt.deeds
  /\ Overlap(src, dest, i, j, n) => "overlap" \in exempt.deeds
  /\ JavaCopy(src, dest, i, j, n) = <<"store">> => "types" \in exempt.deeds
  /\ IF CopyStays(src, dest, i, j, n)
       THEN memory' \in CopyElements(src, dest, i, j, n) /\ Outcome(<<"done">>, JavaCopy(src, dest, i, j, n))
       ELSE Outcome(Killed, JavaCopy(src, dest, i, j, n)) /\ UNCHANGED memory
  /\ java' = IF JavaCopy(src, dest, i, j, n) # <<"done">> THEN java
             ELSE [java EXCEPT ![dest].elements =
                     [k \in DOMAIN @ |->
                        IF k \in j .. j + n - 1 THEN java[src].elements[k - j + i] ELSE @[k]]]
  /\ UNCHANGED <<arrays, exempt>>

\* Get<Type>ArrayElements gives native code the address of the elements, which
\* it may use until Release, which does nothing; GetPrimitiveArrayCritical too.
ThroughPointer(a, i, v) ==
  /\ IsPrimitive(Component(arrays[a].class))
  /\ i \in 0 .. arrays[a].length - 1 /\ v \in Storable(a)
  /\ memory' = Written(memory, Start(a, i), v, ElementWidth(a))
  /\ JavaSet(a, i, v)
  /\ Done /\ UNCHANGED <<arrays, exempt>>

\* Get<Type>ArrayRegion and Set<Type>ArrayRegion check nothing either.  The
\* region that is set is of equal elements.
Region(a, i, n) ==
  /\ IsPrimitive(Component(arrays[a].class))
  /\ Within(a, i, n) \/ "beyond" \in exempt.deeds

RegionStays(a, i, n) ==
  n >= 0 /\ (n > 0 => Allocated(Start(a, i)) /\ Allocated(Start(a, i + n) - 1))

Elements(a, i, n) ==
  [k \in 1 .. n |-> ReadMemory(a, i + k - 1, ElementWidth(a))]

GetRegion(a, i, n) ==
  /\ Region(a, i, n)
  /\ Outcome(IF RegionStays(a, i, n) THEN <<"value">> \o Elements(a, i, n) ELSE Killed,
             IF Within(a, i, n) THEN <<"value">> \o [k \in 1 .. n |-> java[a].elements[i + k - 1]]
             ELSE <<"index">>)
  /\ UNCHANGED <<arrays, memory, java, exempt>>

WriteRow(cells, at, n, v, width) ==
  [c \in DOMAIN cells |->
     IF c \in at .. at + n * width - 1 THEN Digit(v, (c - at) % width) ELSE cells[c]]

SetRegion(a, i, n, v) ==
  /\ Region(a, i, n) /\ v \in Storable(a)
  /\ IF RegionStays(a, i, n)
       THEN /\ memory' = WriteRow(memory, Start(a, i), n, v, ElementWidth(a))
            /\ Outcome(<<"done">>, IF Within(a, i, n) THEN <<"done">> ELSE <<"index">>)
       ELSE Outcome(Killed, <<"index">>) /\ UNCHANGED memory
  /\ java' = IF ~ Within(a, i, n) THEN java
             ELSE [java EXCEPT ![a].elements =
                     [k \in DOMAIN @ |-> IF k \in i .. i + n - 1 THEN v ELSE @[k]]]
  /\ UNCHANGED <<arrays, exempt>>

\* Array::clone, called by JVM_Clone: new_array, and copy_memory.
Clone(a) ==
  LET old == arrays[a]
      component == Component(old.class)
      found == Found("boot", component)
      spelling == IF IsPrimitive(component) THEN "[" ELSE "[L"
  IN IF found = Nobody
       THEN Outcome(<<"no class">>, <<"done">>) /\ UNCHANGED <<arrays, memory, java, exempt>>
       ELSE /\ Len(arrays) < exempt.count /\ Len(memory) + old.size <= Cells
            /\ arrays' = Append(arrays, [old EXCEPT !.class = ArrayClass("boot", spelling, found),
                                                    !.start = Len(memory) + 1])
            /\ memory' = memory \o SubSeq(memory, old.start, old.start + old.size - 1)
            /\ java' = Append(java, java[a])
            /\ Done /\ UNCHANGED exempt

-----------------------------------------------------------------------------
(* MULTIANEWARRAY and createMultiArray, for an array of m arrays of bytes, *)
(* of the class that the constant pool has for the type.                   *)

Inner == ArrayClass(ProgramLoader, "[", <<"byte">>)
Outer == ArrayClass(ProgramLoader, "[", Inner)

\* The reference to the array that is made as the n-th.
Reference(n) == n

\* The sizes that are given are m, and if the instruction has two dimensions n.
\* With one dimension the inner arrays are made too, with what lies in memory
\* before the sizes for their size.  A negative size throws, but only the loop
\* over the sizes is left: arrays are made and pushed on the operands, where the
\* exception may be.
Multianewarray(dimensions, m, n) ==
  /\ "nested" \in exempt.deeds
  /\ dimensions = 1 => "partial" \in exempt.deeds
  /\ m < 0 \/ n < 0 => "negative" \in exempt.deeds
  /\ IF m < 0 \/ n < 0
       THEN Outcome(<<"pushed">>, <<"negative size">>) /\ UNCHANGED <<arrays, memory, java, exempt>>
     ELSE IF dimensions = 1 /\ m > 0
       THEN Outcome(<<"garbage">>, <<"done">>) /\ UNCHANGED <<arrays, memory, java, exempt>>
     ELSE LET base == Len(arrays)
              inner(k) == [class |-> Inner, length |-> n, size |-> n,
                           start |-> Len(memory) + m * Width["reference"] + (k - 1) * n + 1]
              refs == [k \in 1 .. m |-> Reference(base + 1 + k)]
          IN /\ base + 1 + m <= exempt.count
             /\ Len(memory) + m * (Width["reference"] + n) <= Cells
             /\ arrays' = Append(arrays, [class |-> Outer, length |-> m, start |-> Len(memory) + 1,
                                          size |-> m * Width["reference"]])
                          \o [k \in 1 .. m |-> inner(k)]
             /\ memory' = memory \o Filled(refs, Width["reference"]) \o Zeros(m * n)
             /\ java' = Append(java, [component |-> <<"array", "byte">>,
                                      elements |-> [i \in 0 .. m - 1 |-> refs[i + 1]]])
                        \o [k \in 1 .. m |-> [component |-> <<"byte">>, elements |-> NoElements(n)]]
             /\ Done /\ UNCHANGED exempt

-----------------------------------------------------------------------------
Init ==
  /\ arrays = <<>> /\ memory = <<>> /\ java = <<>>
  /\ agreed = TRUE /\ exempt \in ArrayPrograms

Components ==
  {<<t>> : t \in Primitive} \cup {ClassOf(ProgramLoader, c) : c \in Classes}
  \cup {ArrayClass(ProgramLoader, "[", <<"byte">>)}

MakeOne ==
  \E n \in Length :
    \/ \E t \in Primitive : NewPrimitive(t, n)
    \/ \E c \in {d \in Components : ~ IsPrimitive(d)} : Anewarray(c, n)
    \/ \E c \in Components : NewFor(c, n)
    \/ \E c \in Classes, v \in 0 .. 1 : NewObjectArray(ClassOf(ProgramLoader, c), n, v)
    \/ \E m \in Length, d \in 1 .. 2 : Multianewarray(d, m, n)

Next ==
  /\ agreed
  /\ \/ MakeOne \/ NewCharArray(<<1>>) \/ OnNull
     \/ \E a \in Arrays : Clone(a) \/ ArrayLength(a)
     \/ \E a \in Arrays, i \in Index :
          \/ Load(a, i)
          \/ \E v \in 1 .. 2 : Store(a, i, v) \/ ThroughPointer(a, i, v)
          \/ \E n \in Index : GetRegion(a, i, n) \/ SetRegion(a, i, n, 1)
     \/ \E a, b \in Arrays, i, j, n \in Index : ArrayCopy(a, b, i, j, n)

Spec == Init /\ [][Next]_vars

-----------------------------------------------------------------------------
(* Properties.                                                             *)

TypeOK ==
  /\ Len(arrays) = Len(java) /\ Len(arrays) <= exempt.count /\ Len(memory) <= Cells
  /\ \A c \in DOMAIN memory : memory[c] \in 0 .. Digits - 1
  /\ \A a \in Arrays : arrays[a].size \in Nat /\ arrays[a].start \in 1 .. Len(memory) + 1

\* Two arrays are of one class in the code when they are in Java.
ClassesAgree ==
  \A a, b \in Arrays :
    (arrays[a].class = arrays[b].class) = (java[a].component = java[b].component)

Contents ==
  \A a \in Arrays : \A i \in DOMAIN java[a].elements :
    ReadMemory(a, i, ElementWidth(a)) = java[a].elements[i]

\* Whatever a program makes, stores, copies and clones, each array has the
\* elements that it has in Java and none of another array, every operation has
\* the result or the exception of Java, and arrays are of one class when they are
\* in Java; unless the program does something of what goes wrong: arrays of 4 GB,
\* regions and copies beyond an array, within one array, and between arrays of
\* different types, elements that may not be in the array, classes of a loader
\* of its own, arrays of arrays.  (The types of the variables are checked on the
\* way.)
ArraysAsJava ==
  /\ TypeOK
  /\ exempt.deeds = {} => agreed /\ Contents /\ ClassesAgree
=============================================================================
