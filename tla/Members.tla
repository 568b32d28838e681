------------------------------- MODULE Members -------------------------------
(***************************************************************************)
(* How a program gets at the members of classes and at the memory of       *)
(* fields: by the constant pool, by the IDs of JNI, by objects of          *)
(* java.lang.reflect, and by the offsets of Unsafe (class/Class.cpp,       *)
(* class/Field.cpp, jni/Implementation.cpp, jdk/openjdk/JVM.cpp and        *)
(* Unsafe.cpp, memory/ObjectAllocator.cpp).                                *)
(*                                                                         *)
(* The classes are linked.  A member is <<class, slot>>.  The program      *)
(* holds one handle, the last that it has asked for, and uses it on        *)
(* objects and classes.  java is what Java has for the same program; a     *)
(* behaviour ends with the first step in which they differ.                *)
(***************************************************************************)
EXTENDS Integers, Sequences, FiniteSets, FiniteSetsExt

CONSTANTS
  Hierarchy,       \* the classes: see IsHierarchy
  None,
  Bit,             \* the values of a cell of memory
  MemberPrograms   \* [deeds, objects, entries]: what a program does of what is known
                   \* to go wrong, and how many objects and entries it makes

Deeds == {"early", "missing", "mismatch", "public", "arguments", "interface"}

Class == DOMAIN Hierarchy
Kinds == {"field", "method"}

IsHierarchy ==
  \A c \in Class :
    /\ Hierarchy[c].super \in Class \cup {None} /\ Hierarchy[c].interfaces \subseteq Class
    /\ Hierarchy[c].interface \in BOOLEAN /\ Hierarchy[c].abstract \in BOOLEAN
    /\ \A s \in DOMAIN Hierarchy[c].fields :
         /\ Hierarchy[c].fields[s].static \in BOOLEAN /\ Hierarchy[c].fields[s].public \in BOOLEAN
         /\ Hierarchy[c].fields[s].width \in Nat \ {0}
    \* A constructor has the name "init" and parameters.
    /\ \A s \in DOMAIN Hierarchy[c].methods : Hierarchy[c].methods[s].parameters \in Nat

IsSetting ==
  /\ IsHierarchy /\ None \notin Class /\ 0 \in Bit /\ Bit \subseteq Nat
  /\ \A p \in MemberPrograms :
       p.deeds \subseteq Deeds /\ p.objects \in Nat /\ p.entries \in Nat

\* The members of a kind that a class declares, by their slots.
Declares(kind, c) == IF kind = "field" THEN Hierarchy[c].fields ELSE Hierarchy[c].methods

Member(kind, c) == {c} \X DOMAIN Declares(kind, c)
Field == UNION {Member("field", c) : c \in Class}
Info(kind, member) == Declares(kind, member[1])[member[2]]

Static(f) == Info("field", f).static
Width(f) == Info("field", f).width

VARIABLES
  offset,    \* of each field
  objects,   \* [class, memory]
  statics,   \* the memory for the static fields of each class
  entries,   \* what is resolved: <<place, kind, class, name, member>>, the place
             \* being the class's own map or the constant pool that names it
  handle,    \* what the program has
  java,      \* [objects, statics, handle]
  agreed,    \* the last operation had the outcome that it has in Java
  doing      \* one of MemberPrograms

vars == <<offset, objects, statics, entries, handle, java, agreed, doing>>

Outcome(code, j) == agreed' = (code = j)

-----------------------------------------------------------------------------
(* Finding members by name.                                                *)

\* get_declared_field, get_declared_method
Declared(kind, c, name) == {member \in Member(kind, c) : Info(kind, member).name = name}

\* lookup_field and lookup_method: the members that may be found, since the
\* interfaces are in a HashMap.
\* Mutation: the super class is asked before the interfaces for a field, too.
OrderOfMethods(kind, ofInterfaces, ofSuper) == IF ofSuper # {} THEN ofSuper ELSE ofInterfaces

Order(kind, ofInterfaces, ofSuper) ==
  IF (kind = "field" /\ ofInterfaces # {}) \/ ofSuper = {} THEN ofInterfaces ELSE ofSuper

Lookup(kind, c, name) ==
  LET found[n \in 0 .. Cardinality(Class), d \in Class \cup {None}] ==
        IF n = 0 \/ d = None THEN {}
        ELSE IF Declared(kind, d, name) # {} THEN Declared(kind, d, name)
        ELSE Order(kind, UNION {found[n - 1, i] : i \in Hierarchy[d].interfaces},
                   found[n - 1, Hierarchy[d].super])
  IN found[Cardinality(Class), c]

Entry(place, kind, c, name) ==
  {e[5] : e \in {x \in entries : x[1] = place /\ x[2] = kind /\ x[3] = c /\ x[4] = name}}

\* get_field and get_method: those that the class's map has, or lookup finds.
Get(kind, c, name) ==
  IF Entry("class", kind, c, name) # {} THEN Entry("class", kind, c, name)
  ELSE Lookup(kind, c, name)

\* What Java finds, by the chain of super classes and all interfaces of each.
Chain[c \in Class \cup {None}] ==
  IF c = None THEN <<>> ELSE <<c>> \o Chain[Hierarchy[c].super]

Interfaces[c \in Class] ==
  Hierarchy[c].interfaces \cup UNION {Interfaces[i] : i \in Hierarchy[c].interfaces}

Nearest(kind, name, among) ==
  LET declaring == {i \in among : Declared(kind, i, name) # {}}
  IN UNION {Declared(kind, i, name) :
              i \in {j \in declaring : \A k \in declaring \ {j} : j \notin Interfaces[k]}}

FirstOf(chain, Found(_)) ==
  LET finding == {i \in DOMAIN chain : Found(chain[i]) # {}}
  IN IF finding = {} THEN {} ELSE Found(chain[Min(finding)])

JavaLookup(kind, c, name) ==
  LET OfClass(d) == Declared(kind, d, name)
      OfInterfaces(d) == Nearest(kind, name, Interfaces[d])
      Either(d) == IF OfClass(d) # {} THEN OfClass(d) ELSE OfInterfaces(d)
      own == FirstOf(Chain[c], OfClass)
  IN IF kind = "field" THEN FirstOf(Chain[c], Either)
     ELSE IF own # {} THEN own
     ELSE Nearest(kind, name, UNION {Interfaces[Chain[c][i]] : i \in DOMAIN Chain[c]})

-----------------------------------------------------------------------------
(* Memory.                                                                 *)

Sum(widths, n) ==
  LET first[k \in 0 .. n] == IF k = 0 THEN 0 ELSE first[k - 1] + widths[k] IN first[n]

\* The widths of the fields of one sort, 0 for the others.
Widths(c, static) ==
  [s \in DOMAIN Hierarchy[c].fields |->
     IF Static(<<c, s>>) = static THEN Width(<<c, s>>) ELSE 0]

SizeOf(c, static) == Sum(Widths(c, static), Len(Hierarchy[c].fields))

\* The size of an object, its super classes' fields first.
ObjectSize[c \in Class \cup {None}] ==
  IF c = None THEN 0 ELSE ObjectSize[Hierarchy[c].super] + SizeOf(c, FALSE)

Zeros(n) == [i \in 1 .. n |-> 0]

\* calculate_offsets: again whenever an object is allocated, for all its classes.
\* Mutation: the fields of the super class are not counted.
OffsetInClass(f) == Sum(Widths(f[1], FALSE), f[2] - 1)

OffsetOf(f) == ObjectSize[Hierarchy[f[1]].super] + Sum(Widths(f[1], FALSE), f[2] - 1)

IsOfChain(f, c) == \E i \in DOMAIN Chain[c] : Chain[c][i] = f[1]

Calculated(c) ==
  [f \in Field |-> IF ~ Static(f) /\ IsOfChain(f, c) THEN OffsetOf(f) ELSE offset[f]]

\* prepare_class: the offsets of static fields.
Prepared == [f \in Field |-> IF Static(f) THEN Sum(Widths(f[1], TRUE), f[2] - 1) ELSE 0]

\* *((T*) (memory + offset)); of what is behind the memory nothing is known.
ReadAt(memory, at, width) ==
  SubSeq(memory, at + 1, Min({at + width, Len(memory)}))

\* Java throws instead.
Error == <<>>

Number(v, width) == [i \in 1 .. width |-> v]

WriteAt(memory, at, v, width) ==
  [i \in DOMAIN memory |-> IF i \in at + 1 .. at + width THEN v ELSE memory[i]]

JavaFields(c) == {f \in Field : ~ Static(f) /\ IsOfChain(f, c)}

-----------------------------------------------------------------------------
(* Objects.                                                                *)

Add(c, memory, fields) ==
  /\ Len(objects) < doing.objects
  /\ objects' = Append(objects, [class |-> c, memory |-> memory])
  /\ offset' = Calculated(c)
  /\ java' = [java EXCEPT !.objects = Append(@, fields)]

\* ObjectAllocator::allocate_object, for NEW, AllocObject, allocateInstance.
AllocateObject(c) ==
  /\ ~ Hierarchy[c].abstract
  /\ Add(c, Zeros(ObjectSize[c]), [f \in JavaFields(c) |-> 0])
  /\ Outcome(TRUE, TRUE)
  /\ UNCHANGED <<statics, entries, handle, doing>>

\* Object::clone
Clone(o) ==
  /\ Add(objects[o].class, objects[o].memory, java.objects[o])
  /\ Outcome(TRUE, TRUE)
  /\ UNCHANGED <<statics, entries, handle, doing>>

-----------------------------------------------------------------------------
(* Asking for handles: [kind, member], of a field or a method; [kind,      *)
(* class, slot], of an object of java.lang.reflect; [kind, offset].        *)

Keep(h, j) == handle' = h /\ java' = [java EXCEPT !.handle = j]
Same == UNCHANGED <<offset, objects, statics, doing>>

\* A name is resolved; the entry for it is made unless it is there.
Resolved(place, kind, c, name, member) ==
  /\ entries' = entries \cup {<<"class", kind, c, name, member>>, <<place, kind, c, name, member>>}
  /\ Cardinality(entries') <= doing.entries
  /\ Keep([kind |-> kind, member |-> member], member)

\* Without a member of the name an exception is thrown.
Missing(kind, c, name, code) ==
  /\ Get(kind, c, name) = {}
  /\ Outcome(code, "null") /\ Keep(None, None)
  /\ Same /\ UNCHANGED entries

Asked(place, kind, c, name) ==
  \E member \in Get(kind, c, name) :
    /\ Resolved(place, kind, c, name, member)
    /\ Outcome(member \in JavaLookup(kind, c, name), TRUE)
    /\ Same

\* get_field_from_cp, get_method_from_cp: an entry of the pool is used for ever.
FromPool(kind, c, name) ==
  \/ \E member \in Entry("pool", kind, c, name) :
       /\ Keep([kind |-> kind, member |-> member], member)
       /\ Outcome(member \in JavaLookup(kind, c, name), TRUE)
       /\ Same /\ UNCHANGED entries
  \/ Entry("pool", kind, c, name) = {} /\ Asked("pool", kind, c, name)
  \/ Missing(kind, c, name, "null")

\* GetMethodID, GetStaticMethodID, GetStaticFieldID
GetID(kind, c, name) == Asked("class", kind, c, name) \/ Missing(kind, c, name, "null")

\* GetFieldID: without a field its result is what the variable happens to have.
GetFieldID(c, name) ==
  \/ Asked("class", "field", c, name)
  \/ "missing" \in doing.deeds /\ Missing("field", c, name, "anything")

\* JVM_GetClassDeclaredFields and JVM_GetClassDeclaredConstructors: the program
\* takes one of the objects.  They do not look at publicOnly.
Reflected(kind, f) == [kind |-> kind, class |-> f[1], slot |-> f[2]]

GetClassDeclaredFields(c, publicOnly) ==
  /\ \E f \in Member("field", c) :
       /\ publicOnly /\ ~ Info("field", f).public => "public" \in doing.deeds
       /\ Keep(Reflected("Field", f), f)
       /\ Outcome(TRUE, publicOnly => Info("field", f).public)
  /\ Same /\ UNCHANGED entries

GetClassDeclaredConstructors(c) ==
  /\ \E m \in Member("method", c) :
       /\ Info("method", m).name = "init"
       /\ Keep(Reflected("Constructor", m), m)
  /\ Outcome(TRUE, TRUE) /\ Same /\ UNCHANGED entries

Handle(kind) == handle # None /\ handle.kind = kind

\* objectFieldOffset: the offset that the field has so far.
ObjectFieldOffset ==
  /\ Handle("Field")
  /\ LET f == <<handle.class, handle.slot>>
     IN /\ ~ Static(f)
        /\ offset[f] # OffsetOf(f) => "early" \in doing.deeds
        /\ Keep([kind |-> "offset", offset |-> offset[f]], java.handle)
  /\ Outcome(TRUE, TRUE) /\ Same /\ UNCHANGED entries

-----------------------------------------------------------------------------
(* Using handles.                                                          *)

\* The field of the handle, and its place in memory: an offset goes with the
\* type of the function's name.
FieldOf == IF Handle("field") THEN handle.member ELSE java.handle
Place == IF Handle("field") THEN offset[handle.member] ELSE handle.offset

OfObject(o) ==
  /\ Handle("field") \/ Handle("offset")
  /\ IsOfChain(java.handle, objects[o].class)
  /\ Static(FieldOf) => "mismatch" \in doing.deeds

\* GETFIELD, Get<Type>Field, Unsafe.get<Type>
GetField(o) ==
  /\ OfObject(o)
  /\ Outcome(ReadAt(objects[o].memory, Place, Width(FieldOf)),
             IF Static(java.handle) THEN Error
             ELSE Number(java.objects[o][java.handle], Width(FieldOf)))
  /\ UNCHANGED <<offset, objects, statics, entries, handle, java, doing>>

\* PUTFIELD, Set<Type>Field, Unsafe.put<Type>
PutField(o, v) ==
  /\ OfObject(o)
  /\ objects' = [objects EXCEPT ![o].memory = WriteAt(@, Place, v, Width(FieldOf))]
  /\ IF Static(java.handle) THEN Outcome("done", "error") /\ UNCHANGED java
     ELSE /\ Outcome("done", "done")
          /\ java' = [java EXCEPT !.objects[o][java.handle] = v]
  /\ UNCHANGED <<offset, statics, entries, handle, doing>>

OfClass ==
  /\ Handle("field")
  /\ ~ Static(handle.member) => "mismatch" \in doing.deeds

\* GETSTATIC, GetStatic<Type>Field
GetStatic ==
  /\ OfClass
  /\ Outcome(ReadAt(statics[handle.member[1]], Place, Width(FieldOf)),
             IF ~ Static(java.handle) THEN Error
             ELSE Number(java.statics[java.handle], Width(FieldOf)))
  /\ UNCHANGED <<offset, objects, statics, entries, handle, java, doing>>

\* PUTSTATIC, SetStatic<Type>Field
PutStatic(v) ==
  /\ OfClass
  /\ statics' = [statics EXCEPT ![handle.member[1]] = WriteAt(@, Place, v, Width(FieldOf))]
  /\ IF ~ Static(java.handle) THEN Outcome("done", "error") /\ UNCHANGED java
     ELSE Outcome("done", "done") /\ java' = [java EXCEPT !.statics[java.handle] = v]
  /\ UNCHANGED <<offset, objects, entries, handle, doing>>

\* JVM_NewInstanceFromConstructor: a constructor with other parameters than the
\* given reads what is behind them.
NewInstance(given) ==
  /\ Handle("Constructor")
  /\ LET m == <<handle.class, handle.slot>>
         parameters == Info("method", m).parameters
     IN /\ parameters # given => "arguments" \in doing.deeds
        /\ IF Hierarchy[m[1]].abstract
             THEN Outcome("throws", "throws") /\ UNCHANGED <<offset, objects, java>>
             ELSE /\ Add(m[1], Zeros(ObjectSize[m[1]]), [f \in JavaFields(m[1]) |-> 0])
                  /\ Outcome(<<m, parameters>>, <<java.handle, given>>)
  /\ UNCHANGED <<statics, entries, handle, doing>>

\* GetSuperclass: the super class of an interface, too.
GetSuperclass(c) ==
  /\ Hierarchy[c].interface => "interface" \in doing.deeds
  /\ Outcome(Hierarchy[c].super, IF Hierarchy[c].interface THEN None ELSE Hierarchy[c].super)
  /\ UNCHANGED <<offset, objects, statics, entries, handle, java, doing>>

-----------------------------------------------------------------------------
Names(kind) == UNION {{Info(kind, m).name : m \in Member(kind, c)} : c \in Class}

Init ==
  /\ offset = Prepared
  /\ objects = <<>>
  /\ statics = [c \in Class |-> Zeros(SizeOf(c, TRUE))]
  /\ entries = {} /\ handle = None
  /\ java = [objects |-> <<>>, statics |-> [f \in {g \in Field : Static(g)} |-> 0], handle |-> None]
  /\ agreed = TRUE
  /\ doing \in MemberPrograms

Next ==
  /\ agreed
  /\ \/ \E c \in Class :
          \/ AllocateObject(c) \/ GetSuperclass(c) \/ GetClassDeclaredConstructors(c)
          \/ \E publicOnly \in BOOLEAN : GetClassDeclaredFields(c, publicOnly)
          \/ \E name \in Names("field") :
               FromPool("field", c, name) \/ GetID("field", c, name) \/ GetFieldID(c, name)
          \/ \E name \in Names("method") : FromPool("method", c, name) \/ GetID("method", c, name)
     \/ ObjectFieldOffset
     \/ \E o \in DOMAIN objects :
          Clone(o) \/ GetField(o) \/ \E v \in Bit : PutField(o, v)
     \/ GetStatic \/ \E v \in Bit : PutStatic(v)
     \/ \E given \in 0 .. 1 : NewInstance(given)

Spec == Init /\ [][Next]_vars

-----------------------------------------------------------------------------
(* Properties.                                                             *)

TypeOK ==
  /\ offset \in [Field -> Nat] /\ Len(objects) = Len(java.objects)
  /\ \A o \in DOMAIN objects : objects[o].memory \in [1 .. ObjectSize[objects[o].class] -> Bit]
  /\ Cardinality(entries) <= doing.entries

\* In whatever order a program resolves names, asks for IDs, reflects, allocates
\* and clones, each name leads to the member that Java finds, whether it was asked
\* for before or not, and what is written by any of the ways to a field is read
\* by all of them, and in no other field of the object or its super classes; a
\* reflected constructor is the one that runs.  Excepted are programs that do
\* something of what is known to go wrong: an offset is asked for before there is
\* any object with the field, an ID for what does not exist, instance members are
\* used as static ones, only public members are asked for, a constructor is given
\* other arguments than it has, the super class of an interface is asked for.
\* (The types of the variables are checked on the way.)
MembersAsJava == TypeOK /\ (doing.deeds = {} => agreed)
=============================================================================
