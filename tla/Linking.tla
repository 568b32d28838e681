------------------------------ MODULE Linking ------------------------------
(***************************************************************************)
(* Loading, linking and resolution of classes (class/ClassLoader.cpp and   *)
(* the class entries of the constant pool in class/Class.cpp).             *)
(*                                                                         *)
(* A load runs in one thread with _load_mutex locked, but it is not one    *)
(* step of the table of classes: a class is entered in the table before it *)
(* is linked, linking asks for all the classes that it names, and those    *)
(* for theirs, so that classes that name each other see each other half    *)
(* linked.  stack holds the calls that are under way, the innermost first, *)
(* ret what the last one has returned.  A loader written in Java runs Java *)
(* code in the middle of all this.                                         *)
(***************************************************************************)
EXTENDS Integers, Sequences, FiniteSets, SequencesExt, TLC

CONSTANTS
  None,         \* no class: a null pointer
  Object,       \* the name of java/lang/Object
  OfArrays,     \* the names of the interfaces of arrays
  Constructor,  \* the signature of constructors
  Hidden,       \* the signatures of private methods
  Class,        \* the name of java/lang/Class
  Boot,         \* the bootstrap loader, a null pointer in the code
  Loader,       \* the loaders written in Java
  Programs,     \* what there is to be loaded: see IsProgram
  Array,        \* the names of array classes,
  ElementOf,    \* and the name of the component of each
  Primitive,    \* the names of primitive types
  Failed        \* what a call returns with an exception

Names(p) == DOMAIN p.files \cup DOMAIN p.place \cup Array \cup Primitive

\* A class file as far as linking reads it: types of a method are those of its
\* handlers (from the constant pool), of its parameters and its result.  No
\* interface is named twice, nor a method declared twice.
IsFile(f, names) ==
  LET signatures == {m.signature : m \in ToSet(f.methods)}
  IN  /\ f.interface \in BOOLEAN /\ f.super \in names \cup {None}
      /\ f.interfaces \in Seq(names) /\ IsInjective(f.interfaces)
      /\ f.fields \in Seq([type : names, static : BOOLEAN])
      /\ f.methods \in Seq([signature : signatures, handlers : Seq(names), types : Seq(names)])
      /\ \A i, j \in DOMAIN f.methods :
           f.methods[i].signature = f.methods[j].signature => i = j

\* place says who finds a class file: the bootstrap loader, a Java loader, or none.
IsProgram(p) ==
  /\ \A n \in DOMAIN p.files : IsFile(p.files[n], Names(p))
  /\ \A n \in DOMAIN p.place : p.place[n] \in {"boot", "own", "nowhere"}
  /\ \A n \in DOMAIN p.place : p.place[n] # "nowhere" => n \in DOMAIN p.files
  /\ DOMAIN p.files \subseteq DOMAIN p.place

ASSUME ProgramsAssumption ==
  \A p \in Programs :
    /\ IsProgram(p) /\ {Object, Class} \cup OfArrays \subseteq DOMAIN p.files
    /\ DOMAIN p.place \cap (Array \cup Primitive) = {}
    /\ ElementOf \in [Array -> Names(p)]
    /\ None \notin Names(p)
    /\ {None, Failed} \cap ((Loader \cup {Boot}) \X Names(p)) = {}

\* An array has at most 255 dimensions.
ASSUME ArraysAssumption ==
  /\ \E dimensions \in [Array -> 1 .. 255] :
       \A a \in Array : ElementOf[a] \in Array => dimensions[ElementOf[a]] < dimensions[a]
  /\ Array \cap Primitive = {} /\ IsFiniteSet(OfArrays)

ASSUME DispatchAssumption == Constructor \notin Hidden

ASSUME LoadersAssumption == Boot \notin Loader /\ Failed # None

VARIABLES
  program,  \* one of Programs
  class,    \* _loaded_classes: from identifiers (loader and name) to classes
  stack,    \* the calls under way
  ret,      \* what the last call returned: an identifier, Failed, or None
  early,    \* classes that took the size of a class that was being linked
  broken,   \* classes whose linking failed
  outside,  \* what a thread without the lock has looked for and not found
  entered   \* what was put in the table although it was there or being loaded

loading == <<program, class, stack, ret, early, broken>>
vars == <<loading, outside, entered>>

IsClass(n) == n \notin Array \cup Primitive
Id == (Loader \cup {Boot}) \X Names(program)

TypeSize(n) == IF n \in Primitive THEN 2 ELSE 1

\* A call and how far it has come; got are the classes an array has asked for.
Call(kind, id) == [kind |-> kind, id |-> id, at |-> 1, got |-> <<>>]

File(id) == program.files[id[2]]

\* What linking does, in its order: the super class, the interfaces, the fields,
\* and of each method the handlers and the types; the end of resolve_class with
\* prepare_class; the instance of java/lang/Class.
Step(what, name) == [what |-> what, name |-> name]

StepsOf(f, name) ==
  LET method(m) == [i \in DOMAIN m.handlers |-> Step("handler", m.handlers[i])]
                   \o [i \in DOMAIN m.types |-> Step("type", m.types[i])]
                   \o <<Step("method", m.signature)>>
  IN (IF f.super = None THEN <<>> ELSE <<Step("super", f.super)>>)
     \o [i \in DOMAIN f.interfaces |-> Step("interface", f.interfaces[i])]
     \o [i \in DOMAIN f.fields |-> Step("field", f.fields[i].type)]
     \o FlattenSeq([i \in DOMAIN f.methods |-> method(f.methods[i])])
     \o <<Step("resolved", None)>>
     \o <<IF name = Class THEN Step("sweep", None) ELSE Step("object", Class)>>

LinkSteps(id) == StepsOf(File(id), id[2])

\* load_array asks for everything before it enters the array in the table.
ArraySteps(id) ==
  <<Step("component", ElementOf[id[2]]), Step("super", Object)>>
  \o [i \in 1 .. Cardinality(OfArrays) |-> Step("interface", SetToSeq(OfArrays)[i])]
  \o <<Step("register", None), Step("object", Class)>>

Steps(call) ==
  CASE call.kind = "link" -> LinkSteps(call.id)
    [] call.kind = "array" -> ArraySteps(call.id)
    [] call.kind = "primitive" -> <<Step("object", Class)>>

Top == Head(stack)
Now == Steps(Top)[Top.at]

\* The loader that a class asks is its own; super classes and interfaces of
\* arrays and java/lang/Class are asked of the bootstrap loader.
Asked ==
  IF Now.name \in Primitive \/ Now.what = "object" \/ (Top.kind = "array" /\ Now.what # "component")
    THEN Boot
    ELSE Top.id[1]

Advance == [Top EXCEPT !.at = @ + 1]
Forward == stack' = <<Advance>> \o Tail(stack)

NewClass(kind, n) ==
  [name |-> n, kind |-> kind, super |-> None, interfaces |-> {}, component |-> None,
   acc_super |-> kind = "class", declared |-> {}, object_size |-> 0, fields |-> <<>>,
   pool |-> <<>>, resolved |-> kind # "class" /\ kind # "interface",
   static_memory |-> 0, object |-> 0]

\* What load_class, load_array, load_primitive and define_class do when they are
\* called: a class that is in the table is returned, in whatever state it is.
\* Mutant: a class that is being linked is taken for unknown.
KnownIfResolved(id) == id \in DOMAIN class /\ class[id].resolved

Known(id) == id \in DOMAIN class

Hit(id, calls) == ret' = id /\ stack' = calls /\ UNCHANGED class

\* A table with one more entry, or with one replaced.
With(table, key, value) ==
  [k \in DOMAIN table \cup {key} |-> IF k = key THEN value ELSE table[k]]

Register(id, c) == class' = With(class, id, c)

\* define_class reads the file and enters the class before it links it.
Found(id) == program.place[id[2]] = (IF id[1] = Boot THEN "boot" ELSE "own")

DefineNew(id, calls) ==
  IF Found(id)
    THEN /\ Register(id, NewClass(IF File(id).interface THEN "interface" ELSE "class", id[2]))
         /\ stack' = <<Call("link", id)>> \o calls
         /\ ret' = None
    ELSE ret' = Failed /\ stack' = calls /\ UNCHANGED class

\* Mutant: define_class does not look whether the class is there.
DefineUnchecked(id, calls) == DefineNew(id, calls)

Define(id, calls) ==
  IF Known(id) THEN Hit(id, calls) ELSE DefineNew(id, calls)

LoadArray(id, calls) ==
  IF Known(id) THEN Hit(id, calls)
  ELSE stack' = <<Call("array", id)>> \o calls /\ ret' = None /\ UNCHANGED class

LoadPrimitive(id, calls) ==
  IF Known(id) THEN Hit(id, calls)
  ELSE /\ Register(id, [NewClass("primitive", id[2]) EXCEPT !.object_size = TypeSize(id[2])])
       /\ stack' = <<Call("primitive", id)>> \o calls
       /\ ret' = None

\* load_class with a loader written in Java calls its loadClass.
LoadClass(id, calls) ==
  IF Known(id) THEN Hit(id, calls)
  ELSE IF id[1] = Boot THEN Define(id, calls)
  ELSE stack' = <<Call("java", id)>> \o calls /\ ret' = None /\ UNCHANGED class

Load(n, loader, calls) ==
  LET id == <<loader, n>>
  IN CASE n \in Array -> LoadArray(id, calls)
       [] n \in Primitive -> LoadPrimitive(id, calls)
       [] OTHER -> LoadClass(id, calls)

Init ==
  /\ program \in Programs
  /\ class = <<>> /\ stack = <<>> /\ ret = None /\ early = {} /\ broken = {}
  /\ outside = None /\ entered = {}

\* The program or the virtual machine asks for a class.
Request(n, loader) ==
  /\ stack = <<>>
  /\ n \in Primitive => loader = Boot
  /\ Load(n, loader, <<>>)
  /\ UNCHANGED <<program, early, broken>>

\* JNI DefineClass, called by a loader outside loadClass, while no other thread
\* asks for classes.
OfLoader(n, loader) == IsClass(n) /\ loader # Boot /\ program.place[n] = "own"

DefineClass(n, loader) ==
  /\ stack = <<>> /\ OfLoader(n, loader)
  /\ Define(<<loader, n>>, <<>>)
  /\ UNCHANGED <<program, early, broken>>

Running(kinds) == stack # <<>> /\ Top.kind \in kinds

\* The class entries of the constant pool remember what was found.
InPool(what) == Top.kind = "link" /\ what \in {"super", "interface", "handler"}

Ask ==
  /\ Running({"link", "array", "primitive"}) /\ ret = None
  /\ Now.what \notin {"method", "register", "resolved", "sweep"}
  /\ IF InPool(Now.what) /\ Now.name \in DOMAIN class[Top.id].pool
       THEN ret' = class[Top.id].pool[Now.name] /\ UNCHANGED <<class, stack>>
       ELSE Load(Now.name, Asked, stack)
  /\ UNCHANGED <<program, early, broken>>

Pooled(c) ==
  IF InPool(Now.what) THEN [c EXCEPT !.pool = With(@, Now.name, ret)] ELSE c

\* A step of linking gets the class it has asked for.
Take(what, c) ==
  /\ Running({"link"}) /\ ret \in Id /\ Now.what = what
  /\ class' = [class EXCEPT ![Top.id] = Pooled(c)]
  /\ Forward /\ ret' = None
  /\ UNCHANGED <<program, broken>>

HasItsSize(id) ==
  /\ id \notin early
  /\ Len(class[id].fields) = Len(File(id).fields)
  /\ File(id).super # None => class[id].super # None

TakeSuper ==
  /\ Take("super", [class[Top.id] EXCEPT !.super = ret,
                                         !.object_size = @ + class[ret].object_size])
  /\ early' = IF HasItsSize(ret) THEN early ELSE early \cup {Top.id}

TakeInterface ==
  /\ Take("interface", [class[Top.id] EXCEPT !.interfaces = @ \cup {ret}])
  /\ UNCHANGED early

\* resolve_field; the field that is resolved is the next one of the file.
FieldStatic == File(Top.id).fields[Len(class[Top.id].fields) + 1].static

\* Mutant: static fields are part of the objects.
TakeFieldStatic ==
  /\ Take("field",
       [class[Top.id] EXCEPT
          !.fields = Append(@, [type |-> ret, static |-> FieldStatic]),
          !.object_size = @ + TypeSize(ret[2])])
  /\ UNCHANGED early

TakeField ==
  /\ Take("field",
       [class[Top.id] EXCEPT
          !.fields = Append(@, [type |-> ret, static |-> FieldStatic]),
          !.object_size = IF FieldStatic THEN @ ELSE @ + TypeSize(ret[2])])
  /\ UNCHANGED early

\* collect_method_attributes asks for the classes of the handlers.
TakeHandler == Take("handler", class[Top.id]) /\ UNCHANGED early

\* resolve_method_signature
TakeType == Take("type", class[Top.id]) /\ UNCHANGED early

\* The end of resolve_method.
MethodResolved ==
  /\ Running({"link"}) /\ Now.what = "method"
  /\ class' = [class EXCEPT ![Top.id].declared = @ \cup {Now.name}]
  /\ Forward
  /\ UNCHANGED <<program, ret, early, broken>>

\* The end of resolve_class, and prepare_class.
StaticSize(fields) ==
  FoldSeq(LAMBDA f, size : IF f.static THEN size + TypeSize(f.type[2]) ELSE size, 0, fields)

Resolved ==
  /\ Running({"link"}) /\ Now.what = "resolved"
  /\ class' = [class EXCEPT ![Top.id].resolved = TRUE,
                            ![Top.id].static_memory = StaticSize(class[Top.id].fields)]
  /\ Forward
  /\ UNCHANGED <<program, ret, early, broken>>

\* An array has its component, its super class and its interfaces.
TakeForArray ==
  /\ Running({"array"}) /\ ret \in Id /\ Now.what # "object"
  /\ stack' = <<[Advance EXCEPT !.got = Append(@, ret)]>> \o Tail(stack)
  /\ ret' = None
  /\ UNCHANGED <<program, class, early, broken>>

RegisterArray ==
  /\ Running({"array"}) /\ Now.what = "register"
  /\ Register(Top.id, [NewClass("array", Top.id[2]) EXCEPT
                         !.component = Top.got[1], !.super = Top.got[2],
                         !.interfaces = ToSet(SubSeq(Top.got, 3, Len(Top.got)))])
  /\ Forward
  /\ UNCHANGED <<program, ret, early, broken>>

\* create_object, and the return from the call.  A class has its instance of
\* java/lang/Class once that class itself is resolved.
WithObject(c) == [c EXCEPT !.object = @ + 1]

Return(id) == stack' = Tail(stack) /\ ret' = id

CreateObject ==
  /\ Running({"link", "array", "primitive"}) /\ ret \in Id /\ Now.what = "object"
  /\ class' = IF class[ret].resolved
                THEN [class EXCEPT ![Top.id] = WithObject(@)] ELSE class
  /\ Return(Top.id)
  /\ UNCHANGED <<program, early, broken>>

Sweep ==
  /\ Running({"link"}) /\ Now.what = "sweep"
  /\ class' = [id \in DOMAIN class |-> WithObject(class[id])]
  /\ Return(Top.id)
  /\ UNCHANGED <<program, early, broken>>

\* Mutant: linking does not look at the error either.
UnwindGoesOn ==
  /\ Running({"link", "array", "primitive"}) /\ ret = Failed
  /\ IF Top.kind = "link" THEN Forward /\ ret' = None
     ELSE /\ stack' = Tail(stack)
          /\ ret' = IF Top.kind = "primitive" THEN Top.id ELSE Failed
  /\ UNCHANGED <<program, class, early, broken>>

\* An exception goes through the calls; the class that was being linked stays in
\* the table.  PrimitiveClass::get does not look at the error.
Unwind ==
  /\ Running({"link", "array", "primitive"}) /\ ret = Failed
  /\ stack' = Tail(stack)
  /\ ret' = IF Top.kind = "primitive" THEN Top.id ELSE Failed
  /\ broken' = IF Top.kind = "link" THEN broken \cup {Top.id} ELSE broken
  /\ UNCHANGED <<program, class, early>>

(***************************************************************************)
(* loadClass in Java: it may ask the bootstrap loader first, may define    *)
(* the class itself, and may throw or return null.                         *)
(***************************************************************************)
JavaDelegates ==
  /\ Running({"java"}) /\ ret = None /\ Top.at = 1
  /\ Load(Top.id[2], Boot, <<Advance>> \o Tail(stack))
  /\ UNCHANGED <<program, early, broken>>

JavaDefines ==
  /\ Running({"java"}) /\ ret \in {None, Failed} /\ Top.at \in {1, 2}
  /\ program.place[Top.id[2]] = "own"
  /\ Define(Top.id, <<[Top EXCEPT !.at = 3]>> \o Tail(stack))
  /\ UNCHANGED <<program, early, broken>>

\* DefineClass and FindClass hand out the object of the class.
JavaReturns ==
  /\ Running({"java"}) /\ ret \in Id /\ class[ret].object > 0
  /\ Return(ret)
  /\ UNCHANGED <<program, class, early, broken>>

JavaFails ==
  /\ Running({"java"}) /\ Return(Failed)
  /\ UNCHANGED <<program, class, early, broken>>

Link ==
  \/ Ask \/ TakeSuper \/ TakeInterface \/ TakeField \/ TakeHandler \/ TakeType \/ MethodResolved
  \/ Resolved \/ TakeForArray \/ RegisterArray \/ CreateObject \/ Sweep \/ Unwind
  \/ JavaDelegates \/ JavaDefines \/ JavaReturns \/ JavaFails

(***************************************************************************)
(* JNI DefineClass does not lock _load_mutex: between its look at the      *)
(* table and what it puts there, other threads load.  Without a name it    *)
(* looks for none, reads the name in the file and puts the class there.    *)
(* References are pointers to the class that was replaced, and the table   *)
(* is no table for two threads: what follows is left out.                  *)
(***************************************************************************)
Enter(id) ==
  /\ Register(id, NewClass(IF File(id).interface THEN "interface" ELSE "class", id[2]))
  /\ entered' = {id}
  /\ UNCHANGED <<program, stack, ret, early, broken, outside>>

\* A class that is not there yet is defined as with its name.
DefineNameless(n, loader) ==
  /\ stack = <<>> \/ Running({"java"})
  /\ OfLoader(n, loader) /\ Known(<<loader, n>>)
  /\ Enter(<<loader, n>>)

LookOutside(n, loader) ==
  /\ outside = None /\ OfLoader(n, loader) /\ ~Known(<<loader, n>>)
  /\ outside' = <<loader, n>>
  /\ UNCHANGED <<loading, entered>>

\* When nobody has come between the two, it is DefineClass.
EnterOutside ==
  /\ outside # None /\ (stack # <<>> \/ Known(outside))
  /\ Enter(outside)

Locked ==
  \/ Link
  \/ \E n \in Names(program), loader \in Loader \cup {Boot} :
       Request(n, loader) \/ DefineClass(n, loader)

Next ==
  /\ entered = {}
  /\ \/ Locked /\ UNCHANGED <<outside, entered>>
     \/ EnterOutside
     \/ \E n \in Names(program), loader \in Loader :
          DefineNameless(n, loader) \/ LookOutside(n, loader)

Spec == Init /\ [][Next]_vars

(***************************************************************************)
(* The questions asked about linked classes: is one a subclass of another, *)
(* may it be cast, where is a method found and which one does a call run   *)
(* (class/Class.cpp, class/Method.cpp).  t is a table of classes.          *)
(***************************************************************************)
\* The chain of super_class from a class up, itself first.
Chain(t, c) ==
  LET up[n \in 0 .. Cardinality(DOMAIN t)] ==
        [d \in DOMAIN t \cup {None} |->
           IF d = None \/ n = 0 THEN <<>> ELSE <<d>> \o up[n - 1][t[d].super]]
  IN up[Cardinality(DOMAIN t)][c]

is_subclass_of(t, c, d) ==
  LET chain == Chain(t, c) IN \E i \in 2 .. Len(chain) : chain[i] = d

\* Mutant: the interfaces of the super classes are left out.
is_implementing_itself(t, c, d) ==
  \E e \in t[c].interfaces : e = d \/ is_subclass_of(t, e, d)

\* The interfaces are asked for their super classes, not for their interfaces.
is_implementing(t, c, d) ==
  LET chain == Chain(t, c)
  IN \E i \in 1 .. Len(chain) : \E e \in t[chain[i]].interfaces :
       e = d \/ is_subclass_of(t, e, d)

\* An array whose component is an array is asked about its component.
ArrayCastable(t, c, d, castable) ==
  IF t[d].kind = "array"
    THEN LET mine == t[c].component
             its == t[d].component
         IN IF t[mine].kind = "primitive" \/ t[its].kind = "primitive"
              THEN mine = its
              ELSE castable[mine, its]
    ELSE t[d].name \in OfArrays \cup {Object}

is_castable_to(t, c, d) ==
  LET castable[from \in DOMAIN t, to \in DOMAIN t] ==
        CASE t[from].kind = "array" -> ArrayCastable(t, from, to, castable)
          [] t[from].kind = "interface" ->
               /\ t[to].kind # "array"
               /\ IF t[to].kind = "interface"
                    THEN from = to \/ is_subclass_of(t, from, to)
                    ELSE t[to].name = Object
          [] t[from].kind = "class" ->
               /\ t[to].kind # "array"
               /\ IF t[to].kind = "interface"
                    THEN is_implementing(t, from, to)
                    ELSE from = to \/ is_subclass_of(t, from, to)
  IN castable[c, d]

\* The first class of a sequence that declares the signature.
FirstDeclaring(t, chain, signature) ==
  LET declaring == {i \in 1 .. Len(chain) : signature \in t[chain[i]].declared}
  IN IF declaring = {} THEN None
     ELSE chain[CHOOSE i \in declaring : \A j \in declaring : i <= j]

\* Class::lookup_method: the super classes first, the interfaces then.  The
\* interfaces are in no order, so that any of those that declare it may be found.
lookup_method(t, c, signature) ==
  LET found[n \in 0 .. Cardinality(DOMAIN t)] ==
        [d \in DOMAIN t |->
           IF n = 0 THEN {}
           ELSE IF signature \in t[d].declared THEN {d}
           ELSE LET above == IF t[d].super = None THEN {} ELSE found[n - 1][t[d].super]
                IN IF above # {} THEN above
                   ELSE UNION {found[n - 1][i] : i \in t[d].interfaces}]
  IN found[Cardinality(DOMAIN t)][c]

\* The lookups start from the class d that declares the method and yield the
\* class whose method is run, None for AbstractMethodError.
lookupVirtual(t, object, signature) == FirstDeclaring(t, Chain(t, object), signature)

\* Mutant: every caller counts as one below the class.
lookupSpecial_always(t, d, signature, current) ==
  IF t[current].acc_super /\ signature # Constructor
    THEN FirstDeclaring(t, Tail(Chain(t, current)), signature)
    ELSE d

lookupSpecial(t, d, signature, current) ==
  IF t[current].acc_super /\ is_subclass_of(t, current, d) /\ signature # Constructor
    THEN FirstDeclaring(t, Tail(Chain(t, current)), signature)
    ELSE d

\* Method::invoke for the method of d and an object of class o, called from a
\* frame of class current.
invoke(t, d, signature, o, current) ==
  IF signature \in Hidden \cup {Constructor} \/ is_subclass_of(t, o, d)
    THEN lookupSpecial(t, d, signature, current)
    ELSE lookupVirtual(t, o, signature)

(***************************************************************************)
(* What Java has to say to them.                                           *)
(***************************************************************************)
JavaParents(t, c) ==
  t[c].interfaces \cup (IF t[c].super = None THEN {} ELSE {t[c].super})

JavaSubtype(t, c, d) ==
  LET N == Cardinality(DOMAIN t)
      sub[n \in 0 .. 2 * N, from \in DOMAIN t, to \in DOMAIN t] ==
        \/ from = to
        \/ /\ n > 0
           /\ \/ \E p \in JavaParents(t, from) : sub[n - 1, p, to]
              \/ /\ t[from].kind = "array" /\ t[to].kind = "array"
                 /\ t[t[from].component].kind # "primitive"
                 /\ t[t[to].component].kind # "primitive"
                 /\ sub[n - 1, t[from].component, t[to].component]
  IN sub[2 * N, c, d]

(***************************************************************************)
(* Properties.                                                             *)
(***************************************************************************)
TypeOK ==
  /\ program \in Programs
  /\ DOMAIN class \subseteq Id
  /\ \A id \in DOMAIN class :
       /\ class[id].super \in DOMAIN class \cup {None}
       /\ class[id].interfaces \subseteq DOMAIN class
       /\ class[id].component \in DOMAIN class \cup {None}
       /\ \A i \in DOMAIN class[id].fields : class[id].fields[i].type \in DOMAIN class
       /\ class[id].object \in Nat /\ class[id].object_size \in Nat
  /\ ret \in Id \cup {None, Failed}
  /\ early \subseteq DOMAIN class /\ broken \subseteq DOMAIN class
  /\ outside \in Id \cup {None}

BeingLinked == {stack[i].id : i \in {j \in DOMAIN stack : stack[j].kind = "link"}}

\* Classes that name each other in circles are linked one inside the other, but
\* none inside itself, and neither a primitive type nor a Java loader is asked
\* inside itself: only an array may be under way again, for the linking of a class
\* that it has asked for.
NoneInItself ==
  \A i, j \in DOMAIN stack :
    i < j /\ stack[i].id = stack[j].id /\ stack[i].kind = stack[j].kind
      => /\ stack[i].kind = "array"
         /\ \E k \in i + 1 .. j - 1 : stack[k].kind = "link"

\* A class of the table has gone through the whole of link_class (with all its
\* fields and methods and its super class), is in it, or an exception has come
\* out of it (ClassLoader.cpp:299 leaves such a class in the table).  Once
\* java/lang/Class is there, every class has its instance of it, also one that was
\* loaded before.  So it is until one is put in the table past another.  (The types
\* of the variables are checked on the way.)
LinkedOrBroken ==
  entered = {} =>
  /\ TypeOK
  /\ \A id \in DOMAIN class :
       class[id].kind \in {"class", "interface"} =>
         \/ id \in BeingLinked \cup broken
         \/ /\ class[id].resolved
            /\ (class[id].super = None) = (File(id).super = None)
            /\ Cardinality(class[id].interfaces) = Len(File(id).interfaces)
            /\ Len(class[id].fields) = Len(File(id).fields)
            /\ Cardinality(class[id].declared) = Len(File(id).methods)
  /\ stack = <<>> /\ <<Boot, Class>> \in DOMAIN class /\ class[<<Boot, Class>>].resolved =>
       \A id \in DOMAIN class \ broken : class[id].object > 0

\* The size of the objects of a class is that of the fields that they have, their
\* own and the inherited ones, of which static ones are not part.
OwnSize(id) ==
  FoldSeq(LAMBDA f, size : IF f.static THEN size ELSE size + TypeSize(f.type), 0,
          File(id).fields)

SizesAdd ==
  \A id \in DOMAIN class :
    entered = {} /\ class[id].kind = "class" /\ class[id].resolved /\ id \notin early =>
      LET chain == Chain(class, id)
      IN class[id].object_size
           = FoldSeq(LAMBDA c, size : size + OwnSize(c), 0, chain)

\* When nothing is under way, linked classes are castable as in Java, with one
\* exception: an interface is not found that another interface extends.
Rests == stack = <<>> /\ broken = {} /\ entered = {}

Extended == UNION {class[id].interfaces : id \in {c \in DOMAIN class : class[c].kind = "interface"}}

Element(id) ==
  LET e[n \in Nat, c \in DOMAIN class] ==
        IF n = 0 \/ class[c].kind # "array" THEN c ELSE e[n - 1, class[c].component]
  IN e[Cardinality(Array), id]

CastsAsJava ==
  Rests =>
    \A c, d \in {id \in DOMAIN class : class[id].kind # "primitive"} :
      \/ is_castable_to(class, c, d) = JavaSubtype(class, c, d)
      \/ JavaSubtype(class, c, d) /\ Element(d) \in Extended

\* Method::invoke chooses between its lookups by the classes of the object and of
\* the caller, not by the instruction: still a call of the method that lookup_method
\* has found, with an object of the class that declares it or of one below, runs a
\* method that the object's class has or inherits, and does not end in
\* AbstractMethodError.  It is different for a caller whose class is below the
\* declaring one and not above the object's: there lookupSpecial goes up from the
\* caller, and may run a method of another branch.
IsA(o, c) == o = c \/ is_subclass_of(class, o, c)

RunsOnItsObjects ==
  Rests =>
    \A o, named, caller \in {id \in DOMAIN class : class[id].kind = "class"} :
      \A signature \in UNION {class[id].declared : id \in DOMAIN class} :
        \A d \in lookup_method(class, named, signature) :
          IsA(o, d) /\ (is_subclass_of(class, caller, d) => IsA(o, caller)) =>
            LET runs == invoke(class, d, signature, o, caller)
            IN IsA(o, runs) /\ signature \in class[runs].declared

\* What the table has under a name stays there: linked classes are not changed
\* and not replaced, except that an array is entered twice if the linking of its
\* component asks for it, and for what JNI DefineClass puts there when it is given
\* no name or has looked before another thread loaded the class.
SameClass(c, d) ==
  /\ d.resolved /\ d.super = c.super /\ d.fields = c.fields
  /\ d.object_size = c.object_size /\ d.object >= c.object

KeepsIdentity ==
  [][\A id \in DOMAIN class :
       /\ id \in DOMAIN class'
       /\ class[id].resolved =>
            \/ SameClass(class[id], class'[id])
            \/ class[id].kind = "array" /\ Head(stack).id = id
            \/ id \in entered']_vars

(***************************************************************************)
(* What compilers give and the code does not check.                        *)
(***************************************************************************)
\* The name of the super class that a class of a name has.
SuperName(p, n) ==
  IF n \in DOMAIN p.files THEN p.files[n].super ELSE IF n \in Array THEN Object ELSE None

\* No class is above itself.
SupersEnd ==
  \A p \in Programs : \A S \in SUBSET Names(p) :
    S # {} => \E n \in S : SuperName(p, n) \notin S

\* A super class is a class or an interface.
SupersAreClasses ==
  \A p \in Programs : \A n \in DOMAIN p.files : p.files[n].super \notin Array \cup Primitive
=============================================================================
