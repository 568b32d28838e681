------------------------------ MODULE Libraries ------------------------------
(***************************************************************************)
(* Native methods and the libraries that have them: LibraryBinder.cpp,     *)
(* Method::invokeNative and native_method_name, and the functions of JNI   *)
(* and of the port to OpenJDK that load libraries and register methods.    *)
(*                                                                         *)
(* A library exports a function for each of some methods, under the name   *)
(* that JNI has for it, and JNI_OnLoad.  Threads load libraries, call      *)
(* methods and register them at the same time; nothing of this has a lock. *)
(* A behaviour ends with the first operation that has another outcome than *)
(* in Java.                                                                *)
(***************************************************************************)
EXTENDS Naturals, SequencesExt

CONSTANTS
  Method,           \* the methods of the program: see IsMethod
  Library,          \* a function from paths to libraries: see IsLibrary
  Caller,           \* the threads
  None,
  LibraryPrograms   \* [does, steps]: what a program does of what is known to go
                    \* wrong, and how many operations it begins

Path == DOMAIN Library
Deeds == {"style", "letters", "race", "version", "entry"}

\* Strings are sequences of characters, of which these have names of their own.
\* A parameter is the string of its type's descriptor.
IsMethod(m) ==
  /\ m.class \in Seq(STRING) /\ m.name \in Seq(STRING) /\ m.native \in BOOLEAN
  /\ m.parameters \in Seq(Seq(STRING))

LatestVersion == 6    \* of JNI

IsLibrary(l) ==
  /\ l.version \in Nat /\ l.onLoad \in BOOLEAN
  /\ l.exports \subseteq Method \X {"usual", "other"}

IsSetting ==
  /\ \A m \in Method : IsMethod(m)
  /\ \A path \in Path : IsLibrary(Library[path])
  /\ None \notin Path
  /\ \A p \in LibraryPrograms : p.deeds \subseteq Deeds /\ p.steps \in Nat

VARIABLES
  libraries,   \* the loaded libraries
  loaded,      \* how often the JNI_OnLoad of each library has run
  functions,   \* the addresses that were found once: <<name, function>>
  nativeCall,  \* of each method: the function, or None
  registered,  \* what Java has registered for each method, or None
  call,        \* what each thread does: [what, of, found, allowed]
  agreed,      \* the last operation had the outcome that it has in Java
  begun,       \* the number of operations
  does         \* one of LibraryPrograms

vars == <<libraries, loaded, functions, nativeCall, registered, call, agreed, begun, does>>

-----------------------------------------------------------------------------
(* Names.                                                                  *)

\* append_mapped
\* Mutation: an underscore is kept.
MappedPlain(c) ==
  CASE c = "/" -> <<"_">> [] c = ";" -> <<"_", "2">> [] c = "[" -> <<"_", "3">>
    [] c = "$" -> <<"_", "0", "0024">> [] OTHER -> <<c>>

Mapped(c) ==
  CASE c = "/" -> <<"_">> [] c = "_" -> <<"_", "1">> [] c = ";" -> <<"_", "2">>
    [] c = "[" -> <<"_", "3">> [] c = "$" -> <<"_", "0", "0024">> [] OTHER -> <<c>>

append_mapped(s) == FlattenSeq([i \in DOMAIN s |-> Mapped(s[i])])

Overloads(m) == {n \in Method \ {m} : n.class = m.class /\ n.name = m.name /\ n.native}

\* A type of a parameter as in the name: its descriptor.
MappedTypes(m) == FlattenSeq([i \in DOMAIN m.parameters |-> append_mapped(m.parameters[i])])

\* native_method_name
native_method_name(m) ==
  LET name == <<"Java_">> \o append_mapped(m.class) \o <<"_">> \o append_mapped(m.name)
  IN IF Overloads(m) = {} THEN name ELSE name \o <<"__">> \o MappedTypes(m)

\* The names of JNI: letters that are not of ASCII become numbers.
Letters == {"u00e9"}
JavaMapped(c) ==
  IF c \in Letters THEN <<"_", "0", c>>
  ELSE IF c = "$" THEN <<"_", "0", "0024">>
  ELSE IF c = "/" THEN <<"_">>
  ELSE LET escaped == SelectInSeq(<<"_", ";", "[">>, LAMBDA x : x = c)
       IN IF escaped = 0 THEN <<c>> ELSE <<"_", <<"1", "2", "3">>[escaped]>>

HasLetters(m) ==
  \E s \in {m.class, m.name} \cup Range(m.parameters) : \E i \in DOMAIN s : s[i] \in Letters

JavaString(s) == FlattenSeq([i \in DOMAIN s |-> JavaMapped(s[i])])
Short(m) == <<"Java_">> \o JavaString(m.class) \o <<"_">> \o JavaString(m.name)
Long(m) ==
  Short(m) \o <<"__">> \o FlattenSeq([i \in DOMAIN m.parameters |-> JavaString(m.parameters[i])])

\* A library has a method under its long name if there is another native method
\* of the same name, else under its short one; or the other way round.
NameOf(export) ==
  IF (Overloads(export[1]) # {}) = (export[2] = "usual") THEN Long(export[1])
  ELSE Short(export[1])

\* A function of a library is <<path, name>>.
OnLoad == <<"JNI_OnLoad">>
HasOnLoad(path) == Library[path].onLoad
Exports(path) == {NameOf(e) : e \in Library[path].exports} \cup {n \in {OnLoad} : HasOnLoad(path)}

\* A loaded library has a method under the name that is not usual for it.
HasOther(m) == \E path \in libraries : (IF Overloads(m) = {} THEN Long(m) ELSE Short(m)) \in Exports(path)

-----------------------------------------------------------------------------
(* LibraryBinder.                                                          *)

\* get_function: what is found; the libraries are in no order.
get_function(name) ==
  LET known == {f \in functions : f[1] = name}
  IN IF known # {} THEN {f[2] : f \in known}
     ELSE {<<path, name>> : path \in {p \in libraries : name \in Exports(p)}}

Remember(name, function) == functions' = functions \cup {<<name, function>>}

\* The same in Java.
JavaFunctions(m) ==
  IF registered[m] # None THEN {registered[m]}
  ELSE {f \in libraries \X {Short(m), Long(m)} : f[2] \in Exports(f[1])}

\* Java runs one of the functions that it finds, and none of a library whose
\* JNI_OnLoad has not run yet.
MayRun(function, allowed) ==
  /\ function \in allowed
  /\ (function[1] \in Path /\ HasOnLoad(function[1])) => loaded[function[1]] > 0

Outcome(ok) == agreed' = ok

-----------------------------------------------------------------------------
(* Operations.  Those that look something up first and act then have two   *)
(* steps; programs without a race end one operation before the next.       *)

Idle == [what |-> "nothing", of |-> None, found |-> None, allowed |-> {}]

Begin(t) ==
  /\ call[t] = Idle /\ begun < does.steps
  /\ "race" \in does.deeds \/ \A u \in Caller : call[u] = Idle
  /\ begun' = begun + 1
  /\ UNCHANGED does

Enter(t, what, of, found, allowed) ==
  call' = [call EXCEPT ![t] = [what |-> what, of |-> of, found |-> found, allowed |-> allowed]]

Leave(t) == call' = [call EXCEPT ![t] = Idle]

\* load_lib of a library that is loaded does nothing.
LoadKnown(t, path) ==
  /\ Begin(t) /\ path \in libraries
  /\ Outcome(TRUE)
  /\ UNCHANGED <<libraries, loaded, functions, nativeCall, registered, call>>

\* load_lib finds no entry ...
LoadUnknown(t, path) ==
  /\ Begin(t) /\ path \notin libraries
  /\ Library[path].version > LatestVersion => "version" \in does.deeds
  /\ Enter(t, "load", path, None, {})
  /\ Outcome(TRUE)
  /\ UNCHANGED <<libraries, loaded, functions, nativeCall, registered>>

\* ... and enters the library ...
\* Mutation: the library is initialized before it is entered, and not entered.
NotEntered(path) == UNCHANGED libraries

Entered(path) == libraries' = libraries \cup {path}

PutLibrary(t) ==
  /\ call[t].what = "load"
  /\ Entered(call[t].of)
  /\ Enter(t, "init", call[t].of, None, {})
  /\ Outcome(TRUE)
  /\ UNCHANGED <<loaded, functions, nativeCall, registered, begun, does>>

\* ... and init_lib runs JNI_OnLoad, and ends the virtual machine if it wants a
\* version that there is not.  Nobody may run it twice.
InitLibrary(t) ==
  /\ call[t].what = "init"
  /\ LET path == call[t].of
     IN IF HasOnLoad(path)
          THEN /\ loaded' = [loaded EXCEPT ![path] = @ + 1]
               /\ Outcome(Library[path].version <= LatestVersion /\ loaded[path] = 0)
          ELSE UNCHANGED loaded /\ Outcome(TRUE)
  /\ Leave(t)
  /\ UNCHANGED <<libraries, functions, nativeCall, registered, begun, does>>

\* JVM_FindLibraryEntry: it does not look at the library that is asked.
FindLibraryEntry(t, path, name) ==
  /\ Begin(t) /\ path \in libraries
  /\ (\E p \in Path \ {path} : name \in Exports(p)) => "entry" \in does.deeds
  /\ LET found == get_function(name)
     IN \/ /\ found = {} /\ UNCHANGED functions
           /\ Outcome(name \notin Exports(path))
        \/ \E f \in found : Remember(name, f) /\ Outcome(f = <<path, name>>)
  /\ UNCHANGED <<libraries, loaded, nativeCall, registered, call>>

\* invokeNative of a method that was called or registered before.
InvokeKnown(t, m) ==
  /\ Begin(t) /\ m.native /\ nativeCall[m] # None
  /\ Outcome(MayRun(nativeCall[m], JavaFunctions(m)))
  /\ UNCHANGED <<libraries, loaded, functions, nativeCall, registered, call>>

\* Of another method the function is searched for by name ...
InvokeUnknown(t, m) ==
  /\ Begin(t) /\ m.native /\ nativeCall[m] = None
  /\ HasOther(m) => "style" \in does.deeds
  /\ HasLetters(m) => "letters" \in does.deeds
  /\ LET name == native_method_name(m)
         found == get_function(name)
     IN \/ /\ found = {} /\ Outcome(JavaFunctions(m) = {})
           /\ UNCHANGED <<functions, call>>
        \/ \E f \in found :
             /\ Remember(name, f)
             /\ Enter(t, "invoke", m, f, JavaFunctions(m))
             /\ Outcome(TRUE)
  /\ UNCHANGED <<libraries, loaded, nativeCall, registered>>

\* ... and stored, and run.
StoreNativeCall(t) ==
  /\ call[t].what = "invoke"
  /\ nativeCall' = [nativeCall EXCEPT ![call[t].of] = call[t].found]
  /\ Outcome(MayRun(call[t].found, call[t].allowed \cup JavaFunctions(call[t].of)))
  /\ Leave(t)
  /\ UNCHANGED <<libraries, loaded, functions, registered, begun, does>>

\* RegisterNatives of one method: a null pointer is skipped.
Own(m) == <<None, m>>

RegisterNatives(t, m, null) ==
  /\ Begin(t)
  /\ IF null THEN UNCHANGED <<nativeCall, registered>>
     ELSE /\ nativeCall' = [nativeCall EXCEPT ![m] = Own(m)]
          /\ registered' = [registered EXCEPT ![m] = Own(m)]
  /\ Outcome(TRUE)
  /\ UNCHANGED <<libraries, loaded, functions, call>>

\* UnregisterNatives: of all methods of the class.
UnregisterNatives(t, class) ==
  /\ Begin(t)
  /\ nativeCall' = [m \in Method |-> IF m.class = class THEN None ELSE nativeCall[m]]
  /\ registered' = [m \in Method |-> IF m.class = class THEN None ELSE registered[m]]
  /\ Outcome(TRUE)
  /\ UNCHANGED <<libraries, loaded, functions, call>>

-----------------------------------------------------------------------------
Init ==
  /\ libraries = {} /\ loaded = [path \in Path |-> 0] /\ functions = {}
  /\ nativeCall = [m \in Method |-> None] /\ registered = nativeCall
  /\ call = [t \in Caller |-> Idle]
  /\ agreed = TRUE /\ begun = 0
  /\ does \in LibraryPrograms

Next ==
  /\ agreed
  /\ \E t \in Caller :
       \/ \E path \in Path : LoadKnown(t, path) \/ LoadUnknown(t, path)
       \/ PutLibrary(t) \/ InitLibrary(t) \/ StoreNativeCall(t)
       \/ \E path \in Path : FindLibraryEntry(t, path, OnLoad)
       \/ \E m \in Method : InvokeKnown(t, m) \/ InvokeUnknown(t, m)
       \/ \E m \in Method, null \in BOOLEAN : RegisterNatives(t, m, null)
       \/ \E class \in {m.class : m \in Method} : UnregisterNatives(t, class)

Spec == Init /\ [][Next]_vars

-----------------------------------------------------------------------------
(* Properties.                                                             *)

TypeOK ==
  /\ libraries \subseteq Path /\ begun \in 0 .. does.steps
  /\ loaded \in [Path -> 0 .. does.steps]
  /\ DOMAIN nativeCall = Method /\ DOMAIN registered = Method /\ DOMAIN call = Caller

\* In whatever order libraries are loaded and methods are called, registered and
\* unregistered, a native method runs the function that was registered for it
\* last, or else one that a loaded library has for it under its name of JNI, and
\* fails only if there is none; the JNI_OnLoad of a library runs once, before its
\* functions; and the entry of a library is found that was asked for.  Excepted
\* are programs that do something of what is known to go wrong: two threads load
\* and call at the same time, a name has letters that are not of ASCII, a library
\* has an overloaded method under its short name or another under its long one, it
\* wants a newer version, two libraries have the entry that is asked for.
\* (The types of the variables are checked on the way.)
NativesAsJava == TypeOK /\ (does.deeds = {} => agreed)
=============================================================================
