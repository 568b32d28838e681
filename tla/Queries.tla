------------------------------- MODULE Queries -------------------------------
(***************************************************************************)
(* What the class library asks the machine (jdk/openjdk/JVM.cpp): about    *)
(* classes, callers, methods and threads; and the many functions that log  *)
(* that they are ignored and give the answer 0.                            *)
(*                                                                         *)
(* A behaviour ends with the first answer that is not the one of Java.     *)
(***************************************************************************)
EXTENDS Integers, SequencesExt

CONSTANTS
  None,
  Described,       \* the classes: see IsClass
  Stacks,          \* of frames, the latest first: [class, reflective]
  ClassTables,     \* a class file: [methods, pool], of which entries name a method
  JavaThread,      \* the objects of java.lang.Thread
  QueryPrograms    \* what is asked of what is known to go wrong

\* ignored: a function that is ignored, where it matters.  kinds: a question for
\* a class that is not of the kind to which the function belongs.  names: the
\* name of a primitive class, the signature of another one that is no array.
\* reflection: a caller below the frames of a reflective call.  index: a method
\* by its number.  pool: the constant pool of a class.
Deeds == {"ignored", "kinds", "names", "reflection", "index", "pool"}

Letter ==
  [void |-> "V", boolean |-> "Z", byte |-> "B", char |-> "C", short |-> "S", int |-> "I",
   float |-> "F", long |-> "J", double |-> "D"]

\* An array has a component, and after so many dimensions an element that is none.
IsClass(id) ==
  LET c == Described[id]
  IN CASE c.kind = "array" ->
            /\ c.component \in DOMAIN Described
            /\ c.dimensions = Described[c.component].dimensions + 1
            /\ c.element = Described[c.component].element
       [] c.kind = "primitive" -> c.dimensions = 0 /\ c.element = id /\ c.name[1] \in DOMAIN Letter
       [] OTHER ->
            /\ c.kind \in {"class", "interface"} /\ c.dimensions = 0 /\ c.element = id
            /\ c.name \in Seq(STRING) /\ c.name # <<>> /\ c.name[1] # "["

IsSetting ==
  /\ \A id \in DOMAIN Described : IsClass(id) /\ Described[id].dimensions \in Nat
  /\ Stacks \subseteq Seq([class : DOMAIN Described, reflective : BOOLEAN])
  /\ QueryPrograms \subseteq SUBSET Deeds
  /\ None \notin {"RUNNABLE", "TERMINATED"}

VARIABLES
  threads,       \* of each Java thread: the state of its VMThread, or None
  javaAlive,     \* the threads that are alive in Java
  asks,          \* one of QueryPrograms
  agreed

vars == <<threads, javaAlive, asks, agreed>>

Class == DOMAIN Described
Kind(id) == Described[id].kind

Answer(ok) == agreed' = ok /\ UNCHANGED <<threads, javaAlive, asks>>
Known(deed, wrong) == wrong => deed \in asks

-----------------------------------------------------------------------------
(* Functions that are ignored.                                             *)

IgnoredOfMachine ==
  {"OnExit", "Exit", "Halt", "GC", "MaxObjectInspectionAge", "TraceInstructions", "TraceMethodCalls",
   "TotalMemory", "FreeMemory", "MaxMemory", "ActiveProcessorCount", "UnloadLibrary",
   "FillInStackTrace", "PrintStackTrace", "GetStackTraceDepth", "GetStackTraceElement"}
IgnoredOfCompiler ==
  {"InitializeCompiler", "IsSilentCompiler", "CompileClass", "CompileClasses", "CompilerCommand",
   "EnableCompiler", "DisableCompiler"}
IgnoredOfControl == {"StopThread", "SuspendThread", "ResumeThread"}
IgnoredOfThreads ==
  {"Interrupt", "IsInterrupted", "HoldsLock", "DumpAllStacks", "GetAllThreads", "DumpThreads"}
IgnoredOfContext ==
  {"CurrentLoadedClass", "CurrentClassLoader", "GetClassContext", "ClassDepth", "ClassLoaderDepth",
   "GetSystemPackage", "GetSystemPackages", "AllocateNewObject", "AllocateNewArray",
   "LatestUserDefinedLoader", "LoadClass0"}
IgnoredOfArrays == {"GetPrimitiveArrayElement", "SetPrimitiveArrayElement", "NewMultiArray"}
IgnoredOfLoading == {"FindClassFromClassLoader", "FindClassFromClass", "FindLoadedClass"}
IgnoredOfClasses ==
  {"GetClassInterfaces", "GetClassSigners", "SetClassSigners", "GetProtectionDomain",
   "SetProtectionDomain", "GetClassModifiers", "GetDeclaredClasses", "GetDeclaringClass",
   "GetClassAnnotations", "GetClassDeclaredMethods"}
IgnoredOfReflection == {"InvokeMethod"}
IgnoredOfPools ==
  {"ConstantPoolGetClassAtIfLoaded", "ConstantPoolGetMethodAt", "ConstantPoolGetMethodAtIfLoaded",
   "ConstantPoolGetFieldAt", "ConstantPoolGetFieldAtIfLoaded", "ConstantPoolGetMemberRefInfoAt"}
IgnoredOfSystem ==
  {"GetInheritedAccessControlContext", "GetStackAccessControlContext", "RegisterSignal",
   "RaiseSignal", "FindSignal", "DesiredAssertionStatus", "AssertionStatusDirectives", "SupportsCX8",
   "DTraceGetVersion", "DTraceActivate", "DTraceIsProbeEnabled", "DTraceDispose", "DTraceIsSupported"}
IgnoredOfVerifier ==
  {"GetClassCPTypes", "GetClassCPEntriesCount", "GetClassFieldsCount", "GetClassMethodsCount",
   "GetMethodIxExceptionIndexes", "GetMethodIxExceptionsCount", "GetMethodIxByteCode",
   "GetMethodIxByteCodeLength", "GetMethodIxExceptionTableEntry", "GetMethodIxExceptionTableLength",
   "GetFieldIxModifiers", "GetMethodIxModifiers"}
IgnoredOfReferences ==
  {"GetCPFieldNameUTF", "GetCPMethodNameUTF", "GetCPMethodSignatureUTF", "GetCPFieldSignatureUTF",
   "GetCPClassNameUTF", "GetCPFieldClassNameUTF", "GetCPMethodClassNameUTF", "GetCPFieldModifiers",
   "GetCPMethodModifiers", "IsSameClassPackage"}
IgnoredOfFiles ==
  {"GetLastErrorString", "Open", "Close", "Read", "Available", "Lseek", "SetLength", "Sync"}
IgnoredOfSockets ==
  {"InitializeSocketLibrary", "Socket", "SocketClose", "SocketShutdown", "Recv", "Send", "Timeout",
   "Listen", "Connect", "Bind", "Accept", "RecvFrom", "SendTo", "SocketAvailable", "GetSockName",
   "GetSockOpt", "SetSockOpt", "GetHostName"}
IgnoredOfManagement ==
  {"GetManagement", "InitAgentProperties", "GetEnclosingMethodInfo", "GetThreadStateValues",
   "GetThreadStateNames", "GetVersionInfo"}

Ignored ==
  UNION {IgnoredOfMachine, IgnoredOfCompiler, IgnoredOfControl, IgnoredOfThreads, IgnoredOfContext,
         IgnoredOfArrays, IgnoredOfLoading, IgnoredOfClasses, IgnoredOfReflection, IgnoredOfPools,
         IgnoredOfSystem, IgnoredOfVerifier, IgnoredOfReferences, IgnoredOfFiles, IgnoredOfSockets,
         IgnoredOfManagement}

\* Where Java allows nothing to be done, or 0, whatever has happened before: there
\* are no compiler, no traces and no assertions.
MayBeIgnored ==
  IgnoredOfCompiler
  \cup {"GC", "MaxObjectInspectionAge", "TraceInstructions", "TraceMethodCalls", "DumpAllStacks",
        "DesiredAssertionStatus", "SupportsCX8", "DTraceIsSupported", "GetLastErrorString"}

CallIgnored(function) ==
  /\ function \in Ignored
  /\ Known("ignored", function \notin MayBeIgnored)
  /\ Answer(function \in MayBeIgnored)

-----------------------------------------------------------------------------
(* Classes.  Names are sequences; those of the machine have slashes.       *)

\* resolve_by_descriptor: what follows the brackets.
Sign(c) ==
  IF Kind(c) = "primitive" THEN <<Letter[Described[c].name[1]]>>
  ELSE <<"L">> \o Described[c].name \o <<";">>

\* The name that Class::name has: of an array its descriptor, of a primitive its
\* letter.
NameOf(id) ==
  IF Kind(id) \in {"class", "interface"} THEN Described[id].name
  ELSE [i \in 1 .. Described[id].dimensions |-> "["] \o Sign(Described[id].element)

\* Mutation: in the name of an array there are still slashes.
DottedUnlessArray(name) ==
  IF name[1] = "[" THEN name ELSE [i \in DOMAIN name |-> IF name[i] = "/" THEN "." ELSE name[i]]

to_java_class_name(name) == [i \in DOMAIN name |-> IF name[i] = "/" THEN "." ELSE name[i]]

\* The names and the signature in Java.
JavaDescriptor(id) ==
  LET Of[c \in Class] == IF Kind(c) = "array" THEN <<"[">> \o Of[Described[c].component] ELSE Sign(c)
  IN Of[id]

Dots(name) == [i \in DOMAIN name |-> IF name[i] = "/" THEN "." ELSE name[i]]
JavaName(id) == IF Kind(id) = "array" THEN Dots(JavaDescriptor(id)) ELSE Dots(Described[id].name)

GetClassName(id) ==
  /\ Known("names", Kind(id) = "primitive")
  /\ Answer(to_java_class_name(NameOf(id)) = JavaName(id))

GetClassSignature(id) ==
  /\ Known("names", Kind(id) \in {"class", "interface"})
  /\ Answer(NameOf(id) = JavaDescriptor(id))

\* It reads the access flags of the class file, which others do not have.
IsInterface(id) ==
  /\ Known("kinds", Kind(id) \in {"array", "primitive"})
  /\ Answer(Kind(id) \in {"class", "interface"})

\* The names of classes and of primitives do not begin with a bracket.
IsArrayClass(id) == Answer((NameOf(id)[1] = "[") = (Kind(id) = "array"))

\* Others have none, and it is looked at.
GetComponentType(id) ==
  /\ Known("kinds", Kind(id) # "array")
  /\ Answer(Kind(id) = "array")

\* What it finds has the letter of the name, and else the machine ends.
FindPrimitiveClass(name) ==
  /\ Known("kinds", name \notin DOMAIN Letter)
  /\ Answer(name \in DOMAIN Letter)

\* The answer is the class, not an object of ConstantPool.
GetClassConstantPool ==
  /\ Known("pool", TRUE)
  /\ Answer(FALSE)

-----------------------------------------------------------------------------
(* Callers and methods.                                                    *)

\* JVM_GetCallerClass counts every frame.
\* Mutation: the frame of the native method itself is left out.
CallerAfterFirst(stack, n) == IF n + 2 \in DOMAIN stack THEN stack[n + 2].class ELSE None

CallerClass(stack, n) == IF n + 1 \in DOMAIN stack THEN stack[n + 1].class ELSE None

\* Java leaves out reflective calls.
JavaCallerClass(stack, n) ==
  LET counted == {i \in DOMAIN stack : ~stack[i].reflective}
      nth == {i \in counted : Cardinality({j \in counted : j < i}) = n}
  IN IF nth = {} THEN None ELSE stack[CHOOSE i \in nth : TRUE].class

GetCallerClass(stack, n) ==
  /\ Known("reflection", \E i \in DOMAIN stack : stack[i].reflective)
  /\ Answer(CallerClass(stack, n) = JavaCallerClass(stack, n))

\* JVM_GetMethodIx... take the number for one of an entry of the constant pool.
GetMethodIx(index) ==
  /\ Known("index", TRUE)
  /\ LET found == IF index + 1 \in DOMAIN ClassTables.pool THEN ClassTables.pool[index + 1] ELSE None
     IN Answer(found # None /\ found = ClassTables.methods[index + 1])

-----------------------------------------------------------------------------
(* Threads.                                                                *)

\* JVM_StartThread: the new VMThread is bound to the object, and runs before
\* start returns.
StartThread(t) ==
  /\ t \notin javaAlive /\ threads[t] = None
  /\ threads' = [threads EXCEPT ![t] = "RUNNABLE"]
  /\ javaAlive' = javaAlive \cup {t}
  /\ UNCHANGED <<asks, agreed>>

\* run returns; the VMThread remains.
EndThread(t) ==
  /\ t \in javaAlive
  /\ threads' = [threads EXCEPT ![t] = "TERMINATED"]
  /\ javaAlive' = javaAlive \ {t}
  /\ UNCHANGED <<asks, agreed>>

IsThreadAlive(t) ==
  Answer((threads[t] # None /\ threads[t] \notin {"NEW", "TERMINATED"}) = (t \in javaAlive))

-----------------------------------------------------------------------------
Init ==
  /\ threads = [t \in JavaThread |-> None] /\ javaAlive = {}
  /\ asks \in QueryPrograms
  /\ agreed = TRUE

Next ==
  /\ agreed
  /\ \/ \E function \in Ignored : CallIgnored(function)
     \/ \E id \in Class :
          \/ GetClassName(id) \/ GetClassSignature(id)
          \/ IsInterface(id) \/ IsArrayClass(id) \/ GetComponentType(id)
     \/ \E name \in {"void", "int", "String"} : FindPrimitiveClass(name)
     \/ GetClassConstantPool
     \/ \E stack \in Stacks : \E n \in 0 .. Len(stack) : GetCallerClass(stack, n)
     \/ \E index \in 0 .. Len(ClassTables.methods) - 1 : GetMethodIx(index)
     \/ \E t \in JavaThread : StartThread(t) \/ EndThread(t) \/ IsThreadAlive(t)

Spec == Init /\ [][Next]_vars

-----------------------------------------------------------------------------
(* Properties.                                                             *)

TypeOK ==
  /\ threads \in [JavaThread -> {None, "RUNNABLE", "TERMINATED"}]
  /\ javaAlive \subseteq JavaThread

\* What the class library learns about names and kinds of classes, about callers
\* and threads is what it would learn in Java, unless it asks what Deeds lists:
\* some 140 functions are ignored, and some take everything for a class, a name
\* for a descriptor, or a method's number for that of an entry of the pool.
\* (The types of the variables are checked on the way.)
AnswersAsJava == TypeOK /\ (asks = {} => agreed)
=============================================================================
