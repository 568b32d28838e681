-------------------------------- MODULE AsJava --------------------------------
(***************************************************************************)
(* Parts of the machine that one thread sees, each beside what the Java    *)
(* virtual machine specification and JNI have for the same program: its    *)
(* numbers, its arrays, its program counter, the members of its classes,   *)
(* its native methods, the strings of native code, its start, and what the *)
(* class library asks of it.  A behaviour uses one of them.                *)
(***************************************************************************)
EXTENDS Integers, Sequences, FiniteSets

CONSTANTS
  None,
  NumberWidth, Double, NaN, Programs,
  CellWidth, Digits, Space, Cells, Length, Index, Castable, ArrayPrograms,
  Codes, Radix, Operands,
  Hierarchy, Bit, MemberPrograms,
  Method, Library, Caller, LibraryPrograms,
  Unit, LongestText, LengthLimit, StringPrograms,
  CommandLines, Setting, JarFiles, Directories, HasMain, Version, LaunchPrograms,
  Described, Stacks, ClassTables, JavaThread, QueryPrograms

VARIABLES
  operand, cell, java, javaCell, vm, deeds, side,
  arrays, memory, javaArrays, exempt,
  program, currentCode, returnPc, at, javaReturn, passed, state,
  offset, objects, statics, entries, handle, javaMembers, doing,
  libraries, loaded, functions, nativeCall, registered, call, begun, does,
  string, holds, nativeMemory, stringDeeds,
  line, argIndex, properties, jars, launch, count, missing, given, launchDeeds,
  threads, javaAlive, asks,
  agreed, part

numbers == <<operand, cell, java, javaCell, vm, deeds, side>>
arrayVars == <<arrays, memory, javaArrays, exempt>>
code == <<program, currentCode, returnPc, at, javaReturn, passed, state>>
members == <<offset, objects, statics, entries, handle, javaMembers, doing>>
natives == <<libraries, loaded, functions, nativeCall, registered, call, begun, does>>
strings == <<string, holds, nativeMemory, stringDeeds>>
start == <<line, argIndex, properties, jars, launch, count, missing, given, launchDeeds>>
queries == <<threads, javaAlive, asks>>

vars == <<numbers, arrayVars, code, members, natives, strings, start, queries, agreed, part>>

Number == INSTANCE Values WITH Width <- NumberWidth
Array == INSTANCE Arrays WITH Width <- CellWidth, java <- javaArrays, Nobody <- None
Code == INSTANCE ProgramCounter
Member == INSTANCE Members WITH java <- javaMembers
Native == INSTANCE Libraries
Text == INSTANCE NativeStrings WITH memory <- nativeMemory
Start == INSTANCE Launcher WITH Library <- JarFiles
Query == INSTANCE Queries

ASSUME AsJavaAssumption ==
  /\ Number!IsSetting /\ Array!IsSetting /\ Code!IsSetting
  /\ Member!IsSetting /\ Native!IsSetting /\ Text!IsSetting
  /\ Start!IsSetting /\ Query!IsSetting

\* The parts that are not used have one initial state.
Init ==
  /\ part \in {"numbers", "arrays", "code", "members", "natives", "strings", "start", "queries"}
  /\ Number!Init /\ (part # "numbers" => cell.type = "int" /\ deeds = CHOOSE p \in Programs : TRUE)
  /\ Array!Init /\ (part # "arrays" => exempt = CHOOSE p \in ArrayPrograms : TRUE)
  /\ Code!Init /\ (part # "code" => program = CHOOSE c \in Codes : TRUE)
  /\ Member!Init /\ (part # "members" => doing = CHOOSE d \in MemberPrograms : TRUE)
  /\ Native!Init /\ (part # "natives" => does = CHOOSE d \in LibraryPrograms : TRUE)
  /\ Text!Init /\ (part # "strings" => stringDeeds = {})
  /\ Start!Init
  /\ part # "start" => line = (CHOOSE l \in CommandLines : TRUE) /\ launchDeeds = {}
  /\ Query!Init /\ (part # "queries" => asks = {})

\* What the parts before and after one of them have.
Others(own) ==
  /\ own # "numbers" => UNCHANGED numbers
  /\ own # "arrays" => UNCHANGED arrayVars
  /\ own # "code" => UNCHANGED code
  /\ own # "members" => UNCHANGED members
  /\ own # "natives" => UNCHANGED natives
  /\ own # "strings" => UNCHANGED strings
  /\ own # "start" => UNCHANGED start
  /\ own # "queries" => UNCHANGED queries
  /\ own \in {"numbers", "code"} => UNCHANGED agreed

Next ==
  /\ UNCHANGED part
  /\ \/ part = "numbers" /\ Number!Next
     \/ part = "arrays" /\ Array!Next
     \/ part = "code" /\ Code!Next
     \/ part = "members" /\ Member!Next
     \/ part = "natives" /\ Native!Next
     \/ part = "strings" /\ Text!Next
     \/ part = "start" /\ Start!Next
     \/ part = "queries" /\ Query!Next
  /\ Others(part)

Spec == Init /\ [][Next]_vars

-----------------------------------------------------------------------------
(* Properties: see the modules of the parts.                               *)

\* A number is the one that Java has, in Java, in native code and in memory; an
\* array has the elements that it has in Java, and native code reads of a string
\* the units or bytes that JNI has for it.
DataAsJava ==
  CASE part = "numbers" -> Number!NumbersAsJava
    [] part = "arrays" -> Array!ArraysAsJava
    [] part = "strings" -> Text!StringsAsJava
    [] OTHER -> TRUE

\* The interpreter is at the instruction at which Java is, and a thread that goes in
\* circles can be stopped in each of them.
CodeAsJava == part = "code" => Code!GoesWhereJavaGoes /\ Code!CirclesArePolled

\* Names, IDs and offsets lead to the field or method that they have in Java.
MembersAsJava == part = "members" => Member!MembersAsJava

\* A native method runs the function that it has in Java.
NativesAsJava == part = "natives" => Native!NativesAsJava

\* The program that runs is the one on the command line, on a machine that has been
\* started as far as somebody looks.
StartsAsJava == part = "start" => Start!StartsAsJava

\* The class library learns what it would learn in Java.
AnswersAsJava == part = "queries" => Query!AnswersAsJava
=============================================================================
