------------------------------- MODULE Launcher -------------------------------
(***************************************************************************)
(* The start of the machine: the launcher (java/main.cpp), JNI_CreateJavaVM*)
(* and the other functions of the invocation interface, the steps of       *)
(* VirtualMachine::initialize and OpenJDKHandler, and the table of JNI     *)
(* functions that native code is given.                                    *)
(*                                                                         *)
(* A step may fail, at most one in a start.  A behaviour ends when the     *)
(* machine does, or with the first outcome that is not the one of Java.    *)
(***************************************************************************)
EXTENDS Naturals, SequencesExt, TLC

CONSTANTS
  None,
  CommandLines,    \* what the user types: see IsLine
  Setting,         \* what the options of one token set: key and value
  Library,         \* the classes in each jar file
  Directories,     \* for each other class the directories that have its file
  HasMain,         \* the classes with a main method
  Version,         \* the versions of JNI that are asked for
  LaunchPrograms   \* what a user and a program do of what is known to go wrong

\* options: the user gives some.  path: the class is not in the class library.
\* unimplemented: native code calls a function that ends the machine.  env: it
\* wants an interface that there is not.  early: it asks for a machine before
\* there is one.  attach: it attaches a thread.  destroy: the machine is
\* destroyed.
Deeds == {"options", "path", "unimplemented", "env", "early", "attach", "destroy"}

MultiToken == {"-cp", "-classpath"}
LatestVersion == 6
JavaVersions == {2, 4, LatestVersion}

\* A line has options, which have one token or two, and a class, at which argv
\* may end as well.
IsLine(l) ==
  LET then == l.starts \cup {l.class}
  IN /\ l.argv \in Seq(STRING)
     /\ l.class \in 1 .. Len(l.argv) + 1 /\ l.starts \subseteq 1 .. l.class - 1 /\ 1 \in then
     /\ \A i \in l.starts :
          \/ l.argv[i] \in MultiToken /\ i + 2 \in then
          \/ l.argv[i] \in MultiToken /\ i = Len(l.argv)
          \/ l.argv[i] \in DOMAIN Setting /\ i + 1 \in then
     /\ l.class <= Len(l.argv) => l.argv[l.class] \notin MultiToken \cup DOMAIN Setting

\* The class library is in one of these files.
Files == {"rt", "charsets", "jce", "jsse", "management-agent", "resources"}

IsSetting ==
  /\ \A l \in CommandLines : IsLine(l)
  /\ MultiToken \cap DOMAIN Setting = {}
  /\ {jar \in DOMAIN Library : "Class" \in Library[jar]} = {"rt"}
  /\ Files \subseteq DOMAIN Library
  /\ Version \subseteq Nat
  /\ LaunchPrograms \subseteq SUBSET Deeds

VARIABLES
  line,          \* one of CommandLines
  argIndex,      \* of the launcher
  properties,    \* systemProperties of the options
  jars,          \* _javaLibrary: the files that are open
  launch,        \* where the start is
  count,         \* the steps of the initialization that are done
  missing,       \* the steps that have failed
  given,         \* the array of main's arguments
  launchDeeds,
  agreed

vars == <<line, argIndex, properties, jars, launch, count, missing, given, launchDeeds, agreed>>

Outcome(ok) == agreed' = ok

-----------------------------------------------------------------------------
(* The launcher's arguments.                                               *)

argv == line.argv

StartsWithDash(token) == token \in MultiToken \cup DOMAIN Setting

\* init_args: where the options end.
\* Mutation: no option takes the token after it.
EndOfDashes ==
  LET end[i \in 1 .. Len(argv) + 1] ==
        IF i > Len(argv) \/ ~StartsWithDash(argv[i]) THEN i ELSE end[i + 1]
  IN end[1]

EndOfOptions ==
  LET end[i \in 1 .. Len(argv) + 1] ==
        IF i > Len(argv) \/ ~StartsWithDash(argv[i]) THEN i
        ELSE IF argv[i] \in MultiToken /\ i < Len(argv) THEN end[i + 2] ELSE end[i + 1]
  IN end[1]

startClass == argv[EndOfOptions]

\* What the options ask for.
Demanded ==
  {IF argv[i] \in MultiToken THEN <<"java.class.path", <<argv[i + 1]>>>> ELSE Setting[argv[i]] :
     i \in {j \in line.starts : argv[j] \in MultiToken => j < Len(argv)}}

-----------------------------------------------------------------------------
(* Properties and classes.                                                 *)

\* Options::set_property: only if there is none.
SetProperty(set, key, value) == IF key \in DOMAIN set THEN set ELSE (key :> value) @@ set

SetProperties(set, pairs) == FoldLeft(LAMBDA s, p : SetProperty(s, p[1], p[2]), set, pairs)

\* The loop of JNI_CreateJavaVM over the options goes on while i < 0.
OptionsRead == {}

\* VirtualMachine::setup_properties: 24 more are like java.version.
ClassPath ==
  <<".", ";", "C", ":", "/lib/rt", ";", "C", ":", "/lib/charsets", ";", "C", ":", "/lib/jce">>
BasicProperties ==
  <<<<"java.class.path", ClassPath>>, <<"path.separator", <<":">>>>, <<"java.version", <<"1.7">>>>>>

\* OpenJDKHandler::setupProperties: five more.
JdkProperties == <<<<"java.home", <<"C", ":", "/openjdk">>>>>>

\* strtok
Split(path, separator) ==
  LET cut(r, c) == IF c = separator THEN Append(r, <<>>)
                   ELSE [r EXCEPT ![Len(r)] = Append(@, c)]
      pieces == FoldLeft(cut, <<<<>>>>, path)
  IN {pieces[i] : i \in DOMAIN pieces} \ {<<>>}

\* SystemClassFileInputStream: the jar files, then the class path.
InLibrary(class) == \E jar \in jars : class \in Library[jar]

InDirectory(class, entries) == class \in DOMAIN Directories /\ Directories[class] \cap entries # {}

Found(class) ==
  InLibrary(class)
  \/ InDirectory(class, Split(properties["java.class.path"], properties["path.separator"][1]))

\* Java looks into the directories that the user wants, or the current one.
JavaFound(class) ==
  LET wanted == {d[2] : d \in {x \in Demanded : x[1] = "java.class.path"}}
  IN InLibrary(class) \/ InDirectory(class, IF wanted = {} THEN {<<".">>} ELSE wanted)

-----------------------------------------------------------------------------
(* The steps of the initialization.                                        *)

Step(does, of) == [does |-> does, of |-> of]
All(does, row) == [i \in DOMAIN row |-> Step(does, row[i])]

\* VirtualMachine::register_classes
register_classes ==
  All("load", <<"Class", "Cloneable", "Object", "Field", "NullPointerException", "Serializable",
                "String", "System", "Thread", "ThreadGroup">>)

\* java_lang_System::initializeSystemClass
initializeSystemClass == <<Step("initialize", "System"), Step("call", "System")>>

\* OpenJDKHandler::createInitialThread
createInitialThread ==
  register_classes
  \o <<Step("initialize", "Class"), Step("find", "Class constructor"),
       Step("construct", "classes"), Step("construct", "system group"),
       Step("new", "name"), Step("new", "main group"), Step("find", "Thread constructor"),
       Step("initialize", "Thread"), Step("allocate", "thread"), Step("find", "priority"),
       Step("call", "Thread constructor"), Step("register", "Unsafe")>>
  \o initializeSystemClass

\* OpenJDKHandler::initialize
Opening == All("open", <<"rt", "charsets", "jce", "jsse", "management-agent", "resources">>)
OpenJDKHandler == <<Step("library", "java.dll")>> \o Opening \o createInitialThread

\* VirtualMachine::create_error_objects
create_error_objects == <<Step("load", "StackOverflowError"), Step("new", "StackOverflowError")>>

Steps == OpenJDKHandler \o create_error_objects

\* The results of these are not looked at.
\* Mutation: nor is that of initializeSystemClass.
IgnoredWithSystem(step) ==
  step \in {Step("initialize", "System"), Step("register", "Unsafe"), Step("call", "System")}
  \/ step.does \in {"open", "construct"}

Ignored(step) ==
  step \in {Step("initialize", "System"), Step("register", "Unsafe")}
  \/ step.does \in {"open", "construct"}

MayFail(step) ==
  IF step.does = "load" THEN ~InLibrary(step.of) ELSE missing = {}
MaySucceed(step) == step.does = "load" => InLibrary(step.of)

-----------------------------------------------------------------------------
(* The table of functions: JNINativeInterface_, and create_jni_env.        *)

Types == {"Boolean", "Byte", "Char", "Short", "Int", "Long", "Float", "Double"}

CallFunctions ==
  {<<"Call", kind, type, "Method", form>> :
     kind \in {"", "Nonvirtual", "Static"}, type \in Types \cup {"Object", "Void"}, form \in {"", "V", "A"}}
FieldFunctions ==
  {<<access, kind, type, "Field">> :
     access \in {"Get", "Set"}, kind \in {"", "Static"}, type \in Types \cup {"Object"}}
ArrayFunctions ==
  {<<does[1], type, does[2]>> : type \in Types,
     does \in {<<"New", "Array">>, <<"Get", "ArrayElements">>, <<"Release", "ArrayElements">>,
               <<"Get", "ArrayRegion">>, <<"Set", "ArrayRegion">>}}
ClassFunctions ==
  {"GetVersion", "DefineClass", "FindClass", "FromReflectedMethod", "FromReflectedField",
   "ToReflectedMethod", "GetSuperclass", "IsAssignableFrom", "ToReflectedField", "Throw", "ThrowNew",
   "ExceptionOccurred", "ExceptionDescribe", "ExceptionClear", "FatalError", "PushLocalFrame",
   "PopLocalFrame", "NewGlobalRef", "DeleteGlobalRef", "DeleteLocalRef", "IsSameObject", "NewLocalRef",
   "EnsureLocalCapacity", "AllocObject", "NewObject", "NewObjectV", "NewObjectA", "GetObjectClass",
   "IsInstanceOf", "GetMethodID", "GetFieldID", "GetStaticMethodID", "GetStaticFieldID"}
OtherFunctions ==
  {"NewString", "GetStringLength", "GetStringChars", "ReleaseStringChars", "NewStringUTF",
   "GetStringUTFLength", "GetStringUTFChars", "ReleaseStringUTFChars", "GetArrayLength",
   "NewObjectArray", "GetObjectArrayElement", "SetObjectArrayElement", "RegisterNatives",
   "UnregisterNatives", "MonitorEnter", "MonitorExit", "GetJavaVM", "GetStringRegion",
   "GetStringUTFRegion", "GetPrimitiveArrayCritical", "ReleasePrimitiveArrayCritical",
   "GetStringCritical", "ReleaseStringCritical", "NewWeakGlobalRef", "DeleteWeakGlobalRef",
   "ExceptionCheck", "NewDirectByteBuffer", "GetDirectBufferAddress", "GetDirectBufferCapacity",
   "GetObjectRefType"}

Named(names) == {<<name>> : name \in names}
JNINativeInterface ==
  CallFunctions \cup FieldFunctions \cup ArrayFunctions \cup Named(ClassFunctions) \cup Named(OtherFunctions)

\* All of them are entered.
create_jni_env == JNINativeInterface

\* These end the machine; GetDirectBufferAddress looks for a field that OpenJDK
\* does not have.
FatalReflection == {"FromReflectedMethod", "FromReflectedField", "ToReflectedMethod", "ToReflectedField"}
FatalFrames == {"PushLocalFrame", "PopLocalFrame"}
FatalBuffers ==
  {"NewWeakGlobalRef", "DeleteWeakGlobalRef", "NewDirectByteBuffer", "GetDirectBufferAddress", "GetObjectRefType"}
Unimplemented == Named(FatalReflection \cup FatalFrames \cup FatalBuffers)

-----------------------------------------------------------------------------
(* The start.                                                              *)

Go(to) == launch' = to

\* main without a class prints its usage.
Usage ==
  /\ launch = "arguments" /\ EndOfOptions > Len(argv)
  /\ Go("ended")
  /\ Outcome(line.class > Len(argv))
  /\ UNCHANGED <<line, argIndex, properties, jars, count, missing, given, launchDeeds>>

\* init_args, next_argument, and JNI_CreateJavaVM up to the steps that may fail.
CreateJavaVM ==
  /\ launch = "arguments" /\ EndOfOptions <= Len(argv)
  /\ Demanded # {} => "options" \in launchDeeds
  /\ argIndex' = EndOfOptions + 1
  /\ properties' = SetProperties([k \in OptionsRead |-> None], BasicProperties \o JdkProperties)
  /\ Go("initialize") /\ count' = 0
  /\ Outcome(line.class <= Len(argv))
  /\ UNCHANGED <<line, jars, missing, given, launchDeeds>>

\* JNI_GetCreatedJavaVMs reads what the machine is said to be.
GetCreatedJavaVMs ==
  /\ launch # "ended"
  /\ launch = "arguments" => "early" \in launchDeeds
  /\ Outcome(launch # "arguments")
  /\ UNCHANGED <<line, argIndex, properties, jars, launch, count, missing, given, launchDeeds>>

Succeed ==
  /\ launch = "initialize" /\ count < Len(Steps)
  /\ LET step == Steps[count + 1]
     IN /\ MaySucceed(step)
        /\ jars' = IF step.does = "open" THEN jars \cup {step.of} ELSE jars
  /\ count' = count + 1
  /\ Outcome(TRUE)
  /\ UNCHANGED <<line, argIndex, properties, launch, missing, given, launchDeeds>>

\* A step whose result is ignored has failed: the next one follows.
FailUnnoticed ==
  /\ launch = "initialize" /\ count < Len(Steps)
  /\ MayFail(Steps[count + 1]) /\ Ignored(Steps[count + 1])
  /\ missing' = missing \cup {Steps[count + 1]} /\ count' = count + 1
  /\ Outcome(TRUE)
  /\ UNCHANGED <<line, argIndex, properties, jars, launch, given, launchDeeds>>

\* EXIT_FATAL
FailFatally ==
  /\ launch = "initialize" /\ count < Len(Steps)
  /\ MayFail(Steps[count + 1]) /\ ~Ignored(Steps[count + 1])
  /\ missing' = missing \cup {Steps[count + 1]}
  /\ Go("ended")
  /\ Outcome(TRUE)
  /\ UNCHANGED <<line, argIndex, properties, jars, count, given, launchDeeds>>

\* FindClass and GetMethodID; without an answer main returns.
FindMain ==
  /\ launch = "initialize" /\ count = Len(Steps)
  /\ startClass \in DOMAIN Directories => "path" \in launchDeeds
  /\ Outcome(Found(startClass) = JavaFound(startClass))
  /\ Go(IF Found(startClass) /\ startClass \in HasMain THEN "fill" ELSE "ended")
  /\ UNCHANGED <<line, argIndex, properties, jars, count, missing, given, launchDeeds>>

\* next_argument, NewStringUTF and SetObjectArrayElement.
FillArguments ==
  /\ launch = "fill" /\ argIndex <= Len(argv)
  /\ given' = Append(given, argv[argIndex]) /\ argIndex' = argIndex + 1
  /\ Outcome(TRUE)
  /\ UNCHANGED <<line, properties, jars, launch, count, missing, launchDeeds>>

\* CallStaticVoidMethod.
CallMain ==
  /\ launch = "fill" /\ argIndex > Len(argv)
  /\ Go("main")
  /\ Outcome(\A d \in Demanded : d[1] \in DOMAIN properties /\ properties[d[1]] = d[2])
  /\ UNCHANGED <<line, argIndex, properties, jars, count, missing, given, launchDeeds>>

-----------------------------------------------------------------------------
(* While main runs.                                                        *)

Stays == UNCHANGED <<line, argIndex, properties, jars, launch, count, missing, given, launchDeeds>>

\* Native code calls a function of the table.
CallFunction(function) ==
  /\ launch = "main"
  /\ function \in Unimplemented => "unimplemented" \in launchDeeds
  /\ Outcome(function \in create_jni_env \ Unimplemented)
  /\ Stays

\* GetEnv has no error for another version, nor for a thread that is not attached.
GetEnv(attached, version) ==
  /\ launch = "main"
  /\ (attached /\ version \in JavaVersions) \/ "env" \in launchDeeds
  /\ Outcome(attached /\ version \in JavaVersions \cup {1})
  /\ Stays

\* jni_version_supported
IsSupportedJNIVersion(version) ==
  /\ launch = "main"
  /\ version \in JavaVersions \/ version > LatestVersion \/ "env" \in launchDeeds
  /\ Outcome((version <= LatestVersion) = (version \in JavaVersions))
  /\ Stays

\* A new thread's Java object is made before the thread has an executor; an
\* attached one gets a second VMThread and is counted twice.
AttachCurrentThread ==
  /\ launch = "main" /\ "attach" \in launchDeeds
  /\ Outcome(FALSE)
  /\ Stays

\* main returns, or throws: the thread is detached.
DetachCurrentThread ==
  /\ launch = "main" /\ "destroy" \in launchDeeds
  /\ Go("destroy")
  /\ Outcome(TRUE)
  /\ UNCHANGED <<line, argIndex, properties, jars, count, missing, given, launchDeeds>>

\* wait_for_threads stops the threads of the collector and the finalizer, which
\* init_gc would make, but nobody calls it.
DestroyJavaVM ==
  /\ launch = "destroy"
  /\ Go("ended")
  /\ Outcome(FALSE)
  /\ UNCHANGED <<line, argIndex, properties, jars, count, missing, given, launchDeeds>>

-----------------------------------------------------------------------------
Init ==
  /\ line \in CommandLines /\ launchDeeds \in LaunchPrograms
  /\ argIndex = 1 /\ properties = <<>> /\ jars = {} /\ launch = "arguments"
  /\ count = 0 /\ missing = {} /\ given = <<>>
  /\ agreed = TRUE

Next ==
  /\ agreed
  /\ \/ Usage \/ CreateJavaVM \/ GetCreatedJavaVMs
     \/ Succeed \/ FailUnnoticed \/ FailFatally
     \/ FindMain \/ FillArguments \/ CallMain
     \/ \E function \in JNINativeInterface : CallFunction(function)
     \/ \E version \in Version : IsSupportedJNIVersion(version) \/ \E attached \in BOOLEAN : GetEnv(attached, version)
     \/ AttachCurrentThread \/ DetachCurrentThread \/ DestroyJavaVM

Spec == Init /\ [][Next]_vars

-----------------------------------------------------------------------------
(* Properties.                                                             *)

TypeOK ==
  /\ line \in CommandLines /\ argIndex \in 1 .. Len(argv) + 1 /\ count \in 0 .. Len(Steps)
  /\ jars \subseteq DOMAIN Library
  /\ launch \in {"arguments", "initialize", "fill", "main", "destroy", "ended"}

\* Of these steps nobody notices that they have failed.
Unnoticed ==
  {step \in ToSet(Opening) : step.of # "rt"}
  \cup {Step("construct", "classes"), Step("construct", "system group"),
        Step("register", "Unsafe"), Step("initialize", "System")}

\* The class of which main is run is the one on the command line, and main gets
\* the arguments after it, whatever options are before it; and it runs only if
\* every step of the start has succeeded but the few that are Unnoticed.  The
\* program has the properties that the user wants, and its native code gets the
\* functions and interfaces of JNI, unless something is done that Deeds lists:
\* options are not read, the class path is cut at the wrong sign, some functions
\* end the machine, GetEnv fails silently, threads cannot be attached, and the
\* machine cannot be destroyed.
\* (The types of the variables are checked on the way.)
StartsAsJava ==
  /\ TypeOK
  /\ launch = "initialize" => startClass = argv[line.class]
  /\ launch = "main" => given = SubSeq(argv, line.class + 1, Len(argv)) /\ missing \subseteq Unnoticed
  /\ launchDeeds = {} => agreed
=============================================================================
