# coldspot, specified in TLA+

coldspot is a Java virtual machine in C++: a switch-case interpreter, a class
loader, a mark and sweep collector with a finalizer thread, monitors and
threads on top of POSIX threads, and JNI with the glue for OpenJDK's class
library. This directory holds TLA+ models of its parts, the configurations with
which TLC checks them, and theorems about them that TLAPS proves: the parts in
which threads meet, interleaved at the grain of the code's shared accesses, and
those that one thread sees, beside what the Java virtual machine specification
and JNI have for the same program. Paths below are relative to
`src/src/jvm/`; the configuration that is modelled is the one the build files
select, POSIX threads and OpenJDK.

* [Inventory](#inventory)
* [Modules and the code they model](#modules-and-the-code-they-model)
* [Runs](#runs)
* [Fairness](#fairness)
* [Proofs](#proofs)
* [Disagreements between code and documentation](#disagreements-between-code-and-documentation)
* [Not modelled](#not-modelled)
* [Plan](#plan)

To check everything of one component, for instance the monitors:

    tlc -config Monitor.cfg Monitor
    tlapm ObjectProofs.tla

## Inventory

| part | state it keeps | operations | correct if |
|---|---|---|---|
| **Object monitors** `Monitor`, `thread/Mutex`, `thread/Condition` | a recursive pthread mutex, a pthread condition, `_owner`; the state of the calling thread | `enter`, `try_enter`, `exit`, `notify`, `notify_all`, `wait` | two threads are never inside; the owner is never refused; a wait gives the monitor up and restores it; nobody is locked out |
| **Stopping and resuming threads** `VirtualMachine::suspend_vm_threads`, `resume_vm_threads`, macros of `thread/Thread.hpp` | per thread: `_state`, `_wait_requested`, `block_mutex`; the thread list | safepoints, entering and leaving native code and JNI functions, suspension, resumption | nobody runs in the virtual machine while the collector works; a collection ends and lets go of everybody it has stopped |
| **Life cycle of threads** `thread/Thread`, `thread/VMThread`, `VirtualMachine::attach_thread`, `detach_thread`, `wait_for_threads` | the thread list, `_non_daemon_thread_count`, `_native_thread`, `_state` | start, attach, detach, stop, join, wait for all | the process does not end before the last non-daemon thread, and does end then |
| **Initialization of classes** `ClassLoader::initialize_class` and its callers | `initialized` per class, the recursive `_load_mutex` | initialize, use, throw | each static initializer runs once, after that of the superclass; nobody uses a class half-initialized by another thread; no deadlock |
| **Frames and exceptions** `execution/Executor`, `class/Method`, `execution/Interpreter` | the frame stack, the C++ stack, monitors of synchronized methods, `_uncaught_exception` | invoke, return, throw, unwind, native throw and clear, stack overflow | frames and C++ calls correspond; locks are balanced; exceptions land in the handler the Java specification names |
| **Collector, allocator, finalizer** `memory/` and `thread/FinalizerThread`, `thread/GCThread` | the container of objects, their marks, two finalizer lists, the object graph | allocate, mark, move, finalize, delete | what can be reached stays; the rest is finalized once, then deleted |
| **Instructions** `execution/Interpreter.cpp`, `Value.hpp`, `NativeCall` | operands, local variables and program counter of a frame | some 200 instructions | they compute what the Java specification says, and go on where it says; loops can be stopped |
| **Loading, linking, resolution** `class/` | the tables of classes, their run-time constant pools, sizes, resolved members | load, define, link, prepare, resolve, look up, cast | a class is linked whole or not at all, and is one class; sizes add up; lookups, casts and calls follow the specification |
| **Class files** `classfile/` | the records of a class | read | records equal the bytes; a flaw is noticed |
| **JNI** `jni/`, `NativeCall`, `LibraryBinder` | local and global references, libraries, functions found | about 230 functions | references keep objects alive, and no longer than they should; members, strings and arrays are those of Java; a native method runs the function that Java has for it |
| **OpenJDK port** `jdk/openjdk/` | the class library's objects made at the start | about 300 `JVM_` and `Unsafe_` functions | answers as in Java; offsets tell fields apart |
| **GNU Classpath port** `jdk/classpath/` | none of its own | a second, unused port | |
| **Objects, arrays, wrappers** `Object`, `Array`, `java/` | fields and elements in memory, the lazily created monitor | get, set, create, copy, clone, `ensure_monitor` | one monitor per object; an array keeps to its memory; bounds are checked |
| **Containers and strings** `common/`, `utf*_string` | lists, hash maps, stacks, the heap container, the pool of strings | put, remove, push, pop, add, erase, intern | as the abstract container; one string for one literal |
| **Launcher and options** `../java/main.cpp`, `Options.hpp`, the invocation interface | options, open jar files, the steps of the start that are done | parse, create the machine, find and call main, attach, destroy | main of the class that was named runs with its arguments, and only in a machine that has been made |
| **System layer** `system/`, `io/` | none | | |

How they interact. An interpreter thread calls methods (frames), which enter
monitors, ask for classes to be initialized (which runs more methods, with
`_load_mutex` held) and allocate objects. The collector thread, when more than
100 objects were added, locks the thread list, suspends all threads, reads
their frames, moves unused objects to the list of the finalizer thread, and
resumes them. The finalizer thread runs Java code like any other thread.
Monitors, mutexes and conditions write the state of the thread that sleeps in
them; the suspension reads it. Threads start threads and wait until these have
set their state. The launcher detaches the main thread and waits for the
others, by a counter and by joining them.

What is hard. Nearly everything that threads share besides the containers is
read and written without locks: `_owner`, `_state`, `_wait_requested`,
`_monitor`, `initialized`, the counter of threads. There are two stacks that
have to be unwound in step. The collector decides about threads by looking at
their state and their top frame. Classes that name each other are linked in the
middle of each other. A value carries its type with it, which the class file does
not have, and memory carries none. The start and the port drop results where
nobody looks again. `PROJECT.json` lists the hazards one by one
with their lines and the properties that watch them.

## Modules and the code they model

Every module names the code of each action by keeping its names; `PROJECT.json`
has the lines of each definition.

**JavaMonitor** is the abstract specification: an owner, a number of entries,
a wait set and the threads that are notified and want the monitor back, with
the entries they had. It is what a Java program expects of an object.

**Monitor** is the code. The variables `holder` and `count` are the pthread
mutex, `owner` is `Monitor::_owner`, `pc` says where in `enter`, `exit` or
`wait` a thread is, and `state` is the state it announces. `nest` counts the
entries of a thread's own code, `result` is the return value. `enter` is three
steps (`EnterCall`, `Acquire`, `EnterReturn`), since `_owner` is written when
the mutex is held already and is read by others at any time; `exit` is two
(the check of `_owner`, then the unlock), `wait` four. `vm = "exited"` is
`EXIT_FATAL` of `Mutex::unlock`. A timeout is dropped by the code (`Monitor.cpp:110`,
the TODO in `Condition.cpp:99`), and so it is here. `Rogue` threads call `exit`,
`notify` and `wait` without being inside; `NestedWait` allows a wait in nested
synchronized code.

**VMThreads** has what the next two modules share: the state, the place and the deeds of
the threads of the virtual machine.

**Safepoint** is how the collector stops the threads. A mutator is in Java code, in native code, in
the guarded part of a JNI function, or on its way between them (`pc`). `invokeNative` has its
places: the frame is pushed before it has its `localReferences` (`ToNative`, `CallNative`), and when
the function has returned the frame is popped and the result pushed (`NativeReturns`, `PopFrame`,
`PushResult`) before the next safepoint is reached; at most of them the collector takes the thread
for one in native code. The initial thread has no frame while it is in the embedder's own code. The
finalizer thread writes its own state and goes on without asking. The collector walks the list of
threads three times (`gc`, `todo`, `cur`), to lock and request, to wait, and to resume. The order of
the list is any order. What the program does is fixed from the start by the variable `deeds`: locks,
native code, callbacks, exceptions out of native code, spurious wakeups, a finalizer thread.

**ThreadLifecycle** is `Thread::start` and `threadStart`, the steps of
`attach_thread` and `detach_thread` with the counter as load and store of
modulus `Modulus`, and the loop of `wait_for_threads`, with a first non-daemon
thread that may have ended. `deeds` says whether two threads meet in the counter,
whether a join of a thread that has detached (of which the code has no more than 0, or freed
memory) may end the process, and whether collections remove terminated threads from the list.

**ClassInit** is `ClassLoader::initialize_class`. `stack[t]` holds the nested
activations of thread `t`, one for each class in initialization; a static
initializer is Java code and may ask for any class. `using` is the class that a
thread goes on to use because it is sure of it. `deeds` allows static
initializers to throw, and code that tests the flag without the mutex.

**Frames** has the two stacks of one thread: `memory` and `top` are the stack of
frames, with the popped ones still in memory, as the C++ calls in `calls` read
them (`frame->valid`) after they have been popped. An action is an instruction
or a part of native code; `Unwind` is `throw_exception`. Instructions are one
byte long. `deeds` allows the three situations in which the code goes wrong
(below).

**Collector** has the three containers an object passes (`heap`, `in`, `out`),
the finalizer's `current` list, the marks, and a graph with one reference per
object that the program (while it runs) and finalizers change. `MarkAndMove`
is one collection up to `moveUnusedObjects`; the second step, `RemoveFinalized`,
ends it, and the finalizer thread may move its list in between. `deeds` as
above.

**Interpreter** is the instructions by the types they pop and push. An operand is
one `Value`, a `long` as well as an `int`; where the class file counts in words
(`dup2`, `pop2`, the numbers of local variables, arguments), the code looks at
the tag of the value it finds. `Instructions` collects the ones that pop some
types and push another, in the order of the interpreter's cases, with the
number left open; the ones that move operands of any type, local variables,
calls and exceptions have actions of their own. Programs are those a verifier
admits. `readable` is not in the code: it says which local variables may still
be read.

**WordFrames** is the abstract specification for it: stacks and local variables
of words, where no instruction asks for a type. `Interpreter` maps its frames to
words (`InWords`) and each of its steps to one of `WordFrames`.

**Values** is the numbers: the tag and the one 64-bit word of `Value`, the narrow
memory of fields and elements, arithmetic, shifts, conversions and comparisons.
Beside the operand and one cell of memory runs what the Java specification has
there (`java`, `javaCell`), computed from definitions of its own. A double is a
small integer or NaN. Shifts take the low bits of the distance, as the shift
instructions of x86 and ARM do; C++ leaves it open.

The other half of the module is native code: a number is passed through
libffi to a native method and returned from it, comes back as an argument of
`Call<Type>Method`, is read and written by `Get`/`Set<Type>Field` and by `Unsafe`,
which also compares and swaps it; `side` says where it is.

**ProgramCounter** is the `switch` of the interpreter as a reader of bytes: `Codes`
are programs as Java sees them, `currentCode` the byte at which the code is, `at`
the instruction at which Java is. The tables `Length...` have the bytes that each
case reads, by the initial of the instruction. A byte has eight values here.
`passed` has the places that were reached since the last `SAFEPOINT`: when one is
reached twice, a collector could wait for good.

**References** is the local references of frames and of the virtual machine and the
global ones, as bags, since a list has an address as often as it was added. JNI
functions take as many steps as they have parts outside `THREAD_BLOCK`. What a
program has been given and has not given back is `held`, of which the code knows
nothing; the collector marks from the lists. A native frame is there before its list
(`Push`, `SetLocalReferences`), and gone before its caller has the result or the exception
(`NativeReturn`, then `PushResult`, `Rethrow` or the reference that `Call<Type>Method` makes):
an object that a collection finds in between is `unlisted` from then on.

**Linking** is `ClassLoader`: a class is entered in the table before it is linked,
`stack` holds the nested calls, and a Java loader runs Java code in between. `DefineClass`
takes no lock: `LookOutside` and `EnterOutside` are its look at the table and what it puts
there, with other threads' loading between them, and `DefineNameless` is the definition that
looks for no name. `entered` has what was put in the table past another class; what a machine
with two classes in one place does then is not followed. The last part of the module has the
questions that are asked about linked classes: casts, lookups, and which method a call runs.

**ClassFile** is the reader: `todo` is what it has still to read, the calls under
way included, `trace` the numbers that it has taken from the file, with their widths. No
stream tells the reader that the file is over: behind the last byte it gets whatever is in
memory (`stray`), and goes on with it, or never comes back if the file is an entry of a jar
file (`Endless`).

**HashMap, LinkedList, DynamicStack, Heap** and **StringPool** (with **Encodings**)
are the containers, each beside the function, sequence, stack or set it stands for;
**Containers** puts them side by side for one run: a behaviour uses one of them.

**Arrays** has memory as a row of cells in which the arrays lie one behind the
other, so that what is written beyond one is found in the next; `java` has the
arrays that Java has. It covers `newarray`, `multianewarray` and the classes of
arrays, loads and stores, the regions and elements of JNI, `arraycopy` and `clone`.

**Members** is how a program gets at fields and methods: the entries of the constant
pool, the maps of resolved members, IDs, reflection, and offsets. Fields lie in the
memory of objects and classes at the offsets that `allocate_object` and
`prepare_class` compute.

**Libraries** is `LibraryBinder`, `invokeNative`, the names of native functions,
`RegisterNatives` and `JNI_OnLoad`, with several threads. **NativeStrings** is the
copies of strings that native code gets. **Launcher** is `main`, the options, the
class path, each step of `initialize`, of which one may fail, the invocation
interface, and the table of JNI functions. **Queries** is what the class library
asks the machine, and the functions that only log that they were called.

**AsJava** puts these eight side by side for one run, as `Containers` does. In each, `agreed`, or a
comparison of two states, says that the last operation had the outcome that it has in Java, and a
behaviour ends with the first that had not: what a program does after its first wrong number is not
explored.

**ClassInitProofs, FramesProofs, ReferencesProofs, LinkingProofs, ContainersProofs** and
**AsJavaProofs** hold the theorems about the modules that they are named after, **ObjectProofs**
those about `Monitor` and `Collector`, **ThreadProofs** those about `Safepoint` and
`ThreadLifecycle`, the **MC** modules those values of constants for TLC that a configuration file
cannot write.

### The variable `deeds`

Several modules fix in the initial state what the modelled program does, and
state a property for the programs for which the code keeps it: `StopTheWorld`
is claimed for programs that do not take locks, and so on. The model has
the other programs as well, in the same run where this is affordable, so that
the types and the unconditional properties are checked of them too. In the parts
of `AsJava` and `Containers` the set of deeds (`exempt`, `doing`, `does`, `asks`,
`launchDeeds`, ...) says what a program does of what is known to differ from Java;
each deed is explained where it is defined.

## Runs

| run | module, configuration | states | what it shows |
|---|---|---|---|
| `monitor` | `Monitor`, `Monitor.cfg` | 7 016 | three threads, two entries each: exclusion, the owner is never refused, waits release and restore, the code implements `JavaMonitor`, and somebody who wants the monitor gets it |
| `safepoint` | `Safepoint`, `Safepoint.cfg` | 263 094 | two threads and three kinds of programs: nobody uses objects during a collection in programs of Java code without locks, nobody runs Java code in it in those with native methods, everybody is let go and nobody else, collections end |
| `lifecycle` | `ThreadLifecycle`, `ThreadLifecycle.cfg` | 503 655 | four threads, one a daemon: the virtual machine does not end early, at whatever place the wait is, and does end |
| `classinit` | `MCClassInit`, `ClassInit.cfg` | 25 100 | two threads, three classes, any program: initializers run once, superclass first, and do not deadlock |
| `frames` | `MCFrames`, `Frames.cfg` | 459 153 | four methods, stack of up to four frames: stacks correspond, locks are balanced, exceptions find their handler |
| `collector` | `Collector`, `Collector.cfg` | 102 240 | three objects created again and again: what is reached stays, the rest is finalized, then deleted |
| `interpreter` | `MCInterpreter`, `Interpreter.cfg` | 23 525 | five methods, values of three types: what the code does by tags comes to what the class file means in words, on the stack and in local variables, over calls, returns and exceptions |
| `references` | `MCReferences`, `References.cfg` | 1 497 050 | a thread with two frames and one without, two objects, two references: what is held and listed stays, lists have what is held, and the collection takes exactly the rest |
| `linking` | `MCLinking`, `Linking.cfg` | 90 481 | six sets of classes that name each other, loaded in any order by the bootstrap loader and a Java loader: linked whole or broken, none inside itself, sizes add up, casts as in Java, a call runs a method of its object, a class stays one class unless `DefineClass` replaces it |
| `classfile` | `MCClassFile`, `ClassFile.cfg` | 93 195 | files with every kind of entry, attribute and frame, with each flaw, and cut off: they are read as written, and a flaw is noticed, but for the missing end |
| `containers` | `MCContainers`, `Containers.cfg` | 1 455 322 | every sequence of operations on five containers at their limits: lists, frames on the stack and the array of objects keep what was put in (`NothingIsLost`); each key has one entry, and equal literals are one string (`OneForEach`) |
| `asjava` | `MCAsJava`, `AsJava.cfg` | 66 578 | numbers, arrays, strings, code, members, native methods, the start and the questions of the class library: every outcome is that of Java |

The longest runs, `references` and `asjava`, take about three minutes on two cores.

Bounds, and why they are enough.

* *Monitor*: two entries (`MaxNest = 2`) tell the first from an inner one, which
  is all the mutex does. Three threads allow an owner, one that waits and one
  that takes the monitor between. Arguments of `wait` are -1, 0 and 1, which the
  code tells apart by their sign.
* *Safepoint*: a thread is affected only by the collector and by the thread whose
  lock it wants, so that two mutators meet all cases. The programs are one with Java code only, one with
  native code and spurious wakeups, and one that does everything and has a finalizer.
* *ThreadLifecycle*: the launcher's thread, two others and a daemon, each can
  start each other one; the counter has modulus 5, so that it cannot wrap with
  four threads unless an update is lost, as with the 2^32 of the code.
* *ClassInit*: a subclass, its superclass and an unrelated class make all cycles
  of static initializers up to length three; two threads suffice for one mutex.
* *Frames*: one frame fewer than the full stack, the full one, and one beyond
  (`Capacity = 3`, `Depth = 4`); an exception has to pass up to three frames. The
  four methods are: one with nothing, a synchronized one with a handler in the
  middle, one whose handler covers its first instruction, and a native
  synchronized one. Handlers tell two classes of exceptions apart.
* *Collector*: three objects make chains, trees and cycles, with one object on
  each of the finalizer's lists and one in use.
* *Interpreter*: two frames; a method `shuffle` with six words, which every form of
  `dup2_x2` fills, with four narrow, two wide and mixed operands, and a method
  `main` with four, so that operands stay below the arguments of a call; two
  longs, null and an object, so that operands in the wrong order differ; `int`, `long`
  and `reference` stand for the types, of which the code tells apart the wide from the
  others; callees with a wide parameter before a narrow one, with an object before a
  wide one, and a native one.
* *References*: an object that is held twice, and one that is not, tell a list from
  a set; two frames tell the reference of a caller from that of a callee; the second
  thread has no frames, as the launcher, and uses the list of the virtual machine.
* *Linking*: a superclass and its subclass, with fields of each other and of arrays of
  each other; an interface that extends one; a class that is missing; a missing class
  that `java/lang/Class` itself needs; a loader of the program.
* *ClassFile*: bytes are numbers of a small range and the counter of 8 bits has four
  values, so that lists at and beyond its limit are short. What is found behind the end is 0 or 1
  (`Strays`), and the reader is followed there for 12 bytes (`Beyond`), which is more than what is
  missing of any of the files.
* *Containers*: five keys of which four meet in a bucket, through growth from four
  buckets to seven and back; four nodes; a stack with room for three frames; six objects in a heap
  with seven places; two threads that intern texts of up to two units with one, two and
  three bytes each, and the zero.
* *AsJava*: boolean and byte 1 bit, char and short 2, int and float 3, long 4, so that each
  integral type is properly narrower than the next; doubles on both sides of int's range; two arrays in six cells,
  of elements of one and two cells, with lengths up to and beyond memory; code with
  every instruction that does not jump, and with every kind of jump, switches at each
  remainder of four; a class, its superclass, an interface and two objects; three
  libraries, four native methods of which two share a name, two threads; strings of two
  units; eight command lines; six kinds of classes.

Deadlock is checked where the system always has a step to take (`Monitor`,
`Collector`, `ClassInit`, `Frames`, `Interpreter` as their configurations say). In
`Safepoint.cfg` all threads may have ended or block each other, in
`ThreadLifecycle.cfg` the virtual machine ends, in `References.cfg` the bound on
references may be reached, in `Linking.cfg` and `ClassFile.cfg` everything is loaded or
read, and in `Containers.cfg` and `AsJava.cfg` a bound is reached or an outcome
differs: there `CHECK_DEADLOCK FALSE`.

## Fairness

All fairness is of single threads that the operating system runs, weak except
where said.

* *Monitor*: steps inside the monitor's functions are taken, and programs leave
  what they enter. POSIX gives no order among the threads that want a mutex, so
  that acquisition is weakly fair only and the property (`NoLockout`) says that
  *somebody* gets the monitor, not that everybody does.
* *Safepoint*: the collector proceeds, Java code reaches its next safepoint and gives
  locks back. That it reaches one is what `CirclesArePolled` of `ProgramCounter` says of
  the interpreter: every backward branch polls, but those of switches do not, so that the
  fairness is of programs whose loops have another. Native
  code need not return, hence `CollectionEnds` is stated for Java-only programs.
* *ThreadLifecycle*: attaching, detaching and the wait proceed. A run method need
  not return, nor a thread start another.
* *ClassInit*: threads proceed. A static initializer ends, which is strong fairness
  of `Ends`, since it may use other classes again and again, between which its
  end is not enabled.
* *Collector*: a collection that has begun ends, and finalizers return, again with
  strong fairness because collections (which the collector thread starts 250 ms
  apart at least) interrupt the finalizer.

## Proofs

The theorems hold for every value of the constants that the named assumptions
allow: any number of threads, any nesting, any mixture of programs.

**ObjectProofs** of `Monitor`. `TypeCorrect` and `Exclusion` assume nothing of the clients. The
invariant behind `Exclusion` relates the mutex to the program counters: if a
thread is inside, or between the acquisition and its return, it is the holder,
and the count is positive exactly if there is a holder. It is needed because
`_owner` says nothing about who is inside: it is not cleared, and it is written
after the acquisition. For clients that are `Honest` (no `Rogue`), a stronger
invariant adds that the count is the number of entries, plus or minus one in the
middle of a function, and that `_owner` is the holder whenever the holder is in
its own code; hence `HonestNeverRefused`, `HonestNoFatal` and
`HonestWaitRestores`. If they also wait with one entry only, `SingleWaitReleases`
and `Implementation` follow: every step is a step of `JavaMonitor` or a stutter.
`StateIsTrue` (`StateTellsBlocking`) assumes nothing of the clients: the invariant says
for every place of the three functions which state the thread has announced there.

**ThreadProofs** of `Safepoint`. `TypeCorrect`; `NeverFatal` and `EverybodyReleased` (the two parts of `AllReleased`) from an invariant about whom the collector has locked in each phase, which has to
allow for threads that end meanwhile, the finalizer among them; `WorldStops` (`StopTheWorld`), for
programs that use native code and wake up spuriously but do not take locks, call back or throw in
native code, and without the finalizer: each thread the collector has passed in its second walk is
either at a place of a native call, behind a `block_mutex` that the collector holds, or has its wait
requested and is on its way to sleep or asleep. Without native methods that means that nobody uses
objects. With them it means less: nobody runs Java code or is between `THREAD_BLOCK` and
`THREAD_UNBLOCK`, while `invokeNative` goes on at both ends of the function.

**ThreadProofs** of `ThreadLifecycle`. `NobodyLeftBehind` (`NoEarlyEnd`): the counter equals
the number of non-daemon threads between their increment and their decrement,
and a thread that starts another stays counted until the other one is; so neither the end of the
wait nor anything in the middle of it is the end of the virtual machine before they are gone,
provided that a join of a detached thread comes back. That needs
facts about cardinalities, which come from `FiniteSetTheorems`, and the assumption
that there are fewer threads than the modulus.

**ClassInitProofs.** `TypeCorrect`, `SuperclassFirst` (`SuperFirst`), `UseIsSafe` (`SafeUse`)
and `RunsOnce` (`OnceOnly`), for any number of threads, any classes and any assignment of
superclasses. The invariant has five parts. `MutexInv` says how activations of
`initialize_class` lie under the mutex: whoever has passed the check of the flag owns it, and an
activation that waits for it is the innermost. `WorkInv` relates activations to flags and static
initializers, and has no class worked on twice. `CompleteInv` (a class with its flag set is ready
or worked on), `SuperInv` and `UseInv` are about programs whose static initializers do not throw.
They are needed because the flag alone says nothing: it is set before the work is done.

**FramesProofs.** `CallsMatchFrames` (`EveryCallHasItsFrame`), `LocksAreBalanced`
(`LocksBalanced`), `GoesOnRight` (`GoesOnInHandler`) and `HandlersAreRight` (`RightHandler`),
for any methods, exception tables and depths, and for every program that is calm (it stores
nothing badly where its own method has no handler, and overflows no stack in a method that
catches that at its start).
`Good` adds to the correspondence of calls and frames: the calls above the stack's top are of Java
methods (so native code, which does not look at the error, never goes on without a frame);
if a call has failed, the frame on top is native or in a handler; and if no instruction at the edge
of a range throws, no frame below the top has called from such an edge, so that the advanced
program counters with which `throw_exception` searches lead to the same handlers as the ones of the
Java specification. `UnwoundRight` says once what `throw_exception` does, for the four
places that call it.

**ObjectProofs** of `Collector`. `LiveAreKept` (`LiveStayInHeap`) and `CollectionIsExact`
(`CollectsExactly`). An object is in one place at a time, and references lead from a stage of an
object's life to the same or an earlier one, the container of all objects being the first; so an
object is deleted only after all that refer to it. That what is reached is not deleted is not
inductive by itself, since an object on the finalizer's lists refers to others that nobody else may
reach. `Closure` takes the least of the sets that are closed under references, so that no induction
over paths is needed.

**ReferencesProofs.** `ListsAreRight` (`ListsHoldTheHeld`), `HeldIsAlive` (`HeldStaysAlive`) and
`CollectionIsExact` (`CollectsExactly`). The lists are bags, and the invariant counts: of each
object that has been listed, the list of a frame has as many copies as the frame holds, and the list
of the virtual machine as many as all code outside frames; of the others no more. Everything held,
and everything that is on its way to a caller or to a list, is in the container or not listed; a
collection that takes an object on its way makes it unlisted. The invariant has the container and
the set of unlisted objects as parameters: the steps that change these only enlarge the one or the
other, or leave what is held.

**LinkingProofs.** `LinkingCorrect`, and from it `LinkingNested` (`NoneInItself`), `LinkingComplete`
(`LinkedOrBroken`) and `LinkingKeeps` (`KeepsIdentity`, for each step, the replacing ones included),
for any classes, interfaces and arrays that name each other in any way, any loaders and any order of
requests. `ProgramsAssumption` says what a set of class files is: no interface is named twice in a
class, no method declared twice, and the names of the machine's own classes are not those of arrays.
`ArraysAssumption` has the dimensions of an array bounded, so that the component of an array has
fewer. The invariant `LinkingInv` holds until a definition without a name or a lock has replaced a
class (`Alone`), after which nothing of this kind is true. It has a part for each thing that has to
be known of the nested calls. `Table` and `CallsOK` are about a class and its call: how much of the
class is there follows from the step that its call has come to (`Progresses`), and a class without a
call is finished or broken. `Nested` says that each call lies on the one that has asked for it, and
that a class is entered in the table before it asks for others; for that reason no class can be
asked for a second time while it is linked (the second request finds the entry), and only arrays,
which are entered at the end, can be under way twice. `Instances` relates classes to their
`java/lang/Class` objects: `sweep` comes after the classes that were linked before `java/lang/Class`
itself. `Returned` is about the answer that the innermost call has left for the one below it.

`LinkingReaches` (`RunsOnItsObjects`) and `LinkingSizes` (`SizesAdd`) have a hypothesis about the
class files that the code does not check: no class is above itself (`SupersEnd`), and, for the
sizes, superclasses are classes or interfaces (`SupersAreClasses`). Compilers give no others, and
TLC finds the six programs of the run to be such (`SupersAssumption`). With a class above itself
both are false: the class is then its own subclass, so that `Method::invoke` takes a call on an
object of the class for one of `super`, and sizes have no end. For `LinkingReaches` the chain of
superclasses is climbed from three places: from the class that is named, where `lookup_method` finds
the declaration; from the object's class, for `lookupVirtual`; and from the caller's superclass, for
`lookupSpecial`, which meets a declaration no lower than the caller and no higher than the one that
was found, and so one that the object's class inherits, if that is the caller's or below it.
`SupersNamed` adds to `LinkingInv` that the superclasses in the table are those of the files, so
that the chain that `Chain` climbs has no class twice, and ends before it has run out of classes.
`SizesInv` says what the size is of a class whose fields are not all there: that of the fields so
far, and that of the superclass, once it is there and has all of its own. Without that exception
(`early`) the sum is not kept. `OwnSize` and `SizesAdd` add by folds, in an order that `CHOOSE`
takes; `SumIs` has any such order yield the sum.

**ContainersProofs.** `ContainersKeepAll` (`NothingIsLost`) is made of one theorem for each of three
containers. `HeapIsSwept` (`SweepMovesEach`): each object is in one place of the array or of the
list that it is moved to, and what a sweep has passed is marked. At least `Least` objects stay in
use, without which `erase` may shrink the array to three places, of which `allocate`'s five quarters
are three again (deed `small`). `HeapAssumption` has an initial capacity of at least 4, which is
1000 in the code. `ListIsSequence` (`ListAsSequence`): the nodes of a list are a path, in the order
of its elements, and nodes that are not in it are bare; an iteration is then the path itself,
forwards or backwards, because two walks that begin together and take the same steps are one
(`SameWalk`). `FramesAreFound` (`FramesStayIntact`), for calls without deeds: the last word below
each mark is the size of the frame there, each frame begins where the one below it ends, none begins
in the reserve, and no Java frame reaches into it; that a native frame called from a Java one stays
in memory needs the assumption that two usual frames fit in the reserve.

`ContainersHaveOne` (`OneForEach`) has a half for the map and one for the pool of strings.
`MapInv`: the table is `Filed` (each entry in the bucket of its key, each key in one entry), it
`Has` exactly what has been put, and `size` is the number of its entries. `ResizeIs` takes the fold
apart that puts all entries in a new table: it adds one entry to what it has put so far
(`PutUpto`), and since a new table has room for any number of entries in a chain, none is lost.
`VisitIs` has the iterator at entry `n + 1` of the flattened buckets after `n` steps, across
buckets that are empty. `PoolInv` holds for threads that ask one after the other: each string has
a text of its own and is in the pool under its bytes, and what is being created is not there yet.
It needs that the bytes of texts are different and are the ones that compilers write:
`BytesAre` goes through units of one, two and three bytes, `CStringIs` has no zero among them,
and `ReadIs` has a text become itself again, from the last unit back to the first.
With two threads at once (deed `race`) the pool has two strings of one text.

**AsJavaProofs.** Three of the parts of `AsJava`, for any libraries, classes, stacks and command
lines. Each has an invariant that is claimed while its part runs.

`NativesHaveJava` (`NativesAsJava`). `LoadInv` holds whatever happens: libraries that are being
loaded and the `JNI_OnLoad` that have run are together no more than the operations, of which there is
a bound. `CalmInv` holds for programs without deeds: at most one thread is in an operation, and
`MayDo` says in which; a library that is entered has been initialized or is being so; each cached
function is still exported by its library; and `nativeCall` of a method has what Java would find,
or what was registered. The names come from `MappedIsJava` and `NameIsJava`: sign by sign the
code maps as JNI does. The first attempts failed for good reasons. That no name has
letters beyond ASCII had to be asked of the class and of the parameter types too, which are in the
name as well; and the exception for methods that are exported under the other of their two names had
to be about all loaded libraries, not only the one at hand, for a method that shares its
name as for one that does not (`HasOther`).

`AnswersHaveJava` (`AnswersAsJava`). An array of any dimension has the descriptor that
`load_array` was given: `JavaDescriptor` goes down the components, and `LeastClass` has the class with
the fewest dimensions for which it would be wrong. `CallerIsJava` counts frames: without reflective
ones, the frames that the specification passes over are none. `QueryInv` has the threads that say
`RUNNABLE` to be the ones that Java calls alive.

`StartsHaveJava` (`StartsAsJava`). `EndIsClass`: the recursion of `init_args`
over the arguments ends at the class of the line, from each place where an option starts; it
exists because it looks only forward (`EndsExist`). `StartInv` has what is in the array of
arguments so far; that only steps whose result nobody looks at are missing; and the one thing
that is not obvious: after the eighth step `rt.jar` is open, although nobody looks
whether it could be, since `Class` could not have been loaded without it. `StepsAre` finds these
steps in the sequence of all.

The constants of these parts have assumptions that hold of what they stand for: no library is
called `None`; an array has its component among the classes, one dimension more, and the
same element; a name of a class does not begin with a bracket; `Class` is in `rt.jar` and in no other
of the files; an option takes one token, or two if it is `-cp` or `-classpath`, and the name of the
class is no option.

What a recursive function or a fold computes is proved here without an induction theorem: the
function exists, because of the lengths that have none one is the least (`FlattensExists`,
`PutsExist`, `ReadsExist`, `VisitsExist`), and of the places where it would be wrong one is the
first, and is not (`LeastNat`, from the well-foundedness of the natural numbers).

Only model-checked are the properties of the other modules (`ClassFile`, where the instance says
what is written in each file and whether it has a flaw; `DataAsJava`, `CodeAsJava` and
`MembersAsJava` of `AsJava`, where arithmetic with powers of two, tables of the lengths of some
two hundred instructions, and recursion over classes are on both sides),
`CastsAsJava` of `Linking` (both of its sides are recursive over the table, one along superclasses
and the other along all parents), and for good the liveness properties (`NoLockout`,
`CollectionEnds`, `WaitEnds`, `LockComesFree`, `FinalizerDrains`) and everything with ENABLED,
which the prover does not reach.

## Disagreements between code and documentation

No run is expected to fail. Where the code does something else than a comment, JNI
or the Java specification says, the model does what the code does, and the property
names the condition under which the code keeps it.

Threads and monitors
* A wait in nested synchronized code keeps the mutex (`Monitor.cpp:110`), where
  `Condition.hpp:47` has it wait "until the next owner notifies" (`NestedWait`).
* A thread that is `BLOCKED` counts as stopped (`VirtualMachine.cpp:397`), and runs once
  it has the lock; callbacks and exceptions out of native code run in a collection
  as well (`Safepoint`, deeds `lock`, `callback`, `throw`), and so does the finalizer, which sets
  itself to `RUNNABLE` (`FinalizerThread.cpp:50`; deed `finalizer`).
* A thread whose top frame is native is skipped, since "it will be blocked if it returns to the vm"
  (`VirtualMachine.cpp:391`). It is not: `invokeNative` (`Method.cpp:291-320`) pops the frame, and the
  instruction pushes the result before the thread looks whether it has to wait (`PopFrame`,
  `PushResult`). A collection in between finds the object neither in the list of the frame that is
  gone nor on the frame of the caller (`NativeReturn` of `References`).
* A native frame is pushed before it has its list of references, so that a collection follows a
  null pointer (`Method.cpp:262`; `CollectFollowsNull`).
* The counter of threads is not synchronized (`ThreadLifecycle`, deed `race`); the wait
  for the threads joins the main thread, which the launcher has detached, by what is no thread any
  more (deed `join`): where that is the end of the process, it comes before that of the other threads,
  against `VirtualMachine.hpp:176`.
* Code that looks at the flag of a class without `_load_mutex` uses it before its
  static initializer has run (`ClassInit`, deed `unlocked`).

Frames, instructions, memory
* An array store that throws does not return when its frame was unwound
  (`Interpreter.cpp:106`; `Frames`, deed `store`); handler ranges are inclusive (deed
  `edge`); a stack overflow that the method itself catches (deed `overflow`); frames of
  more than half the reserve, and native methods called by native methods, go beyond the
  stack's memory (`DynamicStack`, deeds `large`, `nested`).
* `multianewarray` of a negative size pushes an array on top of the exception if the method
  catches it, and reads `sizes[-1]` with one dimension (`ThrowNegativeSize` of `Interpreter`;
  `Arrays`, deeds `negative`, `partial`).
* Negative bytes and shorts come back from the generic `get_value` without their sign
  (`Values`, deed `signed`); `dcmpg` and `dcmpl` tell less from greater the wrong way round
  (deed `compare`); `d2i` out of range (deed `range`); the least int divided by -1 (deed `divide`).
* Switches have no `SAFEPOINT` when they jump back; `wide` and `invokedynamic` end the machine.
* `aastore` never throws `ArrayStoreException`; arrays made by `newarray` get the class of the
  bootstrap loader; regions and critical pointers are not compared with the array (`Arrays`,
  deeds `store`, `loader`, `beyond`, `overlap`, `types`, `huge`).
* Inherited and static fields in `mark_used` (`Collector`, deed `inherit`), objects that a
  finalizer brings back (deed `resurrect`).

Classes
* An interface's own interfaces are not asked (`Class.cpp:191`); a class whose linking failed
  stays in the table; a class takes the size of a superclass that is linked in part.
* `DefineClass` replaces a class that is in the table if it is given no name (`ClassLoader.cpp:253`),
  or if another thread loads the class meanwhile (`Linking`, `entered`).
* A call whose caller is below the class that declares the method, on an object of another
  branch, is taken for a call of `super` (`Method.cpp:138`), and runs what the caller inherits.
* Attributes that are not known make a class file unreadable; a full frame with more than 255
  locals is never finished (`ClassFileReader.cpp:486`); `BootstrapMethods` are read and not
  stored; a long as the last entry of the pool is written beyond it (`:250`). A file that is cut off
  may be taken for a class (`ByteClassFileInputStream.cpp:35`), or be read for ever.
* IDs are not asked whether they are static; offsets are 0 until the first object is allocated;
  `getDeclaredFields` ignores `publicOnly`; `GetSuperclass` of an interface is `Object`; a
  reflective constructor gets its arguments boxed (`Members`).

Native code and the start
* Names of native methods have no escapes for letters beyond ASCII; overloaded ones are looked for
  under one name only; a function found for one class's loader is taken for all (`Libraries`).
* `GetStringUTFLength` counts units, and both it and `GetStringUTFChars` stop at the unit zero
  (`NativeStrings`); regions are not compared with the string.
* `Unsafe_monitorEnter` enters only if the object is null (`Unsafe.cpp:273`), so that the exit
  that follows is refused or frees an outer block's lock. `Unsafe`'s compare-and-swap is not
  atomic and always reports success; static offsets keep the bit that marks them (`Values`, deeds
  `swap`, `static`).
* The loop over the options runs while `i < 0`, so that none takes effect, against the usage that
  `main.cpp` prints; the class path is cut at ':', which its default value has in it; `GetEnv`
  always returns 0; 11 functions of the table of JNI end the machine; `AttachCurrentThread` and
  `DestroyJavaVM` do not work (`Launcher`, with its deeds).
* Some 140 functions of `JVM.cpp` log that they are ignored and answer 0; names of primitive
  classes are their letters; the `GetMethodIx` functions take a method's number for an index of the
  constant pool (`Queries`).

## Not modelled

* The memory model: every shared access is atomic and in order. `_owner`,
  `_state` and the flags are plain fields in the code; what the compiler and the
  processor may add to that is left out.
* `init_gc` is commented out in `VirtualMachine::initialize` (line 86), so that the
  program as it is built has no collector and finalizer threads, and
  `wait_for_threads` works on ones that are not there. The modules model the
  code as it is with them.
* Windows and "ghost" variants of the system layer, the GNU Classpath port, the declarations
  of `jni.h`, `jvm.h` and `jvmti.h`.
* In `Interpreter` and `Values`: arithmetic of floats, and of doubles that are no small
  integers. `Frames`, which has program counters, leaves out operands and locals;
  `ProgramCounter`, which has all lengths, leaves out calls.
* Two threads that load classes at the same time (loading is under `_load_mutex`, which
  `ClassInit` has), but for `DefineClass`, of which the moment is modelled at which it replaces a
  class, and not what follows; debug information; the number entries of the constant pool.
* `collectGarbageForExit`; the lazy creation of an object's monitor (`Object.hpp:78`), of which
  nothing could be claimed; the accessors for the fields of `java.lang` classes.
* Files, sockets, time, properties, `park` and `unpark`; memory from outside the heap; what
  is printed.
* A library that fails in `load_lib` of `LibraryBinder`, and the fatal end of `RegisterNatives`
  for a method that the class does not declare.
* Exhaustion of memory and of the C++ stack; texts of 65536 bytes and more.

## Plan

Done, in this order: `Monitor` with `JavaMonitor`, `Safepoint` and `ThreadLifecycle`, with
proofs; `ClassInit`; `Frames`; `Collector`; `Interpreter` with `WordFrames`; `Values`;
`References`; `Linking`; `ClassFile`; `Containers`; the parts of `AsJava`.

Proved: the theorems [above](#proofs), of `Monitor`, `Safepoint`, `ThreadLifecycle`, `ClassInit`,
`Frames`, `Collector`, `References`, `Linking`, `Containers` and of three of the parts of `AsJava`.

Left, in this order:

1. `ObjectLock`: the lazy creation of an object's monitor, composed with `JavaMonitor` for
   each monitor that is created.
2. `Safepoint` composed with `Collector`.
3. The rest of the port: `Throwable`, properties, memory from outside the heap.

Abstract specifications still worth stating: a collector that is one atomic step
(for `Safepoint` with `Collector`), a class that is initialized once (for
`ClassInit`), a stack machine with structured exceptions (for `Frames`). Worth proving, but
by induction over stacks of operands: that every step of `Interpreter` is one of `WordFrames`.
