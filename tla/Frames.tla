------------------------------- MODULE Frames -------------------------------
(***************************************************************************)
(* The frames of one thread and the exceptions that unwind them            *)
(* (Executor::throw_exception, Method::invokeJava and invokeNative, and    *)
(* the interpreter's BREAK_ON_FAIL and RETURN_ON_UNWIND).                  *)
(*                                                                         *)
(* There are two stacks.  The executor has the frames; an exception pops   *)
(* all of them, down to a handler, at once.  The C++ stack has a call of   *)
(* Interpreter::execute or of Method::invokeNative for each; these return  *)
(* one by one, each asking its frame, popped or not, whether it is valid.  *)
(*                                                                         *)
(* Every instruction is one unit of code long, and advances the program    *)
(* counter before it does anything else.                                   *)
(***************************************************************************)
EXTENDS Naturals, Sequences, FiniteSets

CONSTANTS
  Method,
  Native,      \* the native methods
  Length,      \* of the code of a method; its last instruction returns
  Handlers,    \* the exception table of a method
  Lock, Sync,  \* the lock of a synchronized method, or NoLock
  NoLock,
  Exception, StackOverflow, NoException,
  Capacity,    \* more frames than this and the stack counts as full
  Depth,       \* more frames than this are not modelled
  Programs     \* what happens in a program: sets of Deeds

\* store: TASTORE_VALUE throws where its own method has no handler.
\* overflow: the stack is full where a handler begins with the method.
\* edge: the last instruction before a handler's range throws, or calls
\* somebody who does.
Deeds == {"store", "overflow", "edge"}

Slots == 1 .. Depth
Handler == [start : Nat, end : Nat, target : Nat, catches : SUBSET Exception]

ASSUME FramesAssumption ==
  /\ Method # {} /\ Native \subseteq Method
  /\ Length \in [Method -> Nat \ {0}]
  /\ Handlers \in [Method -> Seq(Handler)]
  /\ NoLock \notin Lock /\ Sync \in [Method -> Lock \cup {NoLock}]
  /\ StackOverflow \in Exception /\ NoException \notin Exception
  /\ Capacity \in Nat /\ Depth \in Nat /\ 0 < Capacity /\ Capacity < Depth
  /\ Programs \subseteq SUBSET Deeds

VARIABLES
  memory,    \* the frames, popped ones included
  top,       \* how many of them are on the stack
  calls,     \* the C++ calls, each with the slot of its frame
  result,    \* of the call that has just returned to the last one of calls
  held,      \* how often each lock has been entered by this thread
  uncaught,  \* _uncaught_exception
  deeds      \* what happens in this program, fixed from the start

vars == <<memory, top, calls, result, held, uncaught, deeds>>

Frame == [method : Method, pc : Nat, valid : {"yes", "no"},
          exception : Exception \cup {NoException}]

NewFrame(m) ==
  [method |-> m, pc |-> 0, valid |-> "yes", exception |-> NoException]

\* Nobody looks at what is in a slot before the first frame.
Unused == [NewFrame(CHOOSE m \in Method : TRUE) EXCEPT !.valid = "no"]

TypeOK ==
  /\ memory \in [Slots -> Frame]
  /\ top \in 0 .. Depth
  /\ calls \in Seq(Slots)
  /\ result \in {"ok", "exception"}
  /\ held \in [Lock -> Nat]
  /\ uncaught \in Exception \cup {NoException}
  /\ deeds \in Programs

Init ==
  /\ memory = [p \in Slots |-> Unused]
  /\ top = 0
  /\ calls = <<>>
  /\ result = "ok"
  /\ held = [l \in Lock |-> 0]
  /\ uncaught = NoException
  /\ deeds \in Programs

-----------------------------------------------------------------------------
Self == calls[Len(calls)]
BelowSelf == SubSeq(calls, 1, Len(calls) - 1)
MethodOf(p) == memory[p].method

InJava == calls # <<>> /\ result = "ok" /\ MethodOf(Self) \notin Native
InNative == calls # <<>> /\ result = "ok" /\ MethodOf(Self) \in Native

\* The memory after the instruction of this call has been read.
Advanced == [memory EXCEPT ![Self].pc = @ + 1]

Entered(m) == [l \in Lock |-> held[l] + IF Sync[m] = l THEN 1 ELSE 0]

Exited(m) == [l \in Lock |-> held[l] - IF Sync[m] = l THEN 1 ELSE 0]

\* Mutation: the end of the range is looked at only.
CoversBefore(h, pc) == pc <= h.end

Covers(h, pc) == h.start <= pc /\ pc <= h.end

\* The entries of a frame's exception table that handle e.
Matching(frame, e) ==
  {i \in DOMAIN Handlers[frame.method] :
     LET h == Handlers[frame.method][i] IN Covers(h, frame.pc) /\ e \in h.catches}

\* Mutation: a handler is found and the program counter left where it is.
LandedNowhere(frame, e) ==
  IF frame.method \in Native THEN [frame EXCEPT !.exception = e] ELSE frame

\* The frame that takes the exception: a native one keeps it, another goes on
\* in the handler that the table has first.
Landed(frame, e) ==
  LET first == CHOOSE i \in Matching(frame, e) : \A j \in Matching(frame, e) : i <= j
  IN  IF frame.method \in Native
      THEN [frame EXCEPT !.exception = e]
      ELSE [frame EXCEPT !.pc = Handlers[frame.method][first].target]

\* The first frame from n downwards that takes e, or 0.
Taker(mem, n, e) ==
  LET Takes(p) == mem[p].method \in Native \/ Matching(mem[p], e) # {}
      takers == {p \in 1 .. n : Takes(p)}
  IN  IF takers = {} THEN 0 ELSE CHOOSE p \in takers : \A q \in takers : q <= p

\* Mutation: the locks of the frames that are unwound stay entered.
ReleasedNothing(h, mem, popped) == h

\* What is entered of h when synchronized methods have been unwound.
Released(h, mem, popped) ==
  [l \in Lock |-> h[l] - Cardinality({p \in popped : Sync[mem[p].method] = l})]

\* throw_exception with mem in the memory, n frames and h entered.
Unwind(mem, n, h, e) ==
  LET taker == Taker(mem, n, e)
      popped == taker + 1 .. n
  IN  /\ memory' = [p \in Slots |->
                      IF p = taker THEN Landed(mem[p], e)
                      ELSE IF p \in popped THEN [mem[p] EXCEPT !.valid = "no"]
                      ELSE mem[p]]
      /\ top' = taker
      /\ held' = Released(h, mem, popped)
      /\ uncaught' = IF taker = 0 THEN e ELSE uncaught

-----------------------------------------------------------------------------
(* Calls.                                                                  *)

Push(m, mem) ==
  /\ memory' = [mem EXCEPT ![top + 1] = NewFrame(m)]
  /\ top' = top + 1
  /\ calls' = Append(calls, top + 1)
  /\ held' = Entered(m)
  /\ UNCHANGED <<result, uncaught, deeds>>

\* The interpreter asks for space when the frame is on the stack already;
\* native methods do not ask.
Fits(m) == top < Depth /\ (m \in Native \/ top < Capacity)

\* The instruction at hand is the last one before a handler's range.
AtEdge == \E i \in DOMAIN Handlers[MethodOf(Self)] :
            memory[Self].pc + 1 = Handlers[MethodOf(Self)][i].start

\* An instruction that may throw.
MayThrow ==
  /\ InJava
  /\ memory[Self].pc < Length[MethodOf(Self)] - 1
  /\ AtEdge => "edge" \in deeds

\* A thread starts its run method, or an embedder calls a method.
Run(m) ==
  /\ calls = <<>> /\ result = "ok"
  /\ m \notin Native /\ Fits(m)
  /\ Push(m, memory)

Invoke(m) == MayThrow /\ Fits(m) /\ Push(m, Advanced)

InvokeFromNative(m) == InNative /\ Fits(m) /\ Push(m, memory)

\* No space: the frame is there and the lock entered, and execute returns.
Overflow(m, mem) ==
  /\ m \notin Native /\ ~Fits(m) /\ top < Depth
  /\ Matching(NewFrame(m), StackOverflow) # {} => "overflow" \in deeds
  /\ Unwind([mem EXCEPT ![top + 1] = NewFrame(m)], top + 1, Entered(m), StackOverflow)
  /\ result' = "exception"
  /\ UNCHANGED <<calls, deeds>>

InvokeOverflows(m) == MayThrow /\ Overflow(m, Advanced)

NativeOverflows(m) == InNative /\ Overflow(m, memory)

-----------------------------------------------------------------------------
(* Instructions of the interpreter.                                        *)

Step ==
  /\ InJava
  /\ memory[Self].pc < Length[MethodOf(Self)] - 1
  /\ memory' = Advanced
  /\ UNCHANGED <<top, calls, result, held, uncaught, deeds>>

\* Mutation: RETURN_ON_UNWIND is forgotten.
LeaveNever == UNCHANGED <<calls, result>>

\* RETURN_ON_UNWIND: the call ends if its frame has been unwound.
LeaveIfUnwound ==
  IF memory'[Self].valid = "yes"
  THEN UNCHANGED <<calls, result>>
  ELSE calls' = BelowSelf /\ result' = "exception"

\* THROW_WITH_RETURN_ON_UNWIND
Throw(e) ==
  /\ MayThrow
  /\ Unwind(Advanced, top, held, e)
  /\ LeaveIfUnwound
  /\ UNCHANGED deeds

\* TASTORE_VALUE with no array or a bad index: nobody asks for the frame.
StoreThrows(e) ==
  /\ MayThrow
  /\ Matching(Advanced[Self], e) = {} => "store" \in deeds
  /\ Unwind(Advanced, top, held, e)
  /\ UNCHANGED <<calls, result, deeds>>

Return ==
  /\ InJava
  /\ held' = Exited(MethodOf(Self))
  /\ top' = top - 1
  /\ calls' = BelowSelf
  /\ UNCHANGED <<memory, result, uncaught, deeds>>

-----------------------------------------------------------------------------
(* Native code.                                                            *)

NativeThrow(e) ==
  /\ InNative
  /\ memory' = [memory EXCEPT ![top].exception = e]
  /\ UNCHANGED <<top, calls, result, held, uncaught, deeds>>

NativeClear ==
  /\ InNative
  /\ memory' = [memory EXCEPT ![top].exception = NoException]
  /\ UNCHANGED <<top, calls, result, held, uncaught, deeds>>

NativeReturns ==
  /\ InNative
  /\ memory[Self].exception = NoException
  /\ held' = Exited(MethodOf(Self))
  /\ top' = top - 1
  /\ calls' = BelowSelf
  /\ UNCHANGED <<memory, result, uncaught, deeds>>

\* The exception is thrown on when the frame has been popped.
NativeRethrows ==
  /\ InNative
  /\ memory[Self].exception # NoException
  /\ Unwind(memory, top - 1, Exited(MethodOf(Self)), memory[Self].exception)
  /\ calls' = BelowSelf
  /\ result' = "exception"
  /\ UNCHANGED deeds

-----------------------------------------------------------------------------
(* A call has returned RETURN_EXCEPTION.                                   *)

\* BREAK_ON_FAIL
InvokeFailed ==
  /\ result = "exception" /\ calls # <<>>
  /\ MethodOf(Self) \notin Native
  /\ IF memory[Self].valid = "yes"
     THEN result' = "ok" /\ UNCHANGED calls
     ELSE calls' = BelowSelf /\ UNCHANGED result
  /\ UNCHANGED <<memory, top, held, uncaught, deeds>>

\* The functions of JNI that call methods do not look at the error.
CallFailed ==
  /\ result = "exception"
  /\ calls # <<>> => MethodOf(Self) \in Native
  /\ result' = "ok"
  /\ UNCHANGED <<memory, top, calls, held, uncaught, deeds>>

ClearUncaught ==
  /\ calls = <<>> /\ result = "ok" /\ uncaught # NoException
  /\ uncaught' = NoException
  /\ UNCHANGED <<memory, top, calls, result, held, deeds>>

-----------------------------------------------------------------------------
Next ==
  \/ \E m \in Method :
       \/ Run(m) \/ Invoke(m) \/ InvokeFromNative(m)
       \/ InvokeOverflows(m) \/ NativeOverflows(m)
  \/ \E e \in Exception : Throw(e) \/ StoreThrows(e) \/ NativeThrow(e)
  \/ Step \/ Return \/ NativeClear \/ NativeReturns \/ NativeRethrows
  \/ InvokeFailed \/ CallFailed \/ ClearUncaught

Spec == Init /\ [][Next]_vars

-----------------------------------------------------------------------------
(* Properties.                                                             *)

\* The program does nothing after which frames and calls go apart.
Calm == deeds \cap {"store", "overflow"} = {}

\* Frame.hpp:53: "Every executing method is represented by a frame on the
\* stack."  Call and frame correspond one to one, and what is being left are
\* the calls of the frames that are gone.
CallsHaveFrames ==
  /\ Len(calls) >= top
  /\ \A i \in 1 .. Len(calls) : calls[i] = i /\ (memory[i].valid = "yes" <=> i <= top)
  /\ result = "ok" => Len(calls) = top

\* (The types of the variables are checked on the way.  A program that is not
\* calm leaves them: it returns from a frame that has gone and gives its lock
\* back a second time.)
EveryCallHasItsFrame == Calm => TypeOK /\ CallsHaveFrames

\* A lock is entered once for every synchronized frame on the stack, however
\* they are left.
LocksBalanced ==
  Calm =>
    \A l \in Lock : held[l] = Cardinality({p \in 1 .. top : Sync[MethodOf(p)] = l})

\* An interpreter that goes on after a call that has failed does so in a
\* handler, and not behind the call.
GoesOnInHandler ==
  [][Calm /\ InvokeFailed /\ result' = "ok" =>
       \E i \in DOMAIN Handlers[MethodOf(Self)] :
         memory[Self].pc = Handlers[MethodOf(Self)][i].target]_vars

\* The instruction that a frame executes, or that has called the next frame.
Instruction(p) == IF p = top THEN memory[p].pc ELSE memory[p].pc - 1

\* The frame that shall take e by the Java virtual machine specification.
Handles(p, e) ==
  \E i \in DOMAIN Handlers[MethodOf(p)] :
    LET h == Handlers[MethodOf(p)][i]
    IN  e \in h.catches /\ Instruction(p) \in h.start .. h.end - 1

Receives(p, e) == MethodOf(p) \in Native \/ Handles(p, e)

\* An exception goes to the innermost handler whose range has the instruction
\* that throws, or the call that leads to it; native frames take all.
RightHandler ==
  [][deeds = {} => \A e \in Exception : Throw(e) \/ StoreThrows(e) =>
       /\ top' > 0 => Receives(top', e)
       /\ \A p \in top' + 1 .. top : ~Receives(p, e)]_vars
=============================================================================
