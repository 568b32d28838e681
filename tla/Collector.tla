----------------------------- MODULE Collector -----------------------------
(***************************************************************************)
(* The mark and sweep collector, the lists of the finalizer thread and the *)
(* object graph of a program that changes while neither stops it           *)
(* (SimpleGarbageCollector, SimpleFinalizer, MemoryManager).  The program  *)
(* stands still during a collection; module Safepoint is about that.       *)
(*                                                                         *)
(* An unused object goes from the container of all objects to the incoming *)
(* list, is finalized, goes to the outgoing list and is deleted by the     *)
(* next collection.  Only the marks of objects in the container are taken  *)
(* back before the marking, and the marking does not follow the references *)
(* of an object that has its mark already.                                 *)
(***************************************************************************)
EXTENDS Naturals, FiniteSets

CONSTANTS
  Object,
  Null,
  Programs   \* what happens in a program: sets of Deeds

\* inherit: some classes inherit the field that refers to other objects.
\* resurrect: a finalizer gives an object on its lists to the program again.
\* stale: a collection finds marks on the lists of the finalizer.
Deeds == {"inherit", "resurrect", "stale"}

ASSUME CollectorAssumption ==
  /\ IsFiniteSet(Object) /\ Null \notin Object
  /\ Programs \subseteq SUBSET Deeds

VARIABLES
  heap,        \* the container of all objects
  in,          \* _in_objects
  current,     \* _current_objects
  done,        \* those of the current ones that are finalized
  finalizing,  \* the one that is being finalized, or Null
  out,         \* _out_objects
  used,        \* the objects whose mark is set
  field,       \* what the object's field refers to
  roots,       \* what frames, static fields and JNI references refer to
  phase,       \* of the collector: idle or removing
  heirs,       \* the objects that inherit this field, fixed from the start
  deeds        \* what happens in this program, fixed from the start

collectorVars ==
  <<heap, in, current, done, finalizing, out, used, field, roots, phase, heirs, deeds>>
program == <<heirs, deeds>>
lists == <<heap, in, current, done, finalizing, out>>
graph == <<field, roots>>

CollectorTypeOK ==
  /\ heap \subseteq Object /\ in \subseteq Object /\ out \subseteq Object
  /\ done \subseteq current /\ current \subseteq Object
  /\ finalizing \in (current \ done) \cup {Null}
  /\ used \subseteq Object /\ roots \subseteq Object
  /\ field \in [Object -> Object \cup {Null}]
  /\ phase \in {"idle", "removing"}
  /\ deeds \in Programs
  /\ heirs \subseteq IF "inherit" \in deeds THEN Object ELSE {}

CollectorInit ==
  /\ heap = {} /\ in = {} /\ current = {} /\ done = {} /\ out = {}
  /\ finalizing = Null
  /\ used = {} /\ roots = {}
  /\ field = [o \in Object |-> Null]
  /\ phase = "idle"
  /\ deeds \in Programs
  /\ heirs \in SUBSET IF "inherit" \in deeds THEN Object ELSE {}

-----------------------------------------------------------------------------
Allocated == heap \cup in \cup current \cup out

\* The sets of objects that no edge leads out of.
Closed(edges) == {S \in SUBSET Object : \A e \in edges : e[1] \in S => e[2] \in S}

\* What is reached from a set of objects over some edges: the least of them.
Closure(from, edges) ==
  {q \in Object : \A S \in Closed(edges) : from \subseteq S => q \in S}

\* Mutation: the marking goes one reference deep.
FirstMarked(from, kept) ==
  from \cup {q \in Object : \E p \in from \ kept : field[p] = q}

\* mark_used: nothing is followed from the objects kept from an earlier
\* marking, and declared_fields does not have the fields of the superclass.
Marked(from, kept) ==
  Closure(from, {e \in Object \X Object : e[1] \notin kept \cup heirs /\ field[e[1]] = e[2]})

\* What the collector begins with; the finalizer thread has the object that
\* it finalizes in its frame.
Starts == roots \cup ({finalizing} \ {Null})

-----------------------------------------------------------------------------
(* The program.                                                            *)

Runs == phase = "idle"

Allocate(o) ==
  /\ Runs /\ o \notin Allocated
  /\ heap' = heap \cup {o}
  /\ used' = used \cup {o}
  /\ roots' = roots \cup {o}
  /\ UNCHANGED <<in, current, done, finalizing, out, field, phase, program>>

Load(o) ==
  /\ Runs /\ o \in roots
  /\ field[o] # Null /\ roots' = roots \cup {field[o]}
  /\ UNCHANGED <<lists, used, field, phase, program>>

Store(o, p) ==
  /\ Runs /\ o \in roots \cup {finalizing} /\ o # Null
  /\ p \in roots \cup {Null}
  /\ field' = [field EXCEPT ![o] = p]
  /\ UNCHANGED <<lists, used, roots, phase, program>>

Drop(o) ==
  /\ Runs /\ o \in roots
  /\ roots' = roots \ {o}
  /\ UNCHANGED <<lists, used, field, phase, program>>

-----------------------------------------------------------------------------
(* The finalizer thread.                                                   *)

\* It may wake up while the collector is at work.
Take ==
  /\ in # {} /\ current = {}
  /\ current' = in
  /\ in' = {}
  /\ UNCHANGED <<heap, done, finalizing, out, used, graph, phase, program>>

BeginFinalize(o) ==
  /\ Runs /\ finalizing = Null
  /\ o \in current \ done
  /\ finalizing' = o
  /\ UNCHANGED <<heap, in, current, done, out, used, graph, phase, program>>

\* The finalizer stores a reference where the program finds it.
Publish(p) ==
  /\ Runs /\ finalizing # Null
  /\ p \in {finalizing, field[finalizing]} \ {Null}
  /\ p \notin heap => "resurrect" \in deeds
  /\ roots' = roots \cup {p}
  /\ UNCHANGED <<lists, used, field, phase, program>>

EndFinalize ==
  /\ Runs /\ finalizing # Null
  /\ done' = done \cup {finalizing}
  /\ finalizing' = Null
  /\ UNCHANGED <<heap, in, current, out, used, graph, phase, program>>

\* Mutation: the finalized objects stay where they are.
PutNothing ==
  /\ Runs /\ current # {} /\ done = current
  /\ done' = {}
  /\ UNCHANGED <<heap, in, current, finalizing, out, used, graph, phase, program>>

Put ==
  /\ Runs /\ current # {} /\ done = current
  /\ out' = out \cup current
  /\ current' = {} /\ done' = {}
  /\ UNCHANGED <<heap, in, finalizing, used, graph, phase, program>>

-----------------------------------------------------------------------------
(* The collector.                                                          *)

\* Mutation: no mark is taken back.
KeptAll == used

\* The marks that are there when the marking begins.
Kept == used \ heap

\* From mark_unused to moveUnusedObjects.
MarkAndMove ==
  /\ phase = "idle"
  /\ Kept \cap (in \cup current) # {} => "stale" \in deeds
  /\ used' = Marked(Starts, Kept) \cup Kept
  /\ heap' = heap \cap used'
  /\ in' = in \cup (heap \ used')
  /\ phase' = "removing"
  /\ UNCHANGED <<current, done, finalizing, out, graph, program>>

\* The memory of new objects is cleared; here it is cleared at once.
Cleared(deleted) == [o \in Object |-> IF o \in deleted THEN Null ELSE field[o]]

RemoveFinalized ==
  /\ phase = "removing"
  /\ out' = {}
  /\ used' = used \ out
  /\ field' = Cleared(out)
  /\ phase' = "idle"
  /\ UNCHANGED <<heap, in, current, done, finalizing, roots, program>>

-----------------------------------------------------------------------------
Program ==
  \/ \E o \in Object : Allocate(o) \/ Load(o) \/ Drop(o)
  \/ \E o \in Object, p \in Object \cup {Null} : Store(o, p)

Begin == \E o \in Object : BeginFinalize(o)
Published == \E p \in Object : Publish(p)

CollectorNext ==
  \/ Program
  \/ Take \/ Begin \/ Published \/ EndFinalize \/ Put
  \/ MarkAndMove \/ RemoveFinalized

CollectorSpec == CollectorInit /\ [][CollectorNext]_collectorVars

(***************************************************************************)
(* Fairness: a collection ends, the finalizer thread gets to run between   *)
(* two of them (a collection comes every 250 ms at most), and finalizers   *)
(* return.  No collection need ever begin.                                 *)
(***************************************************************************)
CollectorFairness ==
  /\ WF_collectorVars(RemoveFinalized) /\ WF_collectorVars(Take)
  /\ SF_collectorVars(Begin) /\ SF_collectorVars(EndFinalize) /\ SF_collectorVars(Put)

FairCollectorSpec == CollectorSpec /\ CollectorFairness

-----------------------------------------------------------------------------
(* Properties.                                                             *)

Edges == {e \in Object \X Object : field[e[1]] = e[2]}
Reach(from) == Closure(from, Edges)

\* What the program can reach is in the container: nothing of it is finalized
\* or deleted, however its references came about.  The object that is finalized,
\* and whatever its finalizer may look at, is not deleted meanwhile.  (The types
\* of the variables are checked on the way.)
LiveStayInHeap ==
  /\ CollectorTypeOK
  /\ deeds = {} => Reach(roots) \subseteq heap
  /\ deeds = {} /\ finalizing # Null => Reach({finalizing}) \subseteq Allocated

\* A collection leaves what the program or the finalizer can reach, and takes
\* all the rest at once, cycles included; and none of that is deleted before its
\* finalizer has returned.
CollectsExactly ==
  [][/\ deeds = {} /\ MarkAndMove => heap' = heap \cap Reach(Starts)
     /\ Allocated \ Allocated' \subseteq out /\ out' \ out \subseteq done]_collectorVars

\* Every object given to the finalizer thread comes out of it, whatever is
\* added to its list meanwhile.
FinalizerDrains == \A o \in Object : o \in in ~> o \notin in \cup current
=============================================================================
