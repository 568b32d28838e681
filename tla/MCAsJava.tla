---- MODULE MCAsJava ----
EXTENDS AsJava, SequencesExt

(* Numbers and arrays. *)

MCNumberWidth ==
  [boolean |-> 1, byte |-> 1, char |-> 2, short |-> 2, int |-> 3, float |-> 3, long |-> 4]
MCDouble == {-10, -6, -3, -1, 0, 2, 7, 9}
MCPrograms == {{"divide"}, {"signed", "range", "compare", "swap", "static"}}

MCCellWidth == [byte |-> 1, char |-> 2, reference |-> 2]
MCLength == {-1, 0, 1, 2, 4}
MCIndex == -1 .. 2
MCCastable == [Object |-> 0 .. 3, Own |-> {0, 1}]
MakesArrays(deeds_, n) == [deeds |-> deeds_, count |-> n]
MCArrayPrograms ==
  {MakesArrays({}, 2), MakesArrays({"huge", "beyond", "overlap", "store"}, 1),
   MakesArrays({"types", "beyond"}, 2), MakesArrays({"loader", "nested", "partial", "negative"}, 2)}

(* Programs for the program counter. *)

Table == INSTANCE ProgramCounter WITH Codes <- {}, Operands <- {}

Plain(op) == [op |-> op, to |-> <<>>, keys |-> <<>>]
Jump(op, i) == [op |-> op, to |-> <<i>>, keys |-> <<>>]
SwitchTo(op, keys, to) == [op |-> op, to |-> to, keys |-> keys]
Nops(n) == [i \in 1 .. n |-> Plain("nop")]

RECURSIVE RowOf(_)
RowOf(ops) ==
  IF ops = {} THEN <<Plain("return")>>
  ELSE LET op == CHOOSE x \in ops : TRUE IN <<Plain(op)>> \o RowOf(ops \ {op})

\* Every instruction that does not jump.
Straight ==
  {RowOf(DOMAIN f) : f \in
     {Table!LengthA, Table!LengthB, Table!LengthD, Table!LengthDup, Table!LengthDup2, Table!LengthF,
      Table!LengthG, Table!LengthI, Table!LengthIInc, Table!LengthInvoke, Table!LengthIOr, Table!LengthL,
      Table!LengthLdc, Table!LengthLLoad, Table!LengthLOr, Table!LengthM, Table!LengthP, Table!LengthS}}

Looping ==
  <<Plain("iconst"), Jump("if", 6), Plain("invokeinterface"), Jump("if", 2), Jump("goto", 3),
    Jump("goto_w", 8), Plain("athrow"), Jump("athrow", 9), Jump("if", 1), Plain("return")>>

Subroutines ==
  <<Jump("jsr", 4), Jump("jsr_w", 4), Plain("return"),
    Plain("astore"), Plain("iinc"), Plain("ret"), Plain("return")>>

\* Switches at each remainder of 4.
TableAt(n) ==
  Nops(n) \o <<SwitchTo("tableswitch", <<-1, 0, 1>>, <<n + 2, n + 3, n + 2, n + 4>>)>>
  \o <<Plain("iinc"), Plain("ldc"), Plain("return")>>
PairsAt(n) ==
  Nops(n) \o <<SwitchTo("lookupswitch", <<-2, 1>>, <<n + 3, n + 2, n + 4>>)>>
  \o <<Plain("iinc"), Plain("ldc"), Plain("return")>>

Back ==
  <<Plain("nop"), SwitchTo("tableswitch", <<1>>, <<3, 1>>), SwitchTo("lookupswitch", <<1>>, <<4, 2>>),
    Plain("return")>>

MCCodes ==
  Straight \cup {Looping, Subroutines, Back, <<Plain("wide"), Plain("return")>>}
  \cup {TableAt(n) : n \in 0 .. 3} \cup {PairsAt(n) : n \in 0 .. 3}
MCOperands == -3 .. 2

(* Classes. *)

FieldOf(name, static, public, width) ==
  [name |-> name, static |-> static, public |-> public, width |-> width]
MethodNamed(name, n) == [name |-> name, parameters |-> n]
ClassOf(super, interfaces, fields, methods) ==
  [super |-> super, interfaces |-> interfaces, interface |-> FALSE, abstract |-> FALSE,
   fields |-> fields, methods |-> methods]

MCHierarchy ==
  [Object |-> ClassOf(None, {}, <<>>, <<MethodNamed("m", 0)>>),
   I |-> [ClassOf("Object", {}, <<FieldOf("k", TRUE, TRUE, 1)>>, <<MethodNamed("m", 0)>>)
            EXCEPT !.interface = TRUE, !.abstract = TRUE],
   A |-> ClassOf("Object", {}, <<FieldOf("x", FALSE, TRUE, 2), FieldOf("k", TRUE, FALSE, 1)>>,
                 <<MethodNamed("init", 0)>>),
   B |-> ClassOf("A", {"I"}, <<FieldOf("x", FALSE, TRUE, 1)>>, <<MethodNamed("init", 1)>>)]

Members(deeds_, n, m) == [deeds |-> deeds_, objects |-> n, entries |-> m]
MCMemberPrograms == {Members({}, 2, 1), Members({}, 0, 2), Members({"early", "missing", "mismatch", "public", "arguments", "interface"}, 1, 1)}

(* Libraries. *)

Native_(name, parameters) ==
  [class |-> <<"a", "/", "B">>, name |-> name, parameters |-> parameters, native |-> TRUE]
Int_ == Native_(<<"f">>, <<<<"I">>>>)
Array_ == Native_(<<"f">>, <<<<"[", "L", "a", ";">>>>)
Line == Native_(<<"_", "g">>, <<>>)
Accent == Native_(<<"u00e9">>, <<>>)
MCMethod == {Int_, Array_, Line, Accent}

LibraryOf(exports, onLoad, version) == [exports |-> exports, onLoad |-> onLoad, version |-> version]
MCLibrary ==
  [first |-> LibraryOf({<<Int_, "usual">>, <<Line, "usual">>}, TRUE, 6),
   second |-> LibraryOf({<<Array_, "usual">>, <<Line, "usual">>, <<Accent, "usual">>}, FALSE, 6),
   third |-> LibraryOf({}, TRUE, 7),
   fourth |-> LibraryOf({<<Int_, "other">>}, FALSE, 6)]

Calls(deeds_, n) == [deeds |-> deeds_, steps |-> n]
MCLibraryPrograms == {Calls({}, 5), Calls({"race"}, 3), Calls({"style", "letters", "race", "version", "entry"}, 2)}

(* Strings. *)

MCStringPrograms == {{}, {"zero", "length", "range"}}

(* Command lines. *)

LineOf(options, class, arguments) ==
  LET before(i) == Len(FlattenSeq(SubSeq(options, 1, i)))
  IN [argv |-> FlattenSeq(options) \o (IF class = None THEN <<>> ELSE <<class>>) \o arguments,
      starts |-> {before(i - 1) + 1 : i \in DOMAIN options}, class |-> before(Len(options)) + 1]
MCCommandLines ==
  {LineOf(<<>>, None, <<>>), LineOf(<<<<"-cp">>>>, None, <<>>), LineOf(<<>>, "Tool", <<"a", "-Dk=v">>),
   LineOf(<<<<"-cp", "dir">>, <<"-Dk=v">>>>, "Tool", <<"a">>),
   LineOf(<<<<"-classpath", "-cp">>>>, "Program", <<>>),
   LineOf(<<>>, "Program", <<"b">>), LineOf(<<>>, "Nowhere", <<>>), LineOf(<<>>, "Object", <<>>)}
MCSetting == [x \in {"-Dk=v"} |-> <<"k", <<"v">>>>]

\* All that register_classes loads is in one file.
System ==
  {"Class", "Cloneable", "Object", "Field", "NullPointerException", "Serializable", "String", "System",
   "Thread", "ThreadGroup", "StackOverflowError"}
MCJarFiles ==
  [jar \in {"rt", "charsets", "jce", "jsse", "management-agent", "resources"} |->
     IF jar = "rt" THEN System ELSE IF jar = "jce" THEN {"Tool"} ELSE {}]
MCDirectories == [x \in {"Program"} |-> {<<".">>, <<"-cp">>}]
MCLaunchPrograms == {{}, {"options", "path", "unimplemented", "env", "early", "attach", "destroy"}}

(* Classes, callers and methods that are asked for. *)

Is(id, kind, name) == [kind |-> kind, name |-> name, element |-> id, dimensions |-> 0, component |-> None]
ArrayOf(component, element, n) ==
  [kind |-> "array", name |-> <<>>, element |-> element, dimensions |-> n, component |-> component]
MCDescribed ==
  [B |-> Is("B", "class", <<"a", "/", "B">>), I |-> Is("I", "interface", <<"I">>),
   int |-> Is("int", "primitive", <<"int">>),
   Bs |-> ArrayOf("B", "B", 1), ints |-> ArrayOf("int", "int", 1), rows |-> ArrayOf("ints", "int", 2)]

Frame(class, reflective) == [class |-> class, reflective |-> reflective]
MCStacks ==
  {<<Frame("B", FALSE), Frame("I", FALSE), Frame("B", FALSE)>>,
   <<Frame("B", FALSE), Frame("I", TRUE), Frame("B", FALSE)>>}
MCClassTables == [methods |-> <<"m", "n">>, pool |-> <<None, "m", "n">>]
MCQueryPrograms == {{}, {"ignored", "kinds", "names", "reflection", "index", "pool"}}
====
