---------------------------- MODULE MCClassFile ----------------------------
(***************************************************************************)
(* Class files for ClassFile: a writer after chapter 4 of the Java virtual *)
(* machine specification, which works out the length of an attribute.      *)
(***************************************************************************)
EXTENDS ClassFile

b(n) == <<<<1, n>>>>
s(n) == <<<<2, n>>>>
w(n) == <<<<4, n>>>>

All(seqs) == FlattenSeq(seqs)
Table(items) == s(Len(items)) \o All(items)
Wide(items) == w(Len(items)) \o All(items)

\* Constant pool: a name for each attribute, and an entry of each other kind.
NameList ==
  <<"ConstantValue", "Code", "StackMapTable", "Exceptions", "InnerClasses", "EnclosingMethod",
    "Synthetic", "Signature", "SourceFile", "SourceDebugExtension", "LineNumberTable",
    "LocalVariableTable", "LocalVariableTypeTable", "Deprecated", "RuntimeVisibleAnnotations",
    "RuntimeInvisibleAnnotations", "RuntimeVisibleParameterAnnotations",
    "RuntimeInvisibleParameterAnnotations", "AnnotationDefault", "BootstrapMethods", "Unknown">>
NameAt(name) == CHOOSE i \in DOMAIN NameList : NameList[i] = name
Names == [n \in 0 .. 255 |-> IF n \in DOMAIN NameList THEN NameList[n] ELSE "none"]

Utf8(n) == b(1) \o s(1) \o b(n)
Others ==
  <<b(3) \o w(7), b(5) \o w(0) \o w(9), b(4) \o w(1), b(6) \o w(2) \o w(3), b(7) \o s(1),
    b(8) \o s(1), b(9) \o s(25) \o s(2), b(10) \o s(25) \o s(2), b(11) \o s(25) \o s(2),
    b(12) \o s(1) \o s(2), b(15) \o b(5) \o s(3), b(16) \o s(1), b(18) \o s(0) \o s(4)>>
Tags == <<0>> \o [i \in DOMAIN NameList |-> 1]
        \o <<3, 5, 0, 4, 6, 0, 7, 8, 9, 10, 11, 12, 15, 16, 18>>

Pool == s(Len(Tags)) \o All([i \in DOMAIN NameList |-> Utf8(i)]) \o All(Others)

Size(tokens) == FoldLeft(LAMBDA n, t : n + t[1], 0, tokens)
Attr(name, body) == s(NameAt(name)) \o w(Size(body)) \o body

Class(interfaces, fields, methods, attributes) ==
  w(Magic) \o s(0) \o s(51) \o Pool \o s(1) \o s(22) \o s(22)
  \o Table(interfaces) \o Table(fields) \o Table(methods) \o Table(attributes)
Member(attributes) == s(1) \o s(2) \o s(3) \o Table(attributes)

Constant == b(73) \o s(5)
Enum == b(101) \o s(5) \o s(6)
ClassValue == b(99) \o s(1)
Note(pairs) == s(4) \o Table(pairs)
Pair(value) == s(2) \o value
Nested == b(64) \o Note(<<Pair(b(91) \o Table(<<Constant, Enum, b(91) \o Table(<<>>)>>))>>)

IntType == b(1)
ObjType == b(7) \o s(22)
NewType == b(8) \o s(3)
Frames ==
  <<b(0), b(63), b(64) \o IntType, b(127) \o NewType, b(247) \o s(1) \o ObjType, b(248) \o s(1), b(250) \o s(1),
    b(251) \o s(9), b(252) \o s(1) \o b(0), b(254) \o s(1) \o IntType \o ObjType \o b(3),
    b(255) \o s(4) \o Table(<<IntType, NewType>>) \o Table(<<b(4), b(5)>>), b(255) \o s(0) \o s(0) \o s(0),
    b(253) \o s(2) \o b(2) \o b(6)>>

Code(length, handlers, attributes) ==
  Attr("Code", s(2) \o s(3) \o Wide([i \in 1 .. length |-> b(i)])
               \o Table([i \in 1 .. handlers |-> s(0) \o s(1) \o s(2) \o s(0)])
               \o Table(attributes))

Rows(n, columns) == Table([i \in 1 .. n |-> All([j \in 1 .. columns |-> s(j)])])

\* Each attribute, with what it may hold.
Bodies ==
  {<<"ConstantValue", s(3)>>, <<"Signature", s(4)>>, <<"SourceFile", s(5)>>,
   <<"Exceptions", Rows(2, 1)>>, <<"InnerClasses", Rows(2, 4)>>, <<"EnclosingMethod", s(1) \o s(2)>>,
   <<"Synthetic", <<>>>>, <<"Deprecated", <<>>>>, <<"LineNumberTable", Rows(2, 2)>>,
   <<"LocalVariableTable", Rows(2, 5)>>, <<"LocalVariableTypeTable", Rows(1, 5)>>,
   <<"RuntimeVisibleAnnotations", Table(<<Note(<<Pair(Nested), Pair(ClassValue)>>), Note(<<>>)>>)>>,
   <<"RuntimeInvisibleAnnotations", Table(<<Note(<<Pair(Enum)>>)>>)>>,
   <<"RuntimeVisibleParameterAnnotations", b(2) \o Table(<<>>) \o Table(<<Note(<<Pair(Constant)>>)>>)>>,
   <<"RuntimeInvisibleParameterAnnotations", b(1) \o Table(<<Note(<<Pair(Nested)>>)>>)>>,
   <<"AnnotationDefault", Nested>>, <<"AnnotationDefault", Constant>>,
   <<"BootstrapMethods", Table(<<s(1) \o Rows(2, 1), s(2) \o Rows(0, 1)>>)>>,
   <<"SourceDebugExtension", b(9) \o b(8) \o b(7)>>}
  \cup {<<"StackMapTable", Table(<<f, Frames[1]>>)>> : f \in ToSet(Frames)}

Attributes1 == {Attr(body[1], body[2]) : body \in Bodies}

File1(written, flaw) == [written |-> written, flaw |-> flaw, tags |-> Tags, library |-> FALSE]

\* An attribute of a field, a method, the class and the code of a method, and another
\* one after it, which is met only if the first is read to its end.
Final == Attr("Signature", s(1))

Flawless ==
  UNION {{File1(Class(<<s(22)>>, <<Member(<<a, Final>>)>>, <<>>, <<>>), "none"),
          File1(Class(<<>>, <<>>, <<Member(<<Code(3, 1, <<a, Final>>), Final>>), Member(<<>>)>>, <<Final>>), "none"),
          File1(Class(<<>>, <<>>, <<>>, <<a, Final>>), "none")} : a \in Attributes1}

Unknown == Attr("Unknown", s(1) \o b(0))
\* A frame with as many local variables as uint8_t has values.
WideFrame == b(255) \o s(4) \o Table([i \in 1 .. Counter |-> IntType]) \o Table(<<>>)

Cut(written, n) == SubSeq(written, 1, Len(written) - n)
Simple == Class(<<s(22)>>, <<Member(<<>>)>>, <<Member(<<Code(1, 0, <<>>)>>)>>, <<Final>>)

Flawed ==
  {File1(Class(<<>>, <<Member(<<Unknown>>)>>, <<>>, <<Final>>), "unknown"),
   File1(Class(<<>>, <<>>, <<Member(<<Unknown, Final>>)>>, <<>>), "unknown"),
   File1(Class(<<>>, <<>>, <<>>, <<Final, Unknown>>), "unknown"),
   File1(Class(<<>>, <<>>, <<Member(<<Code(2, 0, <<Unknown, Final>>)>>)>>, <<Final>>), "unknown_in_code"),
   File1(Class(<<>>, <<>>, <<Member(<<Code(2, 0, <<Final, Unknown>>)>>)>>, <<>>), "unknown_in_code"),
   File1(Class(<<>>, <<>>, <<Member(<<Code(2, 0, <<Attr("StackMapTable", Table(<<b(64) \o b(9)>>))>>)>>)>>, <<>>),
         "unknown_in_code"),
   File1(Class(<<>>, <<>>, <<>>, <<Attr("StackMapTable", Table(<<WideFrame>>)), Final>>), "wide"),
   File1(Class(<<>>, <<>>, <<>>, <<Attr("AnnotationDefault", b(63) \o s(1))>>), "malformed"),
   File1(<<<<4, 1>>>> \o Tail(Simple), "malformed"),
   File1(w(Magic) \o s(0) \o s(51) \o s(2) \o b(2) \o s(0), "malformed"),
   File1(w(Magic) \o s(0) \o s(51) \o s(2) \o Utf8(1) \o s(0) \o s(0) \o s(0) \o s(0) \o s(0) \o s(0)
         \o s(1) \o s(0) \o w(0), "malformed")}
  \cup {[File1(Cut(Simple, n), "cut") EXCEPT !.library = library] :
          n \in 1 .. 12, library \in BOOLEAN}

Everything == Flawless \cup Flawed
=============================================================================
