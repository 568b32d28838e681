----------------------------- MODULE ClassFile -----------------------------
(***************************************************************************)
(* The reader of class files (classfile/ClassFileReader.cpp).              *)
(*                                                                         *)
(* A class file is a sequence of bytes.  The reader takes one, two or four *)
(* at a time, never looks ahead, never skips, and uses the length that is  *)
(* given for an attribute only for one of them: what it makes of a byte    *)
(* depends on everything that it has read before.  todo is what it still   *)
(* has to read, the calls under way included, the next item first; an item *)
(* is replaced by its parts when it is met.                                *)
(*                                                                         *)
(* The reader does not see where the file ends.  Beyond the end of a       *)
(* buffer it copies what is there, a file stream leaves the variable as it *)
(* was, and in a library zip_fread is called for ever.                     *)
(***************************************************************************)
EXTENDS Integers, Sequences, SequencesExt, FiniteSets

CONSTANTS
  Files,      \* the files there are: see IsFile
  NameOf,     \* the string that a byte of a Utf8 entry stands for
  Counter,    \* the values of uint8_t, by which some lists are counted
  Strays,     \* the numbers that are found beyond the end of a file
  Beyond      \* bound: how far the reader is followed there, in bytes

Magic == -1   \* 0xCAFEBABE, for which TLC has no number

\* A file is written as a sequence of numbers, with their width in bytes.  flaw is
\* "none" in a file that has all that Java 7 has and nothing else; the end of it is
\* missing in a file that is "cut".  library says whether it is in one.
Flaws == {"none", "unknown", "unknown_in_code", "wide", "malformed", "cut"}

IsFile(f) ==
  /\ \A i \in DOMAIN f.written :
       f.written[i][1] \in {1, 2, 4} /\ f.written[i][2] \in Nat \cup {Magic}
  /\ f.flaw \in Flaws /\ f.library \in BOOLEAN

ASSUME ClassFileAssumption ==
  /\ \A f \in Files : IsFile(f)
  /\ Counter \in Nat \ {0} /\ Beyond \in Nat
  /\ Strays \subseteq Nat /\ Strays # {}

VARIABLES
  file,     \* one of Files
  stray,    \* what the next number is if it is not in the file
  at,       \* how many bytes were read
  todo,     \* what is to be read
  trace,    \* the numbers that were read, with their widths
  pool,     \* constantPool: the tag of each entry, with the name of a Utf8 entry
  pending,  \* an exception was thrown
  status    \* "reading", "read", "refused", or "undefined"

vars == <<file, stray, at, todo, trace, pool, pending, status>>

(***************************************************************************)
(* Bytes.                                                                  *)
(***************************************************************************)
BytesOf(width, v) ==
  IF v = Magic THEN <<202, 254, 186, 190>>
  ELSE [i \in 1 .. width |-> (v \div (256 ^ (width - i))) % 256]

bytes == FlattenSeq([i \in DOMAIN file.written |->
                      BytesOf(file.written[i][1], file.written[i][2])])

\* read and swap_endianness: the bytes come with the highest first.
Number(b) ==
  IF b = BytesOf(4, Magic) THEN Magic
  ELSE IF Len(b) = 4 /\ b[1] > 127 THEN 2 ^ 30   \* abstracted: larger than any file
  ELSE FoldLeft(LAMBDA n, x : 256 * n + x, 0, b)

Take(width) ==
  IF at + width <= Len(bytes) THEN Number(SubSeq(bytes, at + 1, at + width)) ELSE stray

(***************************************************************************)
(* Items of todo.                                                          *)
(***************************************************************************)
u1 == <<[kind |-> "number", width |-> 1]>>
u2 == <<[kind |-> "number", width |-> 2]>>
u4 == <<[kind |-> "number", width |-> 4]>>

\* An item whose first number, of the given width, decides how it goes on.
Item(kind, width) == <<[kind |-> kind, width |-> width]>>

\* A count, and as many times the parts.  A list that is counted by an int of eight
\* bits never ends when it has more elements than that.
List(width, parts) == <<[kind |-> "list", width |-> width, parts |-> parts]>>
List8(parts) == <<[kind |-> "list8", width |-> 2, parts |-> parts]>>
Endless(parts) == <<[kind |-> "endless", width |-> 0, parts |-> parts]>>

PoolEntry == Item("pool_entry", 1)
Attribute == Item("attribute", 2)
Attributes == List(2, Attribute)
VerificationType == Item("verification_type", 1)
StackMapFrame == Item("frame", 1)
ElementValue == Item("element_value", 1)
Annotation == u2 \o List(2, u2 \o ElementValue)

\* Here the error of the attributes in Code is dropped.
EndOfCode == Item("end_of_code", 0)

Repeat(n, parts) == FlattenSeq([i \in 1 .. n |-> parts])

Field == u2 \o u2 \o u2 \o Attributes
Method == u2 \o u2 \o u2 \o Attributes

Header ==
  Item("magic", 4) \o u2 \o u2 \o Item("pool", 2)
  \o u2 \o u2 \o u2 \o List(2, u2)
  \o List(2, Field) \o List(2, Method) \o Attributes

(***************************************************************************)
(* What follows a tag.                                                     *)
(***************************************************************************)
\* read_constant_pool; none for a tag that it does not know.
PoolTags == {1, 3, 4, 5, 6, 7, 8, 9, 10, 11, 12, 15, 16, 18}

AfterPoolTag(tag) ==
  CASE tag = 1 -> Item("utf8", 2)
    [] tag \in {3, 4} -> u4
    [] tag \in {5, 6} -> u4 \o u4
    [] tag \in {7, 8, 16} -> u2
    [] tag \in {9, 10, 11, 12, 18} -> u2 \o u2
    [] tag = 15 -> u1 \o u2

AfterVerificationTag(tag) == IF tag \in {7, 8} THEN u2 ELSE <<>>

\* Mutant: a frame without locals and stack has no offset.
AfterFrameTypeShort(type) ==
  CASE type \in 64 .. 127 -> VerificationType
    [] type = 247 -> u2 \o VerificationType
    [] type \in 248 .. 250 -> u2
    [] type \in 252 .. 254 -> u2 \o Repeat(type - 251, VerificationType)
    [] type = 255 -> u2 \o List8(VerificationType) \o List8(VerificationType)
    [] OTHER -> <<>>

\* read_attribute, StackMapTable; nothing for a type that it does not know.
AfterFrameType(type) ==
  CASE type \in 64 .. 127 -> VerificationType
    [] type = 247 -> u2 \o VerificationType
    [] type \in 248 .. 251 -> u2
    [] type \in 252 .. 254 -> u2 \o Repeat(type - 251, VerificationType)
    [] type = 255 -> u2 \o List8(VerificationType) \o List8(VerificationType)
    [] OTHER -> <<>>

\* read_element_value, with numbers for the characters BCDFIJSZs, e, c, @ and [.
Constants == {66, 67, 68, 70, 73, 74, 83, 90, 115}
ElementTags == Constants \cup {101, 99, 64, 91}

AfterElementTag(tag) ==
  CASE tag \in Constants \cup {99} -> u2
    [] tag = 101 -> u2 \o u2
    [] tag = 64 -> Annotation
    [] tag = 91 -> List(2, ElementValue)

CodeAttribute ==
  u2 \o u2 \o List(4, u1) \o List(2, u2 \o u2 \o u2 \o u2) \o Attributes \o EndOfCode

BootstrapMethodsAttribute == List(2, u2 \o List(2, u2))

AnnotationNames ==
  {"RuntimeVisibleAnnotations", "RuntimeInvisibleAnnotations",
   "RuntimeVisibleParameterAnnotations", "RuntimeInvisibleParameterAnnotations",
   "AnnotationDefault"}

AfterAnnotationName(name) ==
  CASE name \in {"RuntimeVisibleAnnotations", "RuntimeInvisibleAnnotations"} ->
         List(2, Annotation)
    [] name \in {"RuntimeVisibleParameterAnnotations", "RuntimeInvisibleParameterAnnotations"} ->
         List(1, List(2, Annotation))
    [] name = "AnnotationDefault" -> ElementValue

AfterAttributeName(name, length) ==
  CASE name \in {"ConstantValue", "Signature", "SourceFile"} -> u2
    [] name = "Code" -> CodeAttribute
    [] name = "StackMapTable" -> List(2, StackMapFrame)
    [] name = "Exceptions" -> List(2, u2)
    [] name = "InnerClasses" -> List(2, u2 \o u2 \o u2 \o u2)
    [] name = "EnclosingMethod" -> u2 \o u2
    [] name \in {"Synthetic", "Deprecated"} -> <<>>
    [] name = "SourceDebugExtension" -> Repeat(length, u1)
    [] name = "LineNumberTable" -> List(2, u2 \o u2)
    [] name \in {"LocalVariableTable", "LocalVariableTypeTable"} ->
         List(2, u2 \o u2 \o u2 \o u2 \o u2)
    [] name \in AnnotationNames -> AfterAnnotationName(name)
    [] name = "BootstrapMethods" -> BootstrapMethodsAttribute

AttributeNames ==
  {"ConstantValue", "Signature", "SourceFile", "Code", "StackMapTable", "Exceptions",
   "InnerClasses", "EnclosingMethod", "Synthetic", "Deprecated", "LineNumberTable",
   "LocalVariableTable", "LocalVariableTypeTable", "BootstrapMethods", "SourceDebugExtension"}
  \cup AnnotationNames

(***************************************************************************)
(* Steps.                                                                  *)
(***************************************************************************)
Init ==
  /\ file \in Files /\ stray \in Strays
  /\ at = 0 /\ todo = Header /\ trace = <<>> /\ pool = <<>>
  /\ pending = FALSE /\ status = "reading"

Top == Head(todo)

\* In a library the loop of SystemClassFileInputStream::read never ends.
Enough == at + Top.width <= Len(bytes) \/ (~file.library /\ at <= Len(bytes) + Beyond)
Meets(kind) == status = "reading" /\ todo # <<>> /\ Top.kind = kind /\ Enough

\* Where no more than a number is left of the file, the next one may be any.
Proceed ==
  /\ at' = at + Top.width
  /\ stray' \in IF at' + 4 > Len(bytes) THEN Strays ELSE {stray}
  /\ trace' = Append(trace, <<Top.width, Take(Top.width)>>)

\* A number is read for the item, and parts take the place of the item.
Read(parts) ==
  /\ Proceed
  /\ todo' = parts \o Tail(todo)
  /\ UNCHANGED <<file, status>>

\* An exception: LinkageError goes through all the calls up to the attributes of
\* Code, where nobody looks at it, or to the end.
Refuse ==
  /\ Proceed
  /\ pending' = TRUE
  /\ LET caught == {i \in DOMAIN todo : todo[i].kind = "end_of_code"}
     IN IF caught = {} THEN status' = "refused" /\ todo' = <<>>
        ELSE /\ todo' = SubSeq(todo, CHOOSE i \in caught : \A j \in caught : i <= j, Len(todo))
             /\ UNCHANGED status
  /\ UNCHANGED <<file, pool>>

ReadNumber == Meets("number") /\ Read(<<>>) /\ UNCHANGED <<pool, pending>>

ReadList ==
  /\ Meets("list")
  /\ Read(Repeat(Take(Top.width), Top.parts))
  /\ UNCHANGED <<pool, pending>>

ReadList8 ==
  /\ Meets("list8")
  /\ LET n == Take(2)
     IN Read(IF n < Counter THEN Repeat(n, Top.parts) ELSE Endless(Top.parts))
  /\ UNCHANGED <<pool, pending>>

ListGoesOn ==
  /\ Meets("endless")
  /\ todo' = Top.parts \o todo
  /\ UNCHANGED <<file, stray, at, trace, pool, pending, status>>

ReadMagic ==
  /\ Meets("magic")
  /\ \/ Take(4) = Magic /\ Read(<<>>) /\ UNCHANGED <<pool, pending>>
     \/ Take(4) # Magic /\ Refuse

\* read_constant_pool: entry 0 is null; a long or a double takes two entries.
NoEntry == [tag |-> 0, name |-> "none"]

ReadPoolCount ==
  /\ Meets("pool")
  /\ Read(<<[kind |-> "pool_loop", width |-> 0, length |-> Take(2)]>>)
  /\ pool' = <<NoEntry>>
  /\ UNCHANGED pending

PoolLoop ==
  /\ Meets("pool_loop")
  /\ todo' = IF Len(pool) < Top.length THEN PoolEntry \o todo ELSE Tail(todo)
  /\ UNCHANGED <<file, stray, at, trace, pool, pending, status>>

\* The name of a Utf8 entry is its only byte, after the length.
EntryAt(tag) ==
  [tag |-> tag,
   name |-> IF tag = 1 /\ at + 4 <= Len(bytes) THEN NameOf[bytes[at + 4]] ELSE "none"]

\* Mutant: a long takes one entry.
EntriesAtOne(tag) == <<EntryAt(tag)>>

EntriesAt(tag) == IF tag \in {5, 6} THEN <<EntryAt(tag), NoEntry>> ELSE <<EntryAt(tag)>>

ReadPoolEntry ==
  /\ Meets("pool_entry")
  /\ LET tag == Take(1)
     IN \/ /\ tag \in PoolTags
           /\ Read(AfterPoolTag(tag)) /\ pool' = pool \o EntriesAt(tag)
           /\ UNCHANGED pending
        \/ tag \notin PoolTags /\ Refuse

ReadUtf8 ==
  /\ Meets("utf8")
  /\ Read(Repeat(Take(2), u1))
  /\ UNCHANGED <<pool, pending>>

\* read_attribute: the name, the length, and what belongs to the name.
IsName(index) == index + 1 \in DOMAIN pool /\ pool[index + 1].tag = 1

ReadAttributeName ==
  /\ Meets("attribute") /\ IsName(Take(2))
  /\ Read(<<[kind |-> "length", width |-> 4, name |-> pool[Take(2) + 1].name]>>)
  /\ UNCHANGED <<pool, pending>>

\* Mutant: an attribute without a name that is known is taken for an empty one.
ReadAttributeAny ==
  /\ Meets("length")
  /\ Read(IF Top.name \in AttributeNames THEN AfterAttributeName(Top.name, Take(4)) ELSE <<>>)
  /\ UNCHANGED <<pool, pending>>

ReadAttribute ==
  /\ Meets("length")
  /\ \/ /\ Top.name \in AttributeNames
        /\ Read(AfterAttributeName(Top.name, Take(4)))
        /\ UNCHANGED <<pool, pending>>
     \/ Top.name \notin AttributeNames /\ Refuse

ReadVerificationType ==
  /\ Meets("verification_type")
  /\ \/ /\ Take(1) \in 0 .. 8
        /\ Read(AfterVerificationTag(Take(1)))
        /\ UNCHANGED <<pool, pending>>
     \/ Take(1) \notin 0 .. 8 /\ Refuse

ReadFrame ==
  /\ Meets("frame")
  /\ Read(AfterFrameType(Take(1)))
  /\ UNCHANGED <<pool, pending>>

ReadElementValue ==
  /\ Meets("element_value") /\ Take(1) \in ElementTags
  /\ Read(AfterElementTag(Take(1)))
  /\ UNCHANGED <<pool, pending>>

EndCode ==
  /\ Meets("end_of_code")
  /\ todo' = Tail(todo)
  /\ UNCHANGED <<file, stray, at, trace, pool, pending, status>>

\* The name of an attribute that is no Utf8 entry, and an element value with an
\* unknown tag: what happens is not defined.
Undefined ==
  /\ \/ Meets("attribute") /\ ~IsName(Take(2))
     \/ Meets("element_value") /\ Take(1) \notin ElementTags
  /\ status' = "undefined"
  /\ UNCHANGED <<file, stray, at, todo, trace, pool, pending>>

End ==
  /\ status = "reading" /\ todo = <<>>
  /\ status' = "read"
  /\ UNCHANGED <<file, stray, at, todo, trace, pool, pending>>

Next ==
  \/ ReadNumber \/ ReadList \/ ReadList8 \/ ListGoesOn \/ ReadMagic \/ ReadPoolCount \/ PoolLoop
  \/ ReadPoolEntry \/ ReadUtf8 \/ ReadAttributeName \/ ReadAttribute
  \/ ReadVerificationType \/ ReadFrame \/ ReadElementValue \/ EndCode \/ Undefined \/ End

Spec == Init /\ [][Next]_vars

(***************************************************************************)
(* Properties.                                                             *)
(***************************************************************************)
TypeOK ==
  /\ file \in Files /\ stray \in Strays /\ at \in Nat
  /\ \A i \in DOMAIN pool : pool[i].tag \in PoolTags \cup {0}
  /\ pending \in BOOLEAN
  /\ status \in {"reading", "read", "refused", "undefined"}

TagsOf(entries) == [i \in DOMAIN entries |-> entries[i].tag]

\* The reader takes for one number what was written as one number: up to the end of
\* the file it is not out of step with it, however the parts of attributes, annotations
\* and frames are nested, as long as no exception is pending.  A file without a flaw is
\* read to its last byte and not beyond: no attribute or tag of it is refused, and every
\* entry of the pool has its index.  A file with an attribute that the reader does not
\* know, or with a number that nothing begins with, is never taken for a class; inside
\* Code the attribute only leaves an exception behind.  One that is cut off may well be
\* taken for a class: nobody looks for the end, and beyond it the numbers are any.  (The
\* types of the variables are checked on the way.)
ReadsAsWritten ==
  /\ TypeOK
  /\ ~pending /\ file.flaw # "wide" /\ at <= Len(bytes) => IsPrefix(trace, file.written)
  /\ file.flaw = "none" =>
       /\ ~pending /\ status \in {"reading", "read"} /\ at <= Len(bytes)
       /\ status = "read" => trace = file.written /\ TagsOf(pool) = file.tags
  /\ file.flaw \in {"unknown", "malformed"} => status # "read"
  /\ file.flaw = "unknown_in_code" /\ status = "read" => pending
=============================================================================
