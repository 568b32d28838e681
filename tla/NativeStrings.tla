---------------------------- MODULE NativeStrings ----------------------------
(***************************************************************************)
(* Strings in native code: the functions of JNI that make strings, and     *)
(* those that copy their units, or their bytes in UTF-8, to memory that    *)
(* native code reads (jni/Implementation.cpp).                             *)
(*                                                                         *)
(* Native code has one string and one piece of memory.  A behaviour ends   *)
(* with the first answer that is not the one of JNI.                       *)
(***************************************************************************)
EXTENDS Encodings, Integers

CONSTANTS
  None,
  Unit,             \* the units of texts
  LongestText,
  StringPrograms    \* what a program does of what is known to go wrong

\* zero: it asks for the bytes of a string that has the unit 0.  length: it asks how many bytes a string has
\* that are not all of one unit.  range: it asks for units that a string does
\* not have.
Deeds == {"zero", "length", "range"}

IsSetting ==
  /\ Unit \subseteq 0 .. 65535 /\ LongestText \in Nat
  /\ StringPrograms \subseteq SUBSET Deeds

VARIABLES
  string,      \* the units of the string, or None
  holds,       \* what the memory holds: None, "units" or "bytes"
  memory,      \* with the zero at the end, if the function writes one
  stringDeeds,
  agreed

vars == <<string, holds, memory, stringDeeds, agreed>>

Texts == UNION {[1 .. n -> Unit] : n \in 0 .. LongestText}
WithZero(values) == Append(values, 0)

\* What strlen16 leaves of units: those before the first zero.
UTF16String(units) == CString(units)

Outcome(ok) == agreed' = ok

Reserve(kind, values) == holds' = kind /\ memory' = values

-----------------------------------------------------------------------------
(* Strings are made.                                                       *)

\* NewString: new_ of so many units.
NewString(units) ==
  /\ string' = units
  /\ Outcome(TRUE)
  /\ UNCHANGED <<holds, memory, stringDeeds>>

\* NewStringUTF of the bytes before the zero, which JNI has for a text; or of
\* the bytes in the memory.
NewStringUTF(bytes, text) ==
  /\ string' = ToUTF16(CString(bytes))
  /\ Outcome(string' = text)
  /\ UNCHANGED <<holds, memory, stringDeeds>>

-----------------------------------------------------------------------------
(* Strings are read.  toCharArray gives a copy of their units.             *)

toCharArray == string

\* The length of the array that the string has.
GetStringLength == Len(string)

\* Also GetStringCritical.
GetStringChars ==
  /\ string # None
  /\ Reserve("units", WithZero(toCharArray))
  /\ Outcome(TRUE)
  /\ UNCHANGED <<string, stringDeeds>>

\* ReleaseStringChars, ReleaseStringUTFChars and ReleaseStringCritical.
ReleaseString ==
  /\ holds # None
  /\ Reserve(None, <<>>)
  /\ Outcome(TRUE)
  /\ UNCHANGED <<string, stringDeeds>>

\* GetStringUTFLength: the number of units before the first zero.
GetStringUTFLength ==
  /\ string # None
  /\ (\E i \in DOMAIN string : string[i] \notin 1 .. 127) => "length" \in stringDeeds
  /\ Outcome(Len(UTF16String(WithZero(toCharArray))) = Len(JavaUTF8(string)))
  /\ UNCHANGED <<string, holds, memory, stringDeeds>>

\* The units up to the first zero are converted.
GetStringUTFChars ==
  /\ string # None
  /\ (\E i \in DOMAIN string : string[i] = 0) => "zero" \in stringDeeds
  /\ LET utf8 == ToUTF8(UTF16String(WithZero(toCharArray)))
     IN /\ Reserve("bytes", WithZero(utf8))
        /\ Outcome(utf8 = JavaUTF8(string))
  /\ UNCHANGED <<string, stringDeeds>>

\* The units from start on: nobody compares them with the length.
Units(start, length) == SubSeq(toCharArray, start + 1, start + length)

InRange(start, length) == start >= 0 /\ length >= 0 /\ start + length <= GetStringLength

\* Mutation: the units are converted as far as a zero, as in GetStringUTFChars.
RegionToZero(start, length) == ToUTF8(UTF16String(WithZero(Units(start, length))))

RegionUTF8(start, length) == ToUTF8(Units(start, length))

\* Java has an exception for a range that is not in the string.
Ask(start, length) ==
  /\ string # None
  /\ ~InRange(start, length) => "range" \in stringDeeds

GetStringRegion(start, length) ==
  /\ Ask(start, length)
  /\ IF InRange(start, length) THEN Reserve("units", Units(start, length)) ELSE UNCHANGED <<holds, memory>>
  /\ Outcome(InRange(start, length))
  /\ UNCHANGED <<string, stringDeeds>>

\* The bytes and a zero.
GetStringUTFRegion(start, length) ==
  /\ Ask(start, length)
  /\ IF InRange(start, length) THEN Reserve("bytes", WithZero(RegionUTF8(start, length)))
     ELSE UNCHANGED <<holds, memory>>
  /\ Outcome(/\ InRange(start, length)
             /\ RegionUTF8(start, length) = JavaUTF8(SubSeq(string, start + 1, start + length)))
  /\ UNCHANGED <<string, stringDeeds>>

\* The bytes of the memory are made a string again.  They are those of JNI for
\* the units that were asked for.
Again(text) == holds = "bytes" /\ memory = WithZero(JavaUTF8(text)) /\ NewStringUTF(memory, text)

-----------------------------------------------------------------------------
Init ==
  /\ string = None /\ holds = None /\ memory = <<>>
  /\ stringDeeds \in StringPrograms
  /\ agreed = TRUE

Next ==
  /\ agreed
  /\ \/ \E units \in Texts : NewString(units)
     \/ \E text \in Texts : NewStringUTF(WithZero(JavaUTF8(text)), text)
     \/ \E text \in Texts : Again(text)
     \/ GetStringChars \/ ReleaseString
     \/ GetStringUTFLength \/ GetStringUTFChars
     \/ \E start \in -1 .. LongestText, length \in 0 .. LongestText :
          GetStringRegion(start, length) \/ GetStringUTFRegion(start, length)

Spec == Init /\ [][Next]_vars

-----------------------------------------------------------------------------
(* Properties.                                                             *)

TypeOK ==
  /\ string \in Texts \cup {None} /\ holds \in {None, "units", "bytes"}
  /\ \A i \in DOMAIN memory : memory[i] \in 0 .. 65535

\* Whatever native code asks of a string, it gets the units or the bytes that
\* JNI has for them, and bytes that it has got become the same string again,
\* with units of one, two and three bytes.  Excepted are programs that call
\* GetStringUTFChars for a string with the unit 0, which ends it there, programs
\* that trust GetStringUTFLength, which counts units, and ranges outside of a
\* string.
\* (The types of the variables are checked on the way.)
StringsAsJava == TypeOK /\ (stringDeeds = {} => agreed)
=============================================================================
