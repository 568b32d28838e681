------------------------------ MODULE Encodings ------------------------------
(***************************************************************************)
(* The two kinds of strings of the machine: String, bytes in the UTF-8 of  *)
(* class files, and UTF16String, units of 16 bits.  Either is followed by  *)
(* a zero, and some functions look for it.                                 *)
(***************************************************************************)
EXTENDS Naturals, Sequences, SequencesExt

CONSTANT LengthLimit  \* getUTF8Length is a uint16_t: 2^16

-----------------------------------------------------------------------------
(* UTF16String::operator String and String::operator UTF16String.          *)

\* Mutation: only what is beyond seven bits has more than one byte.
BytesOfZero(c) ==
  IF c <= 127 THEN <<c>>
  ELSE IF c > 2047
       THEN <<224 + (c \div 4096), 128 + ((c \div 64) % 64), 128 + (c % 64)>>
       ELSE <<192 + (c \div 64), 128 + (c % 64)>>

Bytes(c) ==
  IF c # 0 /\ c <= 127 THEN <<c>>
  ELSE IF c > 2047
       THEN <<224 + (c \div 4096), 128 + ((c \div 64) % 64), 128 + (c % 64)>>
       ELSE <<192 + (c \div 64), 128 + (c % 64)>>

ToUTF8(text) == FlattenSeq([i \in DOMAIN text |-> Bytes(text[i])])

getUTF8Length(text) == Len(ToUTF8(text)) % LengthLimit

\* The first byte of a unit tells how many there are.
Width(b) == IF b < 128 THEN 1 ELSE IF (b \div 32) % 2 = 1 THEN 3 ELSE 2

UnitAt(bytes, i) ==
  LET low(j, n) == bytes[j] % n
  IN  CASE Width(bytes[i]) = 1 -> bytes[i]
        [] Width(bytes[i]) = 2 -> low(i, 32) * 64 + low(i + 1, 64)
        [] OTHER -> low(i, 16) * 4096 + low(i + 1, 64) * 64 + low(i + 2, 64)

ToUTF16(bytes) ==
  LET from[i \in 1 .. Len(bytes) + 3] ==
        IF i > Len(bytes) THEN <<>> ELSE <<UnitAt(bytes, i)>> \o from[i + Width(bytes[i])]
  IN  from[1]

\* What strcmp and hashCode see of a String.
CString(bytes) ==
  LET zero == SelectInSeq(bytes, LAMBDA b : b = 0)
  IN  IF zero = 0 THEN bytes ELSE SubSeq(bytes, 1, zero - 1)

\* The Java virtual machine specification's table of a unit's bytes, with
\* which compilers write their literals.
JavaBytes(c) ==
  LET bits(unit, range) == (c \div unit) % range
  IN  CASE 1 <= c /\ c <= 127 -> <<c>>
        [] c = 0 \/ (128 <= c /\ c <= 2047) -> <<192 + bits(64, 32), 128 + bits(1, 64)>>
        [] OTHER -> <<224 + bits(4096, 16), 128 + bits(64, 64), 128 + bits(1, 64)>>

JavaUTF8(text) == FlattenSeq([i \in DOMAIN text |-> JavaBytes(text[i])])
=============================================================================
