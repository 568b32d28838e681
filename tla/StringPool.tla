----------------------------- MODULE StringPool -----------------------------
(***************************************************************************)
(* The pool of strings: literals of class files (Class::get_string_from_cp)*)
(* and strings that programs intern (java_lang_String::intern).  Its keys  *)
(* are bytes, in the UTF-8 of class files; the texts of the strings are    *)
(* units of 16 bits.                                                       *)
(***************************************************************************)
EXTENDS Encodings, FiniteSets

CONSTANTS
  Thread,
  Text,         \* the texts that are asked for: sequences of units
  Asks,         \* no more than this are modelled
  Deeds

\* race: somebody asks while another is about to enter a string.

VARIABLES
  pool,      \* _string_pool: bytes, each with its string
  strings,   \* the texts of the strings that have been created
  asking,    \* for each thread the text, the bytes and what new_ is given
  answers,   \* what has been asked for, and which string was the answer
  deeds

vars == <<pool, strings, asking, answers, deeds>>

Idle == [text |-> <<>>, bytes |-> <<>>, new |-> <<>>, state |-> "idle"]

Init ==
  /\ pool = {} /\ strings = <<>> /\ answers = {}
  /\ asking = [t \in Thread |-> Idle]
  /\ deeds \in Deeds

-----------------------------------------------------------------------------
Entered(bytes) == {entry \in pool : CString(entry.bytes) = CString(bytes)}

\* A thread asks for bytes, and would create new.
Ask(t, text, bytes, new) ==
  /\ asking[t].state = "idle"
  /\ Cardinality(answers) + Cardinality({u \in Thread : asking[u].state # "idle"}) < Asks
  /\ (\E u \in Thread : asking[u].state # "idle") => "race" \in deeds
  /\ IF Entered(bytes) # {}
     THEN /\ answers' = answers \cup {[text |-> text, by |-> t, string |-> entry.string] :
                                        entry \in Entered(bytes)}
          /\ UNCHANGED asking
     ELSE /\ asking' = [asking EXCEPT ![t] = [text |-> text, bytes |-> bytes,
                                              new |-> new, state |-> "creating"]]
          /\ UNCHANGED answers
  /\ UNCHANGED <<pool, strings, deeds>>

get_string_from_cp(t, text) ==
  Ask(t, text, JavaUTF8(text), ToUTF16(JavaUTF8(text)))

\* The bytes are written on an array of getUTF8Length bytes; what happens when
\* they are more is not modelled.
intern(t, text) ==
  /\ Len(ToUTF8(text)) <= getUTF8Length(text)
  /\ Ask(t, text, ToUTF8(text), text)

\* Mutation: the string is not entered.
EnterNothing(t) == UNCHANGED pool

Enter(t) ==
  pool' = {entry \in pool : CString(entry.bytes) # CString(asking[t].bytes)}
          \cup {[bytes |-> asking[t].bytes, string |-> Len(strings) + 1]}

\* java_lang_String::new_ runs Java code; then the string is entered.
Create(t) ==
  /\ asking[t].state = "creating"
  /\ strings' = Append(strings, asking[t].new)
  /\ Enter(t)
  /\ answers' = answers \cup {[text |-> asking[t].text, by |-> t, string |-> Len(strings) + 1]}
  /\ asking' = [asking EXCEPT ![t] = Idle]
  /\ UNCHANGED deeds

Next ==
  \E t \in Thread :
    \/ \E text \in Text : get_string_from_cp(t, text) \/ intern(t, text)
    \/ Create(t)

-----------------------------------------------------------------------------
\* Equal texts, of literals in any class and of strings a program interns, are
\* one string, other texts are other strings, and each has its text.  Claimed
\* for threads that ask one after the other, and texts within the limit.
LiteralsAreOne ==
  deeds = {} =>
    /\ \A a, b \in answers : a.text = b.text <=> a.string = b.string
    /\ \A a \in answers : strings[a.string] = a.text
=============================================================================
