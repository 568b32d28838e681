------------------------------ MODULE WordFrames ------------------------------
(***************************************************************************)
(* Frames as the Java virtual machine specification describes them: an     *)
(* operand stack and local variables of words, two of which make a long or *)
(* a double.  No instruction asks what a word is part of.                  *)
(***************************************************************************)
EXTENDS Naturals, Sequences

CONSTANT NoWord   \* what a local variable has that nobody may read

VARIABLE frames   \* records of a stack and of locals, the current one last

Current == frames[Len(frames)]
Others == SubSeq(frames, 1, Len(frames) - 1)

\* The last n words on the stack, and the ones below.
Upper(n) == SubSeq(Current.stack, Len(Current.stack) - n + 1, Len(Current.stack))
Lower(n) == SubSeq(Current.stack, 1, Len(Current.stack) - n)

Become(stack, locals) ==
  frames' = Append(Others, [stack |-> stack, locals |-> locals])

\* n words are copied and put below the next m as well.
Dup(n, m) == Become(Lower(n + m) \o Upper(n) \o Upper(n + m), Current.locals)

Pop(n) == Become(Lower(n), Current.locals)

Swap == Become(Lower(2) \o Upper(1) \o SubSeq(Upper(2), 1, 1), Current.locals)

\* m words, whichever, come for n words.
Compute(n, m) ==
  LET stack == frames'[Len(frames)].stack
  IN  /\ Len(stack) = Len(Lower(n)) + m
      /\ Become(Lower(n) \o SubSeq(stack, Len(Lower(n)) + 1, Len(stack)), Current.locals)

Load(i, n) ==
  Become(Current.stack \o [k \in 1 .. n |-> Current.locals[i + k - 1]], Current.locals)

\* A word whose other half is overwritten cannot be read any more.
Store(i, n) ==
  LET locals == frames'[Len(frames)].locals
  IN  /\ Become(Lower(n), locals)
      /\ DOMAIN locals = DOMAIN Current.locals
      /\ \A k \in 1 .. n : locals[i + k - 1] = Upper(n)[k]
      /\ \A k \in DOMAIN locals \ (i .. i + n - 1) :
           \/ locals[k] = Current.locals[k]
           \/ k \in {i - 1, i + n} /\ locals[k] = NoWord

\* Only the variable i may change, and does not become unreadable.
Increment(i) ==
  LET word == frames'[Len(frames)].locals[i]
  IN  word # NoWord /\ Become(Current.stack, [Current.locals EXCEPT ![i] = word])

\* The last n words become the first local variables, of size, of a new frame.
Invoke(n, size) ==
  LET Received(k) == IF k < n THEN Upper(n)[k + 1] ELSE NoWord
  IN  frames' = Others \o << [stack |-> Lower(n), locals |-> Current.locals],
                             [stack |-> <<>>, locals |-> [k \in 0 .. size - 1 |-> Received(k)]] >>

\* The last n words are the result.
Return(n) ==
  IF Others = <<>>
  THEN frames' = <<>>
  ELSE frames' = [Others EXCEPT ![Len(Others)].stack = @ \o Upper(n)]

\* The frame p, or none if it is 0, goes on with nothing but an exception.
Throw(p) ==
  /\ Len(frames') = p
  /\ p > 0 => /\ Len(frames'[p].stack) = 1
              /\ frames' = Append(SubSeq(frames, 1, p - 1),
                                  [stack |-> frames'[p].stack, locals |-> frames[p].locals])
=============================================================================
