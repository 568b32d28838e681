---------------------------- MODULE DynamicStack ----------------------------
(***************************************************************************)
(* The memory that the frames of a thread are in (dynamic_stack.hpp), with *)
(* the methods that push frames on it and look, or do not look, at what is *)
(* left of it.  A frame has its words, and above them its size.            *)
(***************************************************************************)
EXTENDS Naturals, Sequences

CONSTANTS
  Capacity,   \* words of the memory; JAVA_STACK_SIZE
  Reserve,    \* a Java frame is given up if fewer words are left above it
  Usual,      \* the sizes of frames of which two fit into the reserve
  Large,      \* and of others
  Limit,      \* memory is modelled up to here, beyond the capacity
  Deeds       \* see below

\* nested: native code calls a native method.
\* large: there are large frames.

VARIABLES
  bytes,     \* _bytes
  position,  \* _position
  depth,     \* _size
  frames,    \* who has pushed them, from where on, and what each has written
  deeds

vars == <<bytes, position, depth, frames, deeds>>

\* The memory above p is as older frames have left it: here, all twos.
LeftAbove(p) == [a \in 0 .. Limit - 1 |-> IF a < p THEN bytes[a] ELSE 2]

Init ==
  /\ bytes = [a \in 0 .. Limit - 1 |-> 2]
  /\ position = 0 /\ depth = 0
  /\ frames = <<>>
  /\ deeds \in Deeds

-----------------------------------------------------------------------------
Size(n) == n \in Usual \/ (n \in Large /\ "large" \in deeds)

push(n, type) ==
  /\ bytes' = [a \in DOMAIN bytes |->
                 IF a = position + n THEN n
                 ELSE IF a \in position .. position + n - 1 THEN 0 ELSE bytes[a]]
  /\ position' = position + n + 1
  /\ depth' = depth + 1
  /\ frames' = Append(frames, [type |-> type, start |-> position,
                               words |-> [i \in 0 .. n - 1 |-> 0]])

\* The position below the frame that ends at p.
Below(p) == p - 1 - bytes[p - 1]

\* Mutation: the last words of the reserve are given away.
IsFullAtEnd(p) == p <= Capacity /\ Capacity - p < 1

\* Execute's question when a frame is there.  The difference is unsigned, and
\* a large number behind the end.
IsFull(p) == p <= Capacity /\ Capacity - p < Reserve

\* Who calls: the frame on top, or nobody yet.
Caller == IF frames = <<>> THEN "nobody" ELSE frames[Len(frames)].type

Fits(n) == Size(n) /\ position + n < Limit

InvokeJava(n) ==
  /\ Fits(n) /\ ~IsFull(position + n + 1)
  /\ push(n, "java")
  /\ UNCHANGED deeds

\* The StackOverflowError: the new frame is popped again, and as many others
\* as have no handler.
InvokeOverflows(n, left) ==
  /\ Fits(n) /\ IsFull(position + n + 1)
  /\ left \in 0 .. depth
  /\ position' = IF left = depth THEN position ELSE frames[left + 1].start
  /\ bytes' = LeftAbove(position')
  /\ depth' = left
  /\ frames' = SubSeq(frames, 1, left)
  /\ UNCHANGED deeds

CallsNative == Caller = "native" => "nested" \in deeds

\* Nobody asks.
InvokeNative(n) ==
  /\ Fits(n) /\ CallsNative
  /\ push(n, "native")
  /\ UNCHANGED deeds

pop == position' = Below(position)

Leave ==
  /\ frames # <<>>
  /\ pop
  /\ bytes' = LeftAbove(position')
  /\ depth' = depth - 1
  /\ frames' = SubSeq(frames, 1, Len(frames) - 1)
  /\ UNCHANGED deeds

\* A method writes in its frame: here its last word, next to the size, and
\* something that might be one.
Write(word) ==
  LET end == bytes[position - 1] - 1
  IN  /\ frames # <<>>
      /\ bytes' = [bytes EXCEPT ![Below(position) + end] = word]
      /\ frames' = [frames EXCEPT ![Len(frames)].words[end] = word]
      /\ UNCHANGED <<position, depth, deeds>>

Next ==
  \/ \E n \in Usual \cup Large :
       \/ InvokeJava(n) \/ InvokeNative(n)
       \/ \E left \in 0 .. depth : InvokeOverflows(n, left)
  \/ Leave \/ Write(2)

-----------------------------------------------------------------------------
(* The iterator; the address before the first is the end.                  *)

End == Limit

Begin == IF position = 0 THEN End ELSE Below(position)

Following(p) == IF p = 0 THEN End ELSE Below(p)

At(n) ==
  LET walk[i \in 1 .. n] == IF i = 1 THEN Begin ELSE Following(walk[i - 1])
  IN  walk[n]

-----------------------------------------------------------------------------
\* The collector's iteration over the frames meets each of them, the newest
\* first; each has the words its method has written and nobody else; and no
\* frame reaches beyond the memory, as long as two frames, of a native method
\* and of the Java method it calls, fit into the reserve.
FramesStayIntact ==
  deeds = {} =>
    LET n == Len(frames)
    IN  /\ depth = n /\ position <= Capacity
        /\ \A i \in 1 .. n : At(i) = frames[n + 1 - i].start
        /\ At(n + 1) = End
        /\ \A i \in 1 .. n : \A j \in DOMAIN frames[i].words :
             bytes[frames[i].start + j] = frames[i].words[j]
=============================================================================
