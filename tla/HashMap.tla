------------------------------ MODULE HashMap -------------------------------
(***************************************************************************)
(* HashMap.hpp: buckets with chains of entries, which grow by 1.75 when    *)
(* there are as many entries as buckets, and shrink by 1.75 when a removal *)
(* leaves exactly the number of entries that fill the smaller table.       *)
(***************************************************************************)
EXTENDS Naturals, Sequences, SequencesExt

CONSTANTS
  Key, Val, Absent,
  Hash,         \* Hashable::hashCode of a key
  InitialCount  \* of the buckets; 16 by default

VARIABLES
  buckets,   \* _buckets: for each one its chain of entries
  size,      \* _size
  contents   \* what has been put and not been removed

vars == <<buckets, size, contents>>

Empty(count) == [i \in 1 .. count |-> <<>>]

Init ==
  /\ buckets = Empty(InitialCount)
  /\ size = 0
  /\ contents = [k \in Key |-> Absent]

-----------------------------------------------------------------------------
BucketOf(b, k) == 1 + (Hash[k] % Len(b))

\* Where the chain of k's bucket has k, or 0.
Place(b, k) == SelectInSeq(b[BucketOf(b, k)], LAMBDA entry : entry.key = k)

get(b, k) ==
  IF Place(b, k) = 0 THEN Absent ELSE b[BucketOf(b, k)][Place(b, k)].value

WithEntry(b, k, v) ==
  LET new == [key |-> k, value |-> v]
  IN  [b EXCEPT ![BucketOf(b, k)] =
         IF Place(b, k) = 0 THEN Append(@, new) ELSE [@ EXCEPT ![Place(b, k)] = new]]

\* Mutation: only the head of each chain is put again.
resize_heads(b, count) ==
  LET heads == SelectSeq(b, LAMBDA chain : chain # <<>>)
  IN  FoldLeft(LAMBDA new, chain : WithEntry(new, chain[1].key, chain[1].value),
               Empty(count), heads)

\* All entries are put again, in the order of the buckets.  The new table is
\* never full while they are.
resize(b, count) ==
  FoldLeft(LAMBDA new, entry : WithEntry(new, entry.key, entry.value),
           Empty(count), FlattenSeq(b))

Count(b) == Len(FlattenSeq(b))

put(k, v) ==
  LET full == size = Len(buckets)
      room == IF full THEN resize(buckets, (7 * Len(buckets)) \div 4) ELSE buckets
      counted == IF full THEN Count(room) ELSE size
  IN  /\ buckets' = WithEntry(room, k, v)
      /\ size' = IF Place(room, k) = 0 THEN counted + 1 ELSE counted
      /\ contents' = [contents EXCEPT ![k] = v]

remove(k) ==
  LET place == Place(buckets, k)
      without == IF place = 0 THEN buckets
                 ELSE [buckets EXCEPT ![BucketOf(buckets, k)] = RemoveAt(@, place)]
      left == IF place = 0 THEN size ELSE size - 1
      shrinks == 4 * Len(buckets) = 7 * left
  IN  /\ buckets' = IF shrinks THEN resize(without, left) ELSE without
      /\ size' = IF shrinks THEN Count(buckets') ELSE left
      /\ contents' = [contents EXCEPT ![k] = Absent]

Next == \E k \in Key : remove(k) \/ \E v \in Val : put(k, v)

-----------------------------------------------------------------------------
(* The iterator: a bucket and a place in its chain.                        *)

End == <<0, 0>>

\* The first entry in a bucket after i, if any.
FirstAfter(b, i) ==
  LET filled == {j \in i + 1 .. Len(b) : b[j] # <<>>}
  IN  IF filled = {} THEN End
      ELSE <<CHOOSE j \in filled : \A j2 \in filled : j <= j2, 1>>

Following(b, position) ==
  IF position[2] < Len(b[position[1]])
  THEN <<position[1], position[2] + 1>>
  ELSE FirstAfter(b, position[1])

\* Where the iterator is after it has been begun and incremented n times.
At(b, n) ==
  LET walk[i \in 0 .. n] ==
        IF i = 0 THEN FirstAfter(b, 0)
        ELSE IF walk[i - 1] = End THEN End ELSE Following(b, walk[i - 1])
  IN  walk[n]

-----------------------------------------------------------------------------
\* However a table has grown and shrunk: what has been put last under a key is
\* what get finds there, what has been removed is not found, and an iteration
\* passes each key that is there once, size in all, and then is at its end.
MapAsFunction ==
  LET present == {k \in Key : contents[k] # Absent}
      visited(n) == LET p == At(buckets, n) IN buckets[p[1]][p[2]].key
  IN  /\ \A k \in Key : get(buckets, k) = contents[k]
      /\ At(buckets, size) = End
      /\ \A n \in 0 .. size - 1 : At(buckets, n) # End
      /\ present = {visited(n) : n \in 0 .. size - 1}
      /\ \A n, m \in 0 .. size - 1 : visited(n) = visited(m) => n = m
=============================================================================
