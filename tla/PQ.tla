--------------------------------- MODULE PQ ---------------------------------
(***************************************************************************)
(* nghttp2_pq.c: a binary heap.  A queue is the sequence of its entries in *)
(* array order, key the function that pq->less compares; an entry's index  *)
(* is its place in the sequence.                                           *)
(***************************************************************************)
EXTENDS Integers, Sequences, SequencesExt

Swap(q, i, j) == [q EXCEPT ![i] = q[j], ![j] = q[i]]

RECURSIVE BubbleUp(_, _, _)
BubbleUp(q, key, i) ==
  IF i # 1 /\ key[q[i]] < key[q[i \div 2]]
    THEN BubbleUp(Swap(q, i \div 2, i), key, i \div 2)
    ELSE q

RECURSIVE BubbleDown(_, _, _)
BubbleDown(q, key, i) ==
  LET Lesser(j, m) == IF j <= Len(q) /\ key[q[j]] < key[q[m]] THEN j ELSE m
      m == Lesser(2 * i + 1, Lesser(2 * i, i))
  IN  IF m = i THEN q ELSE BubbleDown(Swap(q, i, m), key, m)

PQPush(q, key, e) == BubbleUp(Append(q, e), key, Len(q) + 1)

\* nghttp2_pq_pop
PQPop(q, key) ==
  IF Len(q) = 1 THEN <<>>
  ELSE BubbleDown([Front(q) EXCEPT ![1] = Last(q)], key, 1)

\* Mutant: the entry that fills the gap stays there.
PQRemoveUnordered(q, key, e) ==
  LET i == CHOOSE j \in DOMAIN q : q[j] = e
  IN  IF i = 1 THEN PQPop(q, key) ELSE Front([q EXCEPT ![i] = Last(q)])

\* nghttp2_pq_remove: the last entry fills the gap and moves down or up.
PQRemove(q, key, e) ==
  LET i  == CHOOSE j \in DOMAIN q : q[j] = e
      q1 == Front([q EXCEPT ![i] = Last(q)])
  IN  IF i = 1 THEN PQPop(q, key)
      ELSE IF i = Len(q) THEN Front(q)
      ELSE IF key[e] < key[q1[i]] THEN BubbleDown(q1, key, i)
      ELSE BubbleUp(q1, key, i)
=============================================================================
