----------------------------- MODULE SeqFilter ------------------------------
(* The items of a sequence at some of its positions, in their order.  It   *)
(* does what SelectSeq does, in a form the provers can reason about.       *)
EXTENDS Integers, Sequences

Subsequence(q, I) ==
  LET upto[n \in 0 .. Len(q)] ==
        IF n = 0 THEN <<>>
        ELSE IF n \in I THEN Append(upto[n - 1], q[n]) ELSE upto[n - 1]
  IN upto[Len(q)]
=============================================================================
