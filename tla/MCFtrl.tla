------------------------------- MODULE MCFtrl -------------------------------
(* A small instance of Ftrl for TLC, with exact fractions. *)
EXTENDS Ftrl, Fractions

Slow == [alpha |-> <<1, 2>>, beta |-> <<1, 1>>, l1 |-> <<1, 1>>, l2 |-> <<0, 1>>]
Fast == [alpha |-> <<2, 1>>, beta |-> <<1, 1>>, l1 |-> <<0, 1>>, l2 |-> <<1, 1>>]
TwoParams == {Slow, Fast}
SomeGradients == {Whole(n) : n \in {-12, -4, -3, 0, 3, 4, 12}}
SomeLoads == {<<5, 1>>, <<-1, 2>>}

(* The laws the proofs rest on, on a few fractions. *)
Sample == {Whole(n) : n \in {-4, -1, 0, 1, 3, 9}} \cup {<<1, 2>>, <<-5, 6>>, <<4, 9>>, <<7, 3>>}
ASSUME FractionsAreField == Closed(Sample) /\ Laws(Sample)
=============================================================================
