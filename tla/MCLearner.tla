----------------------------- MODULE MCLearner ------------------------------
(* A small instance of Learner for TLC. *)
EXTENDS Learner

(* A batch that keeps both entries, one that keeps its second (with a      *)
(* feature twice), one that keeps none.                                    *)
MCBatches ==
  { << [y |-> 1, mem |-> <<1>>], [y |-> 0, mem |-> <<1, 2>>] >>,
    << [y |-> -1, mem |-> <<1>>], [y |-> 1, mem |-> <<2, 2>>] >>,
    << [y |-> -1, mem |-> <<2>>] >> }

MCWeights == {-1, 1}
MCOne == 2
MCSigmoid(x) == IF x < 0 THEN 0 ELSE IF x = 0 THEN 1 ELSE 2
MCStep(w, g) == IF w - g < 0 THEN -1 ELSE IF w = g THEN 0 ELSE 1
=============================================================================
