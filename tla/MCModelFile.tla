---------------------------- MODULE MCModelFile -----------------------------
(* A small instance of ModelFile for TLC: a training request, whose keys   *)
(* are sorted, and a push of weights in the order of a hash map.           *)
EXTENDS ModelFile

MCRequests == {<<0, 3>>, <<5, 0>>}
MCWeights == {-2, 5}
=============================================================================
