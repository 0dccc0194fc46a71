----------------------------- MODULE MCStartup ------------------------------
(* A small instance of Startup for TLC. *)
EXTENDS Startup

CONSTANTS w1, w2

(* Without an index and with index 1; both with index 1. *)
MCIndexes == {[w \in Workers |-> IF w = w1 THEN -1 ELSE 1], [w \in Workers |-> 1]}
MCAppNums == {1, 2}
=============================================================================
