--------------------------- MODULE MCParamServer ----------------------------
(* A small instance of ParamServer for TLC: the second worker has no model *)
(* file and does not set the hyper-parameters.                             *)
EXTENDS ParamServer

CONSTANTS w1, w2

AllButW2 == [w \in Workers |-> w # w2]
=============================================================================
