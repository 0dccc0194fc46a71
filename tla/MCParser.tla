------------------------------ MODULE MCParser ------------------------------
(* A small instance of Parser for TLC. *)
EXTENDS Parser

CONSTANTS i1, i2, b1, b2, b3, bbad

(* Every message has a mark of its own and may arrive again; bbad is not   *)
(* usable.                                                                 *)
MCKey == [m \in Msgs |-> m]
MCUsable == Msgs \ {bbad}
=============================================================================
