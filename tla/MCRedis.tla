------------------------------- MODULE MCRedis -------------------------------
(* A small instance of Redis for TLC. *)
EXTENDS Redis
=============================================================================
