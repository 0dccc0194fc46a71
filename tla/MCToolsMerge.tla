---------------------------- MODULE MCToolsMerge ----------------------------
(* A small instance of ToolsMerge for TLC. *)
EXTENDS ToolsMerge
=============================================================================
