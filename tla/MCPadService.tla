---------------------------- MODULE MCPadService ----------------------------
(* Instances of PadService for TLC: the sets of commands of its clients. *)
EXTENDS PadService
CONSTANTS p1, p2
=============================================================================
