------------------------------ MODULE MCPipes -------------------------------
(* Values for Pipes: the thread of the VM and a console in GET_CONSOLE. *)
EXTENDS Pipes

CONSTANT con
=============================================================================
