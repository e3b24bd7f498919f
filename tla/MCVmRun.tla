------------------------------ MODULE MCVmRun ------------------------------
(* Values for VmRun: one sender beside the stop handler. *)
EXTENDS VmRun

CONSTANT s1

MCMalformed == {2}
=============================================================================
