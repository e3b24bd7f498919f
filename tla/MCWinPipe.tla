----------------------------- MODULE MCWinPipe -----------------------------
(* Values for WinPipe: the thread of the VM and a console in GET_CONSOLE.  *)
EXTENDS WinPipe

CONSTANT con
=============================================================================
