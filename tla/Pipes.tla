------------------------------- MODULE Pipes --------------------------------
(* The messages to one open descriptor on the two hosts: that of Windows     *)
(* and, apart from it, that of Linux.  A host is one of them; both promise   *)
(* the same pipe (MessagePipe).                                              *)
EXTENDS WinPipe

VARIABLES
    l_queue, l_active, l_lock, l_connected, freed, waiting, woken, l_spc, l_sends,
    l_rpc, limited, mask, l_rc, l_got

linuxVars == <<l_queue, l_active, l_lock, l_connected, freed, waiting, woken, l_spc, l_sends,
               l_rpc, limited, mask, l_rc, l_got>>

Linux == INSTANCE LinuxPipe WITH
    out_queue <- l_queue, active <- l_active, lock <- l_lock, connected <- l_connected,
    spc <- l_spc, sends <- l_sends, rpc <- l_rpc, rc <- l_rc, got <- l_got

ASSUME LinuxAssumption == Linux!LinuxPipeAssumption

\* The queue has a bound, and a reader that sleeps on it is told of its end (manager.c of Linux).
LinuxSafe == Linux!PipeSafe

\* On Linux, too, the senders, the reader and the end make a first-in first-out pipe.
LinuxImplementsPipe == Linux!ImplementsPipe

\* On Linux senders, reader and the end of the VM never leave each other waiting.
LinuxNothingStuck == Linux!NothingStuck
-----------------------------------------------------------------------------
\* A host that is Linux: what is of Windows stays as it is at the beginning.
LinuxInit == Init /\ ~preempt /\ Linux!Init
LinuxNext == Linux!Next /\ UNCHANGED vars
LinuxHost == LinuxInit /\ [][LinuxNext]_<<vars, linuxVars>> /\ Linux!Fairness
=============================================================================
