------------------------------ MODULE Network -------------------------------
(* The two drivers that bring packets to and from a VM on Windows: the TAP   *)
(* adapter and, apart from it, the filter that binds a host adapter.  They   *)
(* share no state.                                                           *)
EXTENDS TapAdapter

CONSTANTS Daemons, Packets, Messages

VARIABLES protocol, adapter, packet, message, monitor, crashed, overlapped, removed, over

conetVars == <<protocol, adapter, packet, message, monitor, crashed, overlapped, removed, over>>

Net == INSTANCE Conet WITH late <- over

\* The adapters and packets of the filter are exact, and nothing is used that is gone (conet.c).
ConetExact == Net!ConetExact
-----------------------------------------------------------------------------
\* One driver at a time has steps; the other is as it is at the beginning.
NetworkInit == Init /\ Net!Init
NetworkNext ==
    \/ Net!Init /\ protocol = "none" /\ Next /\ UNCHANGED conetVars
    \/ Init /\ Net!Next /\ UNCHANGED vars
NetworkSpec ==
    NetworkInit /\ [][NetworkNext]_<<vars, conetVars>> /\ Fairness /\ Net!Fairness

\* The end of the process, or of the VM, closes the adapter of TAP and those of the filter.
AdaptersClose == DeviceCloses /\ Net!ConetCloses
=============================================================================
