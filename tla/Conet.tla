------------------------------- MODULE Conet --------------------------------
(***************************************************************************)
(* The network filter in the Windows driver (os/winnt/kernel/conet.c): an  *)
(* NDIS protocol for each VM, that binds a host adapter to a network unit  *)
(* of the guest.  NDIS calls the handlers of the protocol while ioctls of  *)
(* daemons bind adapters, the guest sends, and the VM ends.  Messages to   *)
(* the guest go through work items, which run later.                       *)
(***************************************************************************)
EXTENDS Naturals, FiniteSets

CONSTANTS
    Daemons,      \* conet-ndis daemons that bind the unit; each adapter is named by one
    Packets,      \* the packet pool of an adapter
    Messages      \* bound: messages to the guest at a time

VARIABLES
    protocol,     \* osdep->conet_protocol: registered, closing, none
    adapter,      \* of each daemon: where it is, whether binding_handle is set
    packet,       \* free, or in pending_transfer_list or pending_send_list of an adapter
    message,      \* none, in a work item, in linux_message_queue, leaked
    monitor,      \* is the monitor there?
    crashed,      \* something not there was used
    \* what happened
    overlapped,   \* two binds were between their test and their listing
    removed,      \* NDIS took an adapter away
    late          \* the monitor was freed with work items queued

adapterVars == <<protocol, adapter, overlapped, removed>>
vars == <<adapterVars, packet, message, monitor, crashed, late>>

NoPacket == [at |-> "free", adapter |-> {}]
Listed  == {d \in Daemons : adapter[d].at = "listed"}
\* NDIS calls the handlers with an adapter that is open, also while it is closed.
Open(d) == adapter[d].handle
Binding == {d \in Daemons : adapter[d].at \in {"tested", "opening", "bound"}}

Init ==
    /\ protocol \in {"registered", "none"}
    /\ adapter = [d \in Daemons |-> [at |-> "none", handle |-> FALSE]]
    /\ packet = [p \in Packets |-> NoPacket]
    /\ message = [m \in Messages |-> "none"]
    /\ monitor = TRUE /\ crashed = FALSE
    /\ overlapped = FALSE /\ removed = FALSE /\ late = FALSE
-----------------------------------------------------------------------------
(* co_conet_bind_adapter.                                                  *)

BindTest(d) ==
    /\ monitor /\ protocol = "registered" /\ adapter[d].at = "none"
    /\ adapter' = [adapter EXCEPT ![d].at = IF Listed # {} THEN "done" ELSE "tested"]
    /\ overlapped' = (overlapped \/ (Listed = {} /\ Binding # {}))
    /\ UNCHANGED <<protocol, removed, packet, message, monitor, crashed, late>>

\* The adapter is created and opened, which may fail or take time.
BindOpen(d, result) ==
    /\ adapter[d].at = "tested"
    /\ adapter' = [adapter EXCEPT ![d] = [at |-> result, handle |-> result = "bound"]]
    /\ UNCHANGED <<protocol, overlapped, removed, packet, message, monitor, crashed, late>>

OpenComplete(d, ok) ==
    /\ adapter[d].at = "opening"
    /\ adapter' = [adapter EXCEPT ![d] = [at |-> IF ok THEN "bound" ELSE "done", handle |-> ok]]
    /\ UNCHANGED <<protocol, overlapped, removed, packet, message, monitor, crashed, late>>

BindList(d) ==
    /\ adapter[d].at = "bound"
    /\ adapter' = [adapter EXCEPT ![d].at = "listed"]
    /\ UNCHANGED <<protocol, overlapped, removed, packet, message, monitor, crashed, late>>
-----------------------------------------------------------------------------
(* From the host adapter to the guest.                                     *)

\* co_conet_transfer_message: the message is leaked when there is no memory for the work
\* item that is to deliver it.
TransferMessage(m, ok) ==
    /\ message[m] = "none"
    /\ message' = [message EXCEPT ![m] = IF ok THEN "work" ELSE "leaked"]

\* A packet that comes in one piece, or a change of the medium.
Receive(d, m, ok) ==
    /\ Open(d)
    /\ TransferMessage(m, ok)
    /\ UNCHANGED <<adapterVars, packet, monitor, crashed, late>>

\* The rest of the packet has to be fetched, which fails at once while the adapter closes.
ReceivePart(d, p) ==
    /\ Open(d) /\ adapter[d].at # "closing" /\ packet[p] = NoPacket
    /\ packet' = [packet EXCEPT ![p] = [at |-> "transfer", adapter |-> {d}]]
    /\ UNCHANGED <<adapterVars, message, monitor, crashed, late>>

\* Mutant of TransferComplete: a packet that is not for the guest is not freed.
TransferComplete_Keep(p, m, ours, ok) ==
    /\ packet[p].at = "transfer"
    /\ packet' = IF ours THEN [packet EXCEPT ![p] = NoPacket] ELSE packet
    /\ IF ours THEN TransferMessage(m, ok) ELSE UNCHANGED message
    /\ UNCHANGED <<adapterVars, monitor, crashed, late>>

\* It came: a packet that passes the filter is copied to a message, and freed.
TransferComplete(p, m, ours, ok) ==
    /\ packet[p].at = "transfer"
    /\ packet' = [packet EXCEPT ![p] = NoPacket]
    /\ IF ours THEN TransferMessage(m, ok) ELSE UNCHANGED message
    /\ UNCHANGED <<adapterVars, monitor, crashed, late>>

\* co_conet_transfer_message_routine, in a system thread: the message goes to the queue of
\* the monitor, or is freed.
Work(m, ok) ==
    /\ message[m] = "work"
    /\ message' = [message EXCEPT ![m] = IF monitor /\ ok THEN "queue" ELSE "none"]
    /\ crashed' = (crashed \/ ~monitor)
    /\ UNCHANGED <<adapterVars, packet, monitor, late>>

GuestReads(m) ==
    /\ monitor /\ message[m] = "queue"
    /\ message' = [message EXCEPT ![m] = "none"]
    /\ UNCHANGED <<adapterVars, packet, monitor, crashed, late>>
-----------------------------------------------------------------------------
(* From the guest to the host adapter.                                     *)

\* co_conet_inject_packet_to_adapter; NdisSend may end it at once.
Inject(d, p) ==
    /\ monitor /\ protocol = "registered"
    /\ d \in Listed /\ Open(d) /\ packet[p] = NoPacket
    /\ packet' = [packet EXCEPT ![p] = [at |-> "send", adapter |-> {d}]]
    /\ UNCHANGED <<adapterVars, message, monitor, crashed, late>>

SendComplete(p) ==
    /\ packet[p].at = "send"
    /\ packet' = [packet EXCEPT ![p] = NoPacket]
    /\ UNCHANGED <<adapterVars, message, monitor, crashed, late>>
-----------------------------------------------------------------------------
(* The end of an adapter and of the VM.                                    *)

Outstanding(d) == {p \in Packets : d \in packet[p].adapter}

\* The host adapter is disabled or taken out: NDIS calls the unbind handler.
Unbind(d) ==
    /\ protocol = "registered" /\ d \in Listed /\ Open(d) /\ Outstanding(d) = {}
    /\ adapter' = [adapter EXCEPT ![d].handle = FALSE]
    /\ removed' = TRUE
    /\ UNCHANGED <<protocol, overlapped, packet, message, monitor, crashed, late>>

\* co_conet_unregister_protocol when the monitor is destroyed: no ioctl runs.
Unregister ==
    /\ protocol = "registered" /\ Binding = {}
    /\ protocol' = "closing"
    /\ UNCHANGED <<adapter, overlapped, removed, packet, message, monitor, crashed, late>>

\* Each adapter of the list is closed; one that NDIS took away has no handle to close.
Close(d) ==
    /\ protocol = "closing" /\ d \in Listed
    /\ \A e \in Daemons : adapter[e].at # "closing"
    /\ adapter' = [adapter EXCEPT ![d].at = "closing"]
    /\ crashed' = (crashed \/ ~Open(d))
    /\ UNCHANGED <<protocol, overlapped, removed, packet, message, monitor, late>>

\* Mutant of CloseComplete: the end of a close that takes time is not waited for.
CloseComplete_NoWait(d) ==
    /\ adapter[d].at = "closing"
    /\ adapter' = [adapter EXCEPT ![d] = [at |-> "freed", handle |-> FALSE]]
    /\ UNCHANGED <<protocol, overlapped, removed, packet, message, monitor, crashed, late>>

\* NDIS ends what is outstanding; then the adapter is freed.
CloseComplete(d) ==
    /\ adapter[d].at = "closing" /\ Outstanding(d) = {}
    /\ adapter' = [adapter EXCEPT ![d] = [at |-> "freed", handle |-> FALSE]]
    /\ UNCHANGED <<protocol, overlapped, removed, packet, message, monitor, crashed, late>>

\* co_monitor_os_exit and the rest of co_monitor_destroy, which flushes the queue.  The
\* mutex of the adapters was made only if the protocol could be registered.
Destroy ==
    /\ monitor
    /\ protocol = "none" \/ (protocol = "closing" /\ \A d \in Daemons : ~Open(d) /\ d \notin Listed)
    /\ crashed' = (crashed \/ protocol = "none")
    /\ monitor' = FALSE
    /\ late' = \E m \in Messages : message[m] = "work"
    /\ message' = [m \in Messages |-> IF message[m] = "queue" THEN "none" ELSE message[m]]
    /\ UNCHANGED <<adapterVars, packet>>
-----------------------------------------------------------------------------
Arrives(d) ==
    \/ \E m \in Messages, ok \in BOOLEAN : Receive(d, m, ok)
    \/ \E p \in Packets : ReceivePart(d, p)

Completes(p) ==
    \/ SendComplete(p)
    \/ \E m \in Messages, ours, ok \in BOOLEAN : TransferComplete(p, m, ours, ok)

Next == ~crashed /\
    \/ \E d \in Daemons :
         \/ BindTest(d) \/ BindList(d) \/ Unbind(d) \/ Close(d) \/ CloseComplete(d)
         \/ \E result \in {"bound", "opening", "done"} : BindOpen(d, result)
         \/ \E ok \in BOOLEAN : OpenComplete(d, ok)
         \/ Arrives(d)
         \/ \E p \in Packets : Inject(d, p)
    \/ \E p \in Packets : Completes(p)
    \/ \E m \in Messages : GuestReads(m) \/ \E ok \in BOOLEAN : Work(m, ok)
    \/ Unregister \/ Destroy

Spec == Init /\ [][Next]_vars

\* NDIS completes what it was given, and the end of the VM goes on.
Fairness ==
    /\ \A p \in Packets : WF_vars(~crashed /\ Completes(p))
    /\ \A d \in Daemons : WF_vars(~crashed /\ (Close(d) \/ CloseComplete(d)))
    /\ WF_vars(~crashed /\ protocol # "none" /\ Destroy)

FairSpec == Spec /\ Fairness
-----------------------------------------------------------------------------
\* NDIS has no packet of an adapter that is freed: what arrives or is sent while the VM
\* ends is given back before the memory of its adapter.
PacketsLive == \A p \in Packets : \A d \in packet[p].adapter : Open(d)

\* A unit has one adapter, through which all it sends leaves and which alone receives, when
\* no two daemons bound it at the same time.
OneAdapter == Cardinality({d \in Daemons : Open(d)}) > 1 => overlapped

\* Nothing is used that is gone, except through a work item that outlives the monitor, by
\* closing an adapter that NDIS took away, or when there was no protocol.
NothingStale == crashed => late \/ removed \/ protocol = "none"

\* A packet keeps its adapter, a host adapter is bound once, and nothing is used that is
\* gone (conet.c).
ConetExact == PacketsLive /\ OneAdapter /\ NothingStale

\* The end of the VM is not held up by packets under way: its adapters close.
ConetCloses == protocol = "closing" ~> ~monitor \/ crashed
=============================================================================
