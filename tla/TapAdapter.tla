----------------------------- MODULE TapAdapter -----------------------------
(***************************************************************************)
(* The TAP-Win32 driver that colinux ships (os/winnt/kernel/tap-win32): a  *)
(* network adapter whose transmitted packets a process reads through a     *)
(* device.  NDIS calls AdapterTransmit from any processor, the process has *)
(* several reads under way that Windows may cancel, the device is closed   *)
(* and opened again, the adapter is powered down and halted.  m_QueueLock  *)
(* makes each access to the two queues atomic, and no more than that.      *)
(***************************************************************************)
EXTENDS Naturals, Sequences, SequencesExt

CONSTANTS
    Irps,               \* reads under way at a time
    Threads,            \* processors in AdapterTransmit
    PACKET_QUEUE_SIZE,
    IRP_QUEUE_SIZE,
    MaxOpens            \* bound: how often the device is opened

VARIABLES
    m_InterfaceIsRunning,
    halt,               \* no, asked (m_Halt, ~m_TapIsRunning), flushed, freed
    m_TapOpens,
    m_MediaState,
    m_PacketQueue,      \* of each packet, the session it was sent in, or 0: a session that
                        \* ended between the tests and the queueing
    m_IrpQueue,
    irp,                \* a read: where it is (lost: completed, and still in the queue),
                        \* cancelled?, has a cancel routine?, callback
    tx,                 \* a transmission: where it is, its packet, the read it completes
    handle,             \* of the process: closed, open, closing
    session,            \* how often it was opened
    fault,              \* what went wrong
    gap,                \* what is queued was queued between the two sections of a read, or
                        \* between two sections of a transmission when the power changed
    early               \* the sleep of DestroyTapDevice was too short

queueVars == <<m_PacketQueue, m_IrpQueue>>
adapterVars == <<m_InterfaceIsRunning, halt, m_TapOpens, m_MediaState, handle, session>>
happened == <<gap, early>>
vars == <<adapterVars, queueVars, irp, tx, fault, happened>>

IS_UP == m_InterfaceIsRunning /\ halt = "no"
NoRead == [at |-> "none", cancel |-> FALSE, routine |-> FALSE, call |-> "none",
           packet |-> <<>>]
NoTx   == [at |-> "none", packet |-> <<>>, irp |-> {}]

Outstanding(i) == irp[i].at \notin {"none", "lost"}
Busy == (\E i \in Irps : irp[i].at \in {"hook", "unserved", "served"} \/ irp[i].call = "lookup")
        \/ \E t \in Threads : tx[t].at # "none"

Init ==
    /\ m_InterfaceIsRunning = TRUE /\ halt = "no" /\ m_TapOpens = 0
    /\ m_MediaState = FALSE
    /\ m_PacketQueue = <<>> /\ m_IrpQueue = <<>>
    /\ irp = [i \in Irps |-> NoRead]
    /\ tx = [t \in Threads |-> NoTx]
    /\ handle = "closed" /\ session = 0 /\ fault = "none"
    /\ gap = FALSE /\ early = FALSE
-----------------------------------------------------------------------------
\* IoCompleteRequest of a read, that gets the packet, if any.
Completed(i, packet) ==
    /\ irp' = [irp EXCEPT ![i] = [NoRead EXCEPT !.call = irp[i].call]]
    /\ fault' = IF irp[i].at = "lost" THEN "lost read"
                ELSE IF ~Outstanding(i) THEN "completed twice"
                ELSE IF packet \notin {<<>>, <<0>>, <<session>>} THEN "old packet"
                ELSE fault

(* The device: IRP_MJ_CREATE, IRP_MJ_CLOSE and the controls of TapDeviceHook.  *)

Create ==
    /\ handle = "closed" /\ halt = "no" /\ m_TapOpens = 0 /\ session < MaxOpens
    /\ m_TapOpens' = 1 /\ handle' = "open" /\ session' = session + 1
    /\ UNCHANGED <<m_InterfaceIsRunning, halt, m_MediaState, queueVars, irp, tx, fault, happened>>

\* The process closes its handle, or ends.
CloseHandle ==
    /\ handle = "open"
    /\ handle' = "closing"
    /\ UNCHANGED <<m_InterfaceIsRunning, halt, m_TapOpens, m_MediaState, session, queueVars, irp,
                   tx, fault, happened>>

\* The reads in the queue are completed, the packets freed.
FlushQueues ==
    /\ m_IrpQueue' = <<>> /\ m_PacketQueue' = <<>> /\ gap' = FALSE
    /\ irp' = [i \in Irps |-> IF Contains(m_IrpQueue, i) THEN [NoRead EXCEPT !.call = irp[i].call]
                              ELSE irp[i]]
    /\ fault' = IF \E i \in Irps : Contains(m_IrpQueue, i) /\ irp[i].at = "lost"
              THEN "lost read" ELSE fault

\* Windows closes the device when no read of it is outstanding.
Close ==
    /\ handle = "closing" /\ \A i \in Irps : ~Outstanding(i)
    /\ handle' = "closed"
    /\ IF halt = "no"
       THEN /\ m_TapOpens' = 0 /\ m_MediaState' = FALSE
            /\ FlushQueues
            /\ tx' = [t \in Threads |-> IF tx[t].at = "tested" THEN [tx[t] EXCEPT !.packet = <<0>>]
                                        ELSE tx[t]]
       ELSE UNCHANGED <<m_TapOpens, m_MediaState, queueVars, irp, tx, fault, gap>>
    /\ UNCHANGED <<m_InterfaceIsRunning, halt, session, early>>

\* TAP_IOCTL_SET_MEDIA_STATUS.
SetMediaStatus ==
    /\ handle = "open" /\ halt = "no"
    /\ m_MediaState' = ~m_MediaState
    /\ UNCHANGED <<m_InterfaceIsRunning, halt, m_TapOpens, handle, session, queueVars, irp, tx,
                   fault, happened>>
-----------------------------------------------------------------------------
(* IRP_MJ_READ.                                                            *)

Read(i) ==
    /\ handle = "open" /\ irp[i].at = "none" /\ irp[i].call = "none" /\ ~Contains(m_IrpQueue, i)
    /\ halt = "no" /\ m_InterfaceIsRunning
    /\ irp' = [irp EXCEPT ![i].at = "hook"]
    /\ UNCHANGED <<adapterVars, queueVars, tx, fault, happened>>

\* "Can we provide immediate service?"
ReadNow(i) ==
    /\ irp[i].at = "hook"
    /\ IF IS_UP /\ m_PacketQueue # <<>> /\ m_IrpQueue = <<>>
       THEN /\ irp' = [irp EXCEPT ![i].at = "served", ![i].packet = <<Head(m_PacketQueue)>>]
            /\ m_PacketQueue' = Tail(m_PacketQueue)
       ELSE /\ irp' = [irp EXCEPT ![i].at = "unserved"]
            /\ UNCHANGED m_PacketQueue
    /\ UNCHANGED <<adapterVars, m_IrpQueue, tx, fault, happened>>

ReadServed(i) ==
    /\ irp[i].at = "served" /\ irp[i].packet # <<>>
    /\ Completed(i, irp[i].packet)
    /\ UNCHANGED <<adapterVars, queueVars, tx, happened>>

\* "Attempt to pend read request": the cancel routine is set, whether or not it was cancelled.
ReadPend(i) ==
    /\ irp[i].at = "unserved"
    /\ IF IS_UP /\ Len(m_IrpQueue) < IRP_QUEUE_SIZE
       THEN /\ m_IrpQueue' = Append(m_IrpQueue, i)
            /\ irp' = [irp EXCEPT ![i].at = "queued", ![i].routine = TRUE]
            /\ gap' = (m_PacketQueue # <<>>)
            /\ UNCHANGED fault
       ELSE /\ Completed(i, <<>>)
            /\ UNCHANGED <<m_IrpQueue, gap>>
    /\ UNCHANGED <<adapterVars, m_PacketQueue, tx, early>>

\* IoCancelIrp, when the process ends: it calls the cancel routine, if there is one.
Cancel(i) ==
    /\ handle = "closing" /\ Outstanding(i) /\ ~irp[i].cancel
    /\ irp' = [irp EXCEPT ![i].cancel = TRUE, ![i].routine = FALSE,
                          ![i].call = IF irp[i].routine THEN "lookup" ELSE "none"]
    /\ UNCHANGED <<adapterVars, queueVars, tx, fault, happened>>

\* QueueExtract: it takes out every i, and a read is in the queue once (QueuedOnce, proved).
Extracted(queue, i) ==
    IF Contains(queue, i)
    THEN RemoveAt(queue, CHOOSE k \in 1 .. Len(queue) : queue[k] = i)
    ELSE queue

\* Mutant of CancelIRP: it is completed whether or not it was found in the queue.
CancelIRP_Always(i, found) ==
    /\ irp[i].call = "lookup"
    /\ irp' = [irp EXCEPT ![i] = NoRead]
    /\ fault' = IF ~Outstanding(i) THEN "completed twice" ELSE fault
    /\ m_IrpQueue' = IF found THEN Extracted(m_IrpQueue, i) ELSE m_IrpQueue
    /\ UNCHANGED <<adapterVars, m_PacketQueue, tx, happened>>

\* CancelIRPCallback, at DISPATCH_LEVEL, so that the lookup of the adapter fails when its
\* lock is held: the read is then completed but stays queued.  When it has left the queue,
\* another completes it, perhaps before this reads p_IRP->CancelIrql.
CancelIRP(i, found) ==
    /\ irp[i].call = "lookup"
    /\ LET queued == Contains(m_IrpQueue, i) IN
       /\ irp' = [irp EXCEPT ![i] = IF ~found THEN [NoRead EXCEPT !.at = "lost"]
                                    ELSE IF queued THEN NoRead ELSE [@ EXCEPT !.call = "none"]]
       /\ fault' = IF Outstanding(i) THEN fault ELSE "stale read"
    /\ m_IrpQueue' = IF found THEN Extracted(m_IrpQueue, i) ELSE m_IrpQueue
    /\ gap' = (gap /\ m_IrpQueue' # <<>>)
    /\ UNCHANGED <<adapterVars, m_PacketQueue, tx, early>>
-----------------------------------------------------------------------------
(* AdapterTransmit.                                                        *)

\* The adapter is tested without a lock, and the packet copied.  What the DHCP masquerade
\* answers itself, and what the point-to-point mode does not take, goes no further.
TxTest(t) ==
    /\ halt # "freed" /\ tx[t].at = "none" /\ m_TapOpens = 1 /\ m_MediaState
    /\ tx' = [tx EXCEPT ![t] = [NoTx EXCEPT !.at = "tested", !.packet = <<session>>]]
    /\ UNCHANGED <<adapterVars, queueVars, irp, fault, happened>>

\* It is queued; when the adapter is down or there is no room, it is dropped.
TxPush(t) ==
    /\ tx[t].at = "tested"
    /\ IF IS_UP /\ Len(m_PacketQueue) < PACKET_QUEUE_SIZE
       THEN /\ m_PacketQueue' = m_PacketQueue \o tx[t].packet
            /\ tx' = [tx EXCEPT ![t] = [NoTx EXCEPT !.at = "match"]]
       ELSE /\ tx' = [tx EXCEPT ![t] = NoTx]
            /\ UNCHANGED m_PacketQueue
    /\ UNCHANGED <<adapterVars, m_IrpQueue, irp, fault, happened>>

TxMatch(t) ==
    /\ tx[t].at = "match"
    /\ IF IS_UP /\ m_PacketQueue # <<>> /\ m_IrpQueue # <<>>
       THEN /\ tx' = [tx EXCEPT ![t] = [at |-> "serve", packet |-> <<Head(m_PacketQueue)>>,
                                        irp |-> {Head(m_IrpQueue)}]]
            /\ m_PacketQueue' = Tail(m_PacketQueue) /\ m_IrpQueue' = Tail(m_IrpQueue)
            /\ gap' = FALSE
       ELSE /\ tx' = [tx EXCEPT ![t] = NoTx]
            /\ UNCHANGED <<queueVars, gap>>
    /\ UNCHANGED <<adapterVars, irp, fault, early>>

\* CompleteIRP; the loop goes on.
TxServe(t) ==
    /\ tx[t].at = "serve"
    /\ \E i \in tx[t].irp : Completed(i, tx[t].packet)
    /\ tx' = [tx EXCEPT ![t] = [NoTx EXCEPT !.at = "match"]]
    /\ UNCHANGED <<adapterVars, queueVars, happened>>
-----------------------------------------------------------------------------
(* The adapter.                                                            *)

\* AdapterModify of OID_PNP_SET_POWER.
SetPower ==
    /\ halt = "no"
    /\ m_InterfaceIsRunning' = ~m_InterfaceIsRunning
    /\ gap' = (gap \/ \E t \in Threads : tx[t].at \in {"match", "serve"})
    /\ UNCHANGED <<halt, m_TapOpens, m_MediaState, handle, session, queueVars, irp, tx, fault,
                   early>>

\* AdapterHalt and DestroyTapDevice, to the first sleep.
Halt ==
    /\ halt = "no"
    /\ m_InterfaceIsRunning' = FALSE /\ halt' = "asked" /\ m_TapOpens' = 0
    /\ UNCHANGED <<m_MediaState, handle, session, queueVars, irp, tx, fault, happened>>

\* It flushes the queues, and cancels the reads there.
HaltFlush ==
    /\ halt = "asked"
    /\ halt' = "flushed"
    /\ FlushQueues
    /\ UNCHANGED <<m_InterfaceIsRunning, m_TapOpens, m_MediaState, handle, session, tx, early>>

\* It frees the queues and the adapter, with whoever is still in the driver.
HaltFree ==
    /\ halt = "flushed"
    /\ halt' = "freed"
    /\ early' = Busy
    /\ UNCHANGED <<m_InterfaceIsRunning, m_TapOpens, m_MediaState, handle, session, queueVars, irp,
                   tx, fault, gap>>
-----------------------------------------------------------------------------
ReadStep(i) ==
    \/ ReadNow(i) \/ ReadServed(i) \/ ReadPend(i)
    \/ \E found \in BOOLEAN : CancelIRP(i, found)

TxStep(t) == TxPush(t) \/ TxMatch(t) \/ TxServe(t)

\* What comes after a fault, or after the memory is freed under a caller, is not modelled.
Next == fault = "none" /\ ~early /\
    \/ Create \/ CloseHandle \/ Close \/ SetMediaStatus
    \/ SetPower \/ Halt \/ HaltFlush \/ HaltFree
    \/ \E i \in Irps : Read(i) \/ Cancel(i) \/ ReadStep(i)
    \/ \E t \in Threads : TxTest(t) \/ TxStep(t)

Spec == Init /\ [][Next]_vars

\* What the driver began goes on, and a process that ends has its reads cancelled.
Fairness ==
    \A i \in Irps :
       /\ WF_vars(fault = "none" /\ ~early /\ (Cancel(i) \/ ReadStep(i)))
       /\ WF_vars(fault = "none" /\ ~early /\ Close)
       /\ \A t \in Threads : WF_vars(fault = "none" /\ ~early /\ TxStep(t))

FairSpec == Spec /\ Fairness
-----------------------------------------------------------------------------
\* A read is completed once, and never used after it, unless the cancel callback did not find
\* the adapter, or called for a read that had left the queue.  A packet is read by the process
\* that was there when it was sent, unless the device was closed in between its tests and
\* its queueing.
ReadsExact == fault \in {"none", "lost read", "stale read"}

\* A packet and a read do not wait for each other, but for the two gaps in the locking.
NoneWaits ==
    m_PacketQueue # <<>> /\ m_IrpQueue # <<>> /\ halt = "no" /\ ~Busy => gap

\* A halted adapter holds no read back: with its queues flushed, nothing is queued again.
HaltReleases == halt \in {"flushed", "freed"} => queueVars = <<<<>>, <<>>>>

\* A read of the process is completed once, does not wait beside a packet, and is not held
\* by an adapter that halted (tapdrvr.c).
TapExact == ReadsExact /\ NoneWaits /\ HaltReleases

\* The device of a process that ended is closed, unless a read was cancelled while the hook
\* was about to queue it, or the driver failed.
Missed(i) == irp[i].at = "queued" /\ irp[i].cancel /\ irp[i].routine

DeviceCloses ==
    handle = "closing" ~> handle = "closed" \/ fault # "none" \/ early \/ \E i \in Irps : Missed(i)
=============================================================================
