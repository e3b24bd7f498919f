------------------------------ MODULE WinPipe ------------------------------
(***************************************************************************)
(* The messages to one open descriptor when the host is Windows.  A read   *)
(* that finds the queue empty leaves its request (IRP) pending with the    *)
(* descriptor; a message, the end of the VM or a cancel takes the request  *)
(* and completes it.                                                       *)
(*                                                                         *)
(* The thread vm runs the VM: it sends the messages of the guest, and ends *)
(* the VM.  The other senders are consoles in GET_CONSOLE.  The reader is  *)
(* packet_read_async and packet_read_completed, with one read at a time.   *)
(*                                                                         *)
(* opened->os->irp is tested with no protection from the end and a cancel, *)
(* and taken under the cancel spin lock.  If preempt, a thread can lose    *)
(* the processor, or others have theirs, between the two; to complete a    *)
(* request that was completed stops the host.                              *)
(*                                                                         *)
(* A read has room for every message: both are at most 64 KB.              *)
(***************************************************************************)
EXTENDS Integers, Sequences, FiniteSets

CONSTANTS
    Senders,
    vm,
    MaxSends,    \* bound: the messages of a sender
    Limit,       \* CO_QUEUE_COUNT_LIMIT_BEFORE_SLEEP
    None

ASSUME WinPipeAssumption ==
    /\ IsFiniteSet(Senders)
    /\ vm \in Senders
    /\ None \notin Senders
    /\ MaxSends \in Nat
    /\ Limit \in Nat

Messages == Senders \X (1..MaxSends)

NoRequest == 0   \* opened->os->irp == NULL; requests are numbered from 1

VARIABLES
    \* the descriptor (struct co_manager_open_desc)
    out_queue,   \* the oldest message, at the tail of the C list, is first
    active,
    lock,        \* holder of opened->lock between two steps
    connected,   \* the slot of the monitor points to the descriptor
    ref_count,
    \* requests
    irp,         \* opened->os->irp
    inflight,    \* the newest request is not completed
    read,        \* number of the newest request
    seen,        \* the request a sender is about to take
    preempt,
    crashed,
    \* senders
    spc,
    sends,       \* messages begun
    \* the reader
    rpc,
    handle,      \* its handle is open
    rc,          \* why it left its loop
    got          \* messages received

descVars == <<out_queue, active, lock, connected, ref_count>>
reqVars == <<irp, inflight, read, seen, preempt, crashed>>
sendVars == <<spc, sends>>
readVars == <<rpc, handle, rc, got>>
vars == <<descVars, reqVars, sendVars, readVars>>

EofPCs == {"eof", "eof_take", "eof_complete", "eof_close"}
SenderPCs == {"idle", "found", "direct", "take", "queue", "test", "sleep", "close", "ended"}
                \cup EofPCs
ReaderPCs == {"issue", "entered", "wait", "exit", "cancelled"}

Init ==
    /\ out_queue = <<>>
    /\ active = TRUE
    /\ lock = None
    /\ connected = TRUE
    /\ ref_count = 2
    /\ irp = NoRequest
    /\ inflight = FALSE
    /\ read = 0
    /\ seen = [s \in Senders |-> NoRequest]
    /\ preempt \in BOOLEAN
    /\ crashed = FALSE
    /\ spc = [s \in Senders |-> "idle"]
    /\ sends = [s \in Senders |-> 0]
    /\ rpc = "issue"
    /\ handle = TRUE
    /\ rc = "OK"
    /\ got = <<>>

Goto(s, p) == spc' = [spc EXCEPT ![s] = p]

Releases(s, p) == lock' = None /\ Goto(s, p)

-----------------------------------------------------------------------------
(* References and requests.                                                *)

\* Mutant of Drop: every close flushes the queue.
Drop_Flush(n) == ref_count' = ref_count - n /\ out_queue' = <<>>

\* co_manager_close, n times: the last one flushes the queue.
Drop(n) ==
    /\ ref_count' = ref_count - n
    /\ out_queue' = IF ref_count = n THEN <<>> ELSE out_queue

Sees(s) == preempt /\ irp # NoRequest /\ seen' = [seen EXCEPT ![s] = irp]

\* Mutant of Complete: the reference of the request is kept.
Complete_KeepReference(r) ==
    /\ UNCHANGED <<ref_count, out_queue>>
    /\ crashed' = ~(inflight /\ r = read)
    /\ inflight' = FALSE

\* The reference of a request that was taken is dropped, and the request is completed.
Complete(r) ==
    /\ Drop(1)
    /\ crashed' = ~(inflight /\ r = read)
    /\ inflight' = FALSE

\* The reader's read returns with the message, and it reads again; a process that
\* is leaving gets nothing.
Hands(m) ==
    IF rpc = "wait"
      THEN rpc' = "issue" /\ got' = Append(got, m) /\ UNCHANGED <<handle, rc>>
      ELSE UNCHANGED readVars

\* The reader's read returns ERROR_BROKEN_PIPE.
Breaks ==
    IF rpc = "wait"
      THEN rpc' = "exit" /\ rc' = "BROKEN_PIPE" /\ UNCHANGED <<handle, got>>
      ELSE UNCHANGED readVars

-----------------------------------------------------------------------------
(* incoming_message and co_manager_send.                                   *)

Lookup(s) ==
    /\ spc[s] = "idle"
    /\ connected
    /\ sends[s] < MaxSends
    /\ sends' = [sends EXCEPT ![s] = @ + 1]
    /\ ref_count' = ref_count + 1
    /\ Goto(s, "found")
    /\ UNCHANGED <<out_queue, active, lock, connected, reqVars, readVars>>

SendLock(s) ==
    /\ spc[s] = "found"
    /\ lock = None
    /\ lock' = s
    /\ Goto(s, "direct")
    /\ UNCHANGED <<out_queue, active, connected, ref_count, reqVars, sends, readVars>>

\* co_os_manager_userspace_try_send_direct: no request waits,
NoDirect(s) ==
    /\ spc[s] = "direct"
    /\ irp = NoRequest
    /\ Goto(s, "queue")
    /\ UNCHANGED <<descVars, reqVars, sends, readVars>>

SendSees(s) ==
    /\ spc[s] = "direct"
    /\ Sees(s)
    /\ Goto(s, "take")
    /\ UNCHANGED <<descVars, irp, inflight, read, preempt, crashed, sends, readVars>>

\* or it is taken and gets the message.
SendDirect(s) ==
    /\ \/ spc[s] = "direct" /\ irp # NoRequest /\ Complete(irp)
       \/ spc[s] = "take" /\ Complete(seen[s])
    /\ irp' = NoRequest
    /\ seen' = [seen EXCEPT ![s] = NoRequest]
    /\ Hands(<<s, sends[s]>>)
    /\ Releases(s, "close")
    /\ UNCHANGED <<active, connected, read, preempt, sends>>

Enqueue(s) ==
    /\ spc[s] = "queue"
    /\ active
    /\ out_queue' = Append(out_queue, <<s, sends[s]>>)
    /\ Goto(s, "test")
    /\ UNCHANGED <<active, lock, connected, ref_count, reqVars, sends, readVars>>

\* co_message_dup_to_queue had no memory: the message is lost.
EnqueueFails(s) ==
    /\ spc[s] = "queue"
    /\ active
    /\ Goto(s, "test")
    /\ UNCHANGED <<descVars, reqVars, sends, readVars>>

SendInactive(s) ==
    /\ spc[s] = "queue"
    /\ ~active
    /\ Releases(s, "close")
    /\ UNCHANGED <<out_queue, active, connected, ref_count, reqVars, sends, readVars>>

SendWaits(s) ==
    /\ spc[s] = "test"
    /\ Len(out_queue) > Limit
    /\ active
    /\ Releases(s, "sleep")
    /\ UNCHANGED <<out_queue, active, connected, ref_count, reqVars, sends, readVars>>

SendAwakes(s) ==
    /\ spc[s] = "sleep"
    /\ lock = None
    /\ lock' = s
    /\ Goto(s, "test")
    /\ UNCHANGED <<out_queue, active, connected, ref_count, reqVars, sends, readVars>>

\* Mutant of SendReturns: over the limit it sleeps although the descriptor ended.
SendReturns_Deaf(s) ==
    /\ spc[s] = "test"
    /\ Len(out_queue) <= Limit \/ ~active
    /\ Releases(s, IF Len(out_queue) <= Limit THEN "close" ELSE "sleep")
    /\ UNCHANGED <<out_queue, active, connected, ref_count, reqVars, sends, readVars>>

SendReturns(s) ==
    /\ spc[s] = "test"
    /\ Len(out_queue) <= Limit \/ ~active
    /\ Releases(s, "close")
    /\ UNCHANGED <<out_queue, active, connected, ref_count, reqVars, sends, readVars>>

SendDone(s) ==
    /\ spc[s] = "close"
    /\ lock = None
    /\ Drop(1)
    /\ Goto(s, "idle")
    /\ UNCHANGED <<active, lock, connected, reqVars, sends, readVars>>

-----------------------------------------------------------------------------
(* send_monitor_end_messages.                                              *)

\* The end of a descriptor in a slot, the reference of which is dropped last.
Eof ==
    /\ spc[vm] = "idle"
    /\ connected
    /\ active' = FALSE
    /\ connected' = FALSE
    /\ Goto(vm, "eof")
    /\ UNCHANGED <<out_queue, lock, ref_count, reqVars, sends, readVars>>

EofAlone ==
    /\ spc[vm] = "eof"
    /\ irp = NoRequest
    /\ Goto(vm, "eof_close")
    /\ UNCHANGED <<descVars, reqVars, sends, readVars>>

EofSees ==
    /\ spc[vm] = "eof"
    /\ Sees(vm)
    /\ Goto(vm, "eof_take")
    /\ UNCHANGED <<descVars, irp, inflight, read, preempt, crashed, sends, readVars>>

EofTakes ==
    /\ \/ spc[vm] = "eof" /\ irp # NoRequest /\ seen' = [seen EXCEPT ![vm] = irp]
       \/ spc[vm] = "eof_take" /\ UNCHANGED seen
    /\ irp' = NoRequest
    /\ Goto(vm, "eof_complete")
    /\ UNCHANGED <<descVars, inflight, read, preempt, crashed, sends, readVars>>

EofCompletes ==
    /\ spc[vm] = "eof_complete"
    /\ lock = None
    /\ Complete(seen[vm])
    /\ seen' = [seen EXCEPT ![vm] = NoRequest]
    /\ Breaks
    /\ Goto(vm, "eof_close")
    /\ UNCHANGED <<active, lock, connected, irp, read, preempt, sends>>

EofDone ==
    /\ spc[vm] = "eof_close"
    /\ lock = None
    /\ Drop(1)
    /\ Goto(vm, "ended")
    /\ UNCHANGED <<active, lock, connected, reqVars, sends, readVars>>

\* The slot was empty.
EofSkips ==
    /\ spc[vm] = "idle"
    /\ ~connected
    /\ Goto(vm, "ended")
    /\ UNCHANGED <<descVars, reqVars, sends, readVars>>

-----------------------------------------------------------------------------
(* The reader, and the process it is of.                                   *)

\* packet_read_async: manager_read looks at active before it takes the lock.
ReadIssue ==
    /\ rpc = "issue"
    /\ active
    /\ rpc' = "entered"
    /\ read' = read + 1
    /\ inflight' = TRUE
    /\ UNCHANGED <<descVars, irp, seen, preempt, crashed, sendVars, handle, rc, got>>

\* A read that fails at once is CO_RC(ERROR), a broken pipe too.
ReadFails ==
    /\ rpc = "issue"
    /\ ~active
    /\ rpc' = "exit"
    /\ rc' = "ERROR"
    /\ UNCHANGED <<descVars, reqVars, sendVars, handle, got>>

\* The oldest k messages, as many as fit, are received.
ReadCopy(k) ==
    /\ rpc = "entered"
    /\ lock = None
    /\ got' = got \o SubSeq(out_queue, 1, k)
    /\ out_queue' = SubSeq(out_queue, k + 1, Len(out_queue))
    /\ inflight' = FALSE
    /\ rpc' = "issue"
    /\ UNCHANGED <<active, lock, connected, ref_count, irp, read, seen, preempt, crashed,
                   sendVars, handle, rc>>

\* Mutant of ReadPends: the queue is not looked at.
ReadPends_Always ==
    /\ rpc = "entered"
    /\ lock = None
    /\ irp = NoRequest
    /\ ref_count' = ref_count + 1
    /\ irp' = read
    /\ rpc' = "wait"
    /\ UNCHANGED <<out_queue, active, lock, connected, inflight, read, seen, preempt,
                   crashed, sendVars, handle, rc, got>>

\* The request waits, and is a reference.
ReadPends ==
    /\ rpc = "entered"
    /\ lock = None
    /\ out_queue = <<>>
    /\ irp = NoRequest
    /\ ref_count' = ref_count + 1
    /\ irp' = read
    /\ rpc' = "wait"
    /\ UNCHANGED <<out_queue, active, lock, connected, inflight, read, seen, preempt,
                   crashed, sendVars, handle, rc, got>>

\* The user detaches, or the process is killed, with a read outstanding.
Quit ==
    /\ rpc = "wait"
    /\ rpc' = "exit"
    /\ UNCHANGED <<descVars, reqVars, sendVars, handle, rc, got>>

\* The system cancels the request of a thread that exits: manager_irp_cancel, which
\* was set with the request and is cleared when it is taken.
Cancel ==
    /\ rpc = "exit"
    /\ irp # NoRequest
    /\ irp' = NoRequest
    /\ inflight' = FALSE
    /\ rpc' = "cancelled"
    /\ UNCHANGED <<descVars, read, seen, preempt, crashed, sendVars, handle, rc, got>>

CancelDone ==
    /\ rpc = "cancelled"
    /\ lock = None
    /\ Drop(1)
    /\ rpc' = "exit"
    /\ UNCHANGED <<active, lock, connected, reqVars, sendVars, handle, rc, got>>

\* The handle is closed, before the thread exits or after: active is cleared,
Deactivate ==
    /\ rpc = "exit"
    /\ handle
    /\ active
    /\ active' = FALSE
    /\ UNCHANGED <<out_queue, lock, connected, ref_count, reqVars, sendVars, readVars>>

\* and the reference of the slot goes with that of the handle, unless
\* CO_MONITOR_IOCTL_CLOSE was called before.
CloseHandle ==
    /\ rpc = "exit"
    /\ handle
    /\ ~active
    /\ lock = None
    /\ handle' = FALSE
    /\ \/ connected /\ connected' = FALSE /\ Drop(2)
       \/ UNCHANGED connected /\ Drop(1)
    /\ UNCHANGED <<active, lock, reqVars, sendVars, rpc, rc, got>>

-----------------------------------------------------------------------------
Send(s) ==
    \/ SendLock(s) \/ NoDirect(s) \/ SendSees(s) \/ SendDirect(s)
    \/ Enqueue(s) \/ EnqueueFails(s) \/ SendInactive(s)
    \/ SendWaits(s) \/ SendAwakes(s) \/ SendReturns(s) \/ SendDone(s)

End == EofAlone \/ EofSees \/ EofTakes \/ EofCompletes \/ EofDone

Leave == Cancel \/ CancelDone \/ Deactivate \/ CloseHandle

Read ==
    \/ ReadIssue \/ ReadFails \/ ReadPends
    \/ \E k \in 1..Len(out_queue) : ReadCopy(k)

Freed == ref_count = 0

\* The host stopped, or everything is closed.
Stop == (crashed \/ (Freed /\ spc[vm] = "ended")) /\ UNCHANGED vars

Next ==
    \/ /\ ~crashed
       /\ \/ \E s \in Senders : Lookup(s) \/ Send(s)
          \/ Eof \/ EofSkips \/ End
          \/ Read
          \/ Quit \/ Leave
    \/ Stop

Spec == Init /\ [][Next]_vars

\* Threads in the driver go on, and get opened->lock although senders over the limit
\* take it again and again: they sleep 100 ms in between.  A process that leaves is
\* taken down by the system.
Fairness ==
    /\ \A s \in Senders : SF_vars(~crashed /\ Send(s))
    /\ SF_vars(~crashed /\ End)
    /\ SF_vars(~crashed /\ Read)
    /\ SF_vars(~crashed /\ Leave)

FairSpec == Spec /\ Fairness

-----------------------------------------------------------------------------
(* Properties.                                                             *)

\* The variables are in their domains, and opened->lock is held exactly in the critical
\* section of a sender.
TypeOK ==
    /\ out_queue \in Seq(Messages)
    /\ active \in BOOLEAN
    /\ lock \in Senders \cup {None}
    /\ connected \in BOOLEAN
    /\ ref_count \in Nat
    /\ irp \in {NoRequest, read}
    /\ inflight \in BOOLEAN
    /\ read \in Nat
    /\ seen \in [Senders -> 0..read]
    /\ preempt \in BOOLEAN
    /\ crashed \in BOOLEAN
    /\ spc \in [Senders -> SenderPCs]
    /\ sends \in [Senders -> 0..MaxSends]
    /\ rpc \in ReaderPCs
    /\ handle \in BOOLEAN
    /\ rc \in {"OK", "ERROR", "BROKEN_PIPE"}
    /\ got \in Seq(Messages)
    /\ \A s \in Senders : lock = s <=> spc[s] \in {"direct", "take", "queue", "test"}

\* A read waits only when the queue is empty, and a message is queued only when no read
\* waits: a message never lies beside a reader that could have it.
NeverBoth == irp # NoRequest => out_queue = <<>>

\* If the test of irp and the taking are not interrupted, the count of the descriptor is
\* the number of its references: the handle, the slot, a request that is pending or
\* being completed and the senders that found it.
References ==
    (IF handle THEN 1 ELSE 0)
    + (IF connected \/ spc[vm] \in EofPCs THEN 1 ELSE 0)
    + (IF irp = NoRequest THEN 0 ELSE 1)
    + (IF spc[vm] = "eof_complete" THEN 1 ELSE 0)
    + (IF rpc = "cancelled" THEN 1 ELSE 0)
    + Cardinality({s \in Senders : spc[s] \notin {"idle", "ended"} \cup EofPCs})

RefCountExact == ~preempt => ref_count = References

\* If the test of irp and the taking are not interrupted, a request is completed once.
CompletedOnce == crashed => preempt

\* Every request of the reader is accounted for, by a reference and by one completion,
\* and a message never waits beside one.
RequestsExact == NeverBoth /\ RefCountExact /\ CompletedOnce

Pipe == INSTANCE MessagePipe WITH queue <- out_queue, ended <- ~active

\* The senders, the reader and the end together make a first-in first-out pipe,
\* until the host stops.
ImplementsPipe == Pipe!Spec

\* The messages in the queue are received, all of them: the reader always comes back.
QueueDrains == out_queue # <<>> ~> out_queue = <<>> \/ ~active \/ crashed

\* A send returns: the senders and the reader never wait for each other.
SendsReturn ==
    \A s \in Senders : spc[s] = "found" ~> spc[s] \in {"idle", "ended"} \cup EofPCs \/ crashed

\* The descriptor of a process that left is given back after the end of the VM: no
\* reference is left behind, whether its read was taken, cancelled or never made.
DescriptorReclaimed == rpc = "exit" /\ spc[vm] = "ended" ~> Freed \/ crashed

\* Senders, reader and the end of the VM never leave each other waiting, nor memory behind.
NothingStuck == QueueDrains /\ SendsReturn /\ DescriptorReclaimed

\* A reader leaves its loop when the VM ended ("Normal, if linux shut down").
EndReachesReader == spc[vm] = "ended" ~> rpc \in {"exit", "cancelled"} \/ crashed
=============================================================================
