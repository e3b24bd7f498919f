----------------------------- MODULE LinuxPipe -----------------------------
(***************************************************************************)
(* The messages to one open descriptor when the host is Linux: senders in  *)
(* co_manager_send, and a daemon in co_os_reactor_select, poll and read.   *)
(*                                                                         *)
(* The thread vm runs the VM: it sends the messages of the guest, and ends *)
(* the VM.  The other senders are consoles in GET_CONSOLE.  A step is a    *)
(* critical section of opened->lock or the code between two: the wait      *)
(* queue and opened->active are used without that lock.                    *)
(*                                                                         *)
(* Who holds the descriptor is the matter of module Manager: here a sender *)
(* has a reference from the lookup of the slot to the end of the send.     *)
(***************************************************************************)
EXTENDS Integers, Sequences, FiniteSets

CONSTANTS
    Senders,
    vm,
    MaxSends,    \* bound: the messages of a sender
    Limit,       \* CO_QUEUE_COUNT_LIMIT_BEFORE_SLEEP
    None

LinuxPipeAssumption ==
    /\ IsFiniteSet(Senders)
    /\ vm \in Senders
    /\ None \notin Senders
    /\ MaxSends \in Nat
    /\ Limit \in Nat

Messages == Senders \X (1..MaxSends)

VARIABLES
    \* the descriptor (struct co_manager_open_desc)
    out_queue,   \* the oldest message, at the tail of the C list, is first
    active,
    lock,        \* holder of opened->lock between two steps
    connected,   \* the slot of the monitor points to the descriptor
    freed,       \* the last reference was dropped
    \* the wait queue opened->os->waitq, which holds one poller at most
    waiting,     \* the reader is on it
    woken,       \* and was woken since it last sampled
    \* senders
    spc,
    sends,       \* messages begun
    \* the reader
    rpc,
    limited,     \* it passes a time limit to select, rather than -1
    mask,        \* revents of the poll
    rc,          \* why it left its loop
    got          \* messages received

descVars == <<out_queue, active, lock, connected, freed>>
waitVars == <<waiting, woken>>
sendVars == <<spc, sends>>
readVars == <<rpc, limited, mask, rc, got>>
vars == <<descVars, waitVars, sendVars, readVars>>

SenderPCs == {"idle", "found", "queue", "test", "sleep", "eof", "ended"}
ReaderPCs == {"poll", "sampled", "asleep", "ready", "read", "exit", "closed"}

Init ==
    /\ out_queue = <<>>
    /\ active = TRUE
    /\ lock = None
    /\ connected = TRUE
    /\ freed = FALSE
    /\ waiting = FALSE
    /\ woken = FALSE
    /\ spc = [s \in Senders |-> "idle"]
    /\ sends = [s \in Senders |-> 0]
    /\ rpc = "poll"
    /\ limited \in BOOLEAN
    /\ mask = {}
    /\ rc = "OK"
    /\ got = <<>>

Goto(s, p) == spc' = [spc EXCEPT ![s] = p]

\* wake_up_interruptible: a reader that is not on the wait queue is not reached.
WakeUp == woken' = (woken \/ waiting)

Releases(s) == lock' = None /\ Goto(s, "idle")

-----------------------------------------------------------------------------
(* co_manager_send, called from incoming_message.                          *)

\* The occupant of the slot is found and referenced.
Lookup(s) ==
    /\ spc[s] = "idle"
    /\ connected
    /\ sends[s] < MaxSends
    /\ sends' = [sends EXCEPT ![s] = @ + 1]
    /\ Goto(s, "found")
    /\ UNCHANGED <<descVars, waitVars, readVars>>

\* The lock is taken, and co_os_manager_userspace_try_send_direct wakes.
SendLock(s) ==
    /\ spc[s] = "found"
    /\ lock = None
    /\ lock' = s
    /\ WakeUp
    /\ Goto(s, "queue")
    /\ UNCHANGED <<out_queue, active, connected, freed, waiting, sends, readVars>>

Enqueue(s) ==
    /\ spc[s] = "queue"
    /\ active
    /\ out_queue' = Append(out_queue, <<s, sends[s]>>)
    /\ Goto(s, "test")
    /\ UNCHANGED <<active, lock, connected, freed, waitVars, sends, readVars>>

\* co_message_dup_to_queue had no memory: the message is lost.
EnqueueFails(s) ==
    /\ spc[s] = "queue"
    /\ active
    /\ Goto(s, "test")
    /\ UNCHANGED <<descVars, waitVars, sends, readVars>>

SendInactive(s) ==
    /\ spc[s] = "queue"
    /\ ~active
    /\ Releases(s)
    /\ UNCHANGED <<out_queue, active, connected, freed, waitVars, sends, readVars>>

\* Over the limit the sender sleeps with the lock released,
SendWaits(s) ==
    /\ spc[s] = "test"
    /\ Len(out_queue) > Limit
    /\ active
    /\ lock' = None
    /\ Goto(s, "sleep")
    /\ UNCHANGED <<out_queue, active, connected, freed, waitVars, sends, readVars>>

\* and looks again after 100 ms.
SendAwakes(s) ==
    /\ spc[s] = "sleep"
    /\ lock = None
    /\ lock' = s
    /\ Goto(s, "test")
    /\ UNCHANGED <<out_queue, active, connected, freed, waitVars, sends, readVars>>

\* Mutant of SendReturns: over the limit it sleeps although the descriptor ended.
SendReturns_Deaf(s) ==
    /\ spc[s] = "test"
    /\ Len(out_queue) <= Limit \/ ~active
    /\ lock' = None
    /\ Goto(s, IF Len(out_queue) <= Limit THEN "idle" ELSE "sleep")
    /\ UNCHANGED <<out_queue, active, connected, freed, waitVars, sends, readVars>>

SendReturns(s) ==
    /\ spc[s] = "test"
    /\ Len(out_queue) <= Limit \/ ~active
    /\ Releases(s)
    /\ UNCHANGED <<out_queue, active, connected, freed, waitVars, sends, readVars>>

-----------------------------------------------------------------------------
(* send_monitor_end_messages: the slot is emptied, under the lock that a   *)
(* lookup takes, and its occupant told.                                    *)

Eof ==
    /\ spc[vm] = "idle"
    /\ connected
    /\ active' = FALSE
    /\ connected' = FALSE
    /\ Goto(vm, "eof")
    /\ UNCHANGED <<out_queue, lock, freed, waitVars, sends, readVars>>

\* Mutant of EofWakes: the reader is not woken.
EofWakes_Silent ==
    /\ spc[vm] = "eof"
    /\ Goto(vm, "ended")
    /\ UNCHANGED <<descVars, waitVars, sends, readVars>>

EofWakes ==
    /\ spc[vm] = "eof"
    /\ WakeUp
    /\ Goto(vm, "ended")
    /\ UNCHANGED <<descVars, waiting, sends, readVars>>

\* The slot was empty.
EofSkips ==
    /\ spc[vm] = "idle"
    /\ ~connected
    /\ Goto(vm, "ended")
    /\ UNCHANGED <<descVars, waitVars, sends, readVars>>

-----------------------------------------------------------------------------
(* The reader: co_os_reactor_select in a loop.                             *)

Sample == mask' = IF out_queue = <<>> THEN {} ELSE {"in"}

\* co_os_manager_poll: the queue is looked at under the lock,
PollSample ==
    /\ rpc = "poll"
    /\ lock = None
    /\ Sample
    /\ rpc' = "sampled"
    /\ UNCHANGED <<descVars, waitVars, sendVars, limited, rc, got>>

\* and then the reader joins the wait queue and active is looked at.  The
\* reader leaves the wait queue when it has something to do.
PollWait ==
    /\ rpc = "sampled"
    /\ mask' = IF active THEN mask ELSE mask \cup {"hup"}
    /\ waiting' = (mask' = {})
    /\ rpc' = IF waiting' THEN "asleep" ELSE "ready"
    /\ UNCHANGED <<descVars, woken, sendVars, limited, rc, got>>

\* A woken poller asks again, without leaving the wait queue.
PollAgain ==
    /\ rpc = "asleep"
    /\ woken
    /\ lock = None
    /\ woken' = FALSE
    /\ Sample
    /\ rpc' = "sampled"
    /\ UNCHANGED <<descVars, waiting, sendVars, limited, rc, got>>

PollTimeout ==
    /\ rpc = "asleep"
    /\ limited
    /\ waiting' = FALSE
    /\ woken' = FALSE
    /\ rpc' = "poll"
    /\ UNCHANGED <<descVars, sendVars, limited, mask, rc, got>>

Leave(why) == rpc' = "exit" /\ rc' = why

\* POLLIN: co_os_manager_read looks at active before it takes the lock.
ReadActive ==
    /\ rpc = "ready"
    /\ "in" \in mask
    /\ active
    /\ rpc' = "read"
    /\ UNCHANGED <<descVars, waitVars, sendVars, limited, mask, rc, got>>

ReadFails ==
    /\ rpc = "ready"
    /\ "in" \in mask
    /\ ~active
    /\ Leave("ERROR")
    /\ UNCHANGED <<descVars, waitVars, sendVars, limited, mask, got>>

\* Mutant of Removes: the messages stay in the queue.
Removes_Not(k) == k = k /\ UNCHANGED out_queue

Removes(k) == out_queue' = SubSeq(out_queue, k + 1, Len(out_queue))

\* The oldest k messages fit in the reader's buffer; POLLHUP is served next.
ReadCopy(k) ==
    /\ rpc = "read"
    /\ lock = None
    /\ got' = got \o SubSeq(out_queue, 1, k)
    /\ Removes(k)
    /\ IF "hup" \in mask THEN Leave("BROKEN_PIPE") ELSE rpc' = "poll" /\ UNCHANGED rc
    /\ UNCHANGED <<active, lock, connected, freed, waitVars, sendVars, limited, mask>>

HangUp ==
    /\ rpc = "ready"
    /\ mask = {"hup"}
    /\ Leave("BROKEN_PIPE")
    /\ UNCHANGED <<descVars, waitVars, sendVars, limited, mask, got>>

\* The daemon ends, or its user detaches.
Detach ==
    /\ rpc = "poll"
    /\ Leave("OK")
    /\ UNCHANGED <<descVars, waitVars, sendVars, limited, mask, got>>

\* The handle is closed.  After CO_MONITOR_IOCTL_CLOSE the slot stays.
Close ==
    /\ rpc = "exit"
    /\ active' = FALSE
    /\ connected' \in {FALSE, connected}
    /\ rpc' = "closed"
    /\ UNCHANGED <<out_queue, lock, freed, waitVars, sendVars, limited, mask, rc, got>>

\* The last reference is dropped: the queue is flushed.
Free ==
    /\ rpc = "closed"
    /\ ~connected
    /\ ~freed
    /\ \A s \in Senders : spc[s] \in {"idle", "ended"}
    /\ freed' = TRUE
    /\ out_queue' = <<>>
    /\ UNCHANGED <<active, lock, connected, waitVars, sendVars, readVars>>

-----------------------------------------------------------------------------
Send(s) ==
    \/ SendLock(s) \/ Enqueue(s) \/ EnqueueFails(s) \/ SendInactive(s)
    \/ SendWaits(s) \/ SendAwakes(s) \/ SendReturns(s)

End == Eof \/ EofWakes \/ EofSkips

Poll == PollSample \/ PollWait \/ PollAgain \/ PollTimeout

Read == ReadActive \/ ReadFails \/ (\E k \in 1..Len(out_queue) : ReadCopy(k)) \/ HangUp

\* Everything is closed: the system may stop.
Stop == freed /\ spc[vm] = "ended" /\ UNCHANGED vars

Next ==
    \/ \E s \in Senders : Lookup(s) \/ Send(s)
    \/ End
    \/ Poll
    \/ Read
    \/ Detach
    \/ Close
    \/ Free
    \/ Stop

Spec == Init /\ [][Next]_vars

\* Threads in the driver go on.  The reader gets opened->lock although senders
\* over the limit take it again and again: they sleep 100 ms in between.
Fairness ==
    /\ \A s \in Senders : SF_vars(Send(s))
    /\ WF_vars(EofWakes)
    /\ SF_vars(Poll)
    /\ SF_vars(Read)
    /\ WF_vars(Close)
    /\ WF_vars(Free)

FairSpec == Spec /\ Fairness

-----------------------------------------------------------------------------
(* Properties.                                                             *)

\* The variables are in their domains, opened->lock is held exactly in the critical
\* section of a sender, and only a reader inside poll is on the wait queue.
TypeOK ==
    /\ out_queue \in Seq(Messages)
    /\ active \in BOOLEAN
    /\ lock \in Senders \cup {None}
    /\ connected \in BOOLEAN
    /\ freed \in BOOLEAN
    /\ waiting \in BOOLEAN
    /\ woken \in BOOLEAN
    /\ spc \in [Senders -> SenderPCs]
    /\ sends \in [Senders -> 0..MaxSends]
    /\ rpc \in ReaderPCs
    /\ limited \in BOOLEAN
    /\ mask \subseteq {"in", "hup"}
    /\ rc \in {"OK", "ERROR", "BROKEN_PIPE"}
    /\ got \in Seq(Messages)
    /\ \A s \in Senders : lock = s <=> spc[s] \in {"queue", "test"}
    /\ waiting => rpc \in {"asleep", "sampled"}

Pipe == INSTANCE MessagePipe WITH queue <- out_queue, ended <- ~active

\* The senders, the reader and the end together make a first-in first-out pipe.
ImplementsPipe == Pipe!Spec

\* A sender adds a message only after it waited: the queue of a reader that does
\* not read grows over the limit by one message of each sender at most.
QueueBounded == Len(out_queue) <= Limit + Cardinality(Senders)

\* poll tests active after it joined the wait queue: a reader asleep in a pipe that
\* ended was woken, or the thread that cleared active is about to wake it.
EndWakesReader == rpc = "asleep" /\ ~woken /\ ~active => spc[vm] = "eof"

\* The queue has a bound, and a reader that sleeps on it is told of its end.
PipeSafe == QueueBounded /\ EndWakesReader

\* A message in the queue is received, by a reader that looks again after a time (the
\* queue is sampled before joining the wait queue, so one without can miss it).
InQueue(m) == \E i \in DOMAIN out_queue : out_queue[i] = m
Received(m) == \E i \in DOMAIN got : got[i] = m

MessagesReceived ==
    \A m \in Messages : limited /\ InQueue(m) ~> Received(m) \/ ~active

\* A send returns: the reader reads, or the descriptor is deactivated; the senders and
\* the reader never wait for each other.
SendsReturn ==
    \A s \in Senders : limited /\ spc[s] = "found" ~> spc[s] \in {"idle", "eof", "ended"}

\* The reader of a VM that ended leaves its loop, and the descriptor is given back.
EndReachesReader == spc[vm] = "ended" ~> freed

\* Senders, reader and the end of the VM never leave each other waiting.
NothingStuck == MessagesReceived /\ SendsReturn /\ EndReachesReader

=============================================================================
