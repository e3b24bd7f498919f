------------------------------- MODULE VmRun -------------------------------
(***************************************************************************)
(* One VM: the loop of its daemon (co_daemon_run), the ioctls START, RUN   *)
(* and RESET the loop calls, the guest that runs inside RUN, the queue of  *)
(* the messages to the guest, the timer, and the handler that asks for a   *)
(* shutdown from a thread of its own.                                      *)
(*                                                                         *)
(* The daemon, the driver below it and the guest are one thread: pc says   *)
(* where it is.  The senders are other processes, the stop handler is      *)
(* another thread of the daemon, and the timer is an interrupt.            *)
(*                                                                         *)
(* Messages are numbered in the order they are queued (one for which there *)
(* is no memory is refused, and has no number), and are of one size.       *)
(***************************************************************************)
EXTENDS Naturals, Sequences, FiniteSets

CONSTANTS
    Senders,
    MaxMessages,  \* bound: the messages of the senders
    MaxBoots,     \* bound: the guest asks for a reboot only below it
    Room,         \* messages the IO area holds
    Malformed,    \* numbers of the messages whose header is out of range
    Sticky,       \* a wake-up is kept for a sleep that comes later (Windows)
    EarlyStop     \* a stop is asked for while the helpers are launched

ASSUME VmRunAssumption ==
    /\ MaxMessages \in Nat
    /\ MaxBoots \in Nat
    /\ Room \in Nat \ {0}
    /\ Malformed \subseteq Nat
    /\ Sticky \in BOOLEAN
    /\ EarlyStop \in BOOLEAN

VARIABLES
    \* the monitor
    state, reason, memory, devices, armed, timer_interrupt,
    \* the messages to the guest: linux_message_queue, the IO area, its
    \* messages_waiting, and the size the guest is told
    queue, io, waiting, size,
    \* the thread of the VM
    pc, op, again, wake,
    \* the guest
    active, got, told,
    \* the daemon
    next_reboot_will_shutdown, stop, power,
    \* the senders, and what was sent and booted so far
    spc, sent, boots

monVars == <<state, reason, memory, devices, armed, timer_interrupt>>
msgVars == <<queue, io, waiting, size>>
runVars == <<pc, op, again, wake>>
guestVars == <<active, got, told>>
stopVars == <<next_reboot_will_shutdown, stop, power>>
sendVars == <<spc, sent>>
vars == <<monVars, msgVars, runVars, guestVars, stopVars, sendVars, boots>>

States == {"none", "EMPTY", "INITIALIZED", "STARTED", "RUNNING", "TERMINATED", "destroyed"}

\* CO_OPERATION_TERMINATE is told apart by its reason.
Ends == {"REBOOT", "POWEROFF", "VMXE"}

\* Operations the driver serves before it returns to the guest: pages,
\* devices, physical addresses and the time.
Served == {"SERVICE"}
Operations == {"START", "MESSAGE", "INTERRUPT", "IDLE", "SEND", "UNKNOWN"} \cup Ends \cup Served

DaemonPCs == {"create", "load", "launch", "start", "run", "check", "reset", "realloc", "reconfigure", "reload", "leave", "ended"}
DriverPCs == {"iterate", "switched", "sleep"}
GuestPCs == {"callback", "guest"}

Init ==
    /\ state = "none" /\ reason = "END" /\ memory = FALSE /\ devices = FALSE
    /\ armed = FALSE /\ timer_interrupt = FALSE
    /\ queue = <<>> /\ io = <<>> /\ waiting = 0 /\ size = 0
    /\ pc = "create" /\ op = "START" /\ again = FALSE /\ wake = FALSE
    /\ active = FALSE /\ got = <<>> /\ told = FALSE
    /\ next_reboot_will_shutdown = FALSE /\ stop = "no" /\ power = 0
    /\ spc = [s \in Senders |-> "idle"] /\ sent = 0 /\ boots = 0
-----------------------------------------------------------------------------
(* The daemon *)

\* co_monitor_create unwinds what it made when a step of it fails.
Create ==
    /\ pc = "create"
    /\ state' = "INITIALIZED" /\ memory' = TRUE /\ devices' = TRUE
    /\ pc' = "load"
    /\ UNCHANGED <<reason, armed, timer_interrupt, msgVars, op, again, wake, guestVars, stopVars,
                   sendVars, boots>>

CreateFails ==
    /\ pc = "create"
    /\ pc' = "ended"
    /\ UNCHANGED <<monVars, msgVars, op, again, wake, guestVars, stopVars, sendVars, boots>>

\* The initial RAM disk and the kernel are loaded; if one cannot be the
\* daemon leaves, and its handle is closed.
Load(ok) ==
    /\ pc = "load"
    /\ pc' = IF ok THEN "launch" ELSE "leave"
    /\ UNCHANGED <<monVars, msgVars, op, again, wake, guestVars, stopVars, sendVars, boots>>

\* The helpers are launched; what was asked before is forgotten.
Launch ==
    /\ pc = "launch"
    /\ next_reboot_will_shutdown' = FALSE
    /\ pc' = "start"
    /\ UNCHANGED <<monVars, msgVars, op, again, wake, guestVars, stop, power, sendVars, boots>>

\* The page tables of the guest can be built.
Start ==
    /\ pc = "start" /\ state = "INITIALIZED"
    /\ armed' = TRUE /\ op' = "START" /\ state' = "STARTED"
    /\ active' = FALSE /\ got' = <<>> /\ told' = FALSE
    /\ boots' = boots + 1
    /\ pc' = "run"
    /\ UNCHANGED <<reason, memory, devices, timer_interrupt, msgVars, again, wake, stopVars, sendVars>>

StartFails ==
    /\ pc = "start"
    /\ pc' = "leave"
    /\ UNCHANGED <<monVars, msgVars, op, again, wake, guestVars, stopVars, sendVars, boots>>

\* The first RUN makes one iteration, a later one iterates until the driver
\* has to return.
Run ==
    /\ pc = "run" /\ state \in {"STARTED", "RUNNING"}
    /\ again' = (state = "RUNNING")
    /\ state' = "RUNNING"
    /\ pc' = "iterate"
    /\ UNCHANGED <<reason, memory, devices, armed, timer_interrupt, msgVars, op, wake, guestVars,
                   stopVars, sendVars, boots>>

RunTerminated ==
    /\ pc = "run" /\ state = "TERMINATED"
    /\ pc' = "check"
    /\ UNCHANGED <<monVars, msgVars, op, again, wake, guestVars, stopVars, sendVars, boots>>

RebootsAgain == reason = "REBOOT" /\ ~next_reboot_will_shutdown

Check ==
    /\ pc = "check"
    /\ pc' = IF RebootsAgain THEN "reset" ELSE "leave"
    /\ UNCHANGED <<monVars, msgVars, op, again, wake, guestVars, stopVars, sendVars, boots>>

Flush ==
    /\ pc = "reset"
    /\ state' = "EMPTY"
    /\ queue' = <<>>
    /\ pc' = "realloc"
    /\ UNCHANGED <<reason, memory, devices, armed, timer_interrupt, io, waiting, size, op, again, wake,
                   guestVars, stopVars, sendVars, boots>>

Realloc_GoOn(ok) ==
    /\ pc = "realloc"
    /\ memory' = ok
    /\ pc' = "reconfigure"
    /\ UNCHANGED <<state, reason, devices, armed, timer_interrupt, msgVars, op, again, wake, guestVars,
                   stopVars, sendVars, boots>>

\* The memory of the guest is freed and allocated again, which can fail.
Realloc(ok) ==
    /\ pc = "realloc"
    /\ memory' = ok
    /\ pc' = IF ok THEN "reconfigure" ELSE "leave"
    /\ UNCHANGED <<state, reason, devices, armed, timer_interrupt, msgVars, op, again, wake, guestVars,
                   stopVars, sendVars, boots>>

Reconfigure ==
    /\ pc = "reconfigure"
    /\ devices' = TRUE
    /\ io' = <<>> /\ waiting' = 0
    /\ state' = "INITIALIZED" /\ reason' = "END"
    /\ pc' = "reload"
    /\ UNCHANGED <<memory, armed, timer_interrupt, queue, size, op, again, wake, guestVars,
                   stopVars, sendVars, boots>>

\* load_configuration gives back the devices it made, the reset the memory.
ReconfigureFails ==
    /\ pc = "reconfigure"
    /\ devices' = FALSE /\ memory' = FALSE
    /\ pc' = "leave"
    /\ UNCHANGED <<state, reason, armed, timer_interrupt, msgVars, op, again, wake, guestVars,
                   stopVars, sendVars, boots>>

\* The kernel and the initial RAM disk are loaded again.
Reload(ok) ==
    /\ pc = "reload"
    /\ pc' = IF ok THEN "start" ELSE "leave"
    /\ UNCHANGED <<monVars, msgVars, op, again, wake, guestVars, stopVars, sendVars, boots>>

\* The daemon gives its references back; the last one destroys the monitor.
Destroy ==
    /\ pc = "leave"
    /\ stop # "queued" /\ \A s \in Senders : spc[s] = "idle"
    /\ armed' = IF state \in {"RUNNING", "STARTED"} THEN FALSE ELSE armed
    /\ memory' = FALSE /\ devices' = FALSE /\ queue' = <<>> /\ state' = "destroyed"
    /\ pc' = "ended"
    /\ UNCHANGED <<reason, timer_interrupt, io, waiting, size, op, again, wake, guestVars, stopVars,
                   sendVars, boots>>
-----------------------------------------------------------------------------
(* The driver inside RUN *)

\* The daemon's own message is well formed.
Bad(n) == n \in Malformed /\ n # power

\* The messages that fit are copied; one with a bad header ends the copy and
\* is dropped.
Good(q) == CHOOSE n \in 0..Len(q) :
    /\ n <= Room
    /\ \A i \in 1..n : ~Bad(q[i])
    /\ n = Room \/ n = Len(q) \/ Bad(q[n + 1])

Popped_Next(q) == IF Good(q) < Len(q) THEN Good(q) + 1 ELSE Good(q)

Popped(q) == IF Good(q) < Room /\ Good(q) < Len(q) THEN Good(q) + 1 ELSE Good(q)

CallbackReturn ==
    IF waiting # 0 THEN size' = 0 /\ UNCHANGED <<queue, io, waiting>>
    ELSE /\ io' = SubSeq(queue, 1, Good(queue))
         /\ waiting' = Good(queue)
         /\ size' = Good(queue)
         /\ queue' = SubSeq(queue, Popped(queue) + 1, Len(queue))

\* To the guest, which expects messages only where it idled or was interrupted.
Iterate ==
    /\ pc = "iterate"
    /\ IF op \in {"INTERRUPT", "IDLE"}
       THEN CallbackReturn /\ op' = "MESSAGE" /\ pc' = "callback"
       ELSE pc' = "guest" /\ UNCHANGED <<msgVars, op>>
    /\ UNCHANGED <<monVars, again, wake, guestVars, stopVars, sendVars, boots>>

\* The processor is in VMX mode: the guest is not entered.
OtherVirtualization ==
    /\ pc = "iterate"
    /\ IF op \in {"INTERRUPT", "IDLE"} THEN CallbackReturn ELSE UNCHANGED msgVars
    /\ op' = "VMXE"
    /\ pc' = "switched"
    /\ UNCHANGED <<monVars, again, wake, guestVars, stopVars, sendVars, boots>>

Return(immediately) == pc' = IF immediately /\ again THEN "iterate" ELSE "run"

Interrupted ==
    /\ pc = "switched" /\ op = "INTERRUPT"
    /\ timer_interrupt' = FALSE
    /\ Return(~timer_interrupt)
    /\ UNCHANGED <<state, reason, memory, devices, armed, msgVars, op, again, wake, guestVars, stopVars,
                   sendVars, boots>>

Terminate ==
    /\ pc = "switched" /\ op \in Ends
    /\ armed' = FALSE
    /\ reason' = op
    /\ state' = "TERMINATED"
    /\ Return(FALSE)
    /\ UNCHANGED <<memory, devices, timer_interrupt, msgVars, op, again, wake, guestVars,
                   stopVars, sendVars, boots>>

\* co_idle sleeps before it looks at the queue.
Idle ==
    /\ pc = "switched" /\ op = "IDLE"
    /\ pc' = "sleep"
    /\ wake' = (Sticky /\ wake)
    /\ UNCHANGED <<monVars, msgVars, op, again, guestVars, stopVars, sendVars, boots>>

Awake ==
    /\ pc = "sleep" /\ wake
    /\ wake' = FALSE
    /\ Return(queue # <<>>)
    /\ UNCHANGED <<monVars, msgVars, op, again, guestVars, stopVars, sendVars, boots>>

\* The message of the guest goes to its module, and the IO area is free.
FromGuest ==
    /\ pc = "switched" /\ op = "SEND"
    /\ waiting' = 0
    /\ Return(TRUE)
    /\ UNCHANGED <<monVars, queue, io, size, op, again, wake, guestVars, stopVars, sendVars, boots>>

Serve ==
    /\ pc = "switched" /\ op \in Served \cup {"UNKNOWN"}
    /\ Return(op # "UNKNOWN")
    /\ UNCHANGED <<monVars, msgVars, op, again, wake, guestVars, stopVars, sendVars, boots>>
-----------------------------------------------------------------------------
(* The guest (src/patch): kernel/cooperative.c *)

Callback_CountDown ==
    /\ pc = "callback"
    /\ got' = IF active THEN got \o SubSeq(io, 1, size) ELSE got
    /\ told' = (told \/ (active /\ \E i \in 1..size : io[i] = power))
    /\ waiting' = waiting - 1
    /\ pc' = "guest"
    /\ UNCHANGED <<monVars, queue, io, size, op, again, wake, active, stopVars, sendVars, boots>>

\* co_callback: the messages are taken once the guest has its queues.
Callback ==
    /\ pc = "callback"
    /\ got' = IF active THEN got \o SubSeq(io, 1, size) ELSE got
    /\ told' = (told \/ (active /\ \E i \in 1..size : io[i] = power))
    /\ waiting' = 0
    /\ pc' = "guest"
    /\ UNCHANGED <<monVars, queue, io, size, op, again, wake, active, stopVars, sendVars, boots>>

Activate ==
    /\ pc = "guest" /\ ~active
    /\ active' = TRUE
    /\ UNCHANGED <<monVars, msgVars, runVars, got, told, stopVars, sendVars, boots>>

Leave(o) ==
    /\ pc = "guest"
    /\ op' = o
    /\ pc' = "switched"

GuestCalls(o) ==
    /\ Leave(o)
    /\ UNCHANGED <<monVars, msgVars, again, wake, guestVars, stopVars, sendVars, boots>>

\* co_send_message: the IO area is used if nothing waits in it.
GuestSends ==
    /\ Leave("SEND")
    /\ waiting = 0
    /\ waiting' = 1 /\ io' = <<>>
    /\ UNCHANGED <<monVars, queue, size, again, wake, guestVars, stopVars, sendVars, boots>>

GuestEnds(r) ==
    /\ Leave(r)
    /\ r = "REBOOT" => boots < MaxBoots
    /\ UNCHANGED <<monVars, msgVars, again, wake, guestVars, stopVars, sendVars, boots>>
-----------------------------------------------------------------------------
(* The timer, the senders, the stop handler *)

WakeUp == wake' = (Sticky \/ wake \/ pc = "sleep")

Timer_Silent ==
    /\ armed
    /\ timer_interrupt' = TRUE
    /\ UNCHANGED <<state, reason, memory, devices, armed, msgVars, runVars, guestVars, stopVars,
                   sendVars, boots>>

Timer ==
    /\ armed
    /\ timer_interrupt' = TRUE
    /\ WakeUp
    /\ UNCHANGED <<state, reason, memory, devices, armed, msgVars, pc, op, again, guestVars, stopVars,
                   sendVars, boots>>

Enqueue == sent' = sent + 1 /\ queue' = Append(queue, sent + 1)

Send(s) ==
    /\ spc[s] = "idle" /\ state \notin {"none", "destroyed"}
    /\ sent < MaxMessages + IF power = 0 THEN 0 ELSE 1
    /\ Enqueue
    /\ spc' = [spc EXCEPT ![s] = "queued"]
    /\ UNCHANGED <<monVars, io, waiting, size, runVars, guestVars, stopVars, boots>>

SendWakes(s) ==
    /\ spc[s] = "queued"
    /\ WakeUp
    /\ spc' = [spc EXCEPT ![s] = "idle"]
    /\ UNCHANGED <<monVars, msgVars, pc, op, again, guestVars, stopVars, sent, boots>>

Stop_NoFlag ==
    /\ stop = "no" /\ pc \notin {"create", "load", "ended"}
    /\ pc = "launch" => EarlyStop
    /\ stop' = "flagged"
    /\ UNCHANGED <<monVars, msgVars, runVars, guestVars, next_reboot_will_shutdown, power, sendVars, boots>>

\* co_daemon_send_shutdown: the flag first, then the message.
Stop ==
    /\ stop = "no" /\ pc \notin {"create", "load", "ended"}
    /\ pc = "launch" => EarlyStop
    /\ next_reboot_will_shutdown' = TRUE
    /\ stop' = "flagged"
    /\ UNCHANGED <<monVars, msgVars, runVars, guestVars, power, sendVars, boots>>

StopSends ==
    /\ stop = "flagged" /\ state # "destroyed"
    /\ Enqueue /\ power' = sent + 1
    /\ stop' = "queued"
    /\ UNCHANGED <<monVars, io, waiting, size, runVars, guestVars, next_reboot_will_shutdown, spc, boots>>

\* The daemon closed its message handle before the handler came to use it.
StopLate ==
    /\ stop = "flagged" /\ state = "destroyed"
    /\ stop' = "done"
    /\ UNCHANGED <<monVars, msgVars, runVars, guestVars, next_reboot_will_shutdown, power, sendVars, boots>>

StopWakes ==
    /\ stop = "queued"
    /\ WakeUp
    /\ stop' = "done"
    /\ UNCHANGED <<monVars, msgVars, pc, op, again, guestVars, next_reboot_will_shutdown, power, sendVars,
                   boots>>
-----------------------------------------------------------------------------
Daemon ==
    \/ Create \/ CreateFails \/ Launch \/ Start \/ StartFails \/ Run \/ RunTerminated \/ Check
    \/ Flush \/ Reconfigure \/ ReconfigureFails \/ Destroy
    \/ \E ok \in BOOLEAN : Load(ok) \/ Realloc(ok) \/ Reload(ok)

Driver ==
    \/ Iterate \/ OtherVirtualization
    \/ Interrupted \/ Terminate \/ Idle \/ Awake \/ FromGuest \/ Serve

Guest ==
    \/ Callback \/ Activate \/ GuestSends
    \/ \E o \in {"INTERRUPT", "IDLE", "UNKNOWN"} \cup Served : GuestCalls(o)
    \/ \E r \in {"REBOOT", "POWEROFF"} : GuestEnds(r)

Next ==
    \/ Daemon \/ Driver \/ Guest \/ Timer
    \/ \E s \in Senders : Send(s) \/ SendWakes(s)
    \/ Stop \/ StopSends \/ StopLate \/ StopWakes

Spec == Init /\ [][Next]_vars

(* The threads are scheduled and the timer ticks; the guest activates its  *)
(* messages if it runs for long enough, is interrupted by the host again   *)
(* and again, and ends once it was told to.                                *)
Fairness ==
    /\ WF_vars(Daemon) /\ WF_vars(Driver) /\ WF_vars(Timer) /\ WF_vars(Callback)
    /\ WF_vars(StopSends) /\ WF_vars(StopLate) /\ WF_vars(StopWakes)
    /\ \A s \in Senders : WF_vars(SendWakes(s))
    /\ SF_vars(Activate)
    /\ SF_vars(GuestCalls("INTERRUPT")) /\ SF_vars(GuestCalls("IDLE"))
    /\ SF_vars(told /\ \E r \in {"REBOOT", "POWEROFF"} : GuestEnds(r))

FairSpec == Spec /\ Fairness
-----------------------------------------------------------------------------
\* The daemon, the driver and the guest are each at a point of their code, and the queues,
\* the idle wait, the timer and the shared area of messages are in their domains.
TypeOK ==
    /\ state \in States /\ reason \in Ends \cup {"END"}
    /\ memory \in BOOLEAN /\ devices \in BOOLEAN /\ armed \in BOOLEAN /\ timer_interrupt \in BOOLEAN
    /\ queue \in Seq(Nat) /\ io \in Seq(Nat) /\ waiting \in Nat /\ size \in Nat
    /\ pc \in DaemonPCs \cup DriverPCs \cup GuestPCs
    /\ op \in Operations /\ again \in BOOLEAN /\ wake \in BOOLEAN
    /\ active \in BOOLEAN /\ got \in Seq(Nat) /\ told \in BOOLEAN
    /\ next_reboot_will_shutdown \in BOOLEAN /\ power \in Nat
    /\ stop \in {"no", "flagged", "queued", "done"}
    /\ spc \in [Senders -> {"idle", "queued"}] /\ sent \in Nat /\ boots \in Nat

(* The guest runs, and RUN is answered, only on a monitor with memory and  *)
(* devices and with its timer on; nothing is left on when the monitor is   *)
(* destroyed, whatever step of its creation or of a reset failed.          *)
ResourcesMatchState ==
    /\ pc \in DriverPCs \cup GuestPCs => state = "RUNNING"
    /\ state \in {"INITIALIZED", "STARTED", "RUNNING", "TERMINATED"} => memory /\ devices
    /\ armed <=> state \in {"STARTED", "RUNNING"}
    /\ pc = "ended" => ~memory /\ ~devices /\ queue = <<>>

(* callback_return always finds the IO area free, and the guest the        *)
(* messages it was told of: neither they nor the message of the guest are  *)
(* written over.                                                           *)
IoAreaKept ==
    /\ pc = "iterate" /\ op \in {"INTERRUPT", "IDLE"} => waiting = 0
    /\ pc = "callback" => size = Len(io) /\ waiting = size

InTransit == IF pc = "callback" \/ (op = "VMXE" /\ waiting > 0) THEN io ELSE <<>>

(* The messages of one boot reach the guest in the order they were queued, *)
(* and none is lost or repeated between two that it got: only those        *)
(* without a valid header, and, before the first it got, those that came   *)
(* too early for the guest or before a reset.                              *)
MessagesInOrder ==
    LET boot == IF state \in {"STARTED", "RUNNING", "TERMINATED"} THEN got \o InTransit ELSE <<>>
        all == boot \o queue
    IN /\ \A i \in 1..Len(all) - 1 : /\ all[i] < all[i + 1]
                                     /\ \A n \in all[i] + 1 .. all[i + 1] - 1 : Bad(n)
       /\ all # <<>> => \A n \in all[Len(all)] + 1 .. sent : Bad(n)

(* What is queued for the guest comes to it whole, once and in order.      *)
MessagesExact == IoAreaKept /\ MessagesInOrder

(* A guest that was told to shut down is never booted again, even if it    *)
(* answers with a reboot, unless the stop came while the helpers were      *)
(* launched.                                                               *)
ShutdownIsFinal == [][told => boots' = boots]_vars

(* A message to the guest does not stay in the queue: the guest idles or   *)
(* is interrupted, the sleep of co_idle ends, or a reset drops it.         *)
MessagesLeave == \A n \in 1..MaxMessages + 1 :
    (\E i \in 1..Len(queue) : queue[i] = n) ~> ~(\E i \in 1..Len(queue) : queue[i] = n)

(* Once the guest was told, the daemon comes to its end and the monitor    *)
(* with it.                                                                *)
ToldEnds == told ~> state = "destroyed"

(* Neither a message nor a stop that reached the guest is left waiting.    *)
VmAnswers == MessagesLeave /\ ToldEnds

(* NEWS:234: "Shutdown will automatic call from stopping as service": who  *)
(* asks a daemon to stop sees it end.                                      *)
StopEnds == stop = "flagged" ~> state = "destroyed"
=============================================================================
