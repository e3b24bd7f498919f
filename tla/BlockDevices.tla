---------------------------- MODULE BlockDevices ----------------------------
(***************************************************************************)
(* A block device from the guest's driver (cobd of src/patch) through      *)
(* kernel/block.c and kernel/fileblock.c to the file I/O of a Windows host *)
(* (os/winnt/kernel/block.c), over boots of the guest, for several VMs.    *)
(*                                                                         *)
(* cobd0 and an alias such as hda are two block devices of the guest that  *)
(* share one unit.  The guest calls the driver by a switch and stands      *)
(* still until it returns.  With cobd_async_enable a read or write is only *)
(* begun by the call: its end comes as an APC in the thread of the daemon, *)
(* which queues a message that interrupts the guest.                       *)
(***************************************************************************)
EXTENDS Integers, Sequences, FiniteSets

CONSTANTS
    Vms,
    Bdevs,        \* block devices of the guest for the unit: cobd and aliases
    Requests,     \* requests a guest can have at a time
    Segments,     \* the segments of a request
    MaxOpens,     \* bound: opens of one block device
    MaxBoots,     \* bound: boots of one VM
    None

ASSUME BlockDevicesAssumption ==
    /\ None \notin Bdevs \cup Requests \cup {"STAT", "OPEN", "CLOSE", "IO"}
    /\ {Segments, MaxOpens} \subseteq Nat /\ MaxBoots \in Nat \ {0}

VARIABLES
    \* the guest
    guest,        \* refcount and device of cobd_devs[unit], opens of each bdev
    stat_ok,      \* the block device whose open is between STAT and OPEN
    request,      \* where each request is, and its segments not yet ended
    \* the switch
    call,         \* the request in the passage page: type, for, at, ok, async
    rc,           \* the static variable of co_monitor_block_request
    \* the host
    dev,          \* use_count, state and operations (fdev->op) of the device
    vm, boot,
    io,           \* requests begun and not ended by the host
    irq,          \* linux_message_queue
    \* what happened
    dirty,        \* a boot ended with requests of it in the host
    lost,         \* a message found no memory
    mixed,        \* the guest was given the answer to another VM
    corrupt       \* a completion met another boot, or a monitor that is gone

guestVars == <<guest, stat_ok, request>>
rcVars    == <<rc, mixed>>
hostVars  == <<dev, vm, boot>>
ioVars    == <<io, irq, lost, corrupt, dirty>>
vars == <<guestVars, call, rcVars, hostVars, ioVars>>

NoCall   == [type |-> None, for |-> None, at |-> "none", ok |-> TRUE, pending |-> FALSE]
NoDevice == [refcount |-> 0, device |-> None, opens |-> [b \in Bdevs |-> 0]]
NoRequest == [at |-> "none", left |-> 0]
Closed(d) == [d EXCEPT !.use_count = 0, !.state = "CLOSED"]

Init ==
    /\ guest = [v \in Vms |-> NoDevice] /\ stat_ok = [v \in Vms |-> None]
    /\ request = [v \in Vms |-> [r \in Requests |-> NoRequest]]
    /\ call = [v \in Vms |-> NoCall] /\ rc = TRUE
    /\ dev \in [Vms -> [use_count : {0}, state : {"CLOSED"}, op : {"async", "default"}]]
    /\ vm = [v \in Vms |-> "runs"] /\ boot = [v \in Vms |-> 1]
    /\ io = [v \in Vms |-> {}] /\ irq = [v \in Vms |-> <<>>]
    /\ dirty = [v \in Vms |-> FALSE] /\ lost = [v \in Vms |-> FALSE]
    /\ corrupt = [v \in Vms |-> FALSE] /\ mixed = [v \in Vms |-> FALSE]

\* The guest runs; its calls and interrupts exclude each other.
Runs(v) == vm[v] = "runs" /\ call[v] = NoCall /\ ~corrupt[v]

Call(v, type, for) ==
    call' = [call EXCEPT ![v] = [NoCall EXCEPT !.type = type, !.for = for, !.at = "host"]]

Returned(v) == call' = [call EXCEPT ![v] = NoCall]
-----------------------------------------------------------------------------
(* The guest: opening and closing (one open at a time).                    *)

Stat(v, b) ==
    /\ Runs(v) /\ stat_ok[v] = None
    /\ guest[v].device = None /\ guest[v].refcount = 0
    /\ Call(v, "STAT", b)
    /\ UNCHANGED <<guestVars, rcVars, hostVars, ioVars>>

Open(v, b) ==
    /\ Runs(v)
    /\ stat_ok[v] = b \/ (stat_ok[v] = None /\ guest[v].device = b /\ guest[v].opens[b] < MaxOpens)
    /\ stat_ok' = [stat_ok EXCEPT ![v] = None]
    /\ Call(v, "OPEN", b)
    /\ UNCHANGED <<guest, request, rcVars, hostVars, ioVars>>

Active(v, r) == request[v][r].at \in {"queued", "started"}

\* Linux waits for the requests of a block device before its last close.
Release(v, b) ==
    /\ Runs(v) /\ stat_ok[v] = None
    /\ guest[v].opens[b] > 0
    /\ guest[v].opens[b] = 1 => \A r \in Requests : ~Active(v, r)
    /\ Call(v, "CLOSE", b)
    /\ UNCHANGED <<guestVars, rcVars, hostVars, ioVars>>

StatReturns(v) ==
    /\ stat_ok' = [stat_ok EXCEPT ![v] = IF rc THEN call[v].for ELSE None]
    /\ UNCHANGED <<guest, request>>

\* The guest counts n more opens of b.
Counted(v, b, n, device) ==
    guest' = [guest EXCEPT ![v] = [refcount |-> guest[v].refcount + n, device |-> device,
                                   opens |-> [guest[v].opens EXCEPT ![b] = @ + n]]]

\* A first open names the block device: no other can be opened beside it.
OpenReturns(v) ==
    /\ IF rc THEN Counted(v, call[v].for, 1, call[v].for) ELSE UNCHANGED guest
    /\ UNCHANGED <<stat_ok, request>>

ReleaseReturns(v) ==
    /\ Counted(v, call[v].for, -1, IF guest[v].refcount = 1 THEN None ELSE guest[v].device)
    /\ UNCHANGED <<stat_ok, request>>
-----------------------------------------------------------------------------
(* The guest: reading and writing.                                         *)

Submit(v, r) ==
    /\ Runs(v) /\ guest[v].refcount > 0
    /\ ~Active(v, r)
    /\ \E n \in 1..Segments : request' = [request EXCEPT ![v][r] = [at |-> "queued", left |-> n]]
    /\ UNCHANGED <<guest, stat_ok, call, rcVars, hostVars, ioVars>>

\* do_cobd_request takes a request off the queue and begins its first segment.
Fetch(v, r) ==
    /\ Runs(v) /\ request[v][r].at = "queued"
    /\ request' = [request EXCEPT ![v][r].at = "started"]
    /\ Call(v, "IO", r)
    /\ UNCHANGED <<guest, stat_ok, rcVars, hostVars, ioVars>>

\* __blk_end_request_cur: is there another segment?
More(v, r) == request[v][r].left > 1

EndSegment(v, r) ==
    request' = IF More(v, r) THEN [request EXCEPT ![v][r].left = @ - 1]
                             ELSE [request EXCEPT ![v][r] = [at |-> "ended", left |-> 0]]

\* cobd_transfer after the switch: wait for the interrupt, go on with the next
\* segment, or end all of a request that failed.
TransferReturns(v) == LET r == call[v].for IN
    \/ /\ rc /\ dev[v].op = "async"
       /\ Returned(v) /\ UNCHANGED request
    \/ /\ rc /\ dev[v].op = "default"
       /\ EndSegment(v, r)
       /\ IF More(v, r) THEN Call(v, "IO", r) ELSE Returned(v)
    \/ /\ ~rc
       /\ request' = [request EXCEPT ![v][r] = [at |-> "ended", left |-> 0]]
       /\ Returned(v)

Return(v) ==
    /\ call[v].at = "answer"
    /\ IF call[v].type = "IO"
         THEN TransferReturns(v) /\ UNCHANGED <<guest, stat_ok>>
         ELSE /\ Returned(v)
              /\ CASE call[v].type = "STAT" -> StatReturns(v)
                   [] call[v].type = "OPEN" -> OpenReturns(v)
                   [] call[v].type = "CLOSE" -> ReleaseReturns(v)
    /\ mixed' = [mixed EXCEPT ![v] = @ \/ rc # call[v].ok]
    /\ UNCHANGED <<rc, hostVars, ioVars>>

\* Mutant of Interrupt: the next segment is not begun.
Interrupt_OneSegment(v) == LET m == Head(irq[v]) IN
    /\ Runs(v) /\ irq[v] # <<>>
    /\ irq' = [irq EXCEPT ![v] = Tail(@)]
    /\ IF m.boot # boot[v]
         THEN corrupt' = [corrupt EXCEPT ![v] = TRUE] /\ UNCHANGED <<request, call>>
         ELSE EndSegment(v, m.req) /\ UNCHANGED <<call, corrupt>>
    /\ UNCHANGED <<guest, stat_ok, rcVars, hostVars, io, lost, dirty>>

\* cobd_interrupt: a segment ends and the next begins.  A message of an earlier boot
\* leads to memory that is no request.
Interrupt(v) == LET m == Head(irq[v]) IN
    /\ Runs(v) /\ irq[v] # <<>>
    /\ irq' = [irq EXCEPT ![v] = Tail(@)]
    /\ IF m.boot # boot[v]
         THEN corrupt' = [corrupt EXCEPT ![v] = TRUE] /\ UNCHANGED <<request, call>>
         ELSE /\ EndSegment(v, m.req)
              /\ IF More(v, m.req) THEN Call(v, "IO", m.req) ELSE UNCHANGED call
              /\ UNCHANGED corrupt
    /\ UNCHANGED <<guest, stat_ok, rcVars, hostVars, io, lost, dirty>>
-----------------------------------------------------------------------------
(* The host: intern_monitor_block_request and what it calls.               *)

Answer(v, ok, pending) ==
    /\ rc' = ok /\ UNCHANGED mixed
    /\ call' = [call EXCEPT ![v].at = "answer", ![v].ok = ok, ![v].pending = pending]

Used(v, n, state) == dev' = [dev EXCEPT ![v] = [dev[v] EXCEPT !.use_count = n, !.state = state]]

\* Mutant of ServeOpen: the count is raised before the file is opened.
ServeOpen_CountFirst(v, ok) ==
    /\ call[v].at = "host" /\ call[v].type = "OPEN"
    /\ IF dev[v].use_count >= 1 \/ dev[v].state # "CLOSED"
         THEN ok = (dev[v].use_count >= 1) /\ Used(v, dev[v].use_count + 1, dev[v].state)
         ELSE Used(v, dev[v].use_count + 1, IF ok THEN "OPENED" ELSE dev[v].state)
    /\ Answer(v, ok, FALSE)
    /\ UNCHANGED <<guestVars, vm, boot, ioVars>>

\* Only the first open opens the file, which the host may refuse.
ServeOpen(v, ok) ==
    /\ call[v].at = "host" /\ call[v].type = "OPEN"
    /\ IF dev[v].use_count >= 1 \/ dev[v].state # "CLOSED"
         THEN /\ ok = (dev[v].use_count >= 1)
              /\ IF ok THEN Used(v, dev[v].use_count + 1, dev[v].state) ELSE UNCHANGED dev
         ELSE IF ok THEN Used(v, dev[v].use_count + 1, "OPENED") ELSE UNCHANGED dev
    /\ Answer(v, ok, FALSE)
    /\ UNCHANGED <<guestVars, vm, boot, ioVars>>

\* Only the last close closes it.
ServeClose(v) ==
    /\ call[v].at = "host" /\ call[v].type = "CLOSE"
    /\ IF dev[v].use_count > 1 \/ (dev[v].use_count = 1 /\ dev[v].state = "OPENED")
         THEN /\ Used(v, dev[v].use_count - 1, IF dev[v].use_count = 1 THEN "CLOSED" ELSE dev[v].state)
              /\ Answer(v, TRUE, FALSE)
         ELSE UNCHANGED dev /\ Answer(v, FALSE, FALSE)
    /\ UNCHANGED <<guestVars, vm, boot, ioVars>>

\* The size is asked of a closed device only.
ServeStat(v, ok) ==
    /\ call[v].at = "host" /\ call[v].type = "STAT"
    /\ ok => dev[v].state = "CLOSED"
    /\ Answer(v, ok, FALSE)
    /\ UNCHANGED <<guestVars, hostVars, ioVars>>

\* A transfer is done, or begun, or fails (the bounds, the memory, the file).
ServeIo(v, ok) ==
    /\ call[v].at = "host" /\ call[v].type = "IO"
    /\ ok => dev[v].state = "OPENED"
    /\ io' = IF ok /\ dev[v].op = "async"
               THEN [io EXCEPT ![v] = @ \cup {[req |-> call[v].for, boot |-> boot[v]]}]
               ELSE io
    /\ Answer(v, ok, ok /\ dev[v].op = "async")
    /\ UNCHANGED <<guestVars, hostVars, irq, lost, corrupt, dirty>>

\* transfer_file_block_callback: the message goes to the queue, if there is memory for
\* its place in it.
Complete(v, x, kept) ==
    /\ x \in io[v]
    /\ io' = [io EXCEPT ![v] = @ \ {x}]
    /\ IF vm[v] = "freed"
         THEN corrupt' = [corrupt EXCEPT ![v] = TRUE] /\ UNCHANGED <<irq, lost>>
         ELSE /\ irq' = IF kept THEN [irq EXCEPT ![v] = Append(@, x)] ELSE irq
              /\ lost' = [lost EXCEPT ![v] = @ \/ ~kept]
              /\ UNCHANGED corrupt
    /\ UNCHANGED <<guestVars, call, rcVars, hostVars, dirty>>
-----------------------------------------------------------------------------
(* The end of a boot.                                                      *)

\* The guest reboots, and the queue is flushed.
Flush(v) ==
    /\ Runs(v)
    /\ vm' = [vm EXCEPT ![v] = "flushed"]
    /\ irq' = [irq EXCEPT ![v] = <<>>]
    /\ dirty' = [dirty EXCEPT ![v] = @ \/ io[v] # {}]
    /\ guest' = [guest EXCEPT ![v] = NoDevice] /\ stat_ok' = [stat_ok EXCEPT ![v] = None]
    /\ request' = [request EXCEPT ![v] = [r \in Requests |-> NoRequest]]
    /\ UNCHANGED <<call, rcVars, dev, boot, io, lost, corrupt>>

\* co_monitor_user_reset: the devices are closed, freed and made anew.
Reload(v) ==
    /\ vm[v] = "flushed" /\ boot[v] < MaxBoots
    /\ dev' = [dev EXCEPT ![v] = Closed(@)]
    /\ vm' = [vm EXCEPT ![v] = "runs"]
    /\ boot' = [boot EXCEPT ![v] = @ + 1]
    /\ UNCHANGED <<guestVars, call, rcVars, ioVars>>

\* A reset failed, or the guest was powered off: the monitor is destroyed.
Destroy(v) ==
    /\ vm[v] = "flushed"
    /\ dev' = [dev EXCEPT ![v] = Closed(@)]
    /\ vm' = [vm EXCEPT ![v] = "freed"]
    /\ irq' = [irq EXCEPT ![v] = <<>>]
    /\ UNCHANGED <<guestVars, call, rcVars, boot, io, lost, corrupt, dirty>>
-----------------------------------------------------------------------------
Serve(v) ==
    \/ ServeClose(v)
    \/ \E ok \in BOOLEAN : ServeOpen(v, ok) \/ ServeStat(v, ok) \/ ServeIo(v, ok)

Began == [req : Requests, boot : 1..MaxBoots]

Completes(v, x) == \E kept \in BOOLEAN : Complete(v, x, kept)

Next == \E v \in Vms :
    \/ \E b \in Bdevs : Stat(v, b) \/ Open(v, b) \/ Release(v, b)
    \/ \E r \in Requests : Submit(v, r) \/ Fetch(v, r)
    \/ Return(v) \/ Interrupt(v) \/ Serve(v)
    \/ \E x \in Began : Completes(v, x)
    \/ Flush(v) \/ Reload(v) \/ Destroy(v)

Spec == Init /\ [][Next]_vars

\* The VM runs, the host's files answer, and a queue that is not empty is run.
Fairness == \A v \in Vms :
    /\ WF_vars(Return(v) \/ Serve(v)) /\ SF_vars(Interrupt(v))
    /\ \A x \in Began : WF_vars(Completes(v, x))
    /\ \A r \in Requests : SF_vars(Fetch(v, r))

FairSpec == Spec /\ Fairness
-----------------------------------------------------------------------------
\* An open that the host granted or a close it did, and the guest has not counted yet.
Uncounted(v) ==
    IF call[v].at = "answer" /\ call[v].ok
    THEN CASE call[v].type = "OPEN" -> 1 [] call[v].type = "CLOSE" -> -1 [] OTHER -> 0
    ELSE 0

\* The opens of guest and host stay in step, whichever opens, closes and sizes fail and
\* however boots end; the file is open exactly when one is counted, and only one block
\* device of the guest has the unit.
CountsAgree == \A v \in Vms : vm[v] = "runs" /\ ~mixed[v] =>
    /\ dev[v].use_count = guest[v].refcount + Uncounted(v)
    /\ dev[v].state = "OPENED" <=> dev[v].use_count > 0
    /\ \A b \in Bdevs : guest[v].opens[b] = IF b = guest[v].device THEN guest[v].refcount ELSE 0
    /\ guest[v].device = None <=> guest[v].refcount = 0

\* Where the current segment of a request is: in the call, in the host, in the queue.
Held(v, r) ==
    (IF call[v].type = "IO" /\ call[v].for = r /\ ~call[v].pending THEN 1 ELSE 0)
    + Cardinality({x \in io[v] : x.req = r})
    + Cardinality({i \in DOMAIN irq[v] : irq[v][i].req = r})

\* A started request has one segment on its way and any other has none: each is ended
\* once, unless a boot ended with one in the host or a message found no memory.
SegmentsExact == \A v \in Vms : vm[v] = "runs" /\ ~dirty[v] /\ ~lost[v] /\ ~mixed[v] =>
    \A r \in Requests : Held(v, r) = IF request[v][r].at = "started" THEN 1 ELSE 0

\* Only a boot that ends with requests in the host lets a completion reach the memory of
\* another.
BootsApart == \A v \in Vms : corrupt[v] => dirty[v]

\* Guest and host agree on a disk and on what is under way (block.c, cobd.c).
BlocksExact == CountsAgree /\ SegmentsExact /\ BootsApart

\* A request ends, in each segment, also while others are in flight.
RequestsEnd == \A v \in Vms, r \in Requests :
    Active(v, r) ~> ~Active(v, r) \/ lost[v] \/ corrupt[v] \/ mixed[v]

=============================================================================
