---------------------------- MODULE ScsiDevices ----------------------------
(***************************************************************************)
(* The SCSI devices of several VMs on a Windows host: the guest's driver   *)
(* (coscsi of src/patch, COSCSI_ASYNC), kernel/scsi.c, and the queue of    *)
(* I/O requests of os/winnt/kernel/scsi.c, which all VMs share and no lock *)
(* guards.                                                                 *)
(*                                                                         *)
(* A read or write takes an entry of the queue, in the thread of the VM    *)
(* that switched to the host, and is carried out by a work item of the     *)
(* system; its end is a message to the guest.  There is one device of each *)
(* VM, and a command is a read or write of a number of vectors.            *)
(***************************************************************************)
EXTENDS Integers, Sequences, FiniteSets

CONSTANTS
    Vms,
    Commands,        \* commands a guest can have at a time
    Vectors,         \* the scatter-gather entries of a command
    IO_QUEUE_SIZE,
    MaxOpens,        \* bound: files opened for one VM
    MaxBoots,        \* bound: boots of one VM
    None

VARIABLES
    \* the guest
    command,         \* commands: none, sent, good or error
    os_handle,       \* the guest's copy of the handle: there is one or not
    \* the thread of a VM in the host
    pc,
    cur,             \* the command it is in
    r,               \* the entry get_next_entry looks at
    \* the host
    next_entry,
    io_queue,        \* the entries
    file,            \* dp->os_handle: none, open, or the number of a closed handle
    opened,          \* handles open for a VM
    resize,          \* conf->size # 0: the file is to get this size when opened
    vm, boot,
    irq,             \* linux_message_queue
    \* what happened
    raced,           \* two VMs took one entry, or one outside the queue
    unsized,         \* a file was opened that could not get its size
    dirty, lost, corrupt   \* as in BlockDevices

guestVars  == <<command, os_handle>>
threadVars == <<pc, cur, r>>
queueVars  == <<next_entry, io_queue, raced>>
fileVars   == <<file, opened, resize, unsized>>
vmVars     == <<vm, boot>>
msgVars    == <<irq, lost, corrupt>>
vars == <<guestVars, threadVars, queueVars, fileVars, vmVars, msgVars, dirty>>

Entries == 0..IO_QUEUE_SIZE - 1
Free == [in_use |-> FALSE, at |-> "idle", vm |-> None, cmd |-> None, boot |-> 0, left |-> 0]

Init ==
    /\ command = [v \in Vms |-> [c \in Commands |-> "none"]]
    /\ os_handle = [v \in Vms |-> FALSE]
    /\ pc = [v \in Vms |-> "guest"] /\ cur = [v \in Vms |-> None] /\ r = [v \in Vms |-> 0]
    /\ next_entry = 0 /\ io_queue = [e \in Entries |-> Free]
    /\ file = [v \in Vms |-> "none"] /\ opened = [v \in Vms |-> 0]
    /\ resize \in [Vms -> BOOLEAN]
    /\ vm = [v \in Vms |-> "runs"] /\ boot = [v \in Vms |-> 1]
    /\ irq = [v \in Vms |-> <<>>]
    /\ raced = FALSE /\ unsized = [v \in Vms |-> FALSE] /\ dirty = [v \in Vms |-> FALSE]
    /\ lost = [v \in Vms |-> FALSE] /\ corrupt = [v \in Vms |-> FALSE]

\* After a race nothing is known of the host.
Runs(v) == vm[v] = "runs" /\ pc[v] = "guest" /\ ~corrupt[v] /\ ~raced

Goto(v, p) == pc' = [pc EXCEPT ![v] = p]
-----------------------------------------------------------------------------
(* The device file: scsi_file_open, scsi_file_close.                       *)

\* The file is opened; if it is to have a size, it gets it, is closed, and opened again.
Open(v) ==
    /\ file' = [file EXCEPT ![v] = "open"]
    /\ opened' = [opened EXCEPT ![v] = @ + 1]
    /\ resize' = [resize EXCEPT ![v] = FALSE]
    /\ UNCHANGED unsized

\* The host refuses to open the file, to set its size, or to open it again.
OpenFails(v) ==
    \/ UNCHANGED fileVars
    \/ /\ resize[v]
       /\ file' = [file EXCEPT ![v] = "open"]
       /\ opened' = [opened EXCEPT ![v] = @ + 1]
       /\ unsized' = [unsized EXCEPT ![v] = TRUE]
       /\ UNCHANGED resize
    \/ /\ resize[v]
       /\ file' = [file EXCEPT ![v] = "stale"]
       /\ resize' = [resize EXCEPT ![v] = FALSE]
       /\ unsized' = [unsized EXCEPT ![v] = TRUE]
       /\ UNCHANGED opened

Close(v) ==
    /\ file' = IF file[v] = "stale" THEN file ELSE [file EXCEPT ![v] = "none"]
    /\ opened' = IF file[v] = "open" THEN [opened EXCEPT ![v] = @ - 1] ELSE opened
    /\ UNCHANGED <<resize, unsized>>

\* host_open: the first command to use the device opens it; TEST_UNIT_READY does so too.
HostOpen(v) ==
    /\ Runs(v) /\ ~os_handle[v] /\ opened[v] < MaxOpens
    /\ \/ Open(v) /\ os_handle' = [os_handle EXCEPT ![v] = TRUE]
       \/ OpenFails(v) /\ UNCHANGED os_handle
    /\ UNCHANGED <<command, threadVars, queueVars, vmVars, msgVars, dirty>>

\* coscsi_pci_exit
HostClose(v) ==
    /\ Runs(v) /\ os_handle[v] /\ \A c \in Commands : command[v][c] # "sent"
    /\ Close(v)
    /\ os_handle' = [os_handle EXCEPT ![v] = FALSE]
    /\ UNCHANGED <<command, threadVars, queueVars, vmVars, msgVars, dirty>>
-----------------------------------------------------------------------------
(* scsi_file_io in the thread of the VM.                                   *)

Send(v, c) ==
    /\ Runs(v) /\ os_handle[v] /\ command[v][c] # "sent"
    /\ command' = [command EXCEPT ![v][c] = "sent"]
    /\ cur' = [cur EXCEPT ![v] = c]
    /\ Goto(v, "next")
    /\ UNCHANGED <<os_handle, r, queueVars, fileVars, vmVars, msgVars, dirty>>

\* &io_queue[next_entry++], a step on its own: another VM can see next_entry before it is
\* wrapped round.
Claim(v) ==
    /\ pc[v] = "next" /\ ~raced
    /\ r' = [r EXCEPT ![v] = next_entry]
    /\ next_entry' = next_entry + 1
    /\ raced' = (next_entry \notin Entries)
    /\ Goto(v, "wrap")
    /\ UNCHANGED <<guestVars, cur, io_queue, fileVars, vmVars, msgVars, dirty>>

Wrap(v) ==
    /\ pc[v] = "wrap" /\ ~raced
    /\ next_entry' = IF next_entry >= IO_QUEUE_SIZE THEN 0 ELSE next_entry
    /\ Goto(v, IF io_queue[r[v]].in_use THEN "scan" ELSE "take")
    /\ UNCHANGED <<guestVars, cur, r, io_queue, raced, fileVars, vmVars, msgVars, dirty>>

\* The queue is searched for the first free entry, again and again after a sleep.
Scan(v) ==
    /\ pc[v] = "scan" /\ ~raced
    /\ \E e \in Entries :
         /\ ~io_queue[e].in_use
         /\ \A f \in Entries : f < e => io_queue[f].in_use
         /\ r' = [r EXCEPT ![v] = e]
    /\ Goto(v, "take")
    /\ UNCHANGED <<guestVars, cur, queueVars, fileVars, vmVars, msgVars, dirty>>

\* Mutant of Take: the entry is not marked.
Take_NotMarked(v) ==
    /\ pc[v] = "take" /\ ~raced
    /\ raced' = io_queue[r[v]].in_use
    /\ Goto(v, "submit")
    /\ UNCHANGED <<guestVars, cur, r, next_entry, io_queue, fileVars, vmVars, msgVars, dirty>>

Take(v) ==
    /\ pc[v] = "take" /\ ~raced
    /\ raced' = io_queue[r[v]].in_use
    /\ io_queue' = [io_queue EXCEPT ![r[v]].in_use = TRUE]
    /\ Goto(v, "submit")
    /\ UNCHANGED <<guestVars, cur, r, next_entry, fileVars, vmVars, msgVars, dirty>>

Submit(v) ==
    /\ pc[v] = "submit" /\ ~raced
    /\ \E n \in 1..Vectors : io_queue' = [io_queue EXCEPT ![r[v]] =
         [@ EXCEPT !.at = "queued", !.vm = v, !.cmd = cur[v], !.boot = boot[v], !.left = n]]
    /\ cur' = [cur EXCEPT ![v] = None]
    /\ Goto(v, "guest")
    /\ UNCHANGED <<guestVars, r, next_entry, raced, fileVars, vmVars, msgVars, dirty>>
-----------------------------------------------------------------------------
(* The work item: _scsi_dio(e).                                            *)

\* A vector is transferred, unless the list could not be copied, or the transfer fails.
Transfer(e, ok) == LET x == io_queue[e] IN
    /\ x.at = "queued" /\ ~raced
    /\ io_queue' = [io_queue EXCEPT ![e] =
         IF ok /\ x.left > 1 THEN [x EXCEPT !.left = x.left - 1]
                             ELSE [x EXCEPT !.at = IF ok THEN "good" ELSE "error"]]
    /\ UNCHANGED <<guestVars, threadVars, next_entry, raced, fileVars, vmVars, msgVars, dirty>>

\* scsi_send_intr: the monitor and the device of the entry may be gone by now.
SendIntr(e, kept) == LET x == io_queue[e] IN
    /\ x.at \in {"good", "error"} /\ ~raced
    /\ IF vm[x.vm] = "freed" \/ x.boot # boot[x.vm]
         THEN corrupt' = [corrupt EXCEPT ![x.vm] = TRUE] /\ UNCHANGED <<irq, lost>>
         ELSE /\ irq' = IF kept
                        THEN [irq EXCEPT ![x.vm] =
                                Append(@, [cmd |-> x.cmd, boot |-> x.boot, at |-> x.at])]
                        ELSE irq
              /\ lost' = [lost EXCEPT ![x.vm] = @ \/ ~kept]
              /\ UNCHANGED corrupt
    /\ io_queue' = [io_queue EXCEPT ![e].at = "sent"]
    /\ UNCHANGED <<guestVars, threadVars, next_entry, raced, fileVars, vmVars, dirty>>

\* The entry is given back last.
FreeEntry(e) ==
    /\ io_queue[e].at = "sent" /\ ~raced
    /\ io_queue' = [io_queue EXCEPT ![e] = Free]
    /\ UNCHANGED <<guestVars, threadVars, next_entry, raced, fileVars, vmVars, msgVars, dirty>>

\* coscsi_isr
Interrupt(v) == LET m == Head(irq[v]) IN
    /\ Runs(v) /\ irq[v] # <<>>
    /\ irq' = [irq EXCEPT ![v] = Tail(@)]
    /\ IF m.boot # boot[v]
         THEN corrupt' = [corrupt EXCEPT ![v] = TRUE] /\ UNCHANGED command
         ELSE command' = [command EXCEPT ![v][m.cmd] = m.at] /\ UNCHANGED corrupt
    /\ UNCHANGED <<os_handle, threadVars, queueVars, fileVars, vmVars, lost, dirty>>
-----------------------------------------------------------------------------
(* The end of a boot.                                                      *)

Busy(v) == \E e \in Entries : io_queue[e].vm = v

Flush(v) ==
    /\ Runs(v)
    /\ vm' = [vm EXCEPT ![v] = "flushed"]
    /\ irq' = [irq EXCEPT ![v] = <<>>]
    /\ dirty' = [dirty EXCEPT ![v] = @ \/ Busy(v)]
    /\ command' = [command EXCEPT ![v] = [c \in Commands |-> "none"]]
    /\ os_handle' = [os_handle EXCEPT ![v] = FALSE]
    /\ UNCHANGED <<threadVars, queueVars, fileVars, boot, lost, corrupt>>

\* co_monitor_unregister_and_free_scsi_devices: a device is freed whatever closing its
\* handle says.
Unregister(v) ==
    /\ opened' = IF file[v] = "open" THEN [opened EXCEPT ![v] = @ - 1] ELSE opened
    /\ file' = [file EXCEPT ![v] = "none"]
    /\ UNCHANGED <<resize, unsized>>

Reload(v) ==
    /\ vm[v] = "flushed" /\ boot[v] < MaxBoots
    /\ Unregister(v)
    /\ vm' = [vm EXCEPT ![v] = "runs"] /\ boot' = [boot EXCEPT ![v] = @ + 1]
    /\ UNCHANGED <<guestVars, threadVars, queueVars, msgVars, dirty>>

Destroy(v) ==
    /\ vm[v] = "flushed"
    /\ Unregister(v)
    /\ vm' = [vm EXCEPT ![v] = "freed"]
    /\ irq' = [irq EXCEPT ![v] = <<>>]
    /\ UNCHANGED <<boot, guestVars, threadVars, queueVars, lost, corrupt, dirty>>
-----------------------------------------------------------------------------
Thread(v) == Claim(v) \/ Wrap(v) \/ Take(v) \/ Submit(v)

Work(e) == (\E ok \in BOOLEAN : Transfer(e, ok) \/ SendIntr(e, ok)) \/ FreeEntry(e)

Next ==
    \/ \E v \in Vms : \/ HostOpen(v) \/ HostClose(v) \/ Thread(v) \/ Scan(v)
                      \/ Interrupt(v) \/ Flush(v) \/ Reload(v) \/ Destroy(v)
                      \/ \E c \in Commands : Send(v, c)
    \/ \E e \in Entries : Work(e)

Spec == Init /\ [][Next]_vars

\* Threads and work items run; a search finds an entry that is free again and again.
Fairness ==
    /\ \A v \in Vms : WF_vars(Thread(v)) /\ WF_vars(Interrupt(v)) /\ SF_vars(Scan(v))
    /\ \A e \in Entries : WF_vars(Work(e))

FairSpec == Spec /\ Fairness
-----------------------------------------------------------------------------
\* Where a command is: in its thread, in an entry, in a message.
Held(v, c) ==
    (IF cur[v] = c THEN 1 ELSE 0)
    + Cardinality({e \in Entries : io_queue[e].at \in {"queued", "good", "error"}
                                     /\ io_queue[e].vm = v /\ io_queue[e].cmd = c})
    + Cardinality({i \in DOMAIN irq[v] : irq[v][i].cmd = c})

\* Unless two VMs meet in get_next_entry, an entry is in use for one thread or one work
\* item, and for none when it is free: the queue does not leak or share an entry,
\* whatever fails in the transfer.
EntriesExact == ~raced => \A e \in Entries :
    LET takers == {v \in Vms : pc[v] = "submit" /\ r[v] = e}
    IN  IF io_queue[e].at = "idle"
        THEN Cardinality(takers) = IF io_queue[e].in_use THEN 1 ELSE 0
        ELSE io_queue[e].in_use /\ takers = {}

\* A command that was sent is on its way once, and ends with one result.
CommandsExact == \A v \in Vms : ~raced /\ vm[v] = "runs" /\ ~dirty[v] /\ ~lost[v] =>
    \A c \in Commands : Held(v, c) = IF command[v][c] = "sent" THEN 1 ELSE 0

\* A device that the guest takes for open is open, in one handle, unless the file could
\* not get its size: then a handle is kept, or the number of a closed one.
HandlesExact == \A v \in Vms : ~unsized[v] =>
    /\ os_handle[v] => file[v] = "open"
    /\ opened[v] = IF file[v] = "open" THEN 1 ELSE 0

\* Only a boot that ends with commands in the host lets one meet another boot.
BootsApart == \A v \in Vms : corrupt[v] => dirty[v] \/ raced

\* The queue, the commands and the handles of the SCSI devices are exact (scsi.c, cosd.c).
ScsiExact == EntriesExact /\ CommandsExact /\ HandlesExact /\ BootsApart

\* A command ends also when the queue was full: no entry is kept for ever, and the search
\* is not in vain.
CommandsEnd == \A v \in Vms, c \in Commands :
    command[v][c] = "sent" ~> command[v][c] # "sent" \/ raced \/ lost[v] \/ corrupt[v]
=============================================================================
