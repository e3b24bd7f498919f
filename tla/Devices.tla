------------------------------ MODULE Devices -------------------------------
(* The disks that VMs have: the block devices and, apart from them, the SCSI *)
(* devices of a Windows host.  They share no state.                          *)
EXTENDS BlockDevices

CONSTANTS
    ScsiVms, Commands, Vectors, IO_QUEUE_SIZE,
    ScsiOpens,       \* bound: files opened for one VM
    ScsiBoots        \* bound: boots of one VM

\* The queue has entries.
ASSUME ScsiAssumption ==
    /\ None \notin ScsiVms \cup Commands
    /\ IO_QUEUE_SIZE \in Nat \ {0} /\ {Vectors, ScsiOpens, ScsiBoots} \subseteq Nat

VARIABLES
    command, os_handle, pc, cur, s_r, next_entry, io_queue, file, opened, resize,
    s_vm, s_boot, s_irq, s_raced, unsized, s_dirty, s_lost, s_corrupt

scsiVars == <<command, os_handle, pc, cur, s_r, next_entry, io_queue, file, opened, resize,
              s_vm, s_boot, s_irq, s_raced, unsized, s_dirty, s_lost, s_corrupt>>

Scsi == INSTANCE ScsiDevices WITH
    Vms <- ScsiVms, MaxOpens <- ScsiOpens, MaxBoots <- ScsiBoots,
    r <- s_r, vm <- s_vm, boot <- s_boot, irq <- s_irq, raced <- s_raced,
    dirty <- s_dirty, lost <- s_lost, corrupt <- s_corrupt

\* The queue, the commands and the handles of the SCSI devices are exact (scsi.c, cosd.c).
ScsiExact == Scsi!ScsiExact
-----------------------------------------------------------------------------
\* One kind at a time has steps; of the other there is one initial state.
DevicesInit == Init /\ Scsi!Init
DevicesNext ==
    \/ Scsi!Init /\ (\A v \in ScsiVms : ~resize[v]) /\ Next /\ UNCHANGED scsiVars
    \/ Init /\ (\A v \in Vms : dev[v].op = "default") /\ Scsi!Next /\ UNCHANGED vars
DevicesSpec == DevicesInit /\ [][DevicesNext]_<<vars, scsiVars>> /\ Fairness /\ Scsi!Fairness

\* What the guest asks of a disk ends.
DisksAnswer == RequestsEnd /\ Scsi!CommandsEnd
=============================================================================
