------------------------------ MODULE Manager ------------------------------
(***************************************************************************)
(* The driver's two reference-counted objects and the handles that hold    *)
(* them: the open descriptors of kernel/manager.c (one per file handle) and *)
(* the monitors of kernel/monitor.c (one per running Linux VM).            *)
(*                                                                         *)
(* An owner is a handle of colinux-daemon on which CO_MANAGER_IOCTL_CREATE *)
(* is issued: a monitor is named by its owner, as monitor->id is the pid   *)
(* of the daemon that created it.  A daemon is a handle of a console,      *)
(* network or serial daemon: it is attached to a monitor and connected to  *)
(* the slots connected_modules[md] of the modules it claims.  A handle is  *)
(* used by one thread, so handles name the threads as well.                *)
(*                                                                         *)
(* A step is a critical section, or the code between two of them.  The     *)
(* mutex manager->lock is mgr_lock, connected_modules_write_lock is lock.  *)
(* opened->lock only protects a count that one statement changes.          *)
(***************************************************************************)
EXTENDS Integers, FiniteSets

CONSTANTS
    Owners,      \* handles that create a monitor
    Daemons,     \* handles that attach to one
    Modules,     \* indices of connected_modules
    Console,     \* the module that CO_MONITOR_IOCTL_GET_CONSOLE sends to
    Claims,      \* Claims[d]: the modules daemon d lists in its ATTACH
    AtomicCount, \* "++" and "--" on a word are one indivisible instruction
    None

Handles == Owners \cup Daemons

ASSUME ManagerAssumption ==
    /\ Owners \cap Daemons = {}
    /\ None \notin Handles \cup Modules
    /\ IsFiniteSet(Handles)
    /\ IsFiniteSet(Modules)
    /\ Console \in Modules
    /\ Claims \in [Daemons -> SUBSET Modules]
    /\ AtomicCount \in BOOLEAN

VARIABLES
    \* open descriptors (struct co_manager_open_desc)
    desc,              \* memory: not allocated yet, allocated, given back
    ref_count,
    active,
    monitor,
    \* monitors (struct co_monitor)
    mon,               \* memory, as desc
    refcount,
    listed,            \* the list manager->monitors
    connected_modules,
    lock,              \* holder of connected_modules_write_lock
    mgr_lock,          \* holder of manager->lock between two steps
    \* threads
    pc,                \* the system call of a thread
    md_cur,            \* ATTACH: the module whose old occupant is closed
    target,            \* incoming_message: the descriptor sent to
    closing,           \* co_manager_close: its argument
    close_pc,
    below,             \* the descriptor whose close waits for a refdown
    down,              \* co_monitor_refdown: its argument
    down_pc,
    loaded             \* a count between the load and the store

descVars   == <<desc, ref_count, active, monitor>>
monVars    == <<mon, refcount, listed, connected_modules, lock>>
closeVars  == <<closing, close_pc>>
downVars   == <<down, down_pc, loaded, below>>
callVars   == <<md_cur, target>>
vars == <<descVars, monVars, mgr_lock, pc, callVars, closeVars, downVars>>

PCs == {"none", "user", "attach_store", "attach", "connect", "replace",
        "send", "ioctl_close", "closed", "deactive", "disconnect", "last_close", "gone"}
ClosePCs == {"idle", "dec", "close_", "unlink"}
DownPCs  == {"idle", "entry", "eof_lock", "eof", "dec", "store"}
Memory   == {"unused", "live", "freed"}

Init ==
    /\ desc = [h \in Handles |-> "unused"]
    /\ ref_count = [h \in Handles |-> 0]
    /\ active = [h \in Handles |-> FALSE]
    /\ monitor = [h \in Handles |-> None]
    /\ mon = [o \in Owners |-> "unused"]
    /\ refcount = [o \in Owners |-> 0]
    /\ listed = {}
    /\ connected_modules = [o \in Owners |-> [md \in Modules |-> None]]
    /\ lock = [o \in Owners |-> None]
    /\ mgr_lock = None
    /\ pc = [t \in Handles |-> "none"]
    /\ md_cur = [t \in Handles |-> None]
    /\ target = [t \in Handles |-> None]
    /\ closing = [t \in Handles |-> None]
    /\ close_pc = [t \in Handles |-> "idle"]
    /\ below = [t \in Handles |-> None]
    /\ down = [t \in Handles |-> None]
    /\ down_pc = [t \in Handles |-> "idle"]
    /\ loaded = [t \in Handles |-> 0]

-----------------------------------------------------------------------------
(* Helpers.                                                                *)

\* No nested call of co_manager_close or co_monitor_refdown is in progress.
Returned(t) == close_pc[t] = "idle" /\ down_pc[t] = "idle"

\* Thread t is at point p of a system call and nothing below it is running.
At(t, p) == pc[t] = p /\ Returned(t)

Goto(t, p) == pc' = [pc EXCEPT ![t] = p]

Acquire(m, t) == lock[m] = None /\ lock' = [lock EXCEPT ![m] = t]

Release(m) == lock' = [lock EXCEPT ![m] = None]

\* co_manager_close(X) is called by t.
CallClose(t, X) ==
    /\ closing' = [closing EXCEPT ![t] = X]
    /\ close_pc' = [close_pc EXCEPT ![t] = "dec"]

\* co_monitor_refdown(m) is called by t.
CallRefdown(t, m) ==
    /\ down' = [down EXCEPT ![t] = m]
    /\ down_pc' = [down_pc EXCEPT ![t] = "entry"]

\* Mutant of ByOwner: CO_MONITOR_IOCTL_CLOSE passes PFALSE.
ByOwner_OnlyAtClose(t) == below[t] # None /\ below[t] \in Owners

\* The argument monitor_owner of a refdown that t executes: the flag of the
\* descriptor being closed, or of t's own descriptor in CO_MONITOR_IOCTL_CLOSE.
ByOwner(t) == IF below[t] # None THEN below[t] \in Owners ELSE t \in Owners

\* The slots of monitor m that descriptor X occupies.
SlotsOf(m, X) == {md \in Modules : connected_modules[m][md] = X}

-----------------------------------------------------------------------------
(* System calls on a handle.                                               *)

\* co_manager_open
Open(t) ==
    /\ At(t, "none")
    /\ mgr_lock = None
    /\ desc' = [desc EXCEPT ![t] = "live"]
    /\ ref_count' = [ref_count EXCEPT ![t] = 1]
    /\ active' = [active EXCEPT ![t] = TRUE]
    /\ Goto(t, "user")
    /\ UNCHANGED <<monitor, monVars, mgr_lock, callVars, closeVars, downVars>>

\* CO_MANAGER_IOCTL_CREATE: co_monitor_create publishes the monitor with one
\* reference, the owner's.  A daemon process creates one monitor.
Create(t) ==
    /\ At(t, "user")
    /\ t \in Owners
    /\ monitor[t] = None
    /\ mon[t] = "unused"
    /\ mgr_lock = None
    /\ mon' = [mon EXCEPT ![t] = "live"]
    /\ refcount' = [refcount EXCEPT ![t] = 1]
    /\ listed' = listed \cup {t}
    /\ monitor' = [monitor EXCEPT ![t] = t]
    /\ UNCHANGED <<desc, ref_count, active, connected_modules, lock, mgr_lock,
                   pc, callVars, closeVars, downVars>>

\* CO_MANAGER_IOCTL_ATTACH, the part under manager->lock: find the monitor in
\* the list and count the reference.  A daemon attaches a handle only once.
Attach(t, m) ==
    /\ AtomicCount
    /\ At(t, "user")
    /\ t \in Daemons
    /\ monitor[t] = None
    /\ mgr_lock = None
    /\ m \in listed
    /\ refcount' = [refcount EXCEPT ![m] = @ + 1]
    /\ monitor' = [monitor EXCEPT ![t] = m]
    /\ Goto(t, "attach")
    /\ UNCHANGED <<desc, ref_count, active, mon, listed, connected_modules, lock,
                   mgr_lock, callVars, closeVars, downVars>>

\* The same with the increment compiled to a load and a store: manager->lock
\* is held in between, but the decrement of a refdown does not take it.
AttachLoad(t, m) ==
    /\ ~AtomicCount
    /\ At(t, "user")
    /\ t \in Daemons
    /\ monitor[t] = None
    /\ mgr_lock = None
    /\ m \in listed
    /\ mgr_lock' = t
    /\ loaded' = [loaded EXCEPT ![t] = refcount[m]]
    /\ monitor' = [monitor EXCEPT ![t] = m]
    /\ Goto(t, "attach_store")
    /\ UNCHANGED <<desc, ref_count, active, monVars, callVars, closeVars,
                   down, down_pc, below>>

AttachStore(t) ==
    /\ At(t, "attach_store")
    /\ refcount' = [refcount EXCEPT ![monitor[t]] = loaded[t] + 1]
    /\ loaded' = [loaded EXCEPT ![t] = 0]
    /\ mgr_lock' = None
    /\ Goto(t, "attach")
    /\ UNCHANGED <<descVars, mon, listed, connected_modules, lock, callVars,
                   closeVars, down, down_pc, below>>

\* ATTACH goes on under connected_modules_write_lock.
AttachLock(t) ==
    /\ At(t, "attach")
    /\ Acquire(monitor[t], t)
    /\ Goto(t, "connect")
    /\ UNCHANGED <<descVars, mon, refcount, listed, connected_modules, mgr_lock,
                   callVars, closeVars, downVars>>

\* An empty slot is taken, with one reference to the descriptor.
Connect(t, md) ==
    /\ At(t, "connect")
    /\ md \in Claims[t]
    /\ connected_modules[monitor[t]][md] = None
    /\ connected_modules' = [connected_modules EXCEPT ![monitor[t]][md] = t]
    /\ ref_count' = [ref_count EXCEPT ![t] = @ + 1]
    /\ UNCHANGED <<desc, active, monitor, mon, refcount, listed, lock, mgr_lock,
                   pc, callVars, closeVars, downVars>>

\* The old occupant of a slot is closed first, and then overwritten.
ReplaceClose(t, md) ==
    /\ At(t, "connect")
    /\ md \in Claims[t]
    /\ connected_modules[monitor[t]][md] \notin {None, t}
    /\ CallClose(t, connected_modules[monitor[t]][md])
    /\ md_cur' = [md_cur EXCEPT ![t] = md]
    /\ Goto(t, "replace")
    /\ UNCHANGED <<descVars, monVars, mgr_lock, target, downVars>>

Replace(t) ==
    /\ At(t, "replace")
    /\ connected_modules' =
         [connected_modules EXCEPT ![monitor[t]][md_cur[t]] = t]
    /\ ref_count' = [ref_count EXCEPT ![t] = @ + 1]
    /\ md_cur' = [md_cur EXCEPT ![t] = None]
    /\ Goto(t, "connect")
    /\ UNCHANGED <<desc, active, monitor, mon, refcount, listed, lock, mgr_lock,
                   target, closeVars, downVars>>

AttachUnlock(t) ==
    /\ At(t, "connect")
    /\ SlotsOf(monitor[t], t) = Claims[t]
    /\ Release(monitor[t])
    /\ Goto(t, "user")
    /\ UNCHANGED <<descVars, mon, refcount, listed, connected_modules, mgr_lock,
                   callVars, closeVars, downVars>>

\* incoming_message: the occupant of the slot is looked up and referenced under
\* connected_modules_write_lock.  The owner gets here from CO_MONITOR_IOCTL_RUN
\* (a message of the guest), a daemon from CO_MONITOR_IOCTL_GET_CONSOLE.
IncomingMessage(t, md) ==
    /\ At(t, "user")
    /\ monitor[t] # None
    /\ t \in Owners \/ md = Console
    /\ lock[monitor[t]] = None
    /\ LET X == connected_modules[monitor[t]][md] IN
         /\ X # None
         /\ ref_count[X] # 0                       \* co_manager_open_ref
         /\ ref_count' = [ref_count EXCEPT ![X] = @ + 1]
         /\ target' = [target EXCEPT ![t] = X]
    /\ Goto(t, "send")
    /\ UNCHANGED <<desc, active, monitor, monVars, mgr_lock, md_cur, closeVars,
                   downVars>>

\* co_manager_send returned: the reference is dropped.
SendDone(t) ==
    /\ At(t, "send")
    /\ CallClose(t, target[t])
    /\ target' = [target EXCEPT ![t] = None]
    /\ Goto(t, "user")
    /\ UNCHANGED <<descVars, monVars, mgr_lock, md_cur, downVars>>

\* CO_MONITOR_IOCTL_CLOSE: opened->monitor is cleared after the refdown.  The
\* next call of a process that issues it is to close the handle
\* (co_user_monitor_close).
IoctlClose(t) ==
    /\ At(t, "user")
    /\ monitor[t] # None
    /\ CallRefdown(t, monitor[t])
    /\ Goto(t, "ioctl_close")
    /\ UNCHANGED <<descVars, monVars, mgr_lock, callVars, closeVars, loaded, below>>

IoctlCloseDone(t) ==
    /\ At(t, "ioctl_close")
    /\ monitor' = [monitor EXCEPT ![t] = None]
    /\ Goto(t, "closed")
    /\ UNCHANGED <<desc, ref_count, active, monVars, mgr_lock, callVars, closeVars,
                   downVars>>

\* Mutant of CloseHandle: active stays set.
CloseHandle_StayActive(t) ==
    /\ At(t, "user") \/ At(t, "closed")
    /\ Goto(t, IF monitor[t] # None THEN "deactive" ELSE "last_close")
    /\ UNCHANGED <<descVars, monVars, mgr_lock, callVars, closeVars, downVars>>

\* co_manager_open_desc_deactive_and_close: the handle is closed, by the
\* process or by its end.
CloseHandle(t) ==
    /\ At(t, "user") \/ At(t, "closed")
    /\ active' = [active EXCEPT ![t] = FALSE]
    /\ Goto(t, IF monitor[t] # None THEN "deactive" ELSE "last_close")
    /\ UNCHANGED <<desc, ref_count, monitor, monVars, mgr_lock, callVars,
                   closeVars, downVars>>

DisconnectLock(t) ==
    /\ At(t, "deactive")
    /\ Acquire(monitor[t], t)
    /\ Goto(t, "disconnect")
    /\ UNCHANGED <<descVars, mon, refcount, listed, connected_modules, mgr_lock,
                   callVars, closeVars, downVars>>

\* Mutant of Disconnect: the reference of the slot is not dropped.
Disconnect_NoClose(t, md) ==
    /\ At(t, "disconnect")
    /\ connected_modules[monitor[t]][md] = t
    /\ connected_modules' = [connected_modules EXCEPT ![monitor[t]][md] = None]
    /\ UNCHANGED <<descVars, mon, refcount, listed, lock, mgr_lock, pc, callVars,
                   closeVars, downVars>>

Disconnect(t, md) ==
    /\ At(t, "disconnect")
    /\ connected_modules[monitor[t]][md] = t
    /\ connected_modules' = [connected_modules EXCEPT ![monitor[t]][md] = None]
    /\ CallClose(t, t)
    /\ UNCHANGED <<descVars, mon, refcount, listed, lock, mgr_lock, pc, callVars,
                   downVars>>

DisconnectUnlock(t) ==
    /\ At(t, "disconnect")
    /\ SlotsOf(monitor[t], t) = {}
    /\ Release(monitor[t])
    /\ Goto(t, "last_close")
    /\ UNCHANGED <<descVars, mon, refcount, listed, connected_modules, mgr_lock,
                   callVars, closeVars, downVars>>

\* Mutant of LastClose: the handle is closed again, as if both the cleanup and the
\* close of a file closed it.
LastClose_Again(t) ==
    /\ At(t, "last_close")
    /\ CallClose(t, t)
    /\ Goto(t, "closed")
    /\ UNCHANGED <<descVars, monVars, mgr_lock, callVars, downVars>>

LastClose(t) ==
    /\ At(t, "last_close")
    /\ CallClose(t, t)
    /\ Goto(t, "gone")
    /\ UNCHANGED <<descVars, monVars, mgr_lock, callVars, downVars>>

-----------------------------------------------------------------------------
(* co_manager_close and co_manager_close_ on the descriptor closing[t].    *)

CloseReturn(t) ==
    /\ closing' = [closing EXCEPT ![t] = None]
    /\ close_pc' = [close_pc EXCEPT ![t] = "idle"]

\* Drop one reference; the last one goes on to co_manager_close_.
CloseDec(t) ==
    /\ close_pc[t] = "dec"
    /\ ref_count' = [ref_count EXCEPT ![closing[t]] = @ - 1]
    /\ IF ref_count'[closing[t]] = 0
         THEN /\ close_pc' = [close_pc EXCEPT ![t] = "close_"]
              /\ UNCHANGED closing
         ELSE CloseReturn(t)
    /\ UNCHANGED <<desc, active, monitor, monVars, mgr_lock, pc, callVars, downVars>>

\* The descriptor's own reference to a monitor is dropped: the close waits in
\* below[t] for the refdown.  A thread that is already inside a refdown never
\* gets here with a monitor (NoNestedRefdown).
CloseRefdown(t) ==
    /\ close_pc[t] = "close_"
    /\ monitor[closing[t]] # None
    /\ down_pc[t] = "idle"
    /\ monitor' = [monitor EXCEPT ![closing[t]] = None]
    /\ CallRefdown(t, monitor[closing[t]])
    /\ below' = [below EXCEPT ![t] = closing[t]]
    /\ CloseReturn(t)
    /\ UNCHANGED <<desc, ref_count, active, monVars, mgr_lock, pc, callVars, loaded>>

\* Mutant of CloseNoMonitor: the refdown is skipped for a descriptor with a monitor.
CloseNoMonitor_Any(t) ==
    /\ close_pc[t] = "close_"
    /\ close_pc' = [close_pc EXCEPT ![t] = "unlink"]
    /\ UNCHANGED <<descVars, monVars, mgr_lock, pc, callVars, closing, downVars>>

CloseNoMonitor(t) ==
    /\ close_pc[t] = "close_"
    /\ monitor[closing[t]] = None
    /\ close_pc' = [close_pc EXCEPT ![t] = "unlink"]
    /\ UNCHANGED <<descVars, monVars, mgr_lock, pc, callVars, closing, downVars>>

\* The descriptor leaves manager->opens and its memory is given back.
CloseFree(t) ==
    /\ close_pc[t] = "unlink"
    /\ mgr_lock = None
    /\ desc' = [desc EXCEPT ![closing[t]] = "freed"]
    /\ CloseReturn(t)
    /\ UNCHANGED <<ref_count, active, monitor, monVars, mgr_lock, pc, callVars,
                   downVars>>

-----------------------------------------------------------------------------
(* co_monitor_refdown on the monitor down[t].                              *)

\* The caller goes on: CO_MONITOR_IOCTL_CLOSE, or the close below.
DownReturn(t) ==
    /\ down' = [down EXCEPT ![t] = None]
    /\ down_pc' = [down_pc EXCEPT ![t] = "idle"]
    /\ below' = [below EXCEPT ![t] = None]
    /\ IF below[t] # None
         THEN /\ closing' = [closing EXCEPT ![t] = below[t]]
              /\ close_pc' = [close_pc EXCEPT ![t] = "unlink"]
         ELSE UNCHANGED closeVars

\* The owner takes the monitor off manager->monitors: no one finds it again.
DownUnlist(t) ==
    /\ down_pc[t] = "entry"
    /\ refcount[down[t]] > 0
    /\ mgr_lock = None
    /\ listed' = IF ByOwner(t) THEN listed \ {down[t]} ELSE listed
    /\ down_pc' = [down_pc EXCEPT ![t] = IF ByOwner(t) THEN "eof_lock" ELSE "dec"]
    /\ UNCHANGED <<descVars, mon, refcount, connected_modules, lock, mgr_lock, pc,
                   callVars, closeVars, down, loaded, below>>

\* if (!(cmon->refcount > 0)) return CO_RC(ERROR)
DownRefused(t) ==
    /\ down_pc[t] = "entry"
    /\ refcount[down[t]] <= 0
    /\ DownReturn(t)
    /\ UNCHANGED <<descVars, monVars, mgr_lock, pc, callVars, loaded>>

\* send_monitor_end_messages: every occupant is told, released and closed.
EofLock(t) ==
    /\ down_pc[t] = "eof_lock"
    /\ Acquire(down[t], t)
    /\ down_pc' = [down_pc EXCEPT ![t] = "eof"]
    /\ UNCHANGED <<descVars, mon, refcount, listed, connected_modules, mgr_lock, pc,
                   callVars, closeVars, down, loaded, below>>

\* Mutant of Eof: an empty slot is not skipped.
Eof_NoCheck(t, md) ==
    /\ down_pc[t] = "eof"
    /\ close_pc[t] = "idle"
    /\ LET X == connected_modules[down[t]][md] IN
         /\ active' = [active EXCEPT ![X] = FALSE]
         /\ CallClose(t, X)
    /\ connected_modules' = [connected_modules EXCEPT ![down[t]][md] = None]
    /\ UNCHANGED <<desc, ref_count, monitor, mon, refcount, listed, lock, mgr_lock,
                   pc, callVars, downVars>>

Eof(t, md) ==
    /\ down_pc[t] = "eof"
    /\ close_pc[t] = "idle"
    /\ LET X == connected_modules[down[t]][md] IN
         /\ X # None
         /\ active' = [active EXCEPT ![X] = FALSE]          \* co_manager_send_eof
         /\ CallClose(t, X)
    /\ connected_modules' = [connected_modules EXCEPT ![down[t]][md] = None]
    /\ UNCHANGED <<desc, ref_count, monitor, mon, refcount, listed, lock, mgr_lock,
                   pc, callVars, downVars>>

EofUnlock(t) ==
    /\ down_pc[t] = "eof"
    /\ close_pc[t] = "idle"
    /\ SlotsOf(down[t], None) = Modules
    /\ Release(down[t])
    /\ down_pc' = [down_pc EXCEPT ![t] = "dec"]
    /\ UNCHANGED <<descVars, mon, refcount, listed, connected_modules, mgr_lock, pc,
                   callVars, closeVars, down, loaded, below>>

\* The count is stored, and co_monitor_destroy gives the monitor back at zero.
StoreCount(t, count) ==
    /\ refcount' = [refcount EXCEPT ![down[t]] = count]
    /\ mon' = IF count = 0 THEN [mon EXCEPT ![down[t]] = "freed"] ELSE mon
    /\ DownReturn(t)
    /\ UNCHANGED <<descVars, listed, connected_modules, lock, mgr_lock, pc, callVars>>

\* if (--cmon->refcount == 0): no lock is held.
DownDec(t) ==
    /\ AtomicCount
    /\ down_pc[t] = "dec"
    /\ StoreCount(t, refcount[down[t]] - 1)
    /\ UNCHANGED loaded

DownLoad(t) ==
    /\ ~AtomicCount
    /\ down_pc[t] = "dec"
    /\ loaded' = [loaded EXCEPT ![t] = refcount[down[t]]]
    /\ down_pc' = [down_pc EXCEPT ![t] = "store"]
    /\ UNCHANGED <<descVars, monVars, mgr_lock, pc, callVars, closeVars, down, below>>

DownStore(t) ==
    /\ down_pc[t] = "store"
    /\ StoreCount(t, loaded[t] - 1)
    /\ loaded' = [loaded EXCEPT ![t] = 0]

-----------------------------------------------------------------------------
\* The steps of a system call in progress.
SysCall(t) ==
    \/ AttachStore(t)
    \/ AttachLock(t)
    \/ \E md \in Modules : Connect(t, md)
    \/ \E md \in Modules : ReplaceClose(t, md)
    \/ Replace(t)
    \/ AttachUnlock(t)
    \/ SendDone(t)
    \/ IoctlCloseDone(t)
    \/ DisconnectLock(t)
    \/ \E md \in Modules : Disconnect(t, md)
    \/ DisconnectUnlock(t)
    \/ LastClose(t)
    \/ CloseDec(t)
    \/ CloseRefdown(t)
    \/ CloseNoMonitor(t)
    \/ CloseFree(t)
    \/ DownUnlist(t)
    \/ DownRefused(t)
    \/ EofLock(t)
    \/ \E md \in Modules : Eof(t, md)
    \/ EofUnlock(t)
    \/ DownDec(t)
    \/ DownLoad(t)
    \/ DownStore(t)

\* The choices of the processes that own the handles.
User(t) ==
    \/ Open(t)
    \/ Create(t)
    \/ \E m \in Owners : Attach(t, m)
    \/ \E m \in Owners : AttachLoad(t, m)
    \/ \E md \in Modules : IncomingMessage(t, md)
    \/ IoctlClose(t)
    \/ CloseHandle(t)

Finished == \A t \in Handles : At(t, "gone")

\* All handles are closed: the system may stop.
Stop == Finished /\ UNCHANGED vars

Next ==
    \/ \E t \in Handles : User(t)
    \/ \E t \in Handles : SysCall(t)
    \/ Stop

Spec == Init /\ [][Next]_vars

\* A system call in progress goes on.
CallsProgress == \A t \in Handles : WF_vars(SysCall(t))

\* A process that reads the end of its monitor closes its handle: ~active makes
\* read fail, and the daemons leave their loop on BROKEN_PIPE.
ExitOnEof(t) == ~active[t] /\ CloseHandle(t)

\* co_user_monitor_close goes on from the ioctl to the close of the handle.
CloseAfterIoctl(t) == pc[t] = "closed" /\ CloseHandle(t)

FairSpec == Spec /\ CallsProgress

\* Every process that opened a handle ends, sooner or later.
EveryProcessEnds == \A t \in Handles : SF_vars(CloseHandle(t))

\* Only the owners, and the processes that read an end, are sure to end.
OwnersEnd ==
    /\ \A t \in Handles : SF_vars(ExitOnEof(t)) /\ WF_vars(CloseAfterIoctl(t))
    /\ \A t \in Owners : SF_vars(CloseHandle(t))

-----------------------------------------------------------------------------
(* What a count stands for.                                                *)

\* The references to descriptor X: its file handle,
HandleOpen(X) == pc[X] \notin {"none", "gone"}

\* the messages on their way to it,
Senders(X) == {t \in Handles : target[t] = X}

\* the calls of co_manager_close about to drop one,
Releasers(X) == {t \in Handles : closing[t] = X /\ close_pc[t] = "dec"}

\* and the slots that point to it, except one that ATTACH is handing over: its
\* old occupant is already being closed.
HandedOver(s) ==
    \E t \in Handles : pc[t] = "replace" /\ monitor[t] = s[1] /\ md_cur[t] = s[2]

Slots(X) ==
    {s \in Owners \X Modules : connected_modules[s[1]][s[2]] = X /\ ~HandedOver(s)}

Opens(X) == IF HandleOpen(X) THEN 1 ELSE 0

References(X) ==
    Opens(X) + Cardinality(Senders(X)) + Cardinality(Releasers(X)) + Cardinality(Slots(X))

Referenced(X) ==
    HandleOpen(X) \/ Senders(X) # {} \/ Releasers(X) # {} \/ Slots(X) # {}

\* The threads that dropped the last reference to X and are closing it.
Closers(X) ==
    {t \in Handles : \/ closing[t] = X /\ close_pc[t] \in {"close_", "unlink"}
                     \/ below[t] = X}

\* The references to monitor m: the descriptors attached to it, except while
\* ATTACH is incrementing the count and when CO_MONITOR_IOCTL_CLOSE has begun,
Attached(m) ==
    {h \in Handles : monitor[h] = m /\ pc[h] \notin {"attach_store", "ioctl_close"}}

\* and the refdowns about to drop one.
Refdowns(m) == {t \in Handles : down[t] = m}

-----------------------------------------------------------------------------
(* Properties.                                                             *)

Types ==
    /\ desc \in [Handles -> Memory]
    /\ ref_count \in [Handles -> Int]
    /\ active \in [Handles -> BOOLEAN]
    /\ monitor \in [Handles -> Owners \cup {None}]
    /\ mon \in [Owners -> Memory]
    /\ refcount \in [Owners -> Int]
    /\ listed \subseteq Owners
    /\ connected_modules \in [Owners -> [Modules -> Daemons \cup {None}]]
    /\ lock \in [Owners -> Handles \cup {None}]
    /\ mgr_lock \in Handles \cup {None}
    /\ pc \in [Handles -> PCs]
    /\ md_cur \in [Handles -> Modules \cup {None}]
    /\ target \in [Handles -> Daemons \cup {None}]
    /\ closing \in [Handles -> Handles \cup {None}]
    /\ close_pc \in [Handles -> ClosePCs]
    /\ below \in [Handles -> Handles \cup {None}]
    /\ down \in [Handles -> Owners \cup {None}]
    /\ down_pc \in [Handles -> DownPCs]
    /\ loaded \in [Handles -> Int]

MonitorInUse == {"attach_store", "attach", "connect", "replace", "send",
                 "ioctl_close", "deactive", "disconnect"}

NonNull ==
    \A t \in Handles :
        /\ pc[t] \in MonitorInUse => monitor[t] # None
        /\ pc[t] = "send" <=> target[t] # None
        /\ pc[t] = "replace" <=> md_cur[t] # None
        /\ close_pc[t] # "idle" <=> closing[t] # None
        /\ down_pc[t] # "idle" <=> down[t] # None

\* The variables are in their domains, and at each point of the code exactly the
\* pointers it is about to follow are not NULL: no other thread clears a pointer
\* (opened->monitor in co_manager_close_) under a call that uses it.
TypeOK == Types /\ NonNull

\* The count of a descriptor is the number of references to it, whatever the
\* attaches, replacements, messages, ends and closes that are in progress.
RefCountExact == \A X \in Handles : ref_count[X] = References(X)

\* No reference, and no close in progress, is to a descriptor whose memory was
\* given back; and at most one thread closes it for good.
NoDanglingDescriptor ==
    \A X \in Handles :
        /\ Referenced(X) \/ Closers(X) # {} => desc[X] = "live"
        /\ \A t, u \in Closers(X) : t = u

\* The count of a monitor is the number of handles and calls that hold it
\* ("The reference count is incremented/decremented on every open/close").
MonitorCountExact ==
    \A m \in Owners :
        refcount[m] = Cardinality(Attached(m)) + Cardinality(Refdowns(m))

\* No handle and no call uses a monitor that was destroyed, and the list of
\* monitors, which holds no reference of its own, never leads to one.
NoDanglingMonitor ==
    \A m \in Owners :
        Attached(m) # {} \/ Refdowns(m) # {} \/ m \in listed => mon[m] = "live"

\* The lifetime of a monitor is its count, and its count is its users.
MonitorSafe == MonitorCountExact /\ NoDanglingMonitor

\* The close of a last reference that drops a monitor never runs inside another
\* refdown, nor under connected_modules_write_lock, which that refdown may take.
NoNestedRefdown ==
    \A t \in Handles :
        close_pc[t] = "close_" /\ monitor[closing[t]] # None =>
            down_pc[t] = "idle" /\ \A m \in Owners : lock[m] # t

\* A descriptor is closed for good once, with no reference to it left, and not under the
\* lock that the close may take (co_manager_close, co_monitor_refdown).
ClosesSafe == NoDanglingDescriptor /\ NoNestedRefdown

\* A slot only loses its occupant to a daemon that claims it, or when the
\* occupant can read that it is disconnected: no connection ends silently.
NoSilentDisconnect ==
    [][\A m \in Owners, md \in Modules :
         LET old == connected_modules[m][md]
             new == connected_modules'[m][md]
         IN  old \notin {None, new} =>
                \/ ~active'[old]
                \/ new \in Daemons /\ md \in Claims[new] /\ active'[new]]_vars

\* The descriptor of a closed handle is given back, unless a slot of a destroyed
\* monitor still holds it.
Orphaned(X) == \E m \in Owners : mon[m] = "freed" /\ SlotsOf(m, X) # {}

\* When every process ends, every monitor is destroyed and every descriptor given
\* back: no count stays too high and no thread waits forever for a lock.
Reclaimed ==
    EveryProcessEnds =>
        /\ \A m \in Owners : mon[m] = "live" ~> mon[m] = "freed"
        /\ \A X \in Handles : pc[X] = "gone" ~> (desc[X] = "freed" \/ Orphaned(X))

\* A connection made while the monitor was listed is cut when its owner ends, even
\* if no other process ends by itself.
ConnectionsEnd ==
    OwnersEnd =>
        \A m \in Owners, md \in Modules, d \in Daemons :
            m \in listed /\ connected_modules[m][md] = d
                ~> connected_modules[m][md] # d

\* What a process holds goes when it ends, and what others hold of it is cut.
HandlesEnd == Reclaimed /\ ConnectionsEnd
=============================================================================
