--------------------------- MODULE DebugSections ---------------------------
(***************************************************************************)
(* The debug log of the driver (kernel/debug.c): writers append records to *)
(* sections, and one reader, colinux-debug-daemon, empties all of them     *)
(* when it is woken.  Threads in the driver share one section,             *)
(* debug->section; a process that logs has one with its handle.            *)
(*                                                                         *)
(* A section is made by the first writer that needs it and is named by it. *)
(* Its mutex is never held from one step to the next; debug->mutex is held *)
(* by the reader while it goes through the list.  A writer that makes a    *)
(* section puts it on the list before it takes a reference: if preempt,    *)
(* other threads come between.  To use a section that was freed is         *)
(* undefined, and the system stops there (crashed).                        *)
(*                                                                         *)
(* resize_section never changes a buffer (its test of the two sizes is the *)
(* wrong way round), so that a section has room for Capacity records.  What *)
(* fold does to the buffer, sections_count, sections_total_size and a call *)
(* that finds no memory are left out.                                      *)
(***************************************************************************)
EXTENDS Integers, Sequences, FiniteSets, SequencesExt

CONSTANTS
    Threads,     \* threads in the driver
    Processes,   \* processes that log through a handle
    driver,      \* the owner of debug->section
    MaxRecords,  \* bound: the records of each writer
    Capacity,    \* CO_DEBUG_SECTION_BUFFER_START_SIZE, in records
    MaxFill,     \* CO_DEBUG_MAX_FILL, in records
    UserSizes,   \* the buffer of the reader, in records
    None

Writers == Threads \cup Processes

ASSUME DebugAssumption ==
    /\ IsFiniteSet(Writers)
    /\ Threads \cap Processes = {}
    /\ driver \notin Processes
    /\ None \notin Writers
    /\ {Capacity, MaxFill} \cup UserSizes \subseteq Nat
    /\ MaxRecords \in [Writers -> Nat]

Records == UNION {{w} \X (1..MaxRecords[w]) : w \in Writers}

\* Whose section a writer writes to.
Owner(w) == IF w \in Processes THEN w ELSE driver

VARIABLES
    \* sections
    mem,          \* memory: not allocated, allocated, given back
    buffer,
    refcount,
    folded,
    sections,     \* the list
    section,      \* the pointers: debug->section, opened->debug_section
    total_filled, \* debug->sections_total_filled
    unloaded,     \* co_debug_free was called
    \* writers
    wpc,
    using,        \* the section a writer works on
    records,      \* records begun
    \* the reader
    rpc,
    todo,         \* sections still to visit
    room,         \* left in the buffer of the reader
    event,        \* debug->read_wait
    log,          \* the records it received
    \* the build and the host
    user_size,    \* the size the reader asks for
    remembers,    \* a wakeup of nobody is remembered (Windows), or lost (Linux)
    preempt,      \* a writer may lose the processor before it takes its reference
    crashed

secVars == <<mem, buffer, refcount, folded, sections, section, total_filled, unloaded>>
writeVars == <<wpc, using, records>>
readVars == <<rpc, todo, room, log>>
envVars == <<user_size, remembers, preempt>>
vars == <<secVars, writeVars, readVars, event, envVars, crashed>>

WriterPCs == {"idle", "list", "get_new", "get", "lock_new", "lock", "wake", "gone"}
ReaderPCs == {"sleep", "scan", "visit", "gone"}

Init ==
    /\ mem = [i \in Writers |-> "unused"]
    /\ buffer = [i \in Writers |-> <<>>]
    /\ refcount = [i \in Writers |-> 0]
    /\ folded = [i \in Writers |-> FALSE]
    /\ sections = <<>>
    /\ section = [o \in Processes \cup {driver} |-> None]
    /\ total_filled = 0
    /\ unloaded = FALSE
    /\ wpc = [w \in Writers |-> "idle"]
    /\ using = [w \in Writers |-> None]
    /\ records = [w \in Writers |-> 0]
    /\ rpc = "sleep"
    /\ todo = <<>>
    /\ room = 0
    /\ event = FALSE
    /\ log = <<>>
    /\ user_size \in UserSizes
    /\ remembers \in BOOLEAN
    /\ preempt \in BOOLEAN
    /\ crashed = FALSE

Goto(w, p) == wpc' = [wpc EXCEPT ![w] = p]

\* debug->mutex is free.
Unlocked == rpc \notin {"scan", "visit"}

\* The first half of get_section: the count is changed before the mutex is taken.
Reference(i) ==
    /\ refcount' = [refcount EXCEPT ![i] = @ + 1]
    /\ crashed' = (mem[i] = "freed")

\* put_section, by a caller that leaves n references more than there are: the last one
\* frees the section, wherever it is.
Put(i, n) ==
    /\ refcount' = [refcount EXCEPT ![i] = @ + n]
    /\ mem' = IF refcount[i] + n = 0 THEN [mem EXCEPT ![i] = "freed"] ELSE mem

-----------------------------------------------------------------------------
(* co_debug_writev.                                                        *)

Full == total_filled > MaxFill

\* A record is dropped when there are too many.
Drop(w) ==
    /\ wpc[w] = "idle"
    /\ records[w] < MaxRecords[w]
    /\ Full
    /\ records' = [records EXCEPT ![w] = @ + 1]
    /\ UNCHANGED <<secVars, wpc, using, readVars, event, envVars, crashed>>

Begin(w) ==
    /\ wpc[w] = "idle"
    /\ records[w] < MaxRecords[w]
    /\ ~unloaded
    /\ ~Full
    /\ records' = [records EXCEPT ![w] = @ + 1]

\* There is a section to write to.
Find(w) ==
    /\ Begin(w)
    /\ section[Owner(w)] # None
    /\ using' = [using EXCEPT ![w] = section[Owner(w)]]
    /\ Goto(w, "get")
    /\ UNCHANGED <<secVars, readVars, event, envVars, crashed>>

\* create_section: the new section has no reference.
Create(w) ==
    /\ Begin(w)
    /\ section[Owner(w)] = None
    /\ mem[w] = "unused"
    /\ mem' = [mem EXCEPT ![w] = "live"]
    /\ using' = [using EXCEPT ![w] = w]
    /\ Goto(w, "list")
    /\ UNCHANGED <<buffer, refcount, folded, sections, section, total_filled, unloaded,
                   readVars, event, envVars, crashed>>

List(w) ==
    /\ wpc[w] = "list"
    /\ Unlocked
    /\ sections' = Append(sections, using[w])
    /\ Goto(w, "get_new")
    /\ UNCHANGED <<mem, buffer, refcount, folded, section, total_filled, unloaded, using,
                   records, readVars, event, envVars, crashed>>

Get(w) ==
    /\ wpc[w] \in {"get", "get_new"}
    /\ Reference(using[w])
    /\ Goto(w, IF wpc[w] = "get" THEN "lock" ELSE "lock_new")
    /\ UNCHANGED <<mem, buffer, folded, sections, section, total_filled, unloaded, using,
                   records, readVars, event, envVars>>

\* append_to_buffer: the record is added if there is room.
Added(w, i) ==
    IF Len(buffer[i]) < Capacity
      THEN /\ buffer' = [buffer EXCEPT ![i] = Append(@, <<w, records[w]>>)]
           /\ total_filled' = total_filled + 1
           /\ Goto(w, "wake")
      ELSE UNCHANGED <<buffer, total_filled>> /\ Goto(w, "idle")

\* Mutant of Write: the new section is not referenced by its pointer.
Write_NoReference(w) ==
    /\ wpc[w] \in {"lock", "lock_new"}
    /\ section' = IF wpc[w] = "lock_new" THEN [section EXCEPT ![Owner(w)] = using[w]]
                                         ELSE section
    /\ Added(w, using[w])
    /\ Put(using[w], -1)
    /\ using' = [using EXCEPT ![w] = None]
    /\ UNCHANGED <<folded, sections, unloaded, records, readVars, event, envVars, crashed>>

\* The section is locked, the record added, the section put.  A new section is
\* published now, with the reference of its pointer.
Write(w) ==
    /\ wpc[w] \in {"lock", "lock_new"}
    /\ section' = IF wpc[w] = "lock_new" THEN [section EXCEPT ![Owner(w)] = using[w]]
                  ELSE IF refcount[using[w]] = 1 THEN [section EXCEPT ![Owner(w)] = None]
                  ELSE section
    /\ Added(w, using[w])
    /\ Put(using[w], IF wpc[w] = "lock_new" THEN 0 ELSE -1)
    /\ using' = [using EXCEPT ![w] = None]
    /\ UNCHANGED <<folded, sections, unloaded, records, readVars, event, envVars, crashed>>

\* Mutant of Wake: the reader is not woken.
Wake_Silent(w) ==
    /\ wpc[w] = "wake"
    /\ Goto(w, "idle")
    /\ UNCHANGED <<secVars, using, records, readVars, event, envVars, crashed>>

Wake(w) ==
    /\ wpc[w] = "wake"
    /\ event' = (event \/ remembers \/ rpc = "sleep")
    /\ Goto(w, "idle")
    /\ UNCHANGED <<secVars, using, records, readVars, envVars, crashed>>

-----------------------------------------------------------------------------
(* co_debug_read.                                                          *)

\* A wakeup after the wait ended and before debug->mutex is taken changes nothing that
\* one after it does not: the two are one step.
ReadBegin ==
    /\ rpc = "sleep"
    /\ event
    /\ event' = FALSE
    /\ todo' = sections
    /\ room' = user_size
    /\ rpc' = "scan"
    /\ UNCHANGED <<secVars, writeVars, log, envVars, crashed>>

ReadGet ==
    /\ rpc = "scan"
    /\ todo # <<>>
    /\ Reference(Head(todo))
    /\ rpc' = "visit"
    /\ UNCHANGED <<mem, buffer, folded, sections, section, total_filled, unloaded,
                   writeVars, todo, room, log, event, envVars>>

Empties(i) ==
    /\ log' = log \o buffer[i]
    /\ room' = room - Len(buffer[i])
    /\ buffer' = [buffer EXCEPT ![i] = <<>>]
    /\ total_filled' = total_filled - Len(buffer[i])

\* co_list_del: a section is on the list once (ListedOnce in DebugSectionsProofs).
Unlinked(list, i) ==
    IF Contains(list, i) THEN RemoveAt(list, CHOOSE k \in 1 .. Len(list) : list[k] = i) ELSE list

\* A section is copied if it fits, and then leaves the list if it was folded.
ReadSection ==
    LET i == Head(todo)
        fits == Len(buffer[i]) <= room
    IN  /\ rpc = "visit"
        /\ IF fits THEN Empties(i) ELSE UNCHANGED <<log, room, buffer, total_filled>>
        /\ IF fits /\ folded[i]
             THEN /\ sections' = Unlinked(sections, i)
                  /\ folded' = [folded EXCEPT ![i] = FALSE]
                  /\ Put(i, -2)
             ELSE Put(i, -1) /\ UNCHANGED <<sections, folded>>
        /\ todo' = Tail(todo)
        /\ rpc' = "scan"
        /\ UNCHANGED <<section, unloaded, writeVars, event, envVars, crashed>>

ReadEnd ==
    /\ rpc = "scan"
    /\ todo = <<>>
    /\ rpc' = "sleep"
    /\ UNCHANGED <<secVars, writeVars, todo, room, log, event, envVars, crashed>>

\* The pass that an interrupted wait still makes, for a process that ends, is left out.
ReaderQuits ==
    /\ rpc = "sleep"
    /\ rpc' = "gone"
    /\ UNCHANGED <<secVars, writeVars, todo, room, log, event, envVars, crashed>>

-----------------------------------------------------------------------------
(* The end of a handle, and of the driver.                                 *)

\* co_manager_close_ and co_debug_fold: from now on the section is the reader's.
Close(p) ==
    /\ wpc[p] = "idle"
    /\ Goto(p, "gone")
    /\ IF section[p] = None
         THEN UNCHANGED <<section, folded>>
         ELSE /\ Unlocked
              /\ folded' = [folded EXCEPT ![section[p]] = TRUE]
              /\ section' = [section EXCEPT ![p] = None]
    /\ UNCHANGED <<mem, buffer, refcount, sections, total_filled, unloaded, using, records,
                   readVars, event, envVars, crashed>>

\* co_debug_free: the driver is unloaded when no handle is open.  debug->section is not
\* cleared, but debug->ready is.
Unload ==
    /\ ~unloaded
    /\ rpc = "gone"
    /\ \A p \in Processes : wpc[p] = "gone"
    /\ \A t \in Threads : wpc[t] = "idle"
    /\ unloaded' = TRUE
    /\ refcount' = [i \in Writers |-> refcount[i] - IF i \in ToSet(sections) THEN 1 ELSE 0]
    /\ mem' = [i \in Writers |-> IF i \in ToSet(sections) /\ refcount[i] = 1 THEN "freed"
                                                                          ELSE mem[i]]
    /\ sections' = <<>>
    /\ UNCHANGED <<buffer, folded, section, total_filled, writeVars, readVars, event,
                   envVars, crashed>>

-----------------------------------------------------------------------------
\* Its section is on the list and nothing refers to it yet.
Unreferenced(w) == wpc[w] = "get_new"

MayRun(w) == ~preempt => \A u \in Writers \ {w} : ~Unreferenced(u)

Writer(w) ==
    MayRun(w) /\ (Drop(w) \/ Find(w) \/ Create(w) \/ List(w) \/ Get(w) \/ Write(w) \/ Wake(w))

Reader ==
    /\ MayRun(None)
    /\ ReadBegin \/ ReadGet \/ ReadSection \/ ReadEnd

Stop == (crashed \/ unloaded) /\ UNCHANGED vars

Next ==
    \/ /\ ~crashed
       /\ \/ \E w \in Writers : Writer(w)
          \/ Reader
          \/ ReaderQuits
          \/ \E p \in Processes : Close(p)
          \/ Unload
    \/ Stop

Spec == Init /\ [][Next]_vars

\* Calls go on, and the reader that was woken runs; it need not stay.
FairSpec ==
    /\ Spec
    /\ \A w \in Writers : WF_vars(~crashed /\ wpc[w] # "idle" /\ Writer(w))
    /\ WF_vars(~crashed /\ Reader)

-----------------------------------------------------------------------------
(* What the log promises.                                                  *)

\* Writers, the reader, the sections and both totals are in their domains.
TypeOK ==
    /\ mem \in [Writers -> {"unused", "live", "freed"}]
    /\ buffer \in [Writers -> Seq(Records)]
    /\ refcount \in [Writers -> Nat]
    /\ folded \in [Writers -> BOOLEAN]
    /\ sections \in Seq(Writers)
    /\ section \in [Processes \cup {driver} -> Writers \cup {None}]
    /\ total_filled \in Nat
    /\ wpc \in [Writers -> WriterPCs]
    /\ using \in [Writers -> Writers \cup {None}]
    /\ records \in [Writers -> Nat]
    /\ rpc \in ReaderPCs
    /\ todo \in Seq(Writers)
    /\ room \in Nat
    /\ log \in Seq(Records)
    /\ user_size \in UserSizes
    /\ {unloaded, event, remembers, preempt, crashed} \subseteq BOOLEAN

Visited == IF rpc = "visit" THEN {Head(todo)} ELSE {}

\* The sections a pointer, the list, the reader or a writer leads to.
Reachable ==
    (ToSet(sections) \cup Range(section) \cup Range(using) \cup ToSet(todo)) \ {None}

\* No section is freed while anything leads to it, and none before its records were
\* read (put_section, debug.c:160).  The section that a writer listed and was preempted
\* before it referenced is the one exception: the reader frees it (debug.c:202).
SectionsLive ==
    /\ ~preempt => ~crashed
    /\ ~crashed /\ ~unloaded =>
         /\ \A i \in Reachable : mem[i] = "live" \/ (preempt /\ Unreferenced(i))
         /\ \A i \in Writers : mem[i] = "freed" => buffer[i] = <<>>

\* A section is referenced once by the pointer that published it, or by the list when it
\* was folded or its pointer overwritten; once by each writer in it; once by the reader
\* that visits it.  What has no reference is not in memory: nothing is left at unload.
RefCountExact ==
    ~crashed => \A i \in Writers :
        LET Inside == {w \in Writers : using[w] = i /\ wpc[w] \in {"lock", "lock_new"}}
            published == i \in ToSet(sections) /\ wpc[i] \notin {"get_new", "lock_new"}
        IN  /\ refcount[i] = Cardinality(Inside) + Cardinality({i} \cap Visited)
                               + IF published THEN 1 ELSE 0
            /\ mem[i] = "live" => refcount[i] > 0 \/ wpc[i] \in {"list", "get_new"}

\* What is held, by section and place.
Held == UNION {{i} \X DOMAIN buffer[i] : i \in Writers}

\* sections_total_filled, which decides if records are dropped, is the sum of what the
\* sections hold: neither a writer nor the reader forgets a part (debug.c:147, 294).
TotalExact == ~crashed /\ ~unloaded => total_filled = Cardinality(Held)

\* The sections, their counts and their total are exact together.
SectionsExact == SectionsLive /\ RefCountExact /\ TotalExact

\* The reader receives no record twice, and those of a handle in the order they were
\* written.  Threads in the driver have no such order: two that both find no section
\* make one each, and the second replaces the first (debug.c:194, 209).
LogOrdered ==
    \A i, j \in DOMAIN log : i < j =>
        /\ log[i] # log[j]
        /\ log[i][1] = log[j][1] /\ log[i][1] \in Processes => log[i][2] < log[j][2]

\* The sections hold what was written and the reader gets it.
LogExact == SectionsExact /\ LogOrdered

InBuffer(r) == \E i \in Writers : r \in ToSet(buffer[i])

\* A record that was accepted is read, if the reader stays, its buffer is large enough and
\* a wakeup that finds nobody is remembered (co_os_wait_wakeup, winnt).  On Linux the
\* record waits for the next one.
RecordsRead ==
    \A r \in Records :
        (InBuffer(r) /\ remembers /\ ~preempt /\ user_size >= Cardinality(Records))
            ~> (r \in ToSet(log) \/ rpc = "gone" \/ unloaded)
=============================================================================
