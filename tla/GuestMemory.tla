----------------------------- MODULE GuestMemory -----------------------------
(***************************************************************************)
(* The memory of the guests (kernel/pages.c, kernel/reversedpfns.c and the *)
(* parts of kernel/monitor.c that allocate and free it).                   *)
(*                                                                         *)
(* Of each VM: pp_pfns says which host page holds a frame of the guest or  *)
(* a table of its pages; the tables say what the guest sees at a frame; a  *)
(* map of all VMs says which frame a host page is.  The VMs run on         *)
(* processors of their own and share the host's pages and hostmem_used.    *)
(* A step is the work on one page, done under the allocator's mutex; the   *)
(* loops over pages are the record job.                                    *)
(***************************************************************************)
EXTENDS Integers, FiniteSets

CONSTANTS Vms,
          Pfns,              \* pages of the host
          High,              \* those at or above hostmem_pages
          Uncovered,         \* those that reversed_map_pfns has no entry for
          PTRS_PER_PTE,
          physical_frames,   \* frames of a VM
          reversed_page_count,
          hostmem_usage_limit,
          Zeroed,            \* TRUE: the host clears a page it gives (Linux)
          None

ASSUME GuestMemoryAssumption ==
    /\ IsFiniteSet(Pfns) /\ High \subseteq Pfns /\ Uncovered \subseteq Pfns
    /\ None \notin Pfns /\ None \notin Int
    /\ {PTRS_PER_PTE, physical_frames} \subseteq Nat \ {0}
    /\ {reversed_page_count, hostmem_usage_limit} \subseteq Nat
    /\ Zeroed \in BOOLEAN

VARIABLES
    owned,              \* pages the driver holds
    reversed_map_pfns,  \* those of the reversed map
    hostmem_used,
    pp_pfns,            \* host page of a frame or of a table
    pte,                \* host page the guest sees at a frame
    reversed,           \* frame that the reversed map has for a host page
    job

vars == <<owned, reversed_map_pfns, hostmem_used, pp_pfns, pte, reversed, job>>

Pool == INSTANCE PagePool

Frames == 0 .. physical_frames - 1
Tables == physical_frames .. physical_frames + (physical_frames - 1) \div PTRS_PER_PTE
Slots  == Frames \cup Tables

\* co_monitor_alloc_and_map_page and create_ptes: where the entry of a frame is
TableOf(f)  == physical_frames + f \div PTRS_PER_PTE
FramesOf(t) == {f \in Frames : TableOf(f) = t}

Ops   == {"none", "checked", "setup", "ready", "empty", "alloc", "load", "free", "drop"}
Goals == {"create", "reset", "failed", "destroy"}
Live(m) == job[m].op \notin {"none", "checked"}

\* The calls of the two monitors, their tables and the frames of the guests are in their domains.
TypeOK ==
    /\ owned \subseteq Pfns
    /\ reversed_map_pfns \subseteq Pfns
    /\ hostmem_used \in Int
    /\ pp_pfns \in [Vms -> [Slots -> Pfns \cup {None}]]
    /\ pte \in [Vms -> [Frames -> Pfns \cup {None}]]
    /\ reversed \in [Pfns -> Frames \cup {None}]
    /\ job \in [Vms -> [op : Ops, goal : Goals, first : Nat, at : Nat, last : Int]]

Idle(op) == [op |-> op, goal |-> "create", first |-> 0, at |-> 0, last |-> 0]

Init ==
    /\ owned = {}
    /\ reversed_map_pfns = {}
    /\ hostmem_used = 0
    /\ pp_pfns = [m \in Vms |-> [s \in Slots |-> None]]
    /\ pte = [m \in Vms |-> [f \in Frames |-> None]]
    /\ reversed = [p \in Pfns |-> None]
    /\ job = [m \in Vms |-> Idle("none")]

-----------------------------------------------------------------------------
(* The manager: the reversed map is made when the driver is loaded.         *)

AllocReversedPfns ==
    /\ reversed_map_pfns = {}
    /\ \E pages \in SUBSET (Pfns \ (High \cup owned)) :
        /\ Cardinality(pages) = reversed_page_count
        /\ owned' = owned \cup pages
        /\ reversed_map_pfns' = pages
    /\ UNCHANGED <<hostmem_used, pp_pfns, pte, reversed, job>>

FreeReversedPfns ==
    /\ reversed_map_pfns # {}
    /\ \A m \in Vms : job[m].op = "none"
    /\ owned' = owned \ reversed_map_pfns
    /\ reversed_map_pfns' = {}
    /\ UNCHANGED <<hostmem_used, pp_pfns, pte, reversed, job>>

-----------------------------------------------------------------------------
(* Pages.                                                                   *)

\* co_manager_get_page that fails; a page that is too high stays taken
GetPageFails == UNCHANGED owned \/ \E p \in High : Pool!Get(p)

\* co_manager_get_page that returns p
GetPage(p) == p \notin High /\ Pool!Get(p)

\* co_os_put_page; the reversed map of a page nobody holds is not read again
PutPage(p) ==
    /\ owned' = owned \ {p}
    /\ reversed' = [reversed EXCEPT ![p] = None]

\* The next page of a loop, or the end of it
Step(m, done) ==
    job' = IF job[m].at >= job[m].last THEN [job EXCEPT ![m] = done]
                                       ELSE [job EXCEPT ![m].at = @ + 1]

-----------------------------------------------------------------------------
(* A VM: co_monitor_create, co_monitor_user_reset, co_monitor_destroy.      *)

\* The tables of the RAM are allocated one by one (alloc_pp_ram_mapping).
SetUp(goal) == [op |-> "setup", goal |-> goal, first |-> physical_frames,
                at |-> physical_frames, last |-> TableOf(physical_frames - 1)]

\* free_pseudo_physical_memory visits every entry
Drop(goal) == [op |-> "drop", goal |-> goal, first |-> 0, at |-> 0,
               last |-> TableOf(physical_frames - 1)]

CheckLimit(m) ==
    /\ job[m].op = "none" /\ reversed_map_pfns # {}
    /\ hostmem_used + physical_frames <= hostmem_usage_limit
    /\ job' = [job EXCEPT ![m] = Idle("checked")]
    /\ UNCHANGED <<owned, reversed_map_pfns, hostmem_used, pp_pfns, pte, reversed>>

AddUsed(m) ==
    /\ job[m].op = "checked"
    /\ hostmem_used' = hostmem_used + physical_frames
    /\ job' = [job EXCEPT ![m] = SetUp("create")]
    /\ UNCHANGED <<owned, reversed_map_pfns, pp_pfns, pte, reversed>>

\* scan_pfns_split_callback for a table: what a table says that nobody wrote
\* is what its page held before, nothing when the host clears its pages
SetUpTable(m) ==
    /\ job[m].op = "setup"
    /\ \E p \in Pfns, old \in [FramesOf(job[m].at) -> IF Zeroed THEN {None} ELSE Pfns \cup {None}] :
        /\ GetPage(p)
        /\ pp_pfns' = [pp_pfns EXCEPT ![m][job[m].at] = p]
        /\ pte' = [pte EXCEPT ![m] = [f \in Frames |-> IF f \in DOMAIN old THEN old[f] ELSE @[f]]]
    /\ Step(m, Idle("ready"))
    /\ UNCHANGED <<reversed_map_pfns, hostmem_used, reversed>>

\* No page, or a later part of the creation or the reset fails
SetUpFails(m) ==
    /\ job[m].op = "setup"
    /\ GetPageFails
    /\ job' = [job EXCEPT ![m] = Drop(IF @.goal = "reset" THEN "failed" ELSE @.goal)]
    /\ UNCHANGED <<reversed_map_pfns, hostmem_used, pp_pfns, pte, reversed>>

Ends(m, goal) ==
    /\ job[m].op \in {"ready", "empty"}
    /\ job' = [job EXCEPT ![m] = Drop(goal)]
    /\ UNCHANGED <<owned, reversed_map_pfns, hostmem_used, pp_pfns, pte, reversed>>

\* One entry of free_pseudo_physical_memory; with a table goes what it says
DropPage(m) ==
    LET at == job[m].at
        p  == pp_pfns[m][at]
    IN /\ job[m].op = "drop"
       /\ IF p = None THEN UNCHANGED <<owned, reversed>> ELSE PutPage(p)
       /\ pp_pfns' = [pp_pfns EXCEPT ![m][at] = None]
       /\ pte' = [pte EXCEPT ![m] = [f \in Frames |-> IF TableOf(f) = at THEN None ELSE @[f]]]

\* What comes after the last entry: the tables of the next boot, a VM that can
\* only be destroyed, or the end of the VM
After(m) ==
    CASE job[m].goal = "reset" -> SetUp("reset")
      [] job[m].goal = "failed" -> Idle("empty")
      [] OTHER -> Idle("none")

Given(m) == IF job[m].at = job[m].last /\ After(m).op = "none" THEN physical_frames ELSE 0

DropStep(m) ==
    /\ DropPage(m)
    /\ Step(m, After(m))
    /\ hostmem_used' = hostmem_used - Given(m)
    /\ UNCHANGED reversed_map_pfns

-----------------------------------------------------------------------------
(* A running VM: the guest asks for frames and gives them back, the daemon  *)
(* loads the kernel and the initrd.                                         *)

Span(op, f, l) == [op |-> op, goal |-> "create", first |-> f, at |-> f, last |-> l]

\* CO_OPERATION_ALLOC_PAGES, CO_OPERATION_FREE_PAGES, CO_MONITOR_IOCTL_LOAD_SECTION, _LOAD_INITRD
Asks(m, op, f, l) ==
    /\ job[m].op = "ready" /\ f <= l
    /\ job' = [job EXCEPT ![m] = Span(op, f, l)]
    /\ UNCHANGED <<owned, reversed_map_pfns, hostmem_used, pp_pfns, pte, reversed>>

\* co_monitor_alloc_and_map_page: the frame has a page
PagePresent(m) ==
    /\ job[m].op \in {"alloc", "load"}
    /\ pp_pfns[m][job[m].at] # None
    /\ Step(m, Idle("ready"))
    /\ UNCHANGED <<owned, reversed_map_pfns, hostmem_used, pp_pfns, pte, reversed>>

\* ... a page is entered, found in the reversed map, and mapped
MapPage_NotReversed(m, p) ==
    LET at == job[m].at IN
    /\ GetPage(p) /\ p \notin Uncovered
    /\ pp_pfns' = [pp_pfns EXCEPT ![m][at] = p]
    /\ pte' = [pte EXCEPT ![m][at] = p]
    /\ UNCHANGED reversed
MapPage(m, p) ==
    LET at == job[m].at IN
    /\ GetPage(p) /\ p \notin Uncovered
    /\ pp_pfns' = [pp_pfns EXCEPT ![m][at] = p]
    /\ reversed' = [reversed EXCEPT ![p] = at]
    /\ pte' = [pte EXCEPT ![m][at] = p]

PageMapped(m) ==
    /\ job[m].op \in {"alloc", "load"}
    /\ pp_pfns[m][job[m].at] = None
    /\ \E p \in Pfns : MapPage(m, p)
    /\ Step(m, Idle("ready"))
    /\ UNCHANGED <<reversed_map_pfns, hostmem_used>>

\* co_alloc_pages frees the frames before the one that failed, those that had
\* their page before included; a load leaves what it did
RollBack(m) ==
    IF job[m].op = "alloc" /\ job[m].at > job[m].first
    THEN Span("free", job[m].first, job[m].at - 1)
    ELSE Idle("ready")

PageFails(m) ==
    /\ job[m].op \in {"alloc", "load"}
    /\ pp_pfns[m][job[m].at] = None
    /\ \/ GetPageFails /\ UNCHANGED pp_pfns
       \/ \E p \in Uncovered : GetPage(p) /\ pp_pfns' = [pp_pfns EXCEPT ![m][job[m].at] = p]
    /\ job' = [job EXCEPT ![m] = RollBack(m)]
    /\ UNCHANGED <<reversed_map_pfns, hostmem_used, pte, reversed>>

\* co_monitor_free_and_unmap_page
FreeFrame(m, f) ==
    LET p == pp_pfns[m][f] IN
    /\ pte' = [pte EXCEPT ![m][f] = None]
    /\ pp_pfns' = [pp_pfns EXCEPT ![m][f] = None]
    /\ IF p = None THEN UNCHANGED <<owned, reversed>> ELSE PutPage(p)

FreePage(m) ==
    /\ job[m].op = "free"
    /\ FreeFrame(m, job[m].at)
    /\ Step(m, Idle("ready"))
    /\ UNCHANGED <<reversed_map_pfns, hostmem_used>>

-----------------------------------------------------------------------------
Next ==
    \/ AllocReversedPfns \/ FreeReversedPfns
    \/ \E m \in Vms :
        \/ CheckLimit(m) \/ AddUsed(m) \/ SetUpTable(m) \/ SetUpFails(m)
        \/ \E goal \in {"reset", "destroy"} : Ends(m, goal)
        \/ DropStep(m)
        \/ \E op \in {"alloc", "load", "free"}, f, l \in Frames : Asks(m, op, f, l)
        \/ PagePresent(m) \/ PageMapped(m) \/ PageFails(m) \/ FreePage(m)

Spec == Init /\ [][Next]_vars

-----------------------------------------------------------------------------
Pages(m) == {pp_pfns[m][s] : s \in Slots} \ {None}

\* A host page is one entry of one VM, or of the reversed map, and every page
\* the driver holds is such an entry but those it got too high: nothing that
\* create, reset, roll-back and destroy do, at whatever page they fail, gives
\* a page to two holders, loses one, or puts back one that is still entered.
PagesHaveOneHolder ==
    /\ \A m, n \in Vms, s, t \in Slots :
        pp_pfns[m][s] # None /\ pp_pfns[m][s] = pp_pfns[n][t] => m = n /\ s = t
    /\ \A m \in Vms : Pages(m) \cap reversed_map_pfns = {}
PagesAccounted ==
    /\ PagesHaveOneHolder
    /\ owned \ High = reversed_map_pfns \cup UNION {Pages(m) : m \in Vms}

\* What the guest sees at a frame is the page that is entered for it, never
\* one that was put back and may be another VM's; a frame that has a page is
\* mapped, and the reversed map leads from the page back to the frame, unless
\* that map does not cover the page: then the frame has a page it cannot see.
TablesAgree ==
    \A m \in Vms, f \in Frames :
        LET p == pp_pfns[m][f] IN
        job[m].op # "drop" =>
            /\ pte[m][f] \in {None, p}
            /\ p \in Pfns \ Uncovered => pte[m][f] = p /\ reversed[p] = f

\* A VM that runs or is loaded has a table for every frame, so that mapping a
\* page never has to find one for the table (create_ptes).
TablesComplete ==
    \A m \in Vms : job[m].op \in {"ready", "alloc", "load", "free"} =>
        \A t \in Tables : pp_pfns[m][t] # None

\* The page tables, the list of pages and the reversed map of a VM agree and
\* are complete.
TablesExact == TablesAgree /\ TablesComplete

\* hostmem_used is the memory of the VMs that exist: each way a VM can end
\* takes off what its creation added.
HostmemExact ==
    hostmem_used = physical_frames * Cardinality({m \in Vms : Live(m)})

\* The pages of VMs, their tables and what the driver may still take are exact (pages.c,
\* monitor.c).
MemoryExact == PagesAccounted /\ TablesExact /\ HostmemExact
=============================================================================
