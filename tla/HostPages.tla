------------------------------ MODULE HostPages ------------------------------
(***************************************************************************)
(* The page allocator of the Windows driver (os/winnt/kernel/alloc.c).     *)
(* Pages are taken from the host in buckets (an MDL of                     *)
(* PFN_ALLOCATION_COUNT pages) and, when no bucket can be had, one by one  *)
(* as mapped memory.  A bucket goes back to the host when its last page is *)
(* put back.  Every entry point holds osdep->mutex from end to end, so an  *)
(* operation is one action.                                                *)
(***************************************************************************)
EXTENDS Integers, FiniteSets

CONSTANTS Pfns,                 \* the pages of the machine
          PFN_ALLOCATION_COUNT  \* pages of a bucket

HostPagesAssumption ==
    /\ IsFiniteSet(Pfns)
    /\ PFN_ALLOCATION_COUNT \in Nat \ {0}

VARIABLES
    use_count,        \* the buckets of mdl_list, each the set of its pages, with its use count
    pages_unused,     \* pages of the buckets that nobody holds
    mapped_allocated, \* pages of mapped_allocated_list
    pages_allocated   \* the counter of osdep

vars == <<use_count, pages_unused, mapped_allocated, pages_allocated>>

mdl_list == DOMAIN use_count
MdlPages == UNION mdl_list

\* The pages that callers hold.
Owned == (MdlPages \ pages_unused) \cup mapped_allocated

\* The pages the host can still give.
HostFree == Pfns \ (MdlPages \cup mapped_allocated)

\* The lists of the allocator hold pages and MDLs it knows.
TypeOK ==
    /\ mdl_list \subseteq SUBSET Pfns
    /\ use_count \in [mdl_list -> Nat]
    /\ pages_unused \subseteq Pfns
    /\ mapped_allocated \subseteq Pfns
    /\ pages_allocated \in Int

Init ==
    /\ use_count = [b \in {} |-> 0]
    /\ pages_unused = {}
    /\ mapped_allocated = {}
    /\ pages_allocated = 0

MdlOf(p) == CHOOSE b \in mdl_list : p \in b

\* co_os_get_unused_mdl_page, from a list that co_winnt_new_mdl_bucket may have made
GetUnused(p, counts, unused) ==
    \E b \in DOMAIN counts :
        /\ p \in b
        /\ p \in unused
        /\ use_count' = [counts EXCEPT ![b] = @ + 1]
        /\ pages_unused' = unused \ {p}
        /\ pages_allocated' = pages_allocated + 1
        /\ UNCHANGED mapped_allocated

\* co_winnt_new_mdl_bucket: the host gives all pages of a bucket or it is given up
NewBucket(p) ==
    \E b \in SUBSET HostFree :
        /\ Cardinality(b) = PFN_ALLOCATION_COUNT
        /\ GetUnused(p, [c \in mdl_list \cup {b} |-> IF c = b THEN 0 ELSE use_count[c]], b)

NewMapped(p) ==
    /\ p \in HostFree
    /\ mapped_allocated' = mapped_allocated \cup {p}
    /\ UNCHANGED <<use_count, pages_unused, pages_allocated>>

GetPage(p) ==
    \/ GetUnused(p, use_count, pages_unused)
    \/ pages_unused = {} /\ (NewBucket(p) \/ NewMapped(p))

\* co_winnt_put_unused_mdl_page; the last page of a bucket frees it
PutMdl_KeepCount(p) ==
    /\ p \in MdlPages
    /\ pages_unused' = pages_unused \cup {p}
    /\ pages_allocated' = pages_allocated - 1
    /\ UNCHANGED <<use_count, mapped_allocated>>
PutMdl_Early(p) ==
    LET b == MdlOf(p) IN
    /\ p \in MdlPages
    /\ use_count' = [c \in mdl_list \ {b} |-> use_count[c]]
    /\ pages_unused' = pages_unused \ b
    /\ pages_allocated' = pages_allocated - 1
    /\ UNCHANGED mapped_allocated
PutMdl(p) ==
    LET b == MdlOf(p) IN
    /\ p \in MdlPages
    /\ IF use_count[b] = 1
       THEN /\ use_count' = [c \in mdl_list \ {b} |-> use_count[c]]
            /\ pages_unused' = pages_unused \ b
       ELSE /\ use_count' = [use_count EXCEPT ![b] = @ - 1]
            /\ pages_unused' = pages_unused \cup {p}
    /\ pages_allocated' = pages_allocated - 1
    /\ UNCHANGED mapped_allocated

\* co_winnt_free_mapped_allocated_page
PutMapped(p) ==
    /\ p \in mapped_allocated
    /\ mapped_allocated' = mapped_allocated \ {p}
    /\ UNCHANGED <<use_count, pages_unused, pages_allocated>>

PutPage(p) == PutMdl(p) \/ PutMapped(p)

\* co_winnt_free_all_pages, when the driver is unloaded
FreeAll ==
    /\ use_count' = [b \in {} |-> 0]
    /\ pages_unused' = {}
    /\ mapped_allocated' = {}
    /\ pages_allocated' = 0

\* The callers put back only what they hold (GuestMemory!PagesHaveOneHolder).
Next ==
    \/ FreeAll
    \/ \E p \in Pfns : GetPage(p)
    \/ \E p \in Owned : PutPage(p)

Spec == Init /\ [][Next]_vars

-----------------------------------------------------------------------------
PagesOnce ==
    /\ \A b, c \in mdl_list : b = c \/ b \cap c = {}
    /\ MdlPages \cap mapped_allocated = {}
    /\ pages_unused \subseteq MdlPages

\* No page is on two lists; a bucket's use count is the number of its pages
\* that callers hold; a bucket nobody holds a page of is not kept; and the
\* counter shown at unload is the number of bucket pages held.
BucketsExact ==
    /\ PagesOnce
    /\ \A b \in mdl_list :
        use_count[b] = Cardinality(b \ pages_unused) /\ use_count[b] > 0
    /\ pages_allocated = Cardinality(MdlPages \ pages_unused)

\* The allocator is a pool: a page that is held is not given out again until
\* it is put back, whatever becomes of the buckets.
Pool == INSTANCE PagePool WITH owned <- Owned
ImplementsPool == Pool!Spec
=============================================================================
