---------------------------- MODULE MemoryProofs ----------------------------
(***************************************************************************)
(* Proofs about the modules of Memory: GuestMemory, for any set of VMs, any *)
(* host pages and any size of the RAM and of a table, and HostPages, for   *)
(* any host pages and any number of pages in a bucket.                     *)
(*                                                                         *)
(* Every change of pp_pfns enters a page that nobody held at an entry that *)
(* had none, or takes one entry away and puts its page back.  That the     *)
(* entry had none, and that no entry is left when the VM ends, depends on  *)
(* how far the loop over the pages has come.  The use count of a bucket is *)
(* the number of its pages not on the list of unused ones, which every     *)
(* operation of the allocator changes with it.                             *)
(***************************************************************************)
EXTENDS Memory, FiniteSetTheorems, TLAPS

-----------------------------------------------------------------------------
(* Where things are in pp_pfns.                                            *)

Last == TableOf(physical_frames - 1)

\* The quotient of two natural numbers.
LEMMA Quotient ==
    ASSUME NEW a \in Nat, NEW b \in Nat, NEW d \in Nat \ {0}, a <= b
    PROVE  a \div d \in Nat /\ a \div d <= b \div d
OBVIOUS

\* The tables come after the frames, and each frame has one.
LEMMA Layout ==
    /\ physical_frames \in Nat \ {0} /\ Last \in Nat /\ physical_frames <= Last
    /\ Frames = 0 .. physical_frames - 1
    /\ Tables = physical_frames .. Last
    /\ Slots = 0 .. Last
    /\ \A f \in Frames : TableOf(f) \in Tables
<1>1. physical_frames \in Nat \ {0} /\ PTRS_PER_PTE \in Nat \ {0}
  BY GuestMemoryAssumption
<1>2. \A f \in 0 .. physical_frames - 1 :
          f \div PTRS_PER_PTE \in Nat
          /\ f \div PTRS_PER_PTE <= (physical_frames - 1) \div PTRS_PER_PTE
  BY <1>1, Quotient
<1>3. (physical_frames - 1) \div PTRS_PER_PTE \in Nat
  BY <1>1, Quotient
<1>4. Last \in Nat /\ physical_frames <= Last
  BY <1>1, <1>3 DEF Last, TableOf
<1>5. Tables = physical_frames .. Last
  BY DEF Tables, Last, TableOf
<1>6. Slots = 0 .. Last
  BY <1>1, <1>4, <1>5 DEF Slots, Frames
<1>7. \A f \in Frames : TableOf(f) \in Tables
  BY <1>1, <1>2, <1>3, <1>4 DEF Tables, Frames, TableOf
<1> QED BY <1>1, <1>4, <1>5, <1>6, <1>7 DEF Frames

-----------------------------------------------------------------------------
(* The inductive invariant.                                                *)

\* A page is entered once, and is one that the driver holds and not one of the reversed map; and
\* the driver holds no other, but those it got too high.
Held ==
    /\ \A m, n \in Vms, s, t \in Slots :
        pp_pfns[m][s] # None /\ pp_pfns[m][s] = pp_pfns[n][t] => m = n /\ s = t
    /\ \A m \in Vms, s \in Slots :
        pp_pfns[m][s] # None => pp_pfns[m][s] \in owned \ (reversed_map_pfns \cup High)
    /\ reversed_map_pfns \subseteq owned \ High
    /\ \A p \in owned \ High :
        p \in reversed_map_pfns \/ \E m \in Vms, s \in Slots : pp_pfns[m][s] = p

\* The bounds of a loop.
JobKept(m) ==
    /\ job[m].op = "setup" => job[m].at \in Tables /\ job[m].last = Last
    /\ job[m].op = "drop" => job[m].at \in Slots /\ job[m].last = Last
    /\ job[m].op \in {"alloc", "load", "free"} =>
        job[m].first <= job[m].at /\ job[m].at <= job[m].last /\ job[m].last \in Frames

\* The entries a loop has passed, and those of a VM no loop works on.
EntriesKept(m) ==
    /\ job[m].op \in {"none", "checked", "empty"} => \A s \in Slots : pp_pfns[m][s] = None
    /\ job[m].op = "setup" => /\ \A f \in Frames : pp_pfns[m][f] = None
                              /\ \A t \in Tables : pp_pfns[m][t] = None <=> t >= job[m].at
    /\ job[m].op \in {"ready", "alloc", "load", "free"} => \A t \in Tables : pp_pfns[m][t] # None
    /\ job[m].op = "drop" => \A s \in Slots : s < job[m].at => pp_pfns[m][s] = None

Kept(m) == JobKept(m) /\ EntriesKept(m)

\* hostmem_used counts the VMs that exist.
LiveVms == {m \in Vms : Live(m)}
UsedKept == IsFiniteSet(LiveVms) /\ hostmem_used = physical_frames * Cardinality(LiveVms)

IInv == TypeOK /\ Held /\ (\A m \in Vms : Kept(m)) /\ UsedKept

-----------------------------------------------------------------------------
(* Jobs.                                                                   *)

Job == [op : Ops, goal : Goals, first : Nat, at : Nat, last : Int]

\* The jobs that the actions begin.
LEMMA Begun ==
    /\ \A op \in Ops : Idle(op) \in Job /\ Idle(op).op = op
    /\ \A goal \in Goals : /\ SetUp(goal) \in Job /\ SetUp(goal).op = "setup"
                           /\ SetUp(goal).at = physical_frames /\ SetUp(goal).last = Last
                           /\ Drop(goal) \in Job /\ Drop(goal).op = "drop"
                           /\ Drop(goal).at = 0 /\ Drop(goal).last = Last
    /\ \A op \in Ops, f \in Nat, l \in Nat :
          /\ Span(op, f, l) \in Job /\ Span(op, f, l).op = op
          /\ Span(op, f, l).first = f /\ Span(op, f, l).at = f /\ Span(op, f, l).last = l
<1>1. "create" \in Goals /\ "setup" \in Ops /\ "drop" \in Ops
  BY DEF Goals, Ops
<1> QED BY <1>1, Layout DEF Idle, SetUp, Drop, Span, Job, Last

\* A VM gets another job.
LEMMA JobSet ==
    ASSUME TypeOK, NEW m \in Vms, NEW j \in Job, job' = [job EXCEPT ![m] = j]
    PROVE  job' \in [Vms -> Job] /\ job'[m] = j /\ \A n \in Vms \ {m} : job'[n] = job[n]
BY DEF TypeOK, Job

\* A loop comes to its next page or to its end.
LEMMA Stepped ==
    ASSUME TypeOK, NEW m \in Vms, NEW done \in Job, Step(m, done)
    PROVE  /\ job' \in [Vms -> Job] /\ \A n \in Vms \ {m} : job'[n] = job[n]
           /\ job[m].at >= job[m].last => job'[m] = done
           /\ job[m].at < job[m].last =>
                /\ job'[m].op = job[m].op /\ job'[m].first = job[m].first
                /\ job'[m].at = job[m].at + 1 /\ job'[m].last = job[m].last
<1>1. job[m] \in Job /\ job \in [Vms -> Job]
  BY DEF TypeOK, Job
<1>2. job[m].at \in Nat /\ job[m].last \in Int
  BY <1>1 DEF Job
<1>3. CASE job[m].at >= job[m].last
  <2>1. job' = [job EXCEPT ![m] = done]
    BY <1>3 DEF Step
  <2> QED BY <1>1, <1>2, <1>3, <2>1
<1>4. CASE job[m].at < job[m].last
  <2>1. job' = [job EXCEPT ![m].at = job[m].at + 1]
    BY <1>2, <1>4 DEF Step
  <2> QED BY <1>1, <1>2, <1>4, <2>1 DEF Job
<1> QED BY <1>2, <1>3, <1>4

\* What a loop of free_pseudo_physical_memory goes on with.
LEMMA Afterwards ==
    ASSUME TypeOK, NEW m \in Vms
    PROVE  /\ After(m) \in Job
           /\ \/ After(m) = SetUp("reset")
              \/ After(m) = Idle("empty")
              \/ After(m) = Idle("none")
<1>1. "none" \in Ops /\ "empty" \in Ops /\ "reset" \in Goals
  BY DEF Ops, Goals
<1> QED BY <1>1, Begun DEF After

-----------------------------------------------------------------------------
(* Entries.                                                                *)

\* An entry of a VM gets another page, or none.
LEMMA EntrySet ==
    ASSUME NEW V, NEW A, NEW F \in [Vms -> [A -> V]], NEW m \in Vms, NEW s \in A, NEW v \in V,
           NEW G, G = [F EXCEPT ![m][s] = v]
    PROVE  /\ G \in [Vms -> [A -> V]] /\ G[m][s] = v
           /\ \A n \in Vms \ {m} : G[n] = F[n]
           /\ \A t \in A \ {s} : G[m][t] = F[m][t]
OBVIOUS

\* A page nobody has is entered where there is none.
LEMMA EnteredHeld ==
    ASSUME TypeOK, Held, NEW m \in Vms, NEW s \in Slots, NEW p \in Pfns \ (High \cup owned),
           pp_pfns[m][s] = None, pp_pfns' = [pp_pfns EXCEPT ![m][s] = p],
           owned' = owned \cup {p}, reversed_map_pfns' = reversed_map_pfns
    PROVE  Held'
<1>1. /\ pp_pfns'[m][s] = p
      /\ \A n \in Vms, t \in Slots : n # m \/ t # s => pp_pfns'[n][t] = pp_pfns[n][t]
  BY EntrySet DEF TypeOK
<1>2. p # None /\ p \notin reversed_map_pfns
  BY GuestMemoryAssumption DEF Held
<1>3. \A n \in Vms, t \in Slots : pp_pfns[n][t] # p
  BY GuestMemoryAssumption DEF Held
<1>4. ASSUME NEW n \in Vms, NEW o \in Vms, NEW t \in Slots, NEW u \in Slots,
             pp_pfns'[n][t] # None, pp_pfns'[n][t] = pp_pfns'[o][u]
      PROVE  n = o /\ t = u
  BY <1>1, <1>2, <1>3, <1>4 DEF Held
<1>5. ASSUME NEW n \in Vms, NEW t \in Slots, pp_pfns'[n][t] # None
      PROVE  pp_pfns'[n][t] \in owned' \ (reversed_map_pfns' \cup High)
  BY <1>1, <1>2, <1>5 DEF Held
<1>6. ASSUME NEW q \in owned' \ High
      PROVE  q \in reversed_map_pfns' \/ \E n \in Vms, t \in Slots : pp_pfns'[n][t] = q
  <2>1. CASE q = p
    BY <1>1, <2>1
  <2>2. CASE q # p /\ q \notin reversed_map_pfns
    <3>1. PICK n \in Vms, t \in Slots : pp_pfns[n][t] = q
      BY <1>6, <2>2 DEF Held
    <3>2. n # m \/ t # s
      BY <1>2, <1>6, <2>2, <3>1, GuestMemoryAssumption DEF TypeOK
    <3> QED BY <1>1, <3>1, <3>2
  <2> QED BY <2>1, <2>2
<1>7. reversed_map_pfns' \subseteq owned' \ High
  BY DEF Held
<1> QED BY <1>4, <1>5, <1>6, <1>7 DEF Held

\* An entry goes, and its page is put back.
LEMMA RemovedHeld ==
    ASSUME TypeOK, Held, NEW m \in Vms, NEW s \in Slots,
           pp_pfns' = [pp_pfns EXCEPT ![m][s] = None],
           owned' = owned \ {pp_pfns[m][s]}, reversed_map_pfns' = reversed_map_pfns
    PROVE  Held'
<1>1. /\ pp_pfns'[m][s] = None
      /\ \A n \in Vms, t \in Slots : n # m \/ t # s => pp_pfns'[n][t] = pp_pfns[n][t]
  BY EntrySet DEF TypeOK
<1>2. pp_pfns[m][s] \notin reversed_map_pfns
  BY GuestMemoryAssumption DEF Held, TypeOK
<1>3. ASSUME NEW n \in Vms, NEW o \in Vms, NEW t \in Slots, NEW u \in Slots,
             pp_pfns'[n][t] # None, pp_pfns'[n][t] = pp_pfns'[o][u]
      PROVE  n = o /\ t = u
  BY <1>1, <1>3 DEF Held
<1>4. ASSUME NEW n \in Vms, NEW t \in Slots, pp_pfns'[n][t] # None
      PROVE  pp_pfns'[n][t] \in owned' \ (reversed_map_pfns' \cup High)
  BY <1>1, <1>4 DEF Held
<1>5. ASSUME NEW q \in owned' \ High
      PROVE  q \in reversed_map_pfns' \/ \E n \in Vms, t \in Slots : pp_pfns'[n][t] = q
  <2>1. CASE q \notin reversed_map_pfns
    <3>1. PICK n \in Vms, t \in Slots : pp_pfns[n][t] = q
      BY <1>5, <2>1 DEF Held
    <3> QED BY <1>1, <1>5, <3>1
  <2> QED BY <2>1
<1>6. reversed_map_pfns' \subseteq owned' \ High
  BY <1>2 DEF Held
<1> QED BY <1>3, <1>4, <1>5, <1>6 DEF Held

\* No entry changes; at most a page that is too high is taken.
LEMMA UnmovedHeld ==
    ASSUME Held, pp_pfns' = pp_pfns, reversed_map_pfns' = reversed_map_pfns,
           owned' = owned \/ \E p \in High : owned' = owned \cup {p}
    PROVE  Held'
<1>1. owned \subseteq owned' /\ owned' \ High = owned \ High
  OBVIOUS
<1> QED BY <1>1 DEF Held

-----------------------------------------------------------------------------
(* The steps of a VM.                                                      *)

\* What the actions of VM m do to the entries, the pages and the jobs of the others.
Entered(m, s, p) ==
    /\ p \in Pfns \ (High \cup owned) /\ owned' = owned \cup {p}
    /\ pp_pfns' = [pp_pfns EXCEPT ![m][s] = p]
Removed(m, s) ==
    /\ owned' = owned \ {pp_pfns[m][s]}
    /\ pp_pfns' = [pp_pfns EXCEPT ![m][s] = None]
Unmoved ==
    /\ pp_pfns' = pp_pfns
    /\ owned' = owned \/ \E p \in High : owned' = owned \cup {p}

LEMMA Gives ==
    ASSUME NEW p \in Pfns, GetPage(p)
    PROVE  p \in Pfns \ (High \cup owned) /\ owned' = owned \cup {p}
BY DEF GetPage, Pool!Get

LEMMA GivesNone ==
    ASSUME GetPageFails
    PROVE  owned' = owned \/ \E p \in High : owned' = owned \cup {p}
BY DEF GetPageFails, Pool!Get

\* The change of the entries and of the job that the invariants need to know of.
LEMMA OthersKept ==
    ASSUME NEW n \in Vms, Kept(n), job'[n] = job[n], pp_pfns'[n] = pp_pfns[n]
    PROVE  Kept(n)'
BY DEF Kept, JobKept, EntriesKept

\* The VMs that exist are as many as before.
LEMMA UsedSame ==
    ASSUME UsedKept, NEW m \in Vms, hostmem_used' = hostmem_used,
           \A n \in Vms \ {m} : job'[n] = job[n], Live(m) <=> Live(m)'
    PROVE  UsedKept'
<1>1. \A n \in Vms : Live(n) <=> Live(n)'
  BY DEF Live
<1>2. LiveVms' = LiveVms
  BY <1>1 DEF LiveVms
<1> QED BY <1>2 DEF UsedKept

\* One more, and one less.
LEMMA UsedMore ==
    ASSUME UsedKept, NEW m \in Vms, hostmem_used' = hostmem_used + physical_frames,
           \A n \in Vms \ {m} : job'[n] = job[n], ~Live(m), Live(m)'
    PROVE  UsedKept'
<1>1. \A n \in Vms \ {m} : Live(n) <=> Live(n)'
  BY DEF Live
<1>2. LiveVms' = LiveVms \cup {m} /\ m \notin LiveVms
  BY <1>1 DEF LiveVms
<1>3. PICK c \in Nat : c = Cardinality(LiveVms)
  BY FS_CardinalityType DEF UsedKept
<1>4. IsFiniteSet(LiveVms') /\ Cardinality(LiveVms') = c + 1
  BY <1>2, <1>3, FS_AddElement DEF UsedKept
<1>5. physical_frames * (c + 1) = physical_frames * c + physical_frames
  BY Layout
<1> QED BY <1>3, <1>4, <1>5 DEF UsedKept

LEMMA UsedLess ==
    ASSUME UsedKept, NEW m \in Vms, hostmem_used' = hostmem_used - physical_frames,
           \A n \in Vms \ {m} : job'[n] = job[n], Live(m), ~Live(m)'
    PROVE  UsedKept'
<1>1. \A n \in Vms \ {m} : Live(n) <=> Live(n)'
  BY DEF Live
<1>2. LiveVms' = LiveVms \ {m} /\ m \in LiveVms
  BY <1>1 DEF LiveVms
<1>3. PICK c \in Nat : c = Cardinality(LiveVms)
  BY FS_CardinalityType DEF UsedKept
<1>4. IsFiniteSet(LiveVms') /\ Cardinality(LiveVms') = c - 1
  BY <1>2, <1>3, FS_RemoveElement DEF UsedKept
<1>5. physical_frames * (c - 1) = physical_frames * c - physical_frames
  BY Layout
<1> QED BY <1>3, <1>4, <1>5 DEF UsedKept

\* What the guest sees at a frame, and what the reversed map has, stay in their domains.
Seen == [Vms -> [Frames -> Pfns \cup {None}]]
Found == [Pfns -> Frames \cup {None}]

LEMMA PutFound ==
    ASSUME TypeOK, NEW p, reversed' = [reversed EXCEPT ![p] = None]
    PROVE  reversed' \in Found
BY DEF TypeOK, Found

LEMMA CheckLimitNext ==
    ASSUME IInv, NEW m \in Vms, CheckLimit(m)
    PROVE  IInv'
<1>0. TypeOK /\ Held /\ (\A n \in Vms : Kept(n)) /\ UsedKept
  BY DEF IInv
<1>1. Idle("checked") \in Job /\ Idle("checked").op = "checked"
  BY Begun DEF Ops
<1>2. job' \in [Vms -> Job] /\ job'[m] = Idle("checked") /\ \A n \in Vms \ {m} : job'[n] = job[n]
  BY <1>0, <1>1, JobSet DEF CheckLimit
<1>3. TypeOK'
  BY <1>0, <1>2 DEF CheckLimit, TypeOK, Job
<1>4. Held'
  BY <1>0, UnmovedHeld DEF CheckLimit
<1>5. Kept(m)'
  BY <1>0, <1>1, <1>2 DEF CheckLimit, Kept, JobKept, EntriesKept
<1>6. \A n \in Vms \ {m} : Kept(n)'
  BY <1>0, <1>2, OthersKept DEF CheckLimit
<1>7. UsedKept'
  BY <1>0, <1>1, <1>2, UsedSame DEF CheckLimit, Live
<1> QED BY <1>3, <1>4, <1>5, <1>6, <1>7 DEF IInv

LEMMA AddUsedNext ==
    ASSUME IInv, NEW m \in Vms, AddUsed(m)
    PROVE  IInv'
<1>0. TypeOK /\ Held /\ (\A n \in Vms : Kept(n)) /\ UsedKept
  BY DEF IInv
<1>1. "create" \in Goals
  BY DEF Goals
<1>2. job' \in [Vms -> Job] /\ job'[m] = SetUp("create") /\ \A n \in Vms \ {m} : job'[n] = job[n]
  BY <1>0, <1>1, Begun, JobSet DEF AddUsed
<1>3. TypeOK'
  BY <1>0, <1>2, Layout DEF AddUsed, TypeOK, Job
<1>4. Held'
  BY <1>0, UnmovedHeld DEF AddUsed
<1>5. Kept(m)'
  <2>1. \A s \in Slots : pp_pfns'[m][s] = None
    BY <1>0 DEF AddUsed, Kept, EntriesKept
  <2>2. job'[m].op = "setup" /\ job'[m].at = physical_frames /\ job'[m].last = Last
    BY <1>1, <1>2, Begun
  <2> QED BY <2>1, <2>2, Layout DEF Kept, JobKept, EntriesKept
<1>6. \A n \in Vms \ {m} : Kept(n)'
  BY <1>0, <1>2, OthersKept DEF AddUsed
<1>7. UsedKept'
  <2>1. ~Live(m) /\ Live(m)'
    BY <1>1, <1>2, Begun DEF AddUsed, Live
  <2> QED BY <1>0, <1>2, <2>1, UsedMore DEF AddUsed
<1> QED BY <1>3, <1>4, <1>5, <1>6, <1>7 DEF IInv

LEMMA SetUpTableNext ==
    ASSUME IInv, NEW m \in Vms, SetUpTable(m)
    PROVE  IInv'
<1>0. TypeOK /\ Held /\ (\A n \in Vms : Kept(n)) /\ UsedKept
  BY DEF IInv
<1> DEFINE at == job[m].at
<1>1. at \in Tables /\ job[m].last = Last /\ at \in Slots /\ pp_pfns[m][at] = None
  BY <1>0, Layout DEF SetUpTable, Kept, JobKept, EntriesKept
<1>2. PICK p \in Pfns, old \in [FramesOf(at) -> IF Zeroed THEN {None} ELSE Pfns \cup {None}] :
        /\ GetPage(p)
        /\ pp_pfns' = [pp_pfns EXCEPT ![m][at] = p]
        /\ pte' = [pte EXCEPT ![m] = [f \in Frames |-> IF f \in DOMAIN old THEN old[f] ELSE pte[m][f]]]
  BY DEF SetUpTable
<1>3. p \in Pfns \ (High \cup owned) /\ owned' = owned \cup {p}
  BY <1>2, Gives
<1>4. /\ job' \in [Vms -> Job] /\ \A n \in Vms \ {m} : job'[n] = job[n]
      /\ at >= Last => job'[m] = Idle("ready")
      /\ at < Last => job'[m].op = "setup" /\ job'[m].at = at + 1 /\ job'[m].last = Last
  BY <1>0, <1>1, Begun, Stepped DEF SetUpTable, Ops
<1>5. /\ pp_pfns' \in [Vms -> [Slots -> Pfns \cup {None}]] /\ pp_pfns'[m][at] = p
      /\ \A n \in Vms \ {m} : pp_pfns'[n] = pp_pfns[n]
      /\ \A t \in Slots \ {at} : pp_pfns'[m][t] = pp_pfns[m][t]
  BY <1>0, <1>1, <1>2, EntrySet DEF TypeOK
<1>6. TypeOK'
  <2>1. pte' \in Seen
    <3>1. [f \in Frames |-> IF f \in DOMAIN old THEN old[f] ELSE pte[m][f]]
             \in [Frames -> Pfns \cup {None}]
      BY <1>0 DEF TypeOK
    <3> QED BY <1>0, <1>2, <3>1 DEF TypeOK, Seen
  <2> QED BY <1>0, <1>3, <1>4, <1>5, <2>1 DEF SetUpTable, TypeOK, Job, Seen
<1>7. Held'
  BY <1>0, <1>1, <1>2, <1>3, EnteredHeld DEF SetUpTable
<1>8. Kept(m)'
  <2>1. p # None
    BY <1>2, GuestMemoryAssumption
  <2>2. /\ \A f \in Frames : pp_pfns'[m][f] = None
        /\ \A t \in Tables : pp_pfns'[m][t] = None <=> t >= at + 1
    BY <1>0, <1>1, <1>5, <2>1, Layout DEF SetUpTable, Kept, EntriesKept
  <2>3. CASE at >= Last
    <3>1. job'[m].op = "ready"
      BY <1>4, <2>3, Begun DEF Ops
    <3>2. \A t \in Tables : pp_pfns'[m][t] # None
      BY <1>1, <2>2, <2>3, Layout
    <3> QED BY <3>1, <3>2 DEF Kept, JobKept, EntriesKept
  <2>4. CASE at < Last
    <3>1. at + 1 \in Tables
      BY <1>1, <2>4, Layout
    <3> QED BY <1>4, <2>2, <2>4, <3>1 DEF Kept, JobKept, EntriesKept
  <2> QED BY <1>1, <2>3, <2>4, Layout
<1>9. \A n \in Vms \ {m} : Kept(n)'
  BY <1>0, <1>4, <1>5, OthersKept
<1>10. UsedKept'
  <2>1. Live(m) /\ Live(m)'
    <3>0. Idle("ready").op = "ready" /\ (at >= Last \/ at < Last)
      BY SMTT(30), <1>1, Layout, Begun DEF Ops
    <3>1. job'[m].op \in {"setup", "ready"}
      BY <1>4, <3>0
    <3> QED BY <3>1 DEF SetUpTable, Live
  <2> QED BY <1>0, <1>4, <2>1, UsedSame DEF SetUpTable
<1> QED BY <1>6, <1>7, <1>8, <1>9, <1>10 DEF IInv

LEMMA SetUpFailsNext ==
    ASSUME IInv, NEW m \in Vms, SetUpFails(m)
    PROVE  IInv'
<1>0. TypeOK /\ Held /\ (\A n \in Vms : Kept(n)) /\ UsedKept
  BY DEF IInv
<1>1. PICK goal \in Goals : job' = [job EXCEPT ![m] = Drop(goal)]
  <2>1. job[m].goal \in Goals /\ "failed" \in Goals
    BY <1>0 DEF TypeOK, Goals
  <2> QED BY <2>1 DEF SetUpFails
<1>2. job' \in [Vms -> Job] /\ job'[m] = Drop(goal) /\ \A n \in Vms \ {m} : job'[n] = job[n]
  BY <1>0, <1>1, Begun, JobSet
<1>3. owned' = owned \/ \E p \in High : owned' = owned \cup {p}
  BY GivesNone DEF SetUpFails
<1>4. TypeOK'
  BY <1>0, <1>2, <1>3, GuestMemoryAssumption DEF SetUpFails, TypeOK, Job
<1>5. Held'
  BY <1>0, <1>3, UnmovedHeld DEF SetUpFails
<1>6. job'[m].op = "drop" /\ job'[m].at = 0 /\ job'[m].last = Last
  BY <1>2, Begun
<1>7. Kept(m)'
  BY <1>6, Layout DEF Kept, JobKept, EntriesKept
<1>8. \A n \in Vms \ {m} : Kept(n)'
  BY <1>0, <1>2, OthersKept DEF SetUpFails
<1>9. UsedKept'
  BY <1>0, <1>2, <1>6, UsedSame DEF SetUpFails, Live
<1> QED BY <1>4, <1>5, <1>7, <1>8, <1>9 DEF IInv

LEMMA EndsNext ==
    ASSUME IInv, NEW m \in Vms, NEW goal \in {"reset", "destroy"}, Ends(m, goal)
    PROVE  IInv'
<1>0. TypeOK /\ Held /\ (\A n \in Vms : Kept(n)) /\ UsedKept
  BY DEF IInv
<1>1. goal \in Goals /\ job' = [job EXCEPT ![m] = Drop(goal)]
  BY DEF Ends, Goals
<1>2. job' \in [Vms -> Job] /\ job'[m] = Drop(goal) /\ \A n \in Vms \ {m} : job'[n] = job[n]
  BY <1>0, <1>1, Begun, JobSet
<1>3. TypeOK'
  BY <1>0, <1>2 DEF Ends, TypeOK, Job
<1>4. Held'
  BY <1>0, UnmovedHeld DEF Ends
<1>5. job'[m].op = "drop" /\ job'[m].at = 0 /\ job'[m].last = Last
  BY <1>1, <1>2, Begun
<1>6. Kept(m)'
  BY <1>5, Layout DEF Kept, JobKept, EntriesKept
<1>7. \A n \in Vms \ {m} : Kept(n)'
  BY <1>0, <1>2, OthersKept DEF Ends
<1>8. UsedKept'
  BY <1>0, <1>2, <1>5, UsedSame DEF Ends, Live
<1> QED BY <1>3, <1>4, <1>6, <1>7, <1>8 DEF IInv

LEMMA DropStepNext ==
    ASSUME IInv, NEW m \in Vms, DropStep(m)
    PROVE  IInv'
<1>0. TypeOK /\ Held /\ (\A n \in Vms : Kept(n)) /\ UsedKept
  BY DEF IInv
<1> DEFINE at == job[m].at
           p  == pp_pfns[m][at]
<1>1. at \in Slots /\ job[m].last = Last /\ job[m].op = "drop"
  BY <1>0 DEF DropStep, DropPage, Kept, JobKept
<1>2. /\ IF p = None THEN UNCHANGED <<owned, reversed>> ELSE PutPage(p)
      /\ pp_pfns' = [pp_pfns EXCEPT ![m][at] = None]
      /\ pte' = [pte EXCEPT ![m] = [f \in Frames |-> IF TableOf(f) = at THEN None ELSE pte[m][f]]]
  BY DEF DropStep, DropPage
<1>3. owned' = owned \ {p} /\ reversed' \in Found
  <2>1. CASE p = None
    BY <1>0, <1>2, <2>1, GuestMemoryAssumption DEF TypeOK, Found
  <2>2. CASE p # None
    BY <1>0, <1>2, <2>2, PutFound DEF PutPage
  <2> QED BY <2>1, <2>2
<1>4. /\ job' \in [Vms -> Job] /\ \A n \in Vms \ {m} : job'[n] = job[n]
      /\ at >= Last => job'[m] = After(m)
      /\ at < Last => job'[m].op = "drop" /\ job'[m].at = at + 1 /\ job'[m].last = Last
  BY <1>0, <1>1, Afterwards, Stepped DEF DropStep
<1>5. /\ pp_pfns' \in [Vms -> [Slots -> Pfns \cup {None}]] /\ pp_pfns'[m][at] = None
      /\ \A n \in Vms \ {m} : pp_pfns'[n] = pp_pfns[n]
      /\ \A t \in Slots \ {at} : pp_pfns'[m][t] = pp_pfns[m][t]
  BY <1>0, <1>1, <1>2, EntrySet DEF TypeOK
<1>6. TypeOK'
  <2>1. pte' \in Seen
    <3>1. [f \in Frames |-> IF TableOf(f) = at THEN None ELSE pte[m][f]]
             \in [Frames -> Pfns \cup {None}]
      BY <1>0 DEF TypeOK
    <3> QED BY <1>0, <1>2, <3>1 DEF TypeOK, Seen
  <2>2. hostmem_used' \in Int
    <3>1. Given(m) \in Int
      BY Layout DEF Given
    <3> QED BY <1>0, <3>1 DEF DropStep, TypeOK
  <2> QED BY <1>0, <1>3, <1>4, <1>5, <2>1, <2>2 DEF DropStep, TypeOK, Job, Seen, Found
<1>7. Held'
  BY <1>0, <1>1, <1>2, <1>3, RemovedHeld DEF DropStep
<1>8. \A s \in Slots : s < at + 1 => pp_pfns'[m][s] = None
  <2>1. \A s \in Slots : s < at => pp_pfns[m][s] = None
    BY <1>0, <1>1 DEF Kept, EntriesKept
  <2>2. \A s \in Slots : s < at + 1 => s < at \/ s = at
    BY <1>1, Layout
  <2>3. \A s \in Slots : s < at => s \in Slots \ {at}
    BY <1>1, Layout
  <2> QED BY <1>5, <2>1, <2>2, <2>3
<1>9. at >= Last => /\ at = Last /\ job'[m].op \in {"setup", "empty", "none"}
                    /\ job'[m].op = After(m).op
                    /\ job'[m].op = "setup" => job'[m].at = physical_frames /\ job'[m].last = Last
  <2>1. at <= Last
    BY <1>1, Layout
  <2>2. \/ After(m).op = "setup" /\ After(m).at = physical_frames /\ After(m).last = Last
        \/ After(m).op \in {"empty", "none"}
    BY <1>0, Afterwards, Begun DEF Goals, Ops
  <2> QED BY <1>1, <1>4, <2>1, <2>2, Layout
<1>10. Kept(m)'
  <2>1. CASE at >= Last
    <3>1. \A s \in Slots : pp_pfns'[m][s] = None
      BY <1>8, <1>9, <2>1, Layout
    <3> QED BY <1>9, <2>1, <3>1, Layout DEF Kept, JobKept, EntriesKept
  <2>2. CASE at < Last
    <3>1. at + 1 \in Slots
      BY <1>1, <2>2, Layout
    <3> QED BY <1>4, <1>8, <2>2, <3>1 DEF Kept, JobKept, EntriesKept
  <2> QED BY <1>1, <2>1, <2>2, Layout
<1>11. \A n \in Vms \ {m} : Kept(n)'
  BY <1>0, <1>4, <1>5, OthersKept
<1>12. UsedKept'
  <2>1. Live(m) /\ hostmem_used \in Int /\ physical_frames \in Nat
    BY <1>0, <1>1, Layout DEF Live, TypeOK
  <2>2. CASE at >= Last /\ job'[m].op = "none"
    <3>1. ~Live(m)' /\ hostmem_used' = hostmem_used - physical_frames
      BY <1>1, <1>9, <2>2 DEF DropStep, Given, Live
    <3> QED BY <1>0, <1>4, <2>1, <3>1, UsedLess
  <2>3. CASE ~(at >= Last /\ job'[m].op = "none")
    <3>1. Live(m)' /\ Given(m) = 0
      BY <1>1, <1>4, <1>9, <2>3, Layout DEF Given, Live
    <3>2. hostmem_used' = hostmem_used
      BY <2>1, <3>1 DEF DropStep
    <3> QED BY <1>0, <1>4, <2>1, <3>1, <3>2, UsedSame
  <2> QED BY <2>2, <2>3
<1> QED BY <1>6, <1>7, <1>10, <1>11, <1>12 DEF IInv

LEMMA AsksNext ==
    ASSUME IInv, NEW m \in Vms, NEW op \in {"alloc", "load", "free"},
           NEW f \in Frames, NEW l \in Frames, Asks(m, op, f, l)
    PROVE  IInv'
<1>0. TypeOK /\ Held /\ (\A n \in Vms : Kept(n)) /\ UsedKept
  BY DEF IInv
<1>1. op \in Ops /\ f \in Nat /\ l \in Nat /\ f <= l
  BY Layout DEF Asks, Ops
<1>2. job' \in [Vms -> Job] /\ job'[m] = Span(op, f, l) /\ \A n \in Vms \ {m} : job'[n] = job[n]
  BY <1>0, <1>1, Begun, JobSet DEF Asks
<1>3. job'[m].op = op /\ job'[m].first = f /\ job'[m].at = f /\ job'[m].last = l
  BY <1>1, <1>2, Begun
<1>4. TypeOK'
  BY <1>0, <1>2 DEF Asks, TypeOK, Job
<1>5. Held'
  BY <1>0, UnmovedHeld DEF Asks
<1>6. Kept(m)'
  BY <1>0, <1>1, <1>3 DEF Asks, Kept, JobKept, EntriesKept
<1>7. \A n \in Vms \ {m} : Kept(n)'
  BY <1>0, <1>2, OthersKept DEF Asks
<1>8. UsedKept'
  BY <1>0, <1>2, <1>3, UsedSame DEF Asks, Live
<1> QED BY <1>4, <1>5, <1>6, <1>7, <1>8 DEF IInv

\* The loops over the frames of a VM that runs or is loaded: from page to page, or back to the
\* VM that waits.
LEMMA LoopKept ==
    ASSUME TypeOK, NEW m \in Vms, Kept(m), job[m].op \in {"alloc", "load", "free"},
           Step(m, Idle("ready")), \A t \in Tables : pp_pfns'[m][t] = pp_pfns[m][t]
    PROVE  /\ job' \in [Vms -> Job] /\ \A n \in Vms \ {m} : job'[n] = job[n]
           /\ Kept(m)' /\ Live(m)' /\ Live(m)
<1> DEFINE j == job[m]
<1>1. /\ j.at \in Nat /\ j.last \in Int /\ j.first \in Nat
      /\ j.first <= j.at /\ j.at <= j.last /\ j.last \in Frames
  BY DEF TypeOK, Kept, JobKept
<1>2. /\ job' \in [Vms -> Job] /\ \A n \in Vms \ {m} : job'[n] = job[n]
      /\ j.at >= j.last => job'[m] = Idle("ready")
      /\ j.at < j.last => /\ job'[m].op = j.op /\ job'[m].first = j.first
                          /\ job'[m].at = j.at + 1 /\ job'[m].last = j.last
  BY Begun, Stepped DEF Ops
<1>3. \A t \in Tables : pp_pfns'[m][t] # None
  BY DEF Kept, EntriesKept
<1>4. CASE j.at >= j.last
  <2>1. job'[m].op = "ready"
    BY <1>2, <1>4, Begun DEF Ops
  <2> QED BY <1>2, <1>3, <2>1 DEF Kept, JobKept, EntriesKept, Live
<1>5. CASE j.at < j.last
  <2>1. j.first <= j.at + 1 /\ j.at + 1 <= j.last
    BY <1>1, <1>5
  <2>2. job'[m].op \in {"alloc", "load", "free"}
    BY <1>2, <1>5
  <2>3. job'[m].first <= job'[m].at /\ job'[m].at <= job'[m].last /\ job'[m].last \in Frames
    BY <1>1, <1>2, <1>5, <2>1
  <2> QED BY <1>2, <1>3, <2>2, <2>3 DEF Kept, JobKept, EntriesKept, Live
<1> QED BY <1>1, <1>4, <1>5

LEMMA PagePresentNext ==
    ASSUME IInv, NEW m \in Vms, PagePresent(m)
    PROVE  IInv'
<1>0. TypeOK /\ Held /\ (\A n \in Vms : Kept(n)) /\ UsedKept
  BY DEF IInv
<1>1. /\ job' \in [Vms -> Job] /\ \A n \in Vms \ {m} : job'[n] = job[n]
      /\ Kept(m)' /\ Live(m)' /\ Live(m)
  BY <1>0, LoopKept DEF PagePresent
<1>2. TypeOK'
  BY <1>0, <1>1 DEF PagePresent, TypeOK, Job
<1>3. Held'
  BY <1>0, UnmovedHeld DEF PagePresent
<1>4. \A n \in Vms \ {m} : Kept(n)'
  BY <1>0, <1>1, OthersKept DEF PagePresent
<1>5. UsedKept'
  BY <1>0, <1>1, UsedSame DEF PagePresent
<1> QED BY <1>1, <1>2, <1>3, <1>4, <1>5 DEF IInv

\* A loop over frames works on a frame.
LEMMA AtFrame ==
    ASSUME TypeOK, NEW m \in Vms, Kept(m), job[m].op \in {"alloc", "load", "free"}
    PROVE  job[m].at \in Frames /\ job[m].at \in Slots /\ job[m].at \notin Tables
<1>1. job[m].at \in Nat /\ job[m].at <= job[m].last /\ job[m].last \in Frames
  BY DEF TypeOK, Kept, JobKept
<1> QED BY <1>1, Layout

LEMMA PageMappedNext ==
    ASSUME IInv, NEW m \in Vms, PageMapped(m)
    PROVE  IInv'
<1>0. TypeOK /\ Held /\ (\A n \in Vms : Kept(n)) /\ UsedKept
  BY DEF IInv
<1> DEFINE at == job[m].at
<1>1. at \in Frames /\ at \in Slots /\ at \notin Tables /\ pp_pfns[m][at] = None
  BY <1>0, AtFrame DEF PageMapped
<1>2. PICK p \in Pfns : MapPage(m, p)
  BY DEF PageMapped
<1>3. /\ GetPage(p) /\ p \notin Uncovered
      /\ pp_pfns' = [pp_pfns EXCEPT ![m][at] = p]
      /\ reversed' = [reversed EXCEPT ![p] = at]
      /\ pte' = [pte EXCEPT ![m][at] = p]
  BY <1>2 DEF MapPage
<1>4. p \in Pfns \ (High \cup owned) /\ owned' = owned \cup {p}
  BY <1>3, Gives
<1>5. /\ pp_pfns' \in [Vms -> [Slots -> Pfns \cup {None}]] /\ pp_pfns'[m][at] = p
      /\ \A n \in Vms \ {m} : pp_pfns'[n] = pp_pfns[n]
      /\ \A t \in Slots \ {at} : pp_pfns'[m][t] = pp_pfns[m][t]
  BY <1>0, <1>1, <1>3, EntrySet DEF TypeOK
<1>6. pte' \in [Vms -> [Frames -> Pfns \cup {None}]]
  BY <1>0, <1>1, <1>3, EntrySet DEF TypeOK
<1>7. /\ job' \in [Vms -> Job] /\ \A n \in Vms \ {m} : job'[n] = job[n]
      /\ Kept(m)' /\ Live(m)' /\ Live(m)
  <2>1. \A t \in Tables : t \in Slots \ {at}
    BY <1>1, Layout
  <2> QED BY <1>0, <1>5, <2>1, LoopKept DEF PageMapped
<1>8. TypeOK'
  BY <1>0, <1>1, <1>3, <1>4, <1>5, <1>6, <1>7 DEF PageMapped, TypeOK, Job
<1>9. Held'
  BY <1>0, <1>1, <1>3, <1>4, EnteredHeld DEF PageMapped
<1>10. \A n \in Vms \ {m} : Kept(n)'
  BY <1>0, <1>5, <1>7, OthersKept
<1>11. UsedKept'
  BY <1>0, <1>7, UsedSame DEF PageMapped
<1> QED BY <1>7, <1>8, <1>9, <1>10, <1>11 DEF IInv

LEMMA PageFailsNext ==
    ASSUME IInv, NEW m \in Vms, PageFails(m)
    PROVE  IInv'
<1>0. TypeOK /\ Held /\ (\A n \in Vms : Kept(n)) /\ UsedKept
  BY DEF IInv
<1> DEFINE at == job[m].at
<1>1. at \in Frames /\ at \in Slots /\ at \notin Tables /\ pp_pfns[m][at] = None
  BY <1>0, AtFrame DEF PageFails
<1>2. /\ RollBack(m) \in Job /\ RollBack(m).op \in {"ready", "free"}
      /\ RollBack(m).op = "free" => /\ RollBack(m).first <= RollBack(m).at
                                    /\ RollBack(m).at <= RollBack(m).last
                                    /\ RollBack(m).last \in Frames
  <2>1. "free" \in Ops /\ "ready" \in Ops
    BY DEF Ops
  <2>2. CASE job[m].op = "alloc" /\ at > job[m].first
    <3>1. job[m].first \in Nat /\ at - 1 \in Nat /\ job[m].first <= at - 1 /\ at - 1 \in Frames
      BY <1>0, <1>1, <2>2, Layout DEF TypeOK
    <3>2. RollBack(m) = Span("free", job[m].first, at - 1)
      BY <2>2 DEF RollBack
    <3> QED BY <2>1, <3>1, <3>2, Begun
  <2>3. CASE ~(job[m].op = "alloc" /\ at > job[m].first)
    <3>1. RollBack(m) = Idle("ready")
      BY <2>3, Zenon DEF RollBack
    <3> QED BY <2>1, <3>1, Begun
  <2> QED BY <2>2, <2>3
<1>3. job' \in [Vms -> Job] /\ job'[m] = RollBack(m) /\ \A n \in Vms \ {m} : job'[n] = job[n]
  BY <1>0, <1>2, JobSet DEF PageFails
<1>4. /\ TypeOK' /\ Held' /\ \A n \in Vms \ {m} : pp_pfns'[n] = pp_pfns[n]
      /\ \A t \in Tables : pp_pfns'[m][t] = pp_pfns[m][t]
  <2>1. CASE GetPageFails /\ UNCHANGED pp_pfns
    <3>1. owned' = owned \/ \E p \in High : owned' = owned \cup {p}
      BY <2>1, GivesNone
    <3>2. TypeOK'
      BY <1>0, <1>3, <2>1, <3>1, GuestMemoryAssumption DEF PageFails, TypeOK, Job
    <3> QED BY <1>0, <2>1, <3>1, <3>2, UnmovedHeld DEF PageFails
  <2>2. CASE \E p \in Uncovered : GetPage(p) /\ pp_pfns' = [pp_pfns EXCEPT ![m][at] = p]
    <3>1. PICK p \in Pfns : GetPage(p) /\ pp_pfns' = [pp_pfns EXCEPT ![m][at] = p]
      BY <2>2, GuestMemoryAssumption
    <3>2. p \in Pfns \ (High \cup owned) /\ owned' = owned \cup {p}
      BY <3>1, Gives
    <3>3. /\ pp_pfns' \in [Vms -> [Slots -> Pfns \cup {None}]]
          /\ \A n \in Vms \ {m} : pp_pfns'[n] = pp_pfns[n]
          /\ \A t \in Slots \ {at} : pp_pfns'[m][t] = pp_pfns[m][t]
      BY <1>0, <1>1, <3>1, EntrySet DEF TypeOK
    <3>4. TypeOK'
      BY <1>0, <1>3, <3>2, <3>3 DEF PageFails, TypeOK, Job
    <3>5. Held'
      BY <1>0, <1>1, <3>1, <3>2, EnteredHeld DEF PageFails
    <3>6. \A t \in Tables : t \in Slots \ {at}
      BY <1>1, Layout
    <3> QED BY <3>3, <3>4, <3>5, <3>6
  <2> QED BY <2>1, <2>2 DEF PageFails
<1>5. Kept(m)'
  <2>1. \A t \in Tables : pp_pfns'[m][t] # None
    BY <1>0, <1>4 DEF PageFails, Kept, EntriesKept
  <2> QED BY <1>2, <1>3, <2>1 DEF Kept, JobKept, EntriesKept
<1>6. \A n \in Vms \ {m} : Kept(n)'
  BY <1>0, <1>3, <1>4, OthersKept
<1>7. UsedKept'
  <2>1. Live(m) /\ Live(m)'
    BY <1>2, <1>3 DEF PageFails, Live
  <2> QED BY <1>0, <1>3, <2>1, UsedSame DEF PageFails
<1> QED BY <1>4, <1>5, <1>6, <1>7 DEF IInv

LEMMA FreePageNext ==
    ASSUME IInv, NEW m \in Vms, FreePage(m)
    PROVE  IInv'
<1>0. TypeOK /\ Held /\ (\A n \in Vms : Kept(n)) /\ UsedKept
  BY DEF IInv
<1> DEFINE at == job[m].at
           p  == pp_pfns[m][at]
<1>1. at \in Frames /\ at \in Slots /\ at \notin Tables
  BY <1>0, AtFrame DEF FreePage
<1>2. /\ pte' = [pte EXCEPT ![m][at] = None]
      /\ pp_pfns' = [pp_pfns EXCEPT ![m][at] = None]
      /\ IF p = None THEN UNCHANGED <<owned, reversed>> ELSE PutPage(p)
  BY DEF FreePage, FreeFrame
<1>3. owned' = owned \ {p} /\ reversed' \in Found
  <2>1. CASE p = None
    BY <1>0, <1>2, <2>1, GuestMemoryAssumption DEF TypeOK, Found
  <2>2. CASE p # None
    BY <1>0, <1>2, <2>2, PutFound DEF PutPage
  <2> QED BY <2>1, <2>2
<1>4. /\ pp_pfns' \in [Vms -> [Slots -> Pfns \cup {None}]]
      /\ \A n \in Vms \ {m} : pp_pfns'[n] = pp_pfns[n]
      /\ \A t \in Slots \ {at} : pp_pfns'[m][t] = pp_pfns[m][t]
  BY <1>0, <1>1, <1>2, EntrySet DEF TypeOK
<1>5. pte' \in [Vms -> [Frames -> Pfns \cup {None}]]
  BY <1>0, <1>1, <1>2, EntrySet DEF TypeOK
<1>6. /\ job' \in [Vms -> Job] /\ \A n \in Vms \ {m} : job'[n] = job[n]
      /\ Kept(m)' /\ Live(m)' /\ Live(m)
  <2>1. \A t \in Tables : t \in Slots \ {at}
    BY <1>1, Layout
  <2> QED BY <1>0, <1>4, <2>1, LoopKept DEF FreePage
<1>7. TypeOK'
  BY <1>0, <1>3, <1>4, <1>5, <1>6 DEF FreePage, TypeOK, Job, Found
<1>8. Held'
  BY <1>0, <1>1, <1>2, <1>3, RemovedHeld DEF FreePage
<1>9. \A n \in Vms \ {m} : Kept(n)'
  BY <1>0, <1>4, <1>6, OthersKept
<1>10. UsedKept'
  BY <1>0, <1>6, UsedSame DEF FreePage
<1> QED BY <1>6, <1>7, <1>8, <1>9, <1>10 DEF IInv

-----------------------------------------------------------------------------
(* The invariant holds.                                                    *)

LEMMA ReversedMapNext ==
    ASSUME IInv, AllocReversedPfns \/ FreeReversedPfns
    PROVE  IInv'
<1>0. TypeOK /\ Held /\ (\A n \in Vms : Kept(n)) /\ UsedKept
  BY DEF IInv
<1>1. UNCHANGED <<hostmem_used, pp_pfns, pte, reversed, job>>
  BY DEF AllocReversedPfns, FreeReversedPfns
<1>2. ASSUME AllocReversedPfns PROVE TypeOK' /\ Held'
  <2>1. PICK pages \in SUBSET (Pfns \ (High \cup owned)) :
            owned' = owned \cup pages /\ reversed_map_pfns = {} /\ reversed_map_pfns' = pages
    BY <1>2 DEF AllocReversedPfns
  <2>2. TypeOK'
    BY <1>0, <1>1, <2>1 DEF TypeOK
  <2>3. Held'
    BY <1>0, <1>1, <2>1 DEF Held
  <2> QED BY <2>2, <2>3
<1>3. ASSUME FreeReversedPfns PROVE TypeOK' /\ Held'
  <2>1. owned' = owned \ reversed_map_pfns /\ reversed_map_pfns' = {}
    BY <1>3 DEF FreeReversedPfns
  <2>2. TypeOK'
    BY <1>0, <1>1, <2>1 DEF TypeOK
  <2>3. Held'
    BY <1>0, <1>1, <2>1 DEF Held
  <2> QED BY <2>2, <2>3
<1>4. \A n \in Vms : Kept(n)'
  BY <1>0, <1>1, OthersKept
<1>5. UsedKept'
  BY <1>0, <1>1 DEF UsedKept, LiveVms, Live
<1> QED BY <1>2, <1>3, <1>4, <1>5 DEF IInv

LEMMA InitIInv == Init => IInv
<1> SUFFICES ASSUME Init PROVE IInv
  OBVIOUS
<1>1. Idle("none") \in Job /\ Idle("none").op = "none"
  BY Begun DEF Ops
<1>2. TypeOK
  BY <1>1 DEF Init, TypeOK, Job
<1>3. Held
  BY DEF Init, Held
<1>4. \A m \in Vms : Kept(m)
  BY <1>1 DEF Init, Kept, JobKept, EntriesKept
<1>5. UsedKept
  <2>1. LiveVms = {}
    BY <1>1 DEF Init, LiveVms, Live
  <2>2. hostmem_used = 0 /\ physical_frames * 0 = 0
    BY Layout DEF Init
  <2> QED BY <2>1, <2>2, FS_EmptySet DEF UsedKept
<1> QED BY <1>2, <1>3, <1>4, <1>5 DEF IInv

LEMMA IInvNext == IInv /\ [Next]_vars => IInv'
<1> SUFFICES ASSUME IInv, [Next]_vars PROVE IInv'
  OBVIOUS
<1>1. CASE UNCHANGED vars
  BY <1>1 DEF IInv, TypeOK, Held, Kept, JobKept, EntriesKept, UsedKept, LiveVms, Live, vars
<1>2. CASE Next
  BY <1>2, ReversedMapNext, CheckLimitNext, AddUsedNext, SetUpTableNext, SetUpFailsNext, EndsNext,
     DropStepNext, AsksNext, PagePresentNext, PageMappedNext, PageFailsNext, FreePageNext DEF Next
<1> QED BY <1>1, <1>2

THEOREM Invariance == Spec => []IInv
BY InitIInv, IInvNext, PTL DEF Spec

LEMMA AccountedInIInv == IInv => PagesAccounted /\ TablesComplete /\ HostmemExact
<1> SUFFICES ASSUME IInv PROVE PagesAccounted /\ TablesComplete /\ HostmemExact
  OBVIOUS
<1>0. TypeOK /\ Held /\ (\A n \in Vms : Kept(n)) /\ UsedKept
  BY DEF IInv
<1>1. PagesHaveOneHolder
  BY <1>0 DEF Held, PagesHaveOneHolder, Pages
<1>2. owned \ High \subseteq reversed_map_pfns \cup UNION {Pages(m) : m \in Vms}
  <2> SUFFICES ASSUME NEW p \in owned \ High, p \notin reversed_map_pfns
               PROVE  \E m \in Vms : p \in Pages(m)
    OBVIOUS
  <2>1. PICK m \in Vms, s \in Slots : pp_pfns[m][s] = p
    BY <1>0 DEF Held
  <2>2. p # None
    BY <1>0, GuestMemoryAssumption DEF TypeOK
  <2> QED BY <2>1, <2>2 DEF Pages
<1>3. \A m \in Vms : Pages(m) \subseteq owned \ High
  BY <1>0 DEF Held, Pages
<1>4. owned \ High = reversed_map_pfns \cup UNION {Pages(m) : m \in Vms}
  BY <1>0, <1>2, <1>3 DEF Held
<1>5. TablesComplete
  BY <1>0 DEF TablesComplete, Kept, EntriesKept
<1> QED BY <1>0, <1>1, <1>4, <1>5 DEF PagesAccounted, HostmemExact, UsedKept, LiveVms

\* Every variable stays in its domain.
THEOREM TypeCorrect == Spec => []TypeOK
<1>1. IInv => TypeOK
  BY DEF IInv
<1> QED BY Invariance, <1>1, PTL

\* On every host, whatever a page held before: a page has one holder and none is lost, the VMs
\* that run have their tables, and hostmem_used is what the VMs that exist have.
THEOREM PagesStayAccounted == Spec => [](PagesAccounted /\ TablesComplete /\ HostmemExact)
BY Invariance, AccountedInIInv, PTL

-----------------------------------------------------------------------------
(* What the guest sees, on a host that clears the pages it gives.          *)

\* Nothing is seen at the frames of a VM that has none; the loop that ends a VM takes away what a
\* table says with the table.
SeenKept(m) ==
    /\ job[m].op \in {"none", "checked", "setup", "empty"} => \A f \in Frames : pte[m][f] = None
    /\ job[m].op = "drop" => \A f \in Frames : TableOf(f) < job[m].at => pte[m][f] = None

\* A frame of a VM that no loop ends agrees with its page.
AgreesAt(m, f) ==
    /\ pte[m][f] \in {None, pp_pfns[m][f]}
    /\ pp_pfns[m][f] \in Pfns \ Uncovered =>
        pte[m][f] = pp_pfns[m][f] /\ reversed[pp_pfns[m][f]] = f

Agrees(m) == job[m].op # "drop" => \A f \in Frames : AgreesAt(m, f)

SeenInv == \A m \in Vms : SeenKept(m) /\ Agrees(m)

\* A VM that does not take part sees what it saw, if the reversed map changes only at a page
\* that none of its frames has.
LEMMA OthersSeen ==
    ASSUME TypeOK, NEW n \in Vms, SeenKept(n), Agrees(n),
           job'[n] = job[n], pp_pfns'[n] = pp_pfns[n], pte'[n] = pte[n],
           \A f \in Frames : pp_pfns[n][f] \in Pfns => reversed'[pp_pfns[n][f]] = reversed[pp_pfns[n][f]]
    PROVE  SeenKept(n)' /\ Agrees(n)'
<1>1. SeenKept(n)'
  BY DEF SeenKept
<1>2. Agrees(n)'
  BY DEF Agrees, AgreesAt
<1> QED BY <1>1, <1>2

\* Where no entry, no page of the guest and no page of the reversed map changes, it is enough
\* that the job does not ask for more.
LEMMA JobSeen ==
    ASSUME TypeOK, NEW m \in Vms, SeenInv, \A n \in Vms \ {m} : job'[n] = job[n],
           UNCHANGED <<pp_pfns, pte, reversed>>,
           SeenKept(m)', job[m].op # "drop"
    PROVE  SeenInv'
<1>1. Agrees(m)'
  BY DEF SeenInv, Agrees, AgreesAt
<1>2. \A n \in Vms \ {m} : SeenKept(n)' /\ Agrees(n)'
  BY OthersSeen DEF SeenInv
<1> QED BY <1>1, <1>2 DEF SeenInv

\* The loops over frames ask nothing more of what is seen.
LEMMA FramesSeen ==
    ASSUME NEW m \in Vms, job'[m].op \in {"ready", "alloc", "load", "free"}
    PROVE  SeenKept(m)'
BY DEF SeenKept

LEMMA LoopOp ==
    ASSUME IInv, NEW m \in Vms, job[m].op \in {"alloc", "load", "free"}, Step(m, Idle("ready"))
    PROVE  /\ job'[m].op \in {"ready", "alloc", "load", "free"}
           /\ \A n \in Vms \ {m} : job'[n] = job[n]
<1>1. TypeOK /\ Kept(m) /\ Idle("ready") \in Job /\ Idle("ready").op = "ready"
  BY Begun DEF IInv, Ops
<1>2. job[m].at \in Nat /\ job[m].last \in Int
  BY <1>1 DEF TypeOK
<1>3. job[m].at >= job[m].last \/ job[m].at < job[m].last
  BY <1>2
<1> QED BY <1>1, <1>3, Stepped

LEMMA SetUpTableSeen ==
    ASSUME Zeroed, IInv, SeenInv, NEW m \in Vms, SetUpTable(m)
    PROVE  SeenInv'
<1>0. TypeOK /\ Held /\ Kept(m)
  BY DEF IInv
<1> DEFINE at == job[m].at
<1>1. at \in Tables /\ at \in Slots /\ job[m].last = Last
  BY <1>0, Layout DEF SetUpTable, Kept, JobKept
<1>2. PICK p \in Pfns, old \in [FramesOf(at) -> {None}] :
        /\ GetPage(p)
        /\ pp_pfns' = [pp_pfns EXCEPT ![m][at] = p]
        /\ pte' = [pte EXCEPT ![m] = [f \in Frames |-> IF f \in DOMAIN old THEN old[f] ELSE pte[m][f]]]
  BY DEF SetUpTable
<1>3. /\ \A n \in Vms \ {m} : pp_pfns'[n] = pp_pfns[n]
      /\ \A t \in Slots \ {at} : pp_pfns'[m][t] = pp_pfns[m][t]
  BY <1>0, <1>1, <1>2, EntrySet DEF TypeOK
<1>4. \A f \in Frames : pp_pfns'[m][f] = None
  BY <1>0, <1>1, <1>3, Layout DEF SetUpTable, Kept, EntriesKept
<1>5. \A f \in Frames : pte'[m][f] = None
  BY <1>0, <1>2 DEF SetUpTable, SeenInv, SeenKept, TypeOK
<1>6. \A n \in Vms \ {m} : pte'[n] = pte[n] /\ job'[n] = job[n]
  <2>1. at >= Last \/ at < Last
    BY <1>1, Layout
  <2>2. Idle("ready") \in Job
    BY Begun DEF Ops
  <2>3. \A n \in Vms \ {m} : job'[n] = job[n]
    BY <1>0, <1>1, <2>1, <2>2, Stepped DEF SetUpTable
  <2> QED BY <1>0, <1>2, <2>3 DEF TypeOK
<1>7. job'[m].op \in {"setup", "ready"}
  <2>1. Idle("ready") \in Job /\ Idle("ready").op = "ready" /\ (at >= Last \/ at < Last)
    BY SMTT(30), <1>1, Layout, Begun DEF Ops
  <2> QED BY <1>0, <1>1, <2>1, Stepped DEF SetUpTable
<1>8. SeenKept(m)' /\ Agrees(m)'
  BY <1>4, <1>5, <1>7, GuestMemoryAssumption DEF SeenKept, Agrees, AgreesAt
<1>9. \A n \in Vms \ {m} : SeenKept(n)' /\ Agrees(n)'
  BY <1>0, <1>3, <1>6, OthersSeen DEF SeenInv, SetUpTable
<1> QED BY <1>8, <1>9 DEF SeenInv

\* A page that is put back is no other entry's.
LEMMA PutApart ==
    ASSUME TypeOK, Held, NEW m \in Vms, NEW s \in Slots, NEW n \in Vms, NEW t \in Slots,
           n # m \/ t # s, pp_pfns[n][t] \in Pfns,
           \/ pp_pfns[m][s] = None /\ reversed' = reversed
           \/ reversed' = [reversed EXCEPT ![pp_pfns[m][s]] = None]
    PROVE  reversed'[pp_pfns[n][t]] = reversed[pp_pfns[n][t]]
<1>1. pp_pfns[n][t] # None
  BY GuestMemoryAssumption
<1>2. pp_pfns[n][t] # pp_pfns[m][s]
  BY <1>1 DEF Held
<1> QED BY <1>2 DEF TypeOK

LEMMA DropStepSeen ==
    ASSUME IInv, SeenInv, NEW m \in Vms, DropStep(m)
    PROVE  SeenInv'
<1>0. TypeOK /\ Held /\ Kept(m)
  BY DEF IInv
<1> DEFINE at == job[m].at
           p  == pp_pfns[m][at]
<1>1. at \in Slots /\ job[m].last = Last /\ job[m].op = "drop"
  BY <1>0 DEF DropStep, DropPage, Kept, JobKept
<1>2. /\ \/ p = None /\ reversed' = reversed
         \/ reversed' = [reversed EXCEPT ![p] = None]
      /\ pp_pfns' = [pp_pfns EXCEPT ![m][at] = None]
      /\ pte' = [pte EXCEPT ![m] = [f \in Frames |-> IF TableOf(f) = at THEN None ELSE pte[m][f]]]
  BY DEF DropStep, DropPage, PutPage
<1>3. \A n \in Vms \ {m} : pp_pfns'[n] = pp_pfns[n]
  BY <1>0, <1>1, <1>2, EntrySet DEF TypeOK
<1>4. /\ \A n \in Vms \ {m} : pte'[n] = pte[n]
      /\ \A f \in Frames : pte'[m][f] = IF TableOf(f) = at THEN None ELSE pte[m][f]
  BY <1>0, <1>2 DEF TypeOK
<1>5. /\ \A n \in Vms \ {m} : job'[n] = job[n]
      /\ at >= Last => job'[m] = After(m)
      /\ at < Last => job'[m].op = "drop" /\ job'[m].at = at + 1
  BY <1>0, <1>1, Afterwards, Stepped DEF DropStep
<1>6. \A f \in Frames : TableOf(f) < at + 1 => pte'[m][f] = None
  BY <1>0, <1>1, <1>4, Layout DEF SeenInv, SeenKept
<1>7. SeenKept(m)' /\ Agrees(m)'
  <2>1. CASE at >= Last
    <3>1. job'[m].op \in {"setup", "empty", "none"}
      BY <1>0, <1>5, <2>1, Afterwards, Begun DEF Goals, Ops
    <3>2. \A f \in Frames : pte'[m][f] = None
      BY <1>1, <1>6, <2>1, Layout
    <3>3. EntriesKept(m)'
      BY DropStepNext DEF IInv, Kept
    <3>4. \A f \in Frames : pp_pfns'[m][f] = None
      BY <3>1, <3>3, Layout DEF EntriesKept
    <3> QED BY <3>1, <3>2, <3>4, GuestMemoryAssumption DEF SeenKept, Agrees, AgreesAt
  <2>2. CASE at < Last
    BY <1>5, <1>6, <2>2 DEF SeenKept, Agrees
  <2> QED BY <1>1, <2>1, <2>2, Layout
<1>8. ASSUME NEW n \in Vms \ {m} PROVE SeenKept(n)' /\ Agrees(n)'
  <2>1. \A f \in Frames : pp_pfns[n][f] \in Pfns => reversed'[pp_pfns[n][f]] = reversed[pp_pfns[n][f]]
    BY <1>0, <1>1, <1>2, PutApart, Layout
  <2> QED BY <1>0, <1>3, <1>4, <1>5, <2>1, OthersSeen DEF SeenInv
<1> QED BY <1>7, <1>8 DEF SeenInv

LEMMA PageMappedSeen ==
    ASSUME IInv, SeenInv, NEW m \in Vms, PageMapped(m)
    PROVE  SeenInv'
<1>0. TypeOK /\ Held /\ Kept(m)
  BY DEF IInv
<1>a. PICK at \in Frames : at = job[m].at
  BY <1>0, AtFrame DEF PageMapped
<1>1. at \in Frames /\ at \in Slots
  BY Layout
<1>2. PICK p \in Pfns : MapPage(m, p)
  BY DEF PageMapped
<1>3. /\ GetPage(p)
      /\ pp_pfns' = [pp_pfns EXCEPT ![m][at] = p]
      /\ reversed' = [reversed EXCEPT ![p] = at]
      /\ pte' = [pte EXCEPT ![m][at] = p]
  BY <1>2, <1>a DEF MapPage
<1>4. /\ pp_pfns'[m][at] = p /\ \A n \in Vms \ {m} : pp_pfns'[n] = pp_pfns[n]
      /\ \A t \in Slots \ {at} : pp_pfns'[m][t] = pp_pfns[m][t]
  BY <1>0, <1>1, <1>3, EntrySet DEF TypeOK
<1>5. /\ pte'[m][at] = p /\ \A n \in Vms \ {m} : pte'[n] = pte[n]
      /\ \A f \in Frames \ {at} : pte'[m][f] = pte[m][f]
  BY <1>0, <1>1, <1>3, EntrySet DEF TypeOK
<1>6. /\ reversed'[p] = at
      /\ \A n \in Vms, f \in Frames :
            pp_pfns[n][f] \in Pfns => reversed'[pp_pfns[n][f]] = reversed[pp_pfns[n][f]]
  <2>1. p \notin owned
    BY <1>3, Gives
  <2>2. \A n \in Vms, f \in Frames : pp_pfns[n][f] \in Pfns => pp_pfns[n][f] # p
    BY <1>0, <2>1, Layout, GuestMemoryAssumption DEF Held
  <2> QED BY <1>0, <1>1, <1>3, <2>2 DEF TypeOK
<1>7. /\ job'[m].op \in {"ready", "alloc", "load", "free"}
      /\ \A n \in Vms \ {m} : job'[n] = job[n]
  BY LoopOp DEF PageMapped
<1>8. Agrees(m)'
  <2>1. AgreesAt(m, at)'
    BY <1>4, <1>5, <1>6 DEF AgreesAt
  <2>2. \A f \in Frames : AgreesAt(m, f)
    BY DEF PageMapped, SeenInv, Agrees
  <2>3. ASSUME NEW f \in Frames \ {at} PROVE AgreesAt(m, f)'
    <3>1. pte'[m][f] = pte[m][f] /\ pp_pfns'[m][f] = pp_pfns[m][f]
      BY <1>4, <1>5, Layout
    <3> QED BY <1>6, <2>2, <3>1 DEF AgreesAt
  <2> QED BY <2>1, <2>3 DEF Agrees
<1>9. \A n \in Vms \ {m} : SeenKept(n)' /\ Agrees(n)'
  BY <1>0, <1>4, <1>5, <1>6, <1>7, OthersSeen DEF SeenInv
<1> QED BY <1>7, <1>8, <1>9, FramesSeen DEF SeenInv

LEMMA PageFailsSeen ==
    ASSUME IInv, SeenInv, NEW m \in Vms, PageFails(m)
    PROVE  SeenInv'
<1>0. TypeOK /\ Held /\ Kept(m)
  BY DEF IInv
<1>a. PICK at \in Frames : at = job[m].at
  BY <1>0, AtFrame DEF PageFails
<1>1. at \in Frames /\ at \in Slots /\ pp_pfns[m][at] = None
  BY <1>a, Layout DEF PageFails
<1>2. /\ job'[m].op \in {"ready", "free"}
      /\ \A n \in Vms \ {m} : job'[n] = job[n]
  <2>1. RollBack(m).op \in {"ready", "free"}
    BY DEF RollBack, Span, Idle
  <2> QED BY <1>0, <2>1 DEF PageFails, TypeOK
<1>3. /\ \A n \in Vms \ {m} : pp_pfns'[n] = pp_pfns[n]
      /\ \A t \in Slots \ {at} : pp_pfns'[m][t] = pp_pfns[m][t]
      /\ pp_pfns'[m][at] = None \/ pp_pfns'[m][at] \in Uncovered
  <2>1. CASE pp_pfns' = pp_pfns
    BY <1>1, <2>1
  <2>2. CASE \E p \in Uncovered : GetPage(p) /\ pp_pfns' = [pp_pfns EXCEPT ![m][at] = p]
    <3>1. PICK p \in Uncovered : pp_pfns' = [pp_pfns EXCEPT ![m][at] = p]
      BY <2>2
    <3>2. p \in Pfns \cup {None}
      BY GuestMemoryAssumption
    <3> QED BY <1>0, <1>1, <3>1, <3>2, EntrySet DEF TypeOK
  <2> QED BY <1>a, <2>1, <2>2 DEF PageFails
<1>4. pte' = pte /\ reversed' = reversed /\ \A f \in Frames : AgreesAt(m, f)
  BY DEF PageFails, SeenInv, Agrees
<1>5. Agrees(m)'
  <2>1. AgreesAt(m, at)'
    <3>1. pte[m][at] = None
      BY <1>1, <1>4 DEF AgreesAt
    <3> QED BY <1>3, <1>4, <3>1, GuestMemoryAssumption DEF AgreesAt
  <2>2. ASSUME NEW f \in Frames \ {at} PROVE AgreesAt(m, f)'
    <3>1. pp_pfns'[m][f] = pp_pfns[m][f]
      BY <1>3, Layout
    <3> QED BY <1>4, <3>1 DEF AgreesAt
  <2> QED BY <2>1, <2>2 DEF Agrees
<1>6. \A n \in Vms \ {m} : SeenKept(n)' /\ Agrees(n)'
  BY <1>0, <1>2, <1>3, <1>4, OthersSeen DEF SeenInv
<1> QED BY <1>2, <1>5, <1>6, FramesSeen DEF SeenInv

LEMMA FreePageSeen ==
    ASSUME IInv, SeenInv, NEW m \in Vms, FreePage(m)
    PROVE  SeenInv'
<1>0. TypeOK /\ Held /\ Kept(m)
  BY DEF IInv
<1>a. PICK at \in Frames : at = job[m].at
  BY <1>0, AtFrame DEF FreePage
<1> DEFINE p == pp_pfns[m][at]
<1>1. at \in Frames /\ at \in Slots
  BY Layout
<1>2. /\ \/ p = None /\ reversed' = reversed
         \/ reversed' = [reversed EXCEPT ![p] = None]
      /\ pp_pfns' = [pp_pfns EXCEPT ![m][at] = None]
      /\ pte' = [pte EXCEPT ![m][at] = None]
  BY <1>a DEF FreePage, FreeFrame, PutPage
<1>3. /\ pp_pfns'[m][at] = None /\ \A n \in Vms \ {m} : pp_pfns'[n] = pp_pfns[n]
      /\ \A t \in Slots \ {at} : pp_pfns'[m][t] = pp_pfns[m][t]
  BY <1>0, <1>1, <1>2, EntrySet DEF TypeOK
<1>4. /\ pte'[m][at] = None /\ \A n \in Vms \ {m} : pte'[n] = pte[n]
      /\ \A f \in Frames \ {at} : pte'[m][f] = pte[m][f]
  BY <1>0, <1>1, <1>2, EntrySet DEF TypeOK
<1>5. /\ job'[m].op \in {"ready", "alloc", "load", "free"}
      /\ \A n \in Vms \ {m} : job'[n] = job[n]
  BY LoopOp DEF FreePage
<1>6. Agrees(m)'
  <2>1. AgreesAt(m, at)'
    BY <1>3, <1>4, GuestMemoryAssumption DEF AgreesAt
  <2>2. \A f \in Frames : AgreesAt(m, f)
    BY DEF FreePage, SeenInv, Agrees
  <2>3. ASSUME NEW f \in Frames \ {at} PROVE AgreesAt(m, f)'
    <3>1. pte'[m][f] = pte[m][f] /\ pp_pfns'[m][f] = pp_pfns[m][f] /\ f \in Slots /\ f # at
      BY <1>3, <1>4, Layout
    <3>2. pp_pfns[m][f] \in Pfns => reversed'[pp_pfns[m][f]] = reversed[pp_pfns[m][f]]
      BY <1>0, <1>1, <1>2, <3>1, PutApart
    <3> QED BY <2>2, <3>1, <3>2 DEF AgreesAt
  <2> QED BY <2>1, <2>3 DEF Agrees
<1>7. ASSUME NEW n \in Vms \ {m} PROVE SeenKept(n)' /\ Agrees(n)'
  <2>1. \A f \in Frames : pp_pfns[n][f] \in Pfns => reversed'[pp_pfns[n][f]] = reversed[pp_pfns[n][f]]
    BY <1>0, <1>1, <1>2, PutApart, Layout
  <2> QED BY <1>0, <1>3, <1>4, <1>5, <2>1, OthersSeen DEF SeenInv
<1> QED BY <1>5, <1>6, <1>7, FramesSeen DEF SeenInv

\* The actions that only change the job.
LEMMA JobsSeen ==
    ASSUME IInv, SeenInv, NEW m \in Vms,
           \/ CheckLimit(m) \/ AddUsed(m) \/ SetUpFails(m) \/ PagePresent(m)
           \/ \E goal \in {"reset", "destroy"} : Ends(m, goal)
           \/ \E op \in {"alloc", "load", "free"}, f, l \in Frames : Asks(m, op, f, l)
    PROVE  SeenInv'
<1>0. TypeOK
  BY DEF IInv
<1>1. CASE PagePresent(m)
  <2>1. /\ job'[m].op \in {"ready", "alloc", "load", "free"}
        /\ \A n \in Vms \ {m} : job'[n] = job[n]
    BY <1>1, LoopOp DEF PagePresent
  <2>2. SeenKept(m)'
    BY <2>1, FramesSeen
  <2> QED BY <1>0, <1>1, <2>1, <2>2, JobSeen DEF PagePresent
<1>2. CASE CheckLimit(m)
  <2>1. job'[m].op = "checked" /\ \A n \in Vms \ {m} : job'[n] = job[n]
    BY <1>0, <1>2 DEF CheckLimit, TypeOK, Idle
  <2>2. SeenKept(m)'
    BY <1>2, <2>1 DEF CheckLimit, SeenInv, SeenKept
  <2> QED BY <1>0, <1>2, <2>1, <2>2, JobSeen DEF CheckLimit
<1>3. CASE AddUsed(m)
  <2>1. job'[m].op = "setup" /\ \A n \in Vms \ {m} : job'[n] = job[n]
    BY <1>0, <1>3 DEF AddUsed, TypeOK, SetUp
  <2>2. SeenKept(m)'
    BY <1>3, <2>1 DEF AddUsed, SeenInv, SeenKept
  <2> QED BY <1>0, <1>3, <2>1, <2>2, JobSeen DEF AddUsed
<1>4. ASSUME NEW goal, job' = [job EXCEPT ![m] = Drop(goal)], UNCHANGED <<pp_pfns, pte, reversed>>,
             job[m].op # "drop"
      PROVE  SeenInv'
  <2>1. job'[m].op = "drop" /\ job'[m].at = 0 /\ \A n \in Vms \ {m} : job'[n] = job[n]
    BY <1>0, <1>4 DEF TypeOK, Drop
  <2>2. SeenKept(m)'
    BY <2>1, Layout DEF SeenKept
  <2> QED BY <1>0, <1>4, <2>1, <2>2, JobSeen
<1>5. CASE SetUpFails(m)
  BY <1>4, <1>5 DEF SetUpFails
<1>6. ASSUME NEW goal \in {"reset", "destroy"}, Ends(m, goal) PROVE SeenInv'
  BY <1>4, <1>6 DEF Ends
<1>7. ASSUME NEW op \in {"alloc", "load", "free"}, NEW f \in Frames, NEW l \in Frames, Asks(m, op, f, l)
      PROVE  SeenInv'
  <2>1. job'[m].op = op /\ \A n \in Vms \ {m} : job'[n] = job[n]
    BY <1>0, <1>7 DEF Asks, TypeOK, Span
  <2>2. SeenKept(m)'
    BY <2>1, FramesSeen
  <2> QED BY <1>0, <1>7, <2>1, <2>2, JobSeen DEF Asks
<1> QED BY <1>1, <1>2, <1>3, <1>5, <1>6, <1>7

LEMMA SeenNext == Zeroed /\ IInv /\ SeenInv /\ [Next]_vars => SeenInv'
<1> SUFFICES ASSUME Zeroed, IInv, SeenInv, [Next]_vars PROVE SeenInv'
  OBVIOUS
<1>1. CASE UNCHANGED vars
  BY <1>1 DEF SeenInv, SeenKept, Agrees, AgreesAt, vars
<1>2. CASE AllocReversedPfns \/ FreeReversedPfns
  <2>1. UNCHANGED <<pp_pfns, pte, reversed, job>>
    BY <1>2 DEF AllocReversedPfns, FreeReversedPfns
  <2> QED BY <2>1 DEF SeenInv, SeenKept, Agrees, AgreesAt
<1>3. CASE \E m \in Vms :
        \/ CheckLimit(m) \/ AddUsed(m) \/ SetUpTable(m) \/ SetUpFails(m)
        \/ \E goal \in {"reset", "destroy"} : Ends(m, goal)
        \/ DropStep(m)
        \/ \E op \in {"alloc", "load", "free"}, f, l \in Frames : Asks(m, op, f, l)
        \/ PagePresent(m) \/ PageMapped(m) \/ PageFails(m) \/ FreePage(m)
  BY <1>3, JobsSeen, SetUpTableSeen, DropStepSeen, PageMappedSeen, PageFailsSeen, FreePageSeen
<1> QED BY <1>1, <1>2, <1>3 DEF Next

\* On a host that clears the pages it gives, what the guest sees, the list of pages and the
\* reversed map agree too.
THEOREM MemoryStaysExact == Zeroed => (Spec => []MemoryExact)
<1> SUFFICES ASSUME Zeroed PROVE Spec => []MemoryExact
  OBVIOUS
<1>1. Init => SeenInv
  <2> SUFFICES ASSUME Init, NEW m \in Vms PROVE SeenKept(m) /\ Agrees(m)
    BY DEF SeenInv
  <2>1. job[m].op = "none"
    BY DEF Init, Idle
  <2>2. \A f \in Frames : pte[m][f] = None /\ pp_pfns[m][f] = None
    BY Layout DEF Init
  <2> QED BY <2>1, <2>2, GuestMemoryAssumption DEF SeenKept, Agrees, AgreesAt
<1>2. IInv /\ SeenInv /\ [Next]_vars => SeenInv'
  BY SeenNext
<1>3. IInv /\ SeenInv => MemoryExact
  BY AccountedInIInv DEF MemoryExact, TablesExact, TablesAgree, SeenInv, Agrees, AgreesAt
<1> QED BY Invariance, <1>1, <1>2, <1>3, PTL DEF Spec

-----------------------------------------------------------------------------
(* The allocator of Windows.                                               *)

Mdls   == DOMAIN use_count
InMdls == UNION Mdls
Owned  == (InMdls \ pages_unused) \cup mapped_allocated

\* BucketsExact with the types of the variables.
HostInv ==
    /\ Mdls \in SUBSET SUBSET HostPfns
    /\ use_count \in [Mdls -> Nat]
    /\ pages_unused \subseteq InMdls
    /\ mapped_allocated \subseteq HostPfns
    /\ \A b, c \in Mdls : b = c \/ b \cap c = {}
    /\ InMdls \cap mapped_allocated = {}
    /\ \A b \in Mdls : use_count[b] = Cardinality(b \ pages_unused) /\ use_count[b] > 0
    /\ pages_allocated = Cardinality(InMdls \ pages_unused)

\* The operators of the instance.
LEMMA HostOperators ==
    /\ \A S : Host!Cardinality(S) = Cardinality(S) /\ (Host!IsFiniteSet(S) <=> IsFiniteSet(S))
    /\ Host!mdl_list = Mdls /\ Host!MdlPages = InMdls /\ Host!Owned = Owned
    /\ Host!HostFree = HostPfns \ (InMdls \cup mapped_allocated)
    /\ Host!Owned' = Owned'
<1>1. ASSUME NEW S PROVE Host!Cardinality(S) = Cardinality(S) /\ (Host!IsFiniteSet(S) <=> IsFiniteSet(S))
  BY DEF Host!Cardinality, Cardinality, Host!IsFiniteSet, IsFiniteSet
<1> QED BY <1>1 DEF Host!mdl_list, Host!MdlPages, Host!Owned, Host!HostFree, Mdls, InMdls, Owned

\* Sets of pages are finite.
LEMMA HostFinite ==
    ASSUME NEW S \in SUBSET HostPfns
    PROVE  /\ IsFiniteSet(S) /\ Cardinality(S) \in Nat
           /\ \A p \in S : Cardinality(S \ {p}) = Cardinality(S) - 1
           /\ \A p \in HostPfns \ S : Cardinality(S \cup {p}) = Cardinality(S) + 1
<1>1. IsFiniteSet(HostPfns)
  BY HostAssumption, HostOperators DEF Host!HostPagesAssumption
<1>2. IsFiniteSet(S)
  BY <1>1, FS_Subset
<1> QED BY <1>2, FS_CardinalityType, FS_AddElement, FS_RemoveElement

LEMMA HostInit == Host!Init => HostInv
<1> SUFFICES ASSUME Host!Init PROVE HostInv
  OBVIOUS
<1>1. Mdls = {} /\ InMdls = {}
  BY DEF Host!Init, Mdls, InMdls
<1>2. use_count \in [Mdls -> Nat] /\ pages_unused = {} /\ mapped_allocated = {} /\ pages_allocated = 0
  BY <1>1 DEF Host!Init, Mdls
<1> QED BY <1>1, <1>2, FS_EmptySet DEF HostInv

\* A page is got from a bucket of the list, or of a list that has one bucket more, which is
\* kept for this page.
Lists(mdls, counts, unused, p) ==
    /\ mdls \in SUBSET SUBSET HostPfns /\ counts \in [mdls -> Nat]
    /\ unused \subseteq UNION mdls /\ mapped_allocated \subseteq HostPfns
    /\ \A b, c \in mdls : b = c \/ b \cap c = {}
    /\ (UNION mdls) \cap mapped_allocated = {}
    /\ \A b \in mdls : counts[b] = Cardinality(b \ unused) /\ (counts[b] > 0 \/ p \in b)
    /\ pages_allocated = Cardinality((UNION mdls) \ unused)

LEMMA GotExact ==
    ASSUME NEW mdls, NEW counts, NEW unused, NEW p,
           Lists(mdls, counts, unused, p), Host!GetUnused(p, counts, unused)
    PROVE  /\ HostInv'
           /\ p \in unused
           /\ Owned' = ((UNION mdls) \ unused) \cup {p} \cup mapped_allocated
<1> USE DEF Lists
<1>1. PICK b \in mdls :
        /\ p \in b /\ p \in unused
        /\ use_count' = [counts EXCEPT ![b] = @ + 1]
        /\ pages_unused' = unused \ {p}
        /\ pages_allocated' = pages_allocated + 1
        /\ mapped_allocated' = mapped_allocated
  BY DEF Host!GetUnused
<1>2. /\ Mdls' = mdls
      /\ use_count' \in [mdls -> Nat]
      /\ \A c \in mdls : use_count'[c] = IF c = b THEN counts[c] + 1 ELSE counts[c]
  BY <1>1 DEF Mdls
<1>3. InMdls' = (UNION mdls)
  BY <1>2 DEF InMdls
<1>4. \A c \in mdls : use_count'[c] = Cardinality(c \ pages_unused') /\ use_count'[c] > 0
  <2> SUFFICES ASSUME NEW c \in mdls
               PROVE  use_count'[c] = Cardinality(c \ pages_unused') /\ use_count'[c] > 0
    OBVIOUS
  <2>1. c \ unused \in SUBSET HostPfns
    OBVIOUS
  <2>2. CASE c = b
    <3>1. c \ pages_unused' = (c \ unused) \cup {p} /\ p \in HostPfns \ (c \ unused)
      BY <1>1, <2>2
    <3>2. Cardinality(c \ pages_unused') = Cardinality(c \ unused) + 1
      BY <2>1, <3>1, HostFinite
    <3> QED BY <1>2, <2>2, <3>2
  <2>3. CASE c # b
    <3>1. p \notin c
      BY <1>1, <2>3
    <3>2. c \ pages_unused' = c \ unused
      BY <1>1, <3>1
    <3> QED BY <1>2, <2>3, <3>1, <3>2
  <2> QED BY <2>2, <2>3
<1>5. /\ p \in (UNION mdls) /\ (UNION mdls) \subseteq HostPfns
  BY <1>1
<1>6. (UNION mdls) \ pages_unused' = ((UNION mdls) \ unused) \cup {p}
  BY <1>1, <1>5
<1>7. pages_allocated' = Cardinality((UNION mdls) \ pages_unused')
  <2>1. (UNION mdls) \ unused \in SUBSET HostPfns /\ p \in HostPfns \ ((UNION mdls) \ unused)
    BY <1>1, <1>5
  <2> QED BY <1>1, <1>6, <2>1, HostFinite
<1>8. HostInv'
  BY <1>1, <1>2, <1>3, <1>4, <1>7 DEF HostInv
<1> QED BY <1>1, <1>3, <1>6, <1>8 DEF Owned

\* A page that is got was nobody's.
LEMMA GetPageNext ==
    ASSUME HostInv, NEW p \in HostPfns, Host!GetPage(p)
    PROVE  HostInv' /\ p \notin Owned /\ Owned' = Owned \cup {p}
<1>1. CASE Host!GetUnused(p, use_count, pages_unused)
  <2>1. PICK mdls, counts, unused : mdls = Mdls /\ counts = use_count /\ unused = pages_unused
    OBVIOUS
  <2>2. Lists(mdls, counts, unused, p)
    BY <2>1 DEF Lists, HostInv, InMdls
  <2>3. Host!GetUnused(p, counts, unused)
    BY <1>1, <2>1
  <2>4. HostInv' /\ p \in unused /\ Owned' = ((UNION mdls) \ unused) \cup {p} \cup mapped_allocated
    BY <2>2, <2>3, GotExact
  <2> QED BY <2>1, <2>4 DEF Owned, HostInv, InMdls
<1>2. CASE pages_unused = {} /\ Host!NewBucket(p)
  <2>1. PICK b \in SUBSET (HostPfns \ (InMdls \cup mapped_allocated)) :
          Host!GetUnused(p, [c \in Mdls \cup {b} |-> IF c = b THEN 0 ELSE use_count[c]], b)
    BY <1>2, HostOperators DEF Host!NewBucket
  <2>2. p \in b
    BY <2>1 DEF Host!GetUnused
  <2>3. \A c \in Mdls : c \cap b = {} /\ c # b
    BY <2>1, <2>2 DEF InMdls
  <2>0. PICK mdls, counts : /\ mdls = Mdls \cup {b}
                            /\ counts = [c \in mdls |-> IF c = b THEN 0 ELSE use_count[c]]
    OBVIOUS
  <2>4. /\ mdls \in SUBSET SUBSET HostPfns /\ counts \in [mdls -> Nat]
        /\ (UNION mdls) = InMdls \cup b
    BY <2>0, <2>1 DEF HostInv, InMdls
  <2>5. \A c, d \in mdls : c = d \/ c \cap d = {}
    BY <2>0, <2>3 DEF HostInv
  <2>6. (UNION mdls) \cap mapped_allocated = {} /\ b \subseteq (UNION mdls)
    BY <2>1, <2>4 DEF HostInv
  <2>7. \A c \in mdls : counts[c] = Cardinality(c \ b) /\ (counts[c] > 0 \/ p \in c)
    <3> SUFFICES ASSUME NEW c \in mdls
                 PROVE  counts[c] = Cardinality(c \ b) /\ (counts[c] > 0 \/ p \in c)
      OBVIOUS
    <3>1. CASE c = b
      <4>1. c \ b = {}
        BY <3>1
      <4> QED BY <2>0, <2>2, <3>1, <4>1, FS_EmptySet
    <3>2. CASE c \in Mdls
      <4>1. c \ b = c \ pages_unused
        BY <1>2, <2>3, <3>2
      <4> QED BY <2>0, <2>3, <3>2, <4>1 DEF HostInv
    <3> QED BY <2>0, <3>1, <3>2
  <2>8. (UNION mdls) \ b = InMdls \ pages_unused
    BY <1>2, <2>1, <2>4
  <2>9. pages_allocated = Cardinality((UNION mdls) \ b)
    BY <2>8 DEF HostInv
  <2>10. mapped_allocated \subseteq HostPfns
    BY DEF HostInv
  <2>11. Host!GetUnused(p, counts, b)
    BY <2>0, <2>1
  <2>12. HostInv' /\ Owned' = ((UNION mdls) \ b) \cup {p} \cup mapped_allocated
    <3>1. Lists(mdls, counts, b, p)
      BY <2>4, <2>5, <2>6, <2>7, <2>9, <2>10 DEF Lists
    <3> QED BY <2>11, <3>1, GotExact
  <2> QED BY <2>1, <2>2, <2>8, <2>12 DEF Owned
<1>3. CASE pages_unused = {} /\ Host!NewMapped(p)
  <2>1. /\ p \in HostPfns \ (InMdls \cup mapped_allocated)
        /\ mapped_allocated' = mapped_allocated \cup {p}
        /\ UNCHANGED <<use_count, pages_unused, pages_allocated>>
    BY <1>3, HostOperators DEF Host!NewMapped
  <2>2. Mdls' = Mdls /\ InMdls' = InMdls
    BY <2>1 DEF Mdls, InMdls
  <2> QED BY <2>1, <2>2 DEF HostInv, Owned
<1> QED BY <1>1, <1>2, <1>3 DEF Host!GetPage

\* A page is put back by its holder; the last page of a bucket takes the bucket away.
LEMMA PutMdlNext ==
    ASSUME HostInv, NEW p \in Owned, Host!PutMdl(p)
    PROVE  HostInv' /\ Owned' = Owned \ {p}
<1>1. p \in InMdls
  BY HostOperators DEF Host!PutMdl
<1>2. PICK b : b = Host!MdlOf(p)
  OBVIOUS
<1>3. b \in Mdls /\ p \in b
  BY <1>1, <1>2, HostOperators DEF Host!MdlOf, InMdls
<1>4. /\ IF use_count[b] = 1
         THEN /\ use_count' = [c \in Mdls \ {b} |-> use_count[c]]
              /\ pages_unused' = pages_unused \ b
         ELSE /\ use_count' = [use_count EXCEPT ![b] = @ - 1]
              /\ pages_unused' = pages_unused \cup {p}
      /\ pages_allocated' = pages_allocated - 1
      /\ mapped_allocated' = mapped_allocated
  BY <1>2, HostOperators DEF Host!PutMdl
<1>5. p \notin pages_unused /\ p \notin mapped_allocated /\ InMdls \subseteq HostPfns
  BY <1>1 DEF HostInv, Owned, InMdls
<1>6. b \ pages_unused \in SUBSET HostPfns /\ p \in b \ pages_unused
  BY <1>3, <1>5 DEF HostInv
<1>7. Cardinality((b \ pages_unused) \ {p}) = use_count[b] - 1
  <2>1. Cardinality((b \ pages_unused) \ {p}) = Cardinality(b \ pages_unused) - 1
    BY <1>6, HostFinite
  <2>2. use_count[b] = Cardinality(b \ pages_unused)
    BY <1>3 DEF HostInv
  <2> QED BY <2>1, <2>2
<1>8. ASSUME NEW c \in Mdls, c # b PROVE p \notin c /\ c \cap b = {}
  BY <1>3, <1>8 DEF HostInv
<1>9. /\ InMdls' \ pages_unused' = (InMdls \ pages_unused) \ {p}
      /\ pages_unused' \subseteq InMdls' /\ InMdls' \subseteq InMdls
      /\ Mdls' \subseteq Mdls /\ use_count' \in [Mdls' -> Nat]
      /\ \A c \in Mdls' : use_count'[c] = Cardinality(c \ pages_unused') /\ use_count'[c] > 0
  <2>1. CASE use_count[b] = 1
    <3>1. b \ pages_unused = {p}
      <4>1. (b \ pages_unused) \ {p} \in SUBSET HostPfns /\ Cardinality((b \ pages_unused) \ {p}) = 0
        BY <1>6, <1>7, <2>1
      <4>2. (b \ pages_unused) \ {p} = {}
        BY <4>1, HostFinite, FS_EmptySet
      <4> QED BY <1>6, <4>2
    <3>2. Mdls' = Mdls \ {b} /\ use_count' = [c \in Mdls \ {b} |-> use_count[c]]
      BY <1>4, <2>1 DEF Mdls
    <3>3. InMdls' = InMdls \ b
      BY <1>3, <1>8, <3>2 DEF InMdls
    <3>4. pages_unused' = pages_unused \ b
      BY <1>4, <2>1
    <3>5. \A c \in Mdls' : c \ pages_unused' = c \ pages_unused
      BY <1>8, <3>2, <3>4
    <3>6. /\ InMdls' \ pages_unused' = (InMdls \ pages_unused) \ {p}
          /\ pages_unused' \subseteq InMdls' /\ InMdls' \subseteq InMdls
      BY <3>1, <3>3, <3>4, <1>3 DEF HostInv
    <3>7. Mdls' \subseteq Mdls /\ use_count' \in [Mdls' -> Nat]
      BY <3>2 DEF HostInv
    <3>8. \A c \in Mdls' : use_count'[c] = use_count[c]
      BY <3>2
    <3> QED BY <3>5, <3>6, <3>7, <3>8 DEF HostInv
  <2>2. CASE use_count[b] # 1
    <3>1. /\ use_count' = [use_count EXCEPT ![b] = @ - 1]
          /\ pages_unused' = pages_unused \cup {p}
      BY <1>4, <2>2
    <3>2. /\ Mdls' = Mdls
          /\ \A c \in Mdls : use_count'[c] = IF c = b THEN use_count[c] - 1 ELSE use_count[c]
      BY <3>1 DEF HostInv, Mdls
    <3>3. InMdls' = InMdls
      BY <3>2 DEF InMdls
    <3>4. \A c \in Mdls : use_count'[c] = Cardinality(c \ pages_unused')
      <4> SUFFICES ASSUME NEW c \in Mdls PROVE use_count'[c] = Cardinality(c \ pages_unused')
        OBVIOUS
      <4>1. CASE c = b
        <5>1. c \ pages_unused' = (b \ pages_unused) \ {p}
          BY <3>1, <4>1
        <5> QED BY <1>7, <3>2, <4>1, <5>1
      <4>2. CASE c # b
        <5>1. c \ pages_unused' = c \ pages_unused
          BY <1>8, <3>1, <4>2
        <5> QED BY <3>2, <4>2, <5>1 DEF HostInv
      <4> QED BY <4>1, <4>2
    <3>5. \A c \in Mdls : use_count[c] \in Nat /\ use_count[c] > 0
      BY DEF HostInv
    <3>6. \A c \in Mdls : use_count'[c] \in Nat /\ use_count'[c] > 0
      BY <2>2, <3>2, <3>5
    <3>7. use_count' \in [Mdls -> Nat]
      <4>1. use_count' = [c \in Mdls |-> use_count'[c]]
        BY <3>1 DEF HostInv
      <4> QED BY <3>6, <4>1
    <3>8. /\ InMdls' \ pages_unused' = (InMdls \ pages_unused) \ {p}
          /\ pages_unused' \subseteq InMdls'
      BY <1>1, <3>1, <3>3 DEF HostInv
    <3> QED BY <3>2, <3>3, <3>4, <3>6, <3>7, <3>8
  <2> QED BY <2>1, <2>2
<1>10. pages_allocated' = Cardinality(InMdls' \ pages_unused')
  <2>1. InMdls \ pages_unused \in SUBSET HostPfns /\ p \in InMdls \ pages_unused
    BY <1>1, <1>5
  <2>2. Cardinality((InMdls \ pages_unused) \ {p}) = Cardinality(InMdls \ pages_unused) - 1
    BY <2>1, HostFinite
  <2>3. pages_allocated = Cardinality(InMdls \ pages_unused)
    BY DEF HostInv
  <2> QED BY <1>4, <1>9, <2>2, <2>3
<1>11. HostInv'
  <2>1. /\ Mdls' \in SUBSET SUBSET HostPfns /\ mapped_allocated' \subseteq HostPfns
        /\ \A c, d \in Mdls' : c = d \/ c \cap d = {}
        /\ InMdls' \cap mapped_allocated' = {}
    BY <1>4, <1>9 DEF HostInv
  <2> QED BY <1>9, <1>10, <2>1 DEF HostInv
<1>12. Owned' = Owned \ {p}
  BY <1>4, <1>5, <1>9 DEF Owned
<1> QED BY <1>11, <1>12

LEMMA PutPageNext ==
    ASSUME HostInv, NEW p \in Owned, Host!PutPage(p)
    PROVE  HostInv' /\ Owned' = Owned \ {p}
<1>1. CASE Host!PutMapped(p)
  <2>1. /\ p \in mapped_allocated /\ mapped_allocated' = mapped_allocated \ {p}
        /\ UNCHANGED <<use_count, pages_unused, pages_allocated>>
    BY <1>1 DEF Host!PutMapped
  <2>2. Mdls' = Mdls /\ InMdls' = InMdls
    BY <2>1 DEF Mdls, InMdls
  <2> QED BY <2>1, <2>2 DEF HostInv, Owned
<1> QED BY <1>1, PutMdlNext DEF Host!PutPage

LEMMA FreeAllNext ==
    ASSUME Host!FreeAll
    PROVE  HostInv' /\ Owned' = {}
<1>1. Mdls' = {} /\ InMdls' = {}
  BY DEF Host!FreeAll, Mdls, InMdls
<1>2. /\ use_count' \in [Mdls' -> Nat] /\ pages_unused' = {} /\ mapped_allocated' = {}
      /\ pages_allocated' = 0
  BY <1>1 DEF Host!FreeAll, Mdls
<1> QED BY <1>1, <1>2, FS_EmptySet DEF HostInv, Owned

\* Each operation keeps the lists exact and is an operation of the pool.
LEMMA HostNext ==
    ASSUME HostInv, [Host!Next]_hostVars
    PROVE  HostInv' /\ (Host!Pool!Next \/ Owned' = Owned)
<1>1. CASE UNCHANGED hostVars
  <2>1. UNCHANGED <<use_count, pages_unused, mapped_allocated, pages_allocated>>
    BY <1>1 DEF hostVars
  <2>2. Mdls' = Mdls /\ InMdls' = InMdls
    BY <2>1 DEF Mdls, InMdls
  <2> QED BY <2>1, <2>2 DEF HostInv, Owned
<1>2. Host!Owned = Owned /\ Host!Owned' = Owned'
  BY HostOperators
<1>3. CASE Host!FreeAll
  BY <1>2, <1>3, FreeAllNext DEF Host!Pool!Next, Host!Pool!PutAll
<1>4. ASSUME NEW p \in HostPfns, Host!GetPage(p) PROVE HostInv' /\ Host!Pool!Next
  BY <1>2, <1>4, GetPageNext DEF Host!Pool!Next, Host!Pool!Get
<1>5. ASSUME NEW p \in Owned, Host!PutPage(p) PROVE HostInv' /\ Host!Pool!Next
  <2>1. p \in HostPfns
    BY DEF Owned, InMdls, HostInv
  <2> QED BY <1>2, <1>5, <2>1, PutPageNext DEF Host!Pool!Next, Host!Pool!Put
<1> QED BY <1>1, <1>2, <1>3, <1>4, <1>5 DEF Host!Next

\* With any pages and any size of a bucket, no page is on two lists of the allocator of the
\* Windows driver, and its counts are those of the pages that are held.
THEOREM BucketsStayExact == Host!Spec => []BucketsExact
<1>1. HostInv => BucketsExact
  BY HostOperators DEF HostInv, BucketsExact, Host!BucketsExact, Host!PagesOnce
<1>2. HostInv /\ [Host!Next]_(Host!vars) => HostInv'
  BY HostNext, HostOperators DEF Host!vars, hostVars
<1> QED BY <1>1, <1>2, HostInit, PTL DEF Host!Spec

\* That allocator is a pool: a page that is held is not given out again.
THEOREM PoolImplemented == Host!Spec => ImplementsPool
<1>1. Host!Init => Host!Pool!Init
  BY HostOperators DEF Host!Init, Host!Pool!Init, Owned, InMdls, Mdls
<1>2. HostInv /\ [Host!Next]_(Host!vars) => [Host!Pool!Next]_(Host!Owned)
  BY HostNext, HostOperators DEF Host!vars, hostVars
<1>3. HostInv /\ [Host!Next]_(Host!vars) => HostInv'
  BY HostNext, HostOperators DEF Host!vars, hostVars
<1> QED BY <1>1, <1>2, <1>3, HostInit, PTL
        DEF Host!Spec, ImplementsPool, Host!ImplementsPool, Host!Pool!Spec
=============================================================================
