------------------------ MODULE DebugSectionsProofs ------------------------
(***************************************************************************)
(* Proofs about module DebugSections, for any finite sets of threads and   *)
(* processes, any number of records and any capacities, whether or not a   *)
(* writer is preempted and a wakeup remembered.                            *)
(*                                                                         *)
(* What a section is to whom depends on where its maker is: listed without *)
(* a reference, referenced by its maker alone, or published.  Only a       *)
(* published section is written to by another or folded, and it keeps the  *)
(* reference of its pointer until the reader unlinks it.                   *)
(***************************************************************************)
EXTENDS DebugSections, FiniteSetTheorems, SequenceTheorems, TLAPS

Listed(i) == \E k \in 1 .. Len(sections) : sections[k] = i

\* The section of i is known to others than its maker.
Published(i) == Listed(i) /\ wpc[i] \notin {"get_new", "lock_new"}

Inside(i) == {w \in Writers : using[w] = i /\ wpc[w] \in {"lock", "lock_new"}}

Busy(w) == wpc[w] \in {"list", "get_new", "get", "lock_new", "lock"}

\* Where a pointer leads to.
Leads(i, o) == i \in Writers /\ Published(i) /\ ~folded[i] /\ Owner(i) = o

\* A writer uses the section it makes, or one that is published and its owner's.
UsingKept(w) ==
    /\ ~Busy(w) => using[w] = None
    /\ wpc[w] \in {"list", "get_new", "lock_new"} => using[w] = w
    /\ wpc[w] \in {"get", "lock"} => Leads(using[w], Owner(w))

PointersKept ==
    \A o \in Processes \cup {driver} : section[o] # None => Leads(section[o], o)

\* A section, from its maker to the reader that frees it.
SectionKept(i) ==
    /\ mem[i] = "unused" => ~Listed(i) /\ wpc[i] \notin {"list", "get_new", "lock_new"}
    /\ mem[i] = "live" => Listed(i) \/ wpc[i] = "list"
    /\ wpc[i] = "list" => mem[i] = "live" /\ ~Listed(i)
    /\ wpc[i] \in {"get_new", "lock_new"} => Listed(i)
    /\ Listed(i) => mem[i] = "live" \/ (preempt /\ wpc[i] = "get_new")
    /\ folded[i] => Published(i)
    /\ ~Published(i) => buffer[i] = <<>>

\* A section is on the list once, and before the reader once.
ListedOnce ==
    /\ \A k, l \in 1 .. Len(sections) : sections[k] = sections[l] => k = l
    /\ \A k, l \in 1 .. Len(todo) : todo[k] = todo[l] => k = l

ReaderKept ==
    /\ \A k \in 1 .. Len(todo) : Listed(todo[k])
    /\ rpc \in {"sleep", "gone"} => todo = <<>>
    /\ rpc = "visit" => todo # <<>> /\ mem[Head(todo)] = "live"

Counts(i) ==
    refcount[i] = Cardinality(Inside(i)) + Cardinality({i} \cap Visited)
                    + IF Published(i) THEN 1 ELSE 0

Alive ==
    /\ \A w \in Writers : UsingKept(w) /\ SectionKept(w) /\ Counts(w)
    /\ PointersKept /\ ListedOnce /\ ReaderKept /\ total_filled = Cardinality(Held)

\* After co_debug_free nothing is left, and nobody comes.
Ended ==
    /\ rpc = "gone" /\ sections = <<>>
    /\ \A w \in Writers : ~Busy(w) /\ wpc[w] # "wake" /\ refcount[w] = 0 /\ mem[w] # "live"
    /\ \A p \in Processes : wpc[p] = "gone"

\* A record that comes later than another.
Before(e, f) == e # f /\ (e[1] = f[1] /\ e[1] \in Processes => e[2] < f[2])

InOrder(s) == \A k, l \in 1 .. Len(s) : k < l => Before(s[k], s[l])

\* Each record is in one place, those of a process in its own section and in order.
LogKept ==
    /\ InOrder(log)
    /\ \A i \in Writers : InOrder(buffer[i])
    /\ \A i \in Writers : \A k \in 1 .. Len(log) : \A l \in 1 .. Len(buffer[i]) :
           Before(log[k], buffer[i][l])
    /\ \A i, j \in Writers : i # j =>
           \A k \in 1 .. Len(buffer[i]) : \A l \in 1 .. Len(buffer[j]) :
               buffer[i][k] # buffer[j][l]
    /\ \A i \in Writers : \A k \in 1 .. Len(buffer[i]) : Owner(buffer[i][k][1]) = Owner(i)

\* A record is not older than its number, and that of a call under way is nowhere yet.
Given(e) == e[2] <= records[e[1]] /\ (Busy(e[1]) => e[2] < records[e[1]])

NumbersKept ==
    /\ \A w \in Writers : records[w] <= MaxRecords[w] /\ (Busy(w) => records[w] >= 1)
    /\ \A k \in 1 .. Len(log) : Given(log[k])
    /\ \A i \in Writers : \A k \in 1 .. Len(buffer[i]) : Given(buffer[i][k])

IInv ==
    /\ TypeOK /\ LogKept /\ NumbersKept
    /\ ~preempt => ~crashed
    /\ ~crashed => IF unloaded THEN Ended ELSE Alive

-----------------------------------------------------------------------------
(* Sequences.                                                              *)

LEMMA Tails ==
    ASSUME NEW S, NEW q \in Seq(S), q # <<>>
    PROVE  /\ 1 \in 1 .. Len(q) /\ Head(q) = q[1] /\ Head(q) \in S
           /\ Tail(q) \in Seq(S) /\ Len(Tail(q)) = Len(q) - 1
           /\ \A k \in 1 .. Len(Tail(q)) : k + 1 \in 1 .. Len(q) /\ Tail(q)[k] = q[k + 1]
<1>1. Len(q) \in Nat /\ Len(q) # 0
  BY LenProperties, EmptySeq
<1>2. /\ Head(q) \in S /\ Tail(q) \in Seq(S) /\ Len(Tail(q)) = Len(q) - 1
      /\ \A k \in 1 .. Len(Tail(q)) : Tail(q)[k] = q[k + 1]
  BY HeadTailProperties
<1> QED BY <1>1, <1>2

LEMMA Appended ==
    ASSUME NEW S, NEW q \in Seq(S), NEW e \in S
    PROVE  /\ q \o <<e>> = Append(q, e) /\ Append(q, e) \in Seq(S) /\ Append(q, e) # <<>>
           /\ Len(Append(q, e)) = Len(q) + 1 /\ Len(q) \in Nat
           /\ Append(q, e)[Len(q) + 1] = e
           /\ \A k \in 1 .. Len(q) : Append(q, e)[k] = q[k]
           /\ \A k \in 1 .. Len(q) + 1 : k \in 1 .. Len(q) \/ k = Len(q) + 1
<1>1. Len(q) \in Nat
  BY LenProperties
<1>2. /\ Append(q, e) \in Seq(S) /\ Append(q, e) # <<>> /\ Len(Append(q, e)) = Len(q) + 1
      /\ Append(q, e)[Len(q) + 1] = e
      /\ \A k \in 1 .. Len(q) : Append(q, e)[k] = q[k]
  BY AppendProperties
<1>3. q \o <<e>> = Append(q, e)
  BY AppendIsConcat
<1> QED BY <1>1, <1>2, <1>3

\* co_list_del keeps the others, in their order, once.
LEMMA UnlinkedKeeps ==
    ASSUME NEW S, NEW q \in Seq(S), NEW i,
           \A k, l \in 1 .. Len(q) : q[k] = q[l] => k = l
    PROVE  /\ Unlinked(q, i) \in Seq(S)
           /\ q = <<>> => Unlinked(q, i) = <<>>
           /\ \A k \in 1 .. Len(Unlinked(q, i)) :
                 \E l \in 1 .. Len(q) : Unlinked(q, i)[k] = q[l]
           /\ \A k \in 1 .. Len(Unlinked(q, i)) : Unlinked(q, i)[k] # i
           /\ \A l \in 1 .. Len(q) : q[l] # i =>
                 \E k \in 1 .. Len(Unlinked(q, i)) : Unlinked(q, i)[k] = q[l]
           /\ \A k, l \in 1 .. Len(Unlinked(q, i)) :
                 Unlinked(q, i)[k] = Unlinked(q, i)[l] => k = l
<1>1. CASE ~Contains(q, i)
  BY <1>1 DEF Unlinked, Contains
<1>2. CASE Contains(q, i)
  <2> DEFINE m == CHOOSE k \in 1 .. Len(q) : q[k] = i
             e == Unlinked(q, i)
  <2>1. m \in 1 .. Len(q) /\ q[m] = i
    BY <1>2 DEF Contains
  <2> DEFINE a == SubSeq(q, 1, m - 1)
             b == SubSeq(q, m + 1, Len(q))
  <2>2. e = a \o b
    BY <1>2 DEF Unlinked, RemoveAt
  <2> HIDE DEF m, e
  <2>3. Len(q) \in Nat /\ m \in Nat /\ 1 <= m /\ m <= Len(q)
    BY <2>1, LenProperties
  <2>4. a \in Seq(S) /\ Len(a) = m - 1 /\ \A k \in 1 .. m - 1 : a[k] = q[k]
    BY <2>3
  <2>5. /\ b \in Seq(S) /\ Len(b) = Len(q) - m
        /\ \A k \in 1 .. Len(q) - m : b[k] = q[m + k]
    BY <2>3
  <2> HIDE DEF a, b
  <2>6. /\ e \in Seq(S) /\ Len(e) = Len(q) - 1
        /\ \A k \in 1 .. Len(e) : e[k] = IF k < m THEN q[k] ELSE q[k + 1]
    <3>1. /\ e \in Seq(S) /\ Len(e) = Len(q) - 1
          /\ \A k \in 1 .. Len(q) - 1 : e[k] = IF k <= m - 1 THEN a[k] ELSE b[k - (m - 1)]
      <4>1. /\ a \o b \in Seq(S) /\ Len(a \o b) = Len(a) + Len(b)
            /\ \A k \in 1 .. Len(a) + Len(b) :
                  (a \o b)[k] = IF k <= Len(a) THEN a[k] ELSE b[k - Len(a)]
        <5>1. a \in Seq(S) /\ b \in Seq(S)
          BY <2>4, <2>5
        <5> QED BY <5>1, ConcatProperties
      <4>2. Len(a) = m - 1 /\ Len(a) + Len(b) = Len(q) - 1
        BY <2>3, <2>4, <2>5
      <4> QED BY <2>2, <4>1, <4>2
    <3>2. ASSUME NEW k \in 1 .. Len(q) - 1, k < m PROVE e[k] = q[k]
      BY <2>3, <2>4, <3>1, <3>2
    <3>3. ASSUME NEW k \in 1 .. Len(q) - 1, ~(k < m) PROVE e[k] = q[k + 1]
      <4>1. k - (m - 1) \in 1 .. Len(q) - m /\ m + (k - (m - 1)) = k + 1
        BY <2>3, <3>3
      <4> QED BY <2>3, <2>5, <3>1, <3>3, <4>1
    <3> QED BY <3>1, <3>2, <3>3
  <2>7. \A k \in 1 .. Len(e) : \E l \in 1 .. Len(q) : e[k] = q[l] /\ l = IF k < m THEN k ELSE k + 1
    BY <2>3, <2>6
  <2>8. \A k \in 1 .. Len(e) : e[k] # i
    BY <2>1, <2>3, <2>6, <2>7
  <2>9. \A k, l \in 1 .. Len(e) : e[k] = e[l] => k = l
    BY <2>3, <2>6, <2>7
  <2>10. q # <<>>
    BY <2>3
  <2>11. ASSUME NEW l \in 1 .. Len(q), q[l] # i
         PROVE  \E k \in 1 .. Len(e) : e[k] = q[l]
    <3>1. CASE l < m
      <4>1. l \in 1 .. Len(e) /\ e[l] = q[l]
        BY <2>3, <2>6, <3>1
      <4> QED BY <4>1
    <3>2. CASE ~(l < m)
      <4>1. l # m
        BY <2>1, <2>11
      <4>2. l - 1 \in 1 .. Len(e) /\ ~(l - 1 < m) /\ l - 1 + 1 = l
        BY <2>3, <2>6, <3>2, <4>1
      <4>3. e[l - 1] = q[l]
        BY <2>6, <4>2
      <4> QED BY <4>2, <4>3
    <3> QED BY <3>1, <3>2
  <2> QED BY <2>6, <2>7, <2>8, <2>9, <2>10, <2>11 DEF e
<1> QED BY <1>1, <1>2

LEMMA Concatenated ==
    ASSUME NEW S, NEW a \in Seq(S), NEW b \in Seq(S)
    PROVE  /\ a \o b \in Seq(S) /\ Len(a) \in Nat /\ Len(b) \in Nat
           /\ Len(a \o b) = Len(a) + Len(b)
           /\ \A k \in 1 .. Len(a) : (a \o b)[k] = a[k]
           /\ \A k \in 1 .. Len(a) + Len(b) :
                 k \in 1 .. Len(a) \/ (k - Len(a) \in 1 .. Len(b) /\ (a \o b)[k] = b[k - Len(a)])
<1>1. /\ a \o b \in Seq(S) /\ Len(a \o b) = Len(a) + Len(b)
      /\ \A k \in 1 .. Len(a) + Len(b) :
            (a \o b)[k] = IF k <= Len(a) THEN a[k] ELSE b[k - Len(a)]
  BY ConcatProperties
<1>2. Len(a) \in Nat /\ Len(b) \in Nat
  BY LenProperties
<1>3. ASSUME NEW k \in 1 .. Len(a) PROVE (a \o b)[k] = a[k]
  <2>1. k \in 1 .. Len(a) + Len(b) /\ k <= Len(a)
    BY <1>2
  <2> QED BY <1>1, <2>1
<1>4. ASSUME NEW k \in 1 .. Len(a) + Len(b), k \notin 1 .. Len(a)
      PROVE  k - Len(a) \in 1 .. Len(b) /\ (a \o b)[k] = b[k - Len(a)]
  <2>1. ~(k <= Len(a)) /\ k - Len(a) \in 1 .. Len(b)
    BY <1>2, <1>4
  <2> QED BY <1>1, <2>1
<1> QED BY <1>1, <1>2, <1>3, <1>4
-----------------------------------------------------------------------------
(* Frames.                                                                 *)

LEMMA RecordShape ==
    \A e \in Records : e[1] \in Writers /\ e[2] \in Nat /\ e[2] <= MaxRecords[e[1]]
BY DebugAssumption DEF Records

LEMMA Recorded ==
    ASSUME NEW w \in Writers, NEW n \in Nat, 1 <= n, n <= MaxRecords[w]
    PROVE  <<w, n>> \in Records
<1>1. n \in 1 .. MaxRecords[w]
  BY DebugAssumption
<1>2. <<w, n>> \in {w} \X (1 .. MaxRecords[w])
  BY <1>1
<1> QED BY <1>2 DEF Records

\* What is in the buffers and in the log is a record.
LEMMA Recordings ==
    TypeOK => /\ \A k \in 1 .. Len(log) : log[k] \in Records
              /\ \A i \in Writers : \A k \in 1 .. Len(buffer[i]) : buffer[i][k] \in Records
BY DEF TypeOK

LEMMA LogSame == LogKept /\ UNCHANGED <<log, buffer>> => LogKept'
BY DEF LogKept, InOrder, Before

\* A call begins with a new number; no other step makes a writer busy.
NumberSame(w) ==
    \/ records'[w] = records[w] /\ (Busy(w)' => Busy(w))
    \/ records'[w] = records[w] + 1 /\ records[w] < MaxRecords[w]

LEMMA GivenSame ==
    ASSUME TypeOK, NEW e \in Records, Given(e), NumberSame(e[1])
    PROVE  Given(e)'
<1>1. e[1] \in Writers /\ e[2] \in Nat /\ records[e[1]] \in Nat
  BY RecordShape DEF TypeOK
<1>2. Busy(e[1])' \/ ~Busy(e[1])'
  OBVIOUS
<1> QED BY <1>1, <1>2 DEF Given, NumberSame

LEMMA NumbersSame ==
    ASSUME TypeOK, NumbersKept, UNCHANGED <<log, buffer>>, \A w \in Writers : NumberSame(w)
    PROVE  NumbersKept'
<1>1. \A e \in Records : Given(e) => Given(e)'
  BY GivenSame, RecordShape
<1>2. \A k \in 1 .. Len(log) : Given(log[k])'
  BY <1>1, Recordings DEF NumbersKept
<1>3. \A i \in Writers : \A k \in 1 .. Len(buffer[i]) : Given(buffer[i][k])'
  BY <1>1, Recordings DEF NumbersKept
<1>4. ASSUME NEW w \in Writers
      PROVE  records'[w] <= MaxRecords[w] /\ (Busy(w)' => records'[w] >= 1)
  <2>1. records[w] \in Nat /\ MaxRecords[w] \in Nat
    BY DebugAssumption DEF TypeOK
  <2>2. records[w] <= MaxRecords[w] /\ (Busy(w) => records[w] >= 1)
    BY DEF NumbersKept
  <2> QED BY <2>1, <2>2 DEF NumberSame
<1> QED BY <1>2, <1>3, <1>4 DEF NumbersKept, Given

LEMMA CountsSame ==
    ASSUME NEW i \in Writers, Counts(i), refcount'[i] = refcount[i], Inside(i)' = Inside(i),
           Visited' = Visited, Published(i)' <=> Published(i)
    PROVE  Counts(i)'
BY DEF Counts

LEMMA InsideSame ==
    ASSUME \A u \in Writers : /\ wpc'[u] \in {"lock", "lock_new"} <=> wpc[u] \in {"lock", "lock_new"}
                              /\ wpc[u] \in {"lock", "lock_new"} => using'[u] = using[u]
    PROVE  \A i : Inside(i)' = Inside(i)
<1> TAKE i
<1>1. \A u \in Writers : (using'[u] = i /\ wpc'[u] \in {"lock", "lock_new"})
                           <=> (using[u] = i /\ wpc[u] \in {"lock", "lock_new"})
  OBVIOUS
<1> QED BY <1>1 DEF Inside

\* A writer begins a call in a published section, or comes back from one.
LEMMA Moves ==
    ASSUME Alive, NEW w \in Writers,
           UNCHANGED <<mem, buffer, refcount, folded, sections, section, total_filled, rpc, todo,
                       preempt>>,
           \A u \in Writers \ {w} : wpc'[u] = wpc[u] /\ using'[u] = using[u],
           wpc[w] \notin {"list", "get_new", "lock_new", "lock"},
           wpc'[w] \notin {"list", "get_new", "lock_new", "lock"},
           UsingKept(w)'
    PROVE  Alive'
<1>1. \A i : Inside(i)' = Inside(i)
  BY InsideSame
<1>2. \A i : Listed(i)' <=> Listed(i)
  BY DEF Listed
<1>3. \A i \in Writers : Published(i)' <=> Published(i)
  BY <1>2 DEF Published
<1>4. Visited' = Visited
  BY DEF Visited
<1>5. \A u \in Writers : Counts(u)'
  BY <1>1, <1>3, <1>4, CountsSame DEF Alive
<1>6. \A i, o : Leads(i, o) => Leads(i, o)'
  BY <1>3 DEF Leads
<1>7. \A u \in Writers \ {w} : UsingKept(u)'
  BY <1>6 DEF Alive, UsingKept, Busy
<1>8. \A u \in Writers : SectionKept(u)'
  BY <1>2, <1>3 DEF Alive, SectionKept
<1>9. PointersKept'
  BY <1>6 DEF Alive, PointersKept
<1>10. ListedOnce' /\ ReaderKept' /\ (total_filled = Cardinality(Held))'
  BY <1>2 DEF Alive, ListedOnce, ReaderKept, Held
<1> QED BY <1>5, <1>7, <1>8, <1>9, <1>10 DEF Alive

\* The reader comes, or goes, between two visits.
LEMMA Reads ==
    ASSUME Alive,
           UNCHANGED <<mem, buffer, refcount, folded, sections, section, total_filled, wpc, using,
                       preempt>>,
           rpc # "visit", rpc' # "visit", ListedOnce', ReaderKept'
    PROVE  Alive'
<1>1. \A i : Inside(i)' = Inside(i)
  BY InsideSame
<1>2. \A i : (Listed(i)' <=> Listed(i)) /\ (Published(i)' <=> Published(i))
  BY DEF Listed, Published
<1>3. Visited' = Visited
  BY DEF Visited
<1>4. \A u \in Writers : Counts(u)'
  BY <1>1, <1>2, <1>3, CountsSame DEF Alive
<1>5. \A i, o : Leads(i, o) => Leads(i, o)'
  BY <1>2 DEF Leads
<1>6. \A u \in Writers : UsingKept(u)' /\ SectionKept(u)'
  BY <1>2, <1>5 DEF Alive, UsingKept, SectionKept, Busy
<1>7. PointersKept' /\ (total_filled = Cardinality(Held))'
  BY <1>5 DEF Alive, PointersKept, Held
<1> QED BY <1>4, <1>6, <1>7 DEF Alive

LEMMA Owners == \A w \in Writers : Owner(w) \in Processes \cup {driver}
BY DEF Owner

LEMMA Started == Init => IInv
<1> SUFFICES ASSUME Init PROVE IInv
  OBVIOUS
<1>1. TypeOK
  BY EmptySeq DEF Init, TypeOK, WriterPCs, ReaderPCs
<1>2. Len(sections) = 0 /\ Len(todo) = 0 /\ Len(log) = 0 /\ \A i \in Writers : Len(buffer[i]) = 0
  BY DEF Init
<1>3. \A i : ~Listed(i)
  BY <1>2 DEF Listed
<1>4. LogKept
  BY <1>2 DEF LogKept, InOrder
<1>5. NumbersKept
  <2>1. \A w \in Writers : records[w] = 0 /\ ~Busy(w) /\ MaxRecords[w] \in Nat
    BY DebugAssumption DEF Init, Busy
  <2> QED BY <1>2, <2>1 DEF NumbersKept
<1>6. \A w \in Writers : UsingKept(w) /\ SectionKept(w)
  BY <1>3 DEF Init, UsingKept, SectionKept, Busy, Published
<1>7. \A w \in Writers : Counts(w)
  <2>1. ASSUME NEW w \in Writers PROVE Counts(w)
    <3>1. Inside(w) = {} /\ Visited = {} /\ ~Published(w) /\ refcount[w] = 0
      BY <1>3 DEF Init, Inside, Visited, Published
    <3>2. Inside(w) = {} /\ {w} \cap Visited = {}
      BY <3>1
    <3>3. Cardinality(Inside(w)) = 0 /\ Cardinality({w} \cap Visited) = 0
      BY <3>2, FS_EmptySet
    <3> QED BY <3>1, <3>3 DEF Counts
  <2> QED BY <2>1
<1>8. PointersKept /\ ListedOnce /\ ReaderKept
  BY <1>2 DEF Init, PointersKept, ListedOnce, ReaderKept
<1>9. total_filled = Cardinality(Held)
  <2>1. Held = {}
    <3>1. \A i \in Writers : DOMAIN buffer[i] = {}
      BY DEF Init
    <3> QED BY <3>1 DEF Held
  <2>2. Cardinality(Held) = 0
    BY <2>1, FS_EmptySet
  <2> QED BY <2>2 DEF Init
<1> QED BY <1>1, <1>4, <1>5, <1>6, <1>7, <1>8, <1>9 DEF IInv, Alive, Init
-----------------------------------------------------------------------------
(* A writer that finds its section, and one that is done.                  *)

\* What a step in a driver that is loaded and has not crashed has.
Runs == IInv /\ ~crashed /\ ~unloaded

LEMMA DropNext ==
    ASSUME IInv, ~crashed, NEW w \in Writers, Drop(w)
    PROVE  IInv'
<1>1. /\ TypeOK /\ UNCHANGED <<secVars, wpc, using, readVars, event, envVars, crashed>>
      /\ records' = [records EXCEPT ![w] = @ + 1] /\ records[w] < MaxRecords[w]
  BY DEF IInv, Drop
<1>2. TypeOK'
  BY <1>1 DEF TypeOK, secVars, readVars, envVars
<1>3. LogKept'
  BY <1>1, LogSame DEF IInv, secVars, readVars
<1>4. NumbersKept'
  <2>1. \A u \in Writers : NumberSame(u)
    BY <1>1 DEF NumberSame, Busy, TypeOK
  <2> QED BY <1>1, <2>1, NumbersSame DEF IInv, secVars, readVars
<1>5. Ended => Ended'
  BY <1>1 DEF Ended, Busy, secVars, readVars
<1>6. ASSUME Alive PROVE Alive'
  <2>1. UsingKept(w)'
    BY <1>1, <1>6 DEF Alive, UsingKept, Leads, Published, Listed, Busy, secVars
  <2>2. wpc[w] = "idle" /\ wpc'[w] = "idle"
    BY <1>1 DEF Drop
  <2> QED BY <1>1, <1>6, <2>1, <2>2, Moves DEF secVars, readVars, envVars
<1> QED BY <1>1, <1>2, <1>3, <1>4, <1>5, <1>6 DEF IInv, secVars, envVars

LEMMA FindNext ==
    ASSUME Runs, NEW w \in Writers, Find(w)
    PROVE  IInv'
<1>1. /\ TypeOK /\ Alive /\ UNCHANGED <<secVars, readVars, event, envVars, crashed>>
      /\ records' = [records EXCEPT ![w] = @ + 1] /\ records[w] < MaxRecords[w]
      /\ wpc[w] = "idle" /\ wpc' = [wpc EXCEPT ![w] = "get"]
      /\ section[Owner(w)] # None /\ using' = [using EXCEPT ![w] = section[Owner(w)]]
  BY DEF Runs, IInv, Find, Begin, Goto
<1>2. Leads(section[Owner(w)], Owner(w)) /\ Owner(w) \in Processes \cup {driver}
  BY <1>1, Owners DEF Alive, PointersKept
<1>3. TypeOK'
  <2>1. using' \in [Writers -> Writers \cup {None}] /\ wpc' \in [Writers -> WriterPCs]
    BY <1>1, <1>2 DEF TypeOK, WriterPCs, Leads
  <2>2. records' \in [Writers -> Nat]
    BY <1>1 DEF TypeOK
  <2> QED BY <1>1, <2>1, <2>2 DEF TypeOK, secVars, readVars, envVars
<1>4. LogKept'
  BY <1>1, LogSame DEF Runs, IInv, secVars, readVars
<1>5. \A u \in Writers \ {w} : wpc'[u] = wpc[u] /\ using'[u] = using[u]
  BY <1>1 DEF TypeOK
<1>6. wpc'[w] = "get" /\ using'[w] = section[Owner(w)]
  BY <1>1 DEF TypeOK
<1>7. NumbersKept'
  <2>1. \A u \in Writers : NumberSame(u)
    BY <1>1, <1>5 DEF NumberSame, Busy, TypeOK
  <2> QED BY <1>1, <2>1, NumbersSame DEF Runs, IInv, secVars, readVars
<1>8. Alive'
  <2>1. UsingKept(w)'
    <3>1. Leads(section[Owner(w)], Owner(w))'
      BY <1>1, <1>2, <1>5, <1>6 DEF Leads, Published, Listed, secVars
    <3> QED BY <1>1, <1>6, <3>1 DEF UsingKept, Busy, secVars
  <2> QED BY <1>1, <1>5, <1>6, <2>1, Moves DEF secVars, readVars, envVars
<1> QED BY <1>1, <1>3, <1>4, <1>7, <1>8 DEF Runs, IInv, secVars, envVars

LEMMA WakeNext ==
    ASSUME Runs, NEW w \in Writers, Wake(w)
    PROVE  IInv'
<1>1. /\ TypeOK /\ Alive /\ UNCHANGED <<secVars, using, records, readVars, envVars, crashed>>
      /\ wpc[w] = "wake" /\ wpc' = [wpc EXCEPT ![w] = "idle"]
      /\ event' = (event \/ remembers \/ rpc = "sleep")
  BY DEF Runs, IInv, Wake, Goto
<1>2. TypeOK'
  BY <1>1 DEF TypeOK, WriterPCs, secVars, readVars, envVars
<1>3. LogKept'
  BY <1>1, LogSame DEF Runs, IInv, secVars, readVars
<1>4. wpc'[w] = "idle" /\ \A u \in Writers \ {w} : wpc'[u] = wpc[u]
  BY <1>1 DEF TypeOK
<1>5. NumbersKept'
  <2>1. \A u \in Writers : NumberSame(u)
    BY <1>1, <1>4 DEF NumberSame, Busy
  <2> QED BY <1>1, <2>1, NumbersSame DEF Runs, IInv, secVars, readVars
<1>6. Alive'
  <2>1. UsingKept(w)'
    BY <1>1, <1>4 DEF Alive, UsingKept, Busy
  <2> QED BY <1>1, <1>4, <2>1, Moves DEF secVars, readVars, envVars
<1> QED BY <1>1, <1>2, <1>3, <1>5, <1>6 DEF Runs, IInv, secVars, envVars

-----------------------------------------------------------------------------
(* A writer that makes its section.                                        *)

LEMMA CreateNext ==
    ASSUME Runs, NEW w \in Writers, Create(w)
    PROVE  IInv'
<1>1. /\ TypeOK /\ Alive
      /\ UNCHANGED <<buffer, refcount, folded, sections, section, total_filled, unloaded,
                     readVars, event, envVars, crashed>>
      /\ records' = [records EXCEPT ![w] = @ + 1] /\ records[w] < MaxRecords[w]
      /\ wpc[w] = "idle" /\ wpc' = [wpc EXCEPT ![w] = "list"]
      /\ mem[w] = "unused" /\ mem' = [mem EXCEPT ![w] = "live"]
      /\ using' = [using EXCEPT ![w] = w]
  BY DEF Runs, IInv, Create, Begin, Goto
<1>2. TypeOK'
  BY <1>1 DEF TypeOK, WriterPCs, readVars, envVars
<1>3. LogKept'
  BY <1>1, LogSame DEF Runs, IInv, readVars
<1>4. /\ \A u \in Writers \ {w} : wpc'[u] = wpc[u] /\ using'[u] = using[u] /\ mem'[u] = mem[u]
      /\ wpc'[w] = "list" /\ using'[w] = w /\ mem'[w] = "live"
  BY <1>1 DEF TypeOK
<1>5. NumbersKept'
  <2>1. \A u \in Writers : NumberSame(u)
    BY <1>1, <1>4 DEF NumberSame, Busy, TypeOK
  <2> QED BY <1>1, <2>1, NumbersSame DEF Runs, IInv, readVars
<1>6. \A i : Inside(i)' = Inside(i)
  BY <1>1, <1>4, InsideSame
<1>7. /\ \A i : Listed(i)' <=> Listed(i)
      /\ \A i \in Writers : Published(i)' <=> Published(i)
      /\ ~Listed(w) /\ Visited' = Visited
  BY <1>1, <1>4 DEF Listed, Published, Alive, SectionKept, Visited, readVars
<1>8. \A u \in Writers : Counts(u)'
  BY <1>1, <1>6, <1>7, CountsSame DEF Alive
<1>9. \A i, o : Leads(i, o) => Leads(i, o)'
  BY <1>1, <1>7 DEF Leads
<1>10. UsingKept(w)' /\ \A u \in Writers \ {w} : UsingKept(u)'
  BY <1>1, <1>4, <1>9 DEF Alive, UsingKept, Busy
<1>11. SectionKept(w)'
  BY <1>1, <1>4, <1>7 DEF Alive, SectionKept
<1>12. \A u \in Writers \ {w} : SectionKept(u)'
  BY <1>1, <1>4, <1>7 DEF Alive, SectionKept, envVars
<1>13. PointersKept' /\ ListedOnce'
  BY <1>1, <1>9 DEF Alive, PointersKept, ListedOnce, readVars
<1>14. ReaderKept'
  <2>1. rpc = "visit" => mem'[Head(todo)] = "live"
    BY <1>1, <1>4, <1>7 DEF Alive, ReaderKept, TypeOK
  <2> QED BY <1>1, <1>7, <2>1 DEF Alive, ReaderKept, readVars
<1>15. (total_filled = Cardinality(Held))'
  BY <1>1 DEF Alive, Held
<1>16. Alive'
  BY <1>8, <1>10, <1>11, <1>12, <1>13, <1>14, <1>15 DEF Alive
<1> QED BY <1>1, <1>2, <1>3, <1>5, <1>16 DEF Runs, IInv, envVars

LEMMA ListNext ==
    ASSUME Runs, NEW w \in Writers, List(w)
    PROVE  IInv'
<1>1. /\ TypeOK /\ Alive
      /\ UNCHANGED <<mem, buffer, refcount, folded, section, total_filled, unloaded, using,
                     records, readVars, event, envVars, crashed>>
      /\ wpc[w] = "list" /\ wpc' = [wpc EXCEPT ![w] = "get_new"] /\ rpc \notin {"scan", "visit"}
      /\ sections' = Append(sections, using[w])
  BY DEF Runs, IInv, List, Unlocked, Goto
<1>2. /\ using[w] = w /\ ~Listed(w) /\ mem[w] = "live" /\ todo = <<>> /\ rpc \in {"sleep", "gone"}
  BY <1>1 DEF Alive, UsingKept, SectionKept, ReaderKept, TypeOK, ReaderPCs
<1>3. /\ sections' \in Seq(Writers) /\ Len(sections') = Len(sections) + 1 /\ Len(sections) \in Nat
      /\ sections'[Len(sections) + 1] = w
      /\ \A k \in 1 .. Len(sections) : sections'[k] = sections[k]
      /\ \A k \in 1 .. Len(sections') : k \in 1 .. Len(sections) \/ k = Len(sections) + 1
  <2>1. sections \in Seq(Writers)
    BY <1>1 DEF TypeOK
  <2> QED BY <1>1, <1>2, <2>1, Appended
<1>4. TypeOK'
  BY <1>1, <1>3 DEF TypeOK, WriterPCs, readVars, envVars
<1>5. LogKept'
  BY <1>1, LogSame DEF Runs, IInv, readVars
<1>6. wpc'[w] = "get_new" /\ \A u \in Writers \ {w} : wpc'[u] = wpc[u]
  BY <1>1 DEF TypeOK
<1>7. NumbersKept'
  <2>1. \A u \in Writers : NumberSame(u)
    BY <1>1, <1>6 DEF NumberSame, Busy
  <2> QED BY <1>1, <2>1, NumbersSame DEF Runs, IInv, readVars
<1>8. \A i : Inside(i)' = Inside(i)
  BY <1>1, <1>6, InsideSame
<1>9. \A i : Listed(i)' <=> (Listed(i) \/ i = w)
  <2>1. \A i : Listed(i) => Listed(i)'
    BY <1>3 DEF Listed
  <2>2. Listed(w)'
    <3>1. Len(sections) + 1 \in 1 .. Len(sections')
      BY <1>3
    <3> QED BY <1>3, <3>1 DEF Listed
  <2>3. \A i : Listed(i)' => Listed(i) \/ i = w
    BY <1>3 DEF Listed
  <2> QED BY <2>1, <2>2, <2>3
<1>10. \A i \in Writers : Published(i)' <=> Published(i)
  BY <1>2, <1>6, <1>9 DEF Published
<1>11. Visited' = Visited
  BY <1>1 DEF Visited, readVars
<1>12. \A u \in Writers : Counts(u)'
  BY <1>1, <1>8, <1>10, <1>11, CountsSame DEF Alive
<1>13. \A i, o : Leads(i, o) => Leads(i, o)'
  BY <1>1, <1>10 DEF Leads
<1>14. UsingKept(w)' /\ \A u \in Writers \ {w} : UsingKept(u)'
  BY <1>1, <1>2, <1>6, <1>13 DEF Alive, UsingKept, Busy
<1>15. SectionKept(w)'
  BY <1>1, <1>2, <1>6, <1>9, <1>10 DEF Alive, SectionKept
<1>16. \A u \in Writers \ {w} : SectionKept(u)'
  BY <1>1, <1>6, <1>9, <1>10 DEF Alive, SectionKept, envVars
<1>17. PointersKept'
  BY <1>1, <1>13 DEF Alive, PointersKept
<1>18. ListedOnce'
  <2>1. ASSUME NEW k \in 1 .. Len(sections'), NEW l \in 1 .. Len(sections'),
               sections'[k] = sections'[l]
        PROVE  k = l
    BY <1>1, <1>2, <1>3, <2>1 DEF Alive, ListedOnce, Listed
  <2>2. todo' = todo
    BY <1>1 DEF readVars
  <2> QED BY <1>1, <2>1, <2>2 DEF Alive, ListedOnce
<1>19. ReaderKept'
  <2>1. Len(todo) = 0
    BY <1>2
  <2> QED BY <1>1, <1>2, <2>1 DEF ReaderKept, readVars
<1>20. (total_filled = Cardinality(Held))'
  BY <1>1 DEF Alive, Held
<1>21. Alive'
  BY <1>12, <1>14, <1>15, <1>16, <1>17, <1>18, <1>19, <1>20 DEF Alive
<1> QED BY <1>1, <1>4, <1>5, <1>7, <1>21 DEF Runs, IInv, envVars

\* A reference more, for a writer that enters.
LEMMA Enters ==
    ASSUME NEW i, NEW w \in Writers, w \notin Inside(i), Inside(i)' = Inside(i) \cup {w}
    PROVE  Cardinality(Inside(i))' = Cardinality(Inside(i)) + 1
<1>1. IsFiniteSet(Inside(i))
  BY DebugAssumption, FS_Subset DEF Inside
<1>2. Cardinality(Inside(i) \cup {w}) = Cardinality(Inside(i)) + 1
  BY <1>1, FS_AddElement
<1> QED BY <1>2

LEMMA GetNext ==
    ASSUME Runs, NEW w \in Writers, Get(w)
    PROVE  IInv'
<1>1. /\ TypeOK /\ Alive
      /\ UNCHANGED <<mem, buffer, folded, sections, section, total_filled, unloaded, using,
                     records, readVars, event, envVars>>
      /\ wpc[w] \in {"get", "get_new"}
      /\ wpc' = [wpc EXCEPT ![w] = IF wpc[w] = "get" THEN "lock" ELSE "lock_new"]
      /\ refcount' = [refcount EXCEPT ![using[w]] = @ + 1]
      /\ crashed' = (mem[using[w]] = "freed")
  BY DEF Runs, IInv, Get, Reference, Goto
<1>2. /\ using[w] \in Writers /\ Listed(using[w])
      /\ wpc[w] = "get_new" => using[w] = w
      /\ wpc[w] = "get" => Leads(using[w], Owner(w)) /\ mem[using[w]] = "live"
  BY <1>1 DEF Alive, UsingKept, SectionKept, Leads, Published
<1>3. PICK i \in Writers : i = using[w]
  BY <1>2
<1>4. /\ \A u \in Writers \ {w} : wpc'[u] = wpc[u]
      /\ wpc[w] = "get" => wpc'[w] = "lock"
      /\ wpc[w] = "get_new" => wpc'[w] = "lock_new"
      /\ refcount'[i] = refcount[i] + 1 /\ \A j \in Writers \ {i} : refcount'[j] = refcount[j]
  BY <1>1, <1>3 DEF TypeOK
<1>5. TypeOK'
  <2>1. refcount' \in [Writers -> Nat]
    BY <1>1, <1>2 DEF TypeOK
  <2>2. wpc' \in [Writers -> WriterPCs] /\ crashed' \in BOOLEAN
    BY <1>1 DEF TypeOK, WriterPCs
  <2> QED BY <1>1, <2>1, <2>2 DEF TypeOK, readVars, envVars
<1>6. LogKept'
  BY <1>1, LogSame DEF Runs, IInv, readVars
<1>7. NumbersKept'
  <2>1. \A u \in Writers : NumberSame(u)
    BY <1>1, <1>4 DEF NumberSame, Busy
  <2> QED BY <1>1, <2>1, NumbersSame DEF Runs, IInv, readVars
<1>8. ~preempt' => ~crashed'
  BY <1>1, <1>2 DEF Alive, SectionKept, envVars
<1>9. ASSUME ~crashed' PROVE Alive'
  <2>1. mem[i] = "live"
    <3>1. mem[i] # "freed" /\ mem[i] \in {"unused", "live", "freed"}
      BY <1>1, <1>3, <1>9 DEF TypeOK
    <3>2. SectionKept(i) /\ Listed(i)
      BY <1>1, <1>2, <1>3 DEF Alive
    <3> QED BY <3>1, <3>2 DEF SectionKept
  <2>2. /\ Inside(i)' = Inside(i) \cup {w} /\ w \notin Inside(i)
        /\ \A j \in Writers \ {i} : Inside(j)' = Inside(j)
    BY <1>1, <1>3, <1>4 DEF Inside
  <2>3. /\ \A j : Listed(j)' <=> Listed(j)
        /\ \A j \in Writers : Published(j)' <=> Published(j)
        /\ Visited' = Visited
    BY <1>1, <1>4 DEF Listed, Published, Visited, readVars
  <2>4. Counts(i)'
    <3>1. Cardinality(Inside(i))' = Cardinality(Inside(i)) + 1
      BY <2>2, Enters
    <3>2. Cardinality(Inside(i)) \in Nat /\ Cardinality({i} \cap Visited) \in Nat
      <4>1. IsFiniteSet(Inside(i)) /\ IsFiniteSet({i} \cap Visited)
        BY DebugAssumption, FS_Subset, FS_Singleton DEF Inside
      <4> QED BY <4>1, FS_CardinalityType
    <3> QED BY <1>1, <1>4, <2>3, <3>1, <3>2 DEF Alive, Counts
  <2>5. \A j \in Writers \ {i} : Counts(j)'
    BY <1>1, <1>4, <2>2, <2>3, CountsSame DEF Alive
  <2>6. \A j, o : Leads(j, o) => Leads(j, o)'
    BY <1>1, <2>3 DEF Leads
  <2>7. UsingKept(w)' /\ \A u \in Writers \ {w} : UsingKept(u)'
    BY <1>1, <1>2, <1>4, <2>6 DEF Alive, UsingKept, Busy
  <2>8. SectionKept(w)'
    BY <1>1, <1>2, <1>3, <1>4, <2>1, <2>3 DEF Alive, SectionKept
  <2>9. \A u \in Writers \ {w} : SectionKept(u)'
    BY <1>1, <1>4, <2>3 DEF Alive, SectionKept, envVars
  <2>10. PointersKept' /\ ListedOnce' /\ ReaderKept' /\ (total_filled = Cardinality(Held))'
    BY <1>1, <2>3, <2>6 DEF Alive, PointersKept, ListedOnce, ReaderKept, Held, readVars
  <2> QED BY <2>4, <2>5, <2>7, <2>8, <2>9, <2>10 DEF Alive
<1> QED BY <1>1, <1>5, <1>6, <1>7, <1>8, <1>9 DEF Runs, IInv

-----------------------------------------------------------------------------
(* What the sections hold.                                                 *)

LEMMA Places == \A n \in Nat : IsFiniteSet(1 .. n) /\ Cardinality(1 .. n) = n
<1> TAKE n \in Nat
<1>1. /\ IsFiniteSet(1 .. n)
      /\ Cardinality(1 .. n) = IF 1 > n THEN 0 ELSE n - 1 + 1
  BY FS_Interval
<1> QED BY <1>1

\* The records of one section are counted apart from those of the others.
LEMMA Holds ==
    ASSUME TypeOK, NEW i \in Writers, NEW q \in Seq(Records), buffer' = [buffer EXCEPT ![i] = q]
    PROVE  /\ Cardinality(Held)' = Cardinality(Held) - Len(buffer[i]) + Len(q)
           /\ Cardinality(Held) \in Nat /\ Cardinality(Held) >= Len(buffer[i])
           /\ Len(buffer[i]) \in Nat /\ Len(q) \in Nat
<1> DEFINE Rest == UNION {{j} \X DOMAIN buffer[j] : j \in Writers \ {i}}
           Part(n) == {i} \X (1 .. n)
<1>1. \A j \in Writers : DOMAIN buffer[j] = 1 .. Len(buffer[j]) /\ Len(buffer[j]) \in Nat
  BY DEF TypeOK
<1>2. DOMAIN q = 1 .. Len(q) /\ Len(q) \in Nat
  OBVIOUS
<1>3. buffer'[i] = q /\ \A j \in Writers \ {i} : buffer'[j] = buffer[j]
  BY DEF TypeOK
<1>4. Held = Rest \cup Part(Len(buffer[i]))
  BY <1>1 DEF Held
<1>5. Held' = Rest \cup Part(Len(q))
  <2>1. \A j \in Writers \ {i} : {j} \X DOMAIN buffer'[j] = {j} \X DOMAIN buffer[j]
    BY <1>3
  <2>2. {i} \X DOMAIN buffer'[i] = Part(Len(q))
    BY <1>2, <1>3
  <2> QED BY <2>1, <2>2 DEF Held
<1>6. IsFiniteSet(Rest)
  <2>1. ASSUME NEW j \in Writers PROVE IsFiniteSet({j} \X DOMAIN buffer[j])
    <3>1. IsFiniteSet({j})
      BY FS_Singleton
    <3>2. IsFiniteSet(1 .. Len(buffer[j]))
      BY <1>1, Places
    <3>3. IsFiniteSet({j} \X (1 .. Len(buffer[j])))
      BY <3>1, <3>2, FS_Product
    <3> QED BY <1>1, <3>3
  <2> DEFINE Others == Writers \ {i}
             Parts == {{j} \X DOMAIN buffer[j] : j \in Others}
             f == [j \in Others |-> {j} \X DOMAIN buffer[j]]
  <2>2. f \in Surjection(Others, Parts)
    BY DEF Surjection
  <2>3. IsFiniteSet(Others)
    BY DebugAssumption, FS_Difference
  <2>4. \A T \in Parts : IsFiniteSet(T)
    BY <2>1
  <2>5. Rest = UNION Parts
    OBVIOUS
  <2> HIDE DEF Others, Parts, f, Rest
  <2>6. IsFiniteSet(Parts)
    BY <2>2, <2>3, FS_Surjection
  <2> QED BY <2>4, <2>5, <2>6, FS_UNION
<1>7. ASSUME NEW n \in Nat
      PROVE  Cardinality(Rest \cup Part(n)) = Cardinality(Rest) + n
  <2>1. IsFiniteSet({i}) /\ Cardinality({i}) = 1
    BY FS_Singleton
  <2>2. IsFiniteSet(1 .. n) /\ Cardinality(1 .. n) = n
    BY Places
  <2>3. IsFiniteSet(Part(n)) /\ Cardinality(Part(n)) = n
    <3>1. IsFiniteSet(Part(n)) /\ Cardinality(Part(n)) = Cardinality({i}) * Cardinality(1 .. n)
      BY <2>1, <2>2, FS_Product
    <3> QED BY <2>1, <2>2, <3>1
  <2>4. Rest \cap Part(n) = {}
    OBVIOUS
  <2> HIDE DEF Rest, Part
  <2>5. Cardinality(Rest \cup Part(n))
          = Cardinality(Rest) + Cardinality(Part(n)) - Cardinality(Rest \cap Part(n))
    BY <1>6, <2>3, FS_Union
  <2>6. Cardinality(Rest) \in Nat /\ Cardinality(Rest \cap Part(n)) = 0
    BY <1>6, <2>4, FS_CardinalityType, FS_EmptySet
  <2> QED BY <2>3, <2>5, <2>6
<1>8. Cardinality(Rest) \in Nat
  BY <1>6, FS_CardinalityType
<1> HIDE DEF Rest, Part
<1>9. /\ Cardinality(Held) = Cardinality(Rest) + Len(buffer[i])
      /\ Cardinality(Held') = Cardinality(Rest) + Len(q)
  BY <1>1, <1>2, <1>4, <1>5, <1>7
<1> QED BY <1>1, <1>2, <1>8, <1>9

\* The record of a call under way comes later than those that are anywhere.
LEMMA Fresh ==
    ASSUME TypeOK, NEW w \in Writers, Busy(w), NEW e \in Records, e[1] = w, e[2] = records[w],
           NEW f \in Records, Given(f)
    PROVE  Before(f, e)
BY RecordShape DEF Given, Before, TypeOK

\* The record of w is added to a section of its owner.
LEMMA RecordAdded ==
    ASSUME TypeOK, LogKept, NumbersKept, NEW w \in Writers, NEW i \in Writers, Busy(w),
           ~Busy(w)', Owner(w) = Owner(i), NEW e \in Records, e[1] = w, e[2] = records[w],
           buffer' = [buffer EXCEPT ![i] = Append(@, e)], UNCHANGED <<log, records>>,
           \A u \in Writers \ {w} : NumberSame(u)
    PROVE  LogKept' /\ NumbersKept'
<1>1. /\ \A j \in Writers \ {i} : buffer'[j] = buffer[j]
      /\ buffer'[i] = Append(buffer[i], e)
  BY DEF TypeOK
<1>2. buffer[i] \in Seq(Records)
  BY DEF TypeOK
<1>3. /\ Len(buffer'[i]) = Len(buffer[i]) + 1 /\ buffer'[i][Len(buffer[i]) + 1] = e
      /\ \A k \in 1 .. Len(buffer[i]) : buffer'[i][k] = buffer[i][k]
      /\ \A k \in 1 .. Len(buffer'[i]) : k \in 1 .. Len(buffer[i]) \/ k = Len(buffer[i]) + 1
      /\ Len(buffer[i]) \in Nat
  BY <1>1, <1>2, Appended
<1>4. /\ \A k \in 1 .. Len(log) : Before(log[k], e)
      /\ \A j \in Writers : \A k \in 1 .. Len(buffer[j]) : Before(buffer[j][k], e)
  BY Recordings, Fresh DEF NumbersKept
<1>5. InOrder(log)'
  BY DEF LogKept, InOrder, Before
<1>6. ASSUME NEW j \in Writers PROVE InOrder(buffer[j])'
  <2>1. CASE j # i
    <3>1. buffer'[j] = buffer[j] /\ InOrder(buffer[j])
      BY <1>1, <2>1 DEF LogKept
    <3>2. \A k, l \in 1 .. Len(buffer'[j]) : k < l => Before(buffer'[j][k], buffer'[j][l])
      BY <3>1 DEF InOrder
    <3> QED BY <3>2 DEF InOrder, Before
  <2>2. CASE j = i
    <3>1. ASSUME NEW k \in 1 .. Len(buffer'[i]), NEW l \in 1 .. Len(buffer'[i]), k < l
          PROVE  Before(buffer'[i][k], buffer'[i][l])
      <4>1. k \in 1 .. Len(buffer[i])
        BY <1>3, <3>1
      <4> QED BY <1>3, <1>4, <3>1, <4>1 DEF LogKept, InOrder
    <3> QED BY <2>2, <3>1 DEF InOrder, Before
  <2> QED BY <2>1, <2>2
<1>7. ASSUME NEW j \in Writers, NEW k \in 1 .. Len(log'), NEW l \in 1 .. Len(buffer'[j])
      PROVE  Before(log'[k], buffer'[j][l])
  BY <1>1, <1>3, <1>4 DEF LogKept
<1>8. ASSUME NEW a \in Writers, NEW b \in Writers, a # b,
             NEW k \in 1 .. Len(buffer'[a]), NEW l \in 1 .. Len(buffer'[b])
      PROVE  buffer'[a][k] # buffer'[b][l]
  <2>1. CASE a # i /\ b # i
    BY <1>1, <1>8, <2>1 DEF LogKept
  <2>2. CASE a = i
    <3>1. buffer'[b] = buffer[b]
      BY <1>1, <1>8, <2>2
    <3> QED BY <1>3, <1>4, <1>8, <2>2, <3>1 DEF LogKept, Before
  <2>3. CASE b = i
    <3>1. buffer'[a] = buffer[a]
      BY <1>1, <1>8, <2>3
    <3> QED BY <1>3, <1>4, <1>8, <2>3, <3>1 DEF LogKept, Before
  <2> QED BY <2>1, <2>2, <2>3
<1>9. ASSUME NEW j \in Writers, NEW k \in 1 .. Len(buffer'[j])
      PROVE  Owner(buffer'[j][k][1]) = Owner(j)
  BY <1>1, <1>3 DEF LogKept
<1>10. LogKept'
  BY <1>5, <1>6, <1>7, <1>8, <1>9 DEF LogKept, Before, InOrder
<1>11. \A f \in Records : Given(f) => Given(f)'
  <2>1. ASSUME NEW f \in Records, Given(f) PROVE Given(f)'
    <3>1. CASE f[1] = w
      BY <2>1, <3>1 DEF Given
    <3>2. CASE f[1] # w
      <4>1. NumberSame(f[1])
        BY <3>2, RecordShape
      <4> QED BY <2>1, <4>1, GivenSame
    <3> QED BY <3>1, <3>2
  <2> QED BY <2>1
<1>12. Given(e)'
  <2>1. records[w] \in Nat
    BY DEF TypeOK
  <2> QED BY <2>1 DEF Given
<1>13. \A k \in 1 .. Len(log') : Given(log[k])'
  BY <1>11, Recordings DEF NumbersKept
<1>14. ASSUME NEW j \in Writers, NEW k \in 1 .. Len(buffer'[j]) PROVE Given(buffer[j][k])'
  <2>1. CASE j # i
    BY <1>1, <1>11, <2>1, Recordings DEF NumbersKept
  <2>2. CASE j = i
    BY <1>3, <1>11, <1>12, <2>2, Recordings DEF NumbersKept
  <2> QED BY <2>1, <2>2
<1>15. ASSUME NEW u \in Writers PROVE records'[u] <= MaxRecords[u] /\ (Busy(u)' => records'[u] >= 1)
  <2>1. CASE u = w
    BY <2>1 DEF NumbersKept
  <2>2. CASE u # w
    <3>1. NumberSame(u) /\ records'[u] = records[u] /\ records[u] \in Nat
      BY <2>2 DEF TypeOK
    <3> QED BY <3>1 DEF NumbersKept, NumberSame
  <2> QED BY <2>1, <2>2
<1>16. NumbersKept'
  BY <1>13, <1>14, <1>15 DEF NumbersKept, Given
<1> QED BY <1>10, <1>16

-----------------------------------------------------------------------------
(* A writer in a section.                                                  *)

\* A reference less, for a writer that leaves.
LEMMA Leaves ==
    ASSUME NEW i, NEW w \in Inside(i), Inside(i)' = Inside(i) \ {w}
    PROVE  /\ Cardinality(Inside(i))' = Cardinality(Inside(i)) - 1
           /\ Cardinality(Inside(i)) \in Nat /\ Cardinality(Inside(i)) >= 1
<1>1. IsFiniteSet(Inside(i))
  BY DebugAssumption, FS_Subset DEF Inside
<1>2. Cardinality(Inside(i) \ {w}) = Cardinality(Inside(i)) - 1
  BY <1>1, FS_RemoveElement
<1>3. IsFiniteSet(Inside(i) \ {w})
  BY <1>1, FS_RemoveElement
<1>4. Cardinality(Inside(i)) \in Nat /\ Cardinality(Inside(i) \ {w}) \in Nat
  BY <1>1, <1>3, FS_CardinalityType
<1> QED BY <1>2, <1>4

LEMMA Visits == \A i : Cardinality({i} \cap Visited) \in Nat
<1> TAKE i
<1>1. IsFiniteSet({i})
  BY FS_Singleton
<1>2. IsFiniteSet({i} \cap Visited)
  BY <1>1, FS_Subset
<1> QED BY <1>2, FS_CardinalityType

\* A writer does not free the section it leaves, nor does its pointer: that of a published
\* section has its own reference, and a new one is published.
LEMMA WriteStep ==
    ASSUME Runs, NEW w \in Writers, Write(w), NEW i \in Writers, using[w] = i
    PROVE  /\ mem' = mem /\ mem[i] = "live" /\ Listed(i) /\ Owner(i) = Owner(w) /\ ~folded[i]
           /\ wpc[w] = "lock" => Published(i) /\ section' = section
                                   /\ refcount' = [refcount EXCEPT ![i] = @ - 1]
           /\ wpc[w] = "lock_new" => /\ i = w /\ section' = [section EXCEPT ![Owner(w)] = w]
                                     /\ refcount' = [refcount EXCEPT ![i] = @ + 0]
           /\ refcount'[i] \in Nat
<1>1. /\ TypeOK /\ Alive /\ wpc[w] \in {"lock", "lock_new"}
      /\ UsingKept(w) /\ SectionKept(i) /\ Counts(i)
      /\ section' = IF wpc[w] = "lock_new" THEN [section EXCEPT ![Owner(w)] = i]
                    ELSE IF refcount[i] = 1 THEN [section EXCEPT ![Owner(w)] = None]
                    ELSE section
      /\ Put(i, IF wpc[w] = "lock_new" THEN 0 ELSE -1)
  BY DEF Runs, IInv, Write, Alive
<1>2. Cardinality(Inside(i)) \in Nat /\ Cardinality(Inside(i)) >= 1
  <2>1. IsFiniteSet(Inside(i)) /\ w \in Inside(i)
    BY <1>1, DebugAssumption, FS_Subset DEF Inside
  <2>2. Cardinality(Inside(i)) \in Nat /\ Cardinality(Inside(i)) # 0
    BY <2>1, FS_CardinalityType, FS_EmptySet
  <2> QED BY <2>2
<1>3. Cardinality({i} \cap Visited) \in Nat
  BY Visits
<1>4. refcount[i] \in Nat
  BY <1>1 DEF TypeOK
<1>5. CASE wpc[w] = "lock"
  <2>1. Leads(i, Owner(w))
    BY <1>1, <1>5 DEF UsingKept
  <2>2. /\ Published(i) /\ Listed(i) /\ ~folded[i] /\ Owner(i) = Owner(w) /\ wpc[i] # "get_new"
    BY <2>1 DEF Leads, Published
  <2>3. refcount[i] >= 2
    BY <1>1, <1>2, <1>3, <1>4, <2>2 DEF Counts
  <2>4. refcount[i] # 1 /\ refcount[i] + (-1) # 0 /\ refcount[i] - 1 \in Nat
    BY <1>4, <2>3
  <2>5. section' = section /\ mem' = mem /\ refcount' = [refcount EXCEPT ![i] = @ - 1]
    BY <1>1, <1>5, <2>4 DEF Put
  <2>6. refcount'[i] = refcount[i] - 1
    BY <1>1, <2>5 DEF TypeOK
  <2> QED BY <1>1, <1>5, <2>2, <2>4, <2>5, <2>6 DEF SectionKept
<1>6. CASE wpc[w] = "lock_new"
  <2>1. i = w /\ Listed(i) /\ ~Published(i) /\ ~folded[i]
    BY <1>1, <1>6 DEF UsingKept, SectionKept, Published
  <2>2. refcount[i] >= 1 /\ refcount[i] + 0 # 0 /\ refcount[i] + 0 \in Nat
    BY <1>1, <1>2, <1>3, <1>4, <2>1 DEF Counts
  <2>3. /\ section' = [section EXCEPT ![Owner(w)] = w] /\ mem' = mem
        /\ refcount' = [refcount EXCEPT ![i] = @ + 0]
    BY <1>1, <1>6, <2>1, <2>2 DEF Put
  <2>4. refcount'[i] = refcount[i] + 0
    BY <1>1, <2>3 DEF TypeOK
  <2> QED BY <1>1, <1>6, <2>1, <2>2, <2>3, <2>4 DEF SectionKept
<1> QED BY <1>1, <1>5, <1>6

LEMMA WriteNext ==
    ASSUME Runs, NEW w \in Writers, Write(w)
    PROVE  IInv'
<1>1. /\ TypeOK /\ Alive /\ LogKept /\ NumbersKept /\ (~preempt => ~crashed)
      /\ wpc[w] \in {"lock", "lock_new"} /\ using' = [using EXCEPT ![w] = None]
      /\ Added(w, using[w])
      /\ UNCHANGED <<folded, sections, unloaded, records, readVars, event, envVars, crashed>>
  BY DEF Runs, IInv, Write
<1>2. PICK i \in Writers : i = using[w]
  BY <1>1 DEF Alive, UsingKept, Leads
<1>3. /\ mem' = mem /\ mem[i] = "live" /\ Listed(i) /\ Owner(i) = Owner(w) /\ ~folded[i]
      /\ wpc[w] = "lock" => Published(i) /\ section' = section
                                   /\ refcount' = [refcount EXCEPT ![i] = @ - 1]
      /\ wpc[w] = "lock_new" => /\ i = w /\ section' = [section EXCEPT ![Owner(w)] = w]
                                /\ refcount' = [refcount EXCEPT ![i] = @ + 0]
      /\ refcount'[i] \in Nat
  BY <1>2, WriteStep
<1>4. PICK e \in Records : e = <<w, records[w]>> /\ e[1] = w /\ e[2] = records[w]
  <2>1. records[w] \in Nat /\ 1 <= records[w] /\ records[w] <= MaxRecords[w]
    BY <1>1 DEF TypeOK, NumbersKept, Busy
  <2> QED BY <2>1, Recorded
<1>5. \/ /\ buffer' = [buffer EXCEPT ![i] = Append(@, e)]
         /\ total_filled' = total_filled + 1
         /\ wpc' = [wpc EXCEPT ![w] = "wake"]
      \/ UNCHANGED <<buffer, total_filled>> /\ wpc' = [wpc EXCEPT ![w] = "idle"]
  BY <1>1, <1>2, <1>4 DEF Added, Goto
<1>6. /\ \A u \in Writers \ {w} : wpc'[u] = wpc[u] /\ using'[u] = using[u]
      /\ wpc'[w] \in {"wake", "idle"} /\ using'[w] = None
      /\ \A j \in Writers \ {i} : buffer'[j] = buffer[j] /\ refcount'[j] = refcount[j]
  BY <1>1, <1>3, <1>5 DEF TypeOK
<1>7. TypeOK'
  <2>1. buffer' \in [Writers -> Seq(Records)] /\ total_filled' \in Nat
    <3>1. buffer[i] \in Seq(Records)
      BY <1>1 DEF TypeOK
    <3>2. Append(buffer[i], e) \in Seq(Records)
      BY <3>1, Appended
    <3>3. CASE buffer' = [buffer EXCEPT ![i] = Append(@, e)] /\ total_filled' = total_filled + 1
      BY <1>1, <3>2, <3>3 DEF TypeOK
    <3>4. CASE UNCHANGED <<buffer, total_filled>>
      BY <1>1, <3>4 DEF TypeOK
    <3> QED BY <1>5, <3>3, <3>4
  <2>2. refcount' \in [Writers -> Nat]
    <3>1. refcount' \in [Writers -> Int]
      BY <1>1, <1>3 DEF TypeOK
    <3> QED BY <1>1, <1>3, <1>6, <3>1 DEF TypeOK
  <2>3. section' \in [Processes \cup {driver} -> Writers \cup {None}]
    BY <1>1, <1>3, Owners DEF TypeOK
  <2>4. wpc' \in [Writers -> WriterPCs] /\ using' \in [Writers -> Writers \cup {None}]
    BY <1>1, <1>5 DEF TypeOK, WriterPCs
  <2> QED BY <1>1, <1>3, <2>1, <2>2, <2>3, <2>4 DEF TypeOK, readVars, envVars
<1>8. Busy(w) /\ ~Busy(w)' /\ \A u \in Writers : NumberSame(u)
  BY <1>1, <1>6 DEF Busy, NumberSame
<1>9. LogKept' /\ NumbersKept'
  <2>1. CASE buffer' = [buffer EXCEPT ![i] = Append(@, e)]
    <3>1. UNCHANGED <<log, records>>
      BY <1>1 DEF readVars
    <3> QED BY <1>1, <1>3, <1>4, <1>8, <2>1, <3>1, RecordAdded
  <2>2. CASE UNCHANGED buffer
    BY <1>1, <1>8, <2>2, LogSame, NumbersSame DEF readVars
  <2> QED BY <1>5, <2>1, <2>2
<1>10. /\ \A j : Listed(j)' <=> Listed(j)
       /\ \A j \in Writers : Published(j) => Published(j)'
       /\ \A j \in Writers \ {i} : Published(j)' <=> Published(j)
       /\ Published(i)' /\ Visited' = Visited
       /\ wpc[w] = "lock_new" => ~Published(i)
  BY <1>1, <1>3, <1>6 DEF Listed, Published, Visited, readVars
<1>11. \A j \in Writers : Counts(j)'
  <2>1. ASSUME NEW j \in Writers \ {i} PROVE Counts(j)'
    <3>1. Inside(j)' = Inside(j)
      BY <1>2, <1>6 DEF Inside
    <3> QED BY <1>1, <1>6, <1>10, <3>1, CountsSame DEF Alive
  <2>2. Counts(i)'
    <3>1. w \in Inside(i) /\ Inside(i)' = Inside(i) \ {w}
      BY <1>1, <1>2, <1>6, DebugAssumption DEF Inside
    <3>2. /\ Cardinality(Inside(i))' = Cardinality(Inside(i)) - 1
          /\ Cardinality(Inside(i)) \in Nat
      BY <3>1, Leaves
    <3>3. Cardinality({i} \cap Visited) \in Nat /\ refcount[i] \in Nat /\ Counts(i)
      BY <1>1, Visits DEF TypeOK, Alive
    <3>4. CASE wpc[w] = "lock"
      <4>1. refcount'[i] = refcount[i] - 1
        BY <1>1, <1>3, <3>4 DEF TypeOK
      <4> QED BY <1>3, <1>10, <3>2, <3>3, <3>4, <4>1 DEF Counts
    <3>5. CASE wpc[w] = "lock_new"
      <4>1. refcount'[i] = refcount[i]
        BY <1>1, <1>3, <3>3, <3>5 DEF TypeOK
      <4> QED BY <1>10, <3>2, <3>3, <3>5, <4>1 DEF Counts
    <3> QED BY <1>1, <3>4, <3>5
  <2> QED BY <2>1, <2>2
<1>12. \A j, o : Leads(j, o) => Leads(j, o)'
  BY <1>1, <1>10 DEF Leads
<1>13. UsingKept(w)' /\ \A u \in Writers \ {w} : UsingKept(u)'
  BY <1>1, <1>6, <1>12 DEF Alive, UsingKept, Busy
<1>14. SectionKept(w)'
  BY <1>1, <1>3, <1>6, <1>10 DEF Alive, SectionKept, Published
<1>15. \A u \in Writers \ {w} : SectionKept(u)'
  BY <1>1, <1>3, <1>6, <1>10 DEF Alive, SectionKept, envVars
<1>16. PointersKept'
  <2>1. Leads(i, Owner(w))'
    BY <1>1, <1>3, <1>10 DEF Leads
  <2> QED BY <1>1, <1>3, <1>12, <2>1 DEF Alive, PointersKept, TypeOK
<1>17. ListedOnce' /\ ReaderKept'
  BY <1>1, <1>3, <1>10 DEF Alive, ListedOnce, ReaderKept, readVars
<1>18. (total_filled = Cardinality(Held))'
  <2>1. CASE buffer' = [buffer EXCEPT ![i] = Append(@, e)] /\ total_filled' = total_filled + 1
    <3>1. buffer[i] \in Seq(Records) /\ buffer' = [buffer EXCEPT ![i] = Append(buffer[i], e)]
      BY <1>1, <2>1 DEF TypeOK
    <3>2. Append(buffer[i], e) \in Seq(Records) /\ Len(Append(buffer[i], e)) = Len(buffer[i]) + 1
      BY <3>1, Appended
    <3>3. /\ Cardinality(Held)' = Cardinality(Held) - Len(buffer[i]) + Len(Append(buffer[i], e))
          /\ Cardinality(Held) \in Nat /\ Len(buffer[i]) \in Nat
      BY <1>1, <3>1, <3>2, Holds
    <3> QED BY <1>1, <2>1, <3>2, <3>3 DEF Alive
  <2>2. CASE UNCHANGED <<buffer, total_filled>>
    BY <1>1, <2>2 DEF Alive, Held
  <2> QED BY <1>5, <2>1, <2>2
<1>19. Alive'
  BY <1>11, <1>13, <1>14, <1>15, <1>16, <1>17, <1>18 DEF Alive
<1> QED BY <1>1, <1>7, <1>9, <1>19 DEF Runs, IInv, envVars

-----------------------------------------------------------------------------
(* The reader.                                                             *)

\* No step of the reader is a step of a writer.
LEMMA NoCalls == UNCHANGED <<wpc, records>> => \A w \in Writers : NumberSame(w)
BY DEF NumberSame, Busy

LEMMA ReadBeginNext ==
    ASSUME Runs, ReadBegin
    PROVE  IInv'
<1>1. /\ TypeOK /\ Alive /\ UNCHANGED <<secVars, writeVars, log, envVars, crashed>>
      /\ rpc = "sleep" /\ rpc' = "scan" /\ todo' = sections /\ room' = user_size /\ event' = FALSE
  BY DEF Runs, IInv, ReadBegin
<1>2. TypeOK'
  BY <1>1, DebugAssumption DEF TypeOK, ReaderPCs, secVars, writeVars, envVars
<1>3. LogKept' /\ NumbersKept'
  BY <1>1, LogSame, NoCalls, NumbersSame DEF Runs, IInv, secVars, writeVars
<1>4. ListedOnce'
  BY <1>1 DEF Alive, ListedOnce, secVars
<1>5. ReaderKept'
  BY <1>1 DEF ReaderKept, Listed, secVars
<1>6. Alive'
  BY <1>1, <1>4, <1>5, Reads DEF secVars, writeVars, envVars
<1> QED BY <1>1, <1>2, <1>3, <1>6 DEF Runs, IInv, secVars, envVars

LEMMA ReadEndNext ==
    ASSUME Runs, ReadEnd \/ ReaderQuits
    PROVE  IInv'
<1>1. /\ TypeOK /\ Alive /\ UNCHANGED <<secVars, writeVars, todo, room, log, event, envVars, crashed>>
      /\ rpc \in {"scan", "sleep"} /\ rpc' \in {"sleep", "gone"} /\ todo = <<>>
  BY DEF Runs, IInv, ReadEnd, ReaderQuits, Alive, ReaderKept
<1>2. TypeOK'
  BY <1>1 DEF TypeOK, ReaderPCs, secVars, writeVars, envVars
<1>3. LogKept' /\ NumbersKept'
  BY <1>1, LogSame, NoCalls, NumbersSame DEF Runs, IInv, secVars, writeVars
<1>4. ListedOnce'
  BY <1>1 DEF Alive, ListedOnce, secVars
<1>5. ReaderKept'
  BY <1>1 DEF Alive, ReaderKept, Listed, secVars
<1>6. Alive'
  BY <1>1, <1>4, <1>5, Reads DEF secVars, writeVars, envVars
<1> QED BY <1>1, <1>2, <1>3, <1>6 DEF Runs, IInv, secVars, envVars

LEMMA ReadGetNext ==
    ASSUME Runs, ReadGet
    PROVE  IInv'
<1>1. /\ TypeOK /\ Alive
      /\ UNCHANGED <<mem, buffer, folded, sections, section, total_filled, unloaded,
                     writeVars, todo, room, log, event, envVars>>
      /\ rpc = "scan" /\ rpc' = "visit" /\ todo # <<>>
      /\ refcount' = [refcount EXCEPT ![Head(todo)] = @ + 1]
      /\ crashed' = (mem[Head(todo)] = "freed")
  BY DEF Runs, IInv, ReadGet, Reference
<1>2. Head(todo) \in Writers /\ Listed(Head(todo))
  <2>1. todo \in Seq(Writers)
    BY <1>1 DEF TypeOK
  <2>2. 1 \in 1 .. Len(todo) /\ Head(todo) = todo[1] /\ Head(todo) \in Writers
    BY <1>1, <2>1, Tails
  <2>3. Listed(todo[1])
    BY <1>1, <2>2 DEF Alive, ReaderKept
  <2> QED BY <2>2, <2>3
<1>3. PICK i \in Writers : i = Head(todo)
  BY <1>2
<1>4. refcount'[i] = refcount[i] + 1 /\ \A j \in Writers \ {i} : refcount'[j] = refcount[j]
  BY <1>1, <1>3 DEF TypeOK
<1>5. TypeOK'
  <2>1. refcount' \in [Writers -> Nat] /\ rpc' \in ReaderPCs
    BY <1>1, <1>2 DEF TypeOK, ReaderPCs
  <2>2. crashed' \in BOOLEAN
    BY <1>1
  <2> QED BY <1>1, <2>1, <2>2 DEF TypeOK, writeVars, envVars
<1>6. LogKept' /\ NumbersKept'
  BY <1>1, LogSame, NoCalls, NumbersSame DEF Runs, IInv, writeVars
<1>7. ~preempt' => ~crashed'
  BY <1>1, <1>2 DEF Alive, SectionKept, envVars
<1>8. ASSUME ~crashed' PROVE Alive'
  <2>1. mem[i] = "live"
    <3>1. mem[i] # "freed" /\ mem[i] \in {"unused", "live", "freed"}
      BY <1>1, <1>3, <1>8 DEF TypeOK
    <3>2. SectionKept(i) /\ Listed(i)
      BY <1>1, <1>2, <1>3 DEF Alive
    <3> QED BY <3>1, <3>2 DEF SectionKept
  <2>2. /\ \A j : Listed(j)' <=> Listed(j)
        /\ \A j : Published(j)' <=> Published(j)
        /\ \A j : Inside(j)' = Inside(j)
        /\ Visited = {} /\ Visited' = {i}
    BY <1>1, <1>3, InsideSame DEF Listed, Published, Inside, Visited, writeVars
  <2>3. Counts(i)'
    <3>1. {i} \cap Visited = {} /\ {i} \cap Visited' = {i}
      BY <2>2
    <3>2. Cardinality({i} \cap Visited) = 0 /\ Cardinality({i} \cap Visited') = 1
      BY <3>1, FS_EmptySet, FS_Singleton
    <3>3. Cardinality(Inside(i)) \in Nat
      <4>1. IsFiniteSet(Inside(i))
        BY DebugAssumption, FS_Subset DEF Inside
      <4> QED BY <4>1, FS_CardinalityType
    <3> QED BY <1>1, <1>4, <2>2, <3>2, <3>3 DEF Alive, Counts
  <2>4. ASSUME NEW j \in Writers \ {i} PROVE Counts(j)'
    <3>1. {j} \cap Visited = {} /\ {j} \cap Visited' = {}
      BY <2>2
    <3> QED BY <1>1, <1>4, <2>2, <3>1 DEF Alive, Counts
  <2>5. \A j, o : Leads(j, o) => Leads(j, o)'
    BY <1>1, <2>2 DEF Leads
  <2>6. \A u \in Writers : UsingKept(u)' /\ SectionKept(u)'
    BY <1>1, <2>2, <2>5 DEF Alive, UsingKept, SectionKept, Busy, writeVars, envVars
  <2>7. PointersKept' /\ ListedOnce' /\ (total_filled = Cardinality(Held))'
    BY <1>1, <2>5 DEF Alive, PointersKept, ListedOnce, Held
  <2>8. ReaderKept'
    BY <1>1, <1>3, <2>1, <2>2 DEF Alive, ReaderKept
  <2> QED BY <2>3, <2>4, <2>6, <2>7, <2>8 DEF Alive
<1> QED BY <1>1, <1>5, <1>6, <1>7, <1>8 DEF Runs, IInv

\* What a section held follows what the reader has: each record is still in one place.
LEMMA Emptied ==
    ASSUME TypeOK, LogKept, NumbersKept, NEW i \in Writers, UNCHANGED <<wpc, records>>,
           log' = log \o buffer[i], buffer' = [buffer EXCEPT ![i] = <<>>]
    PROVE  LogKept' /\ NumbersKept' /\ log' \in Seq(Records) /\ buffer' \in [Writers -> Seq(Records)]
<1>1. log \in Seq(Records) /\ buffer[i] \in Seq(Records)
  BY DEF TypeOK
<1>2. /\ log' \in Seq(Records) /\ Len(log) \in Nat /\ Len(buffer[i]) \in Nat
      /\ Len(log') = Len(log) + Len(buffer[i])
      /\ \A k \in 1 .. Len(log) : log'[k] = log[k]
      /\ \A k \in 1 .. Len(log') : \/ k \in 1 .. Len(log)
                                   \/ /\ k - Len(log) \in 1 .. Len(buffer[i])
                                      /\ log'[k] = buffer[i][k - Len(log)]
  BY <1>1, Concatenated
<1>3. /\ buffer'[i] = <<>> /\ Len(buffer'[i]) = 0
      /\ \A j \in Writers \ {i} : buffer'[j] = buffer[j]
      /\ buffer' \in [Writers -> Seq(Records)]
  BY EmptySeq DEF TypeOK
<1>4. InOrder(log)'
  <2>1. ASSUME NEW k \in 1 .. Len(log'), NEW l \in 1 .. Len(log'), k < l
        PROVE  Before(log'[k], log'[l])
    <3>1. CASE l \in 1 .. Len(log)
      <4>1. k \in 1 .. Len(log)
        BY <1>2, <2>1, <3>1
      <4> QED BY <1>2, <2>1, <3>1, <4>1 DEF LogKept, InOrder
    <3>2. CASE k \in 1 .. Len(log) /\ l \notin 1 .. Len(log)
      BY <1>2, <3>2 DEF LogKept
    <3>3. CASE k \notin 1 .. Len(log) /\ l \notin 1 .. Len(log)
      <4> DEFINE a == k - Len(log)
                 b == l - Len(log)
      <4>1. /\ a \in 1 .. Len(buffer[i]) /\ log'[k] = buffer[i][a]
            /\ b \in 1 .. Len(buffer[i]) /\ log'[l] = buffer[i][b] /\ a < b
        BY <1>2, <2>1, <3>3
      <4> HIDE DEF a, b
      <4> QED BY <4>1 DEF LogKept, InOrder
    <3> QED BY <3>1, <3>2, <3>3
  <2> QED BY <2>1 DEF InOrder, Before
<1>5. \A j \in Writers : InOrder(buffer[j])'
  BY <1>3 DEF LogKept, InOrder, Before
<1>6. ASSUME NEW j \in Writers, NEW k \in 1 .. Len(log'), NEW l \in 1 .. Len(buffer'[j])
      PROVE  Before(log'[k], buffer'[j][l])
  <2>1. j # i /\ buffer'[j] = buffer[j] /\ l \in 1 .. Len(buffer[j])
    BY <1>3
  <2>2. CASE k \in 1 .. Len(log)
    BY <1>2, <2>1, <2>2 DEF LogKept
  <2>3. CASE k \notin 1 .. Len(log)
    <3> DEFINE a == k - Len(log)
    <3>1. a \in 1 .. Len(buffer[i]) /\ log'[k] = buffer[i][a]
      BY <1>2, <2>3
    <3> HIDE DEF a
    <3>2. buffer[i][a] # buffer[j][l]
      BY <2>1, <3>1 DEF LogKept
    <3>3. ASSUME buffer[i][a][1] = buffer[j][l][1] PROVE buffer[i][a][1] \notin Processes
      <4>1. Owner(buffer[i][a][1]) = Owner(i) /\ Owner(buffer[j][l][1]) = Owner(j)
        BY <2>1, <3>1 DEF LogKept
      <4>2. Owner(i) = Owner(j)
        BY <3>3, <4>1
      <4> QED BY <2>1, <4>1, <4>2, DebugAssumption DEF Owner
    <3> QED BY <2>1, <3>1, <3>2, <3>3 DEF Before
  <2> QED BY <2>2, <2>3
<1>7. ASSUME NEW a \in Writers, NEW b \in Writers, a # b,
             NEW k \in 1 .. Len(buffer'[a]), NEW l \in 1 .. Len(buffer'[b])
      PROVE  buffer'[a][k] # buffer'[b][l]
  BY <1>3, <1>7 DEF LogKept
<1>8. ASSUME NEW j \in Writers, NEW k \in 1 .. Len(buffer'[j])
      PROVE  Owner(buffer'[j][k][1]) = Owner(j)
  BY <1>3 DEF LogKept
<1>9. LogKept'
  BY <1>4, <1>5, <1>6, <1>7, <1>8 DEF LogKept, Before, InOrder
<1>10. \A f \in Records : Given(f) => Given(f)'
  BY DEF Given, Busy
<1>11. \A k \in 1 .. Len(log') : Given(log[k])'
  <2>1. ASSUME NEW k \in 1 .. Len(log') PROVE Given(log'[k])
    <3>1. CASE k \in 1 .. Len(log)
      BY <1>2, <3>1 DEF NumbersKept
    <3>2. CASE k \notin 1 .. Len(log)
      BY <1>2, <3>2 DEF NumbersKept
    <3> QED BY <3>1, <3>2
  <2> QED BY <2>1 DEF Given, Busy
<1>12. \A j \in Writers : \A k \in 1 .. Len(buffer'[j]) : Given(buffer[j][k])'
  <2>1. ASSUME NEW j \in Writers, NEW k \in 1 .. Len(buffer'[j]) PROVE Given(buffer'[j][k])
    BY <1>3 DEF NumbersKept
  <2> QED BY <2>1 DEF Given, Busy
<1>13. NumbersKept'
  BY <1>11, <1>12 DEF NumbersKept, Given, Busy
<1> QED BY <1>2, <1>3, <1>9, <1>13

\* The section that is visited is unlinked when it was folded, and then it has no
\* reference left; otherwise the one it loses is that of the reader.
LEMMA ReadSectionStep ==
    ASSUME Runs, MayRun(None), ReadSection, NEW i \in Writers, i = Head(todo)
    PROVE  \/ /\ folded[i] /\ buffer'[i] = <<>>
              /\ sections' = Unlinked(sections, i) /\ folded' = [folded EXCEPT ![i] = FALSE]
              /\ mem' = [mem EXCEPT ![i] = "freed"] /\ Inside(i) = {}
              /\ refcount' = [refcount EXCEPT ![i] = @ + (-2)] /\ refcount'[i] = 0
           \/ /\ UNCHANGED <<sections, folded>>
              /\ mem' = mem \/ /\ mem' = [mem EXCEPT ![i] = "freed"]
                               /\ preempt /\ wpc[i] = "get_new" /\ buffer'[i] = <<>>
              /\ refcount' = [refcount EXCEPT ![i] = @ + (-1)]
              /\ refcount'[i] = refcount[i] - 1 /\ refcount'[i] \in Nat
<1>1. /\ TypeOK /\ Alive /\ rpc = "visit" /\ i = Head(todo)
      /\ UsingKept(i) /\ SectionKept(i) /\ Counts(i) /\ mem[i] = "live"
      /\ buffer'[i] = buffer[i] \/ buffer'[i] = <<>>
      /\ refcount[i] \in Nat
  BY DEF Runs, IInv, ReadSection, Empties, Alive, ReaderKept, TypeOK
<1>2. Cardinality({i} \cap Visited) = 1
  <2>1. {i} \cap Visited = {i}
    BY <1>1 DEF Visited
  <2> QED BY <2>1, FS_Singleton
<1>3. IsFiniteSet(Inside(i)) /\ Cardinality(Inside(i)) \in Nat
  <2>1. IsFiniteSet(Inside(i))
    BY DebugAssumption, FS_Subset DEF Inside
  <2> QED BY <2>1, FS_CardinalityType
<1>4. CASE /\ folded[i] /\ buffer'[i] = <<>>
           /\ sections' = Unlinked(sections, i) /\ folded' = [folded EXCEPT ![i] = FALSE]
           /\ Put(i, -2)
  <2>1. Published(i)
    BY <1>1, <1>4 DEF SectionKept
  <2>2. Inside(i) = {}
    <3>1. ASSUME NEW w \in Writers, using[w] = i, wpc[w] \in {"lock", "lock_new"} PROVE FALSE
      <4>1. UsingKept(w)
        BY <1>1 DEF Alive
      <4> QED BY <1>4, <2>1, <3>1, <4>1 DEF UsingKept, Leads, Published
    <3> QED BY <3>1 DEF Inside
  <2>3. refcount[i] = 2
    <3>1. Cardinality(Inside(i)) = 0
      BY <2>2, FS_EmptySet
    <3> QED BY <1>1, <1>2, <2>1, <3>1 DEF Counts
  <2>4. mem' = [mem EXCEPT ![i] = "freed"] /\ refcount' = [refcount EXCEPT ![i] = @ + (-2)]
    BY <1>4, <2>3 DEF Put
  <2> QED BY <1>1, <1>4, <2>2, <2>3, <2>4 DEF TypeOK
<1>5. CASE UNCHANGED <<sections, folded>> /\ Put(i, -1)
  <2>1. refcount[i] >= 1 /\ refcount[i] + (-1) \in Nat /\ refcount[i] + (-1) = refcount[i] - 1
    BY <1>1, <1>2, <1>3 DEF Counts
  <2>2. refcount' = [refcount EXCEPT ![i] = @ + (-1)] /\ refcount'[i] = refcount[i] - 1
    BY <1>1, <1>5, <2>1 DEF Put, TypeOK
  <2>3. CASE refcount[i] + (-1) # 0
    BY <1>5, <2>1, <2>2, <2>3 DEF Put
  <2>4. CASE refcount[i] + (-1) = 0
    <3>1. Cardinality(Inside(i)) = 0 /\ ~Published(i)
      BY <1>1, <1>2, <1>3, <2>1, <2>4 DEF Counts
    <3>2. Inside(i) = {}
      BY <1>3, <3>1, FS_EmptySet
    <3>3. Listed(i)
      <4>1. todo \in Seq(Writers) /\ todo # <<>>
        BY <1>1 DEF TypeOK, Alive, ReaderKept
      <4>2. 1 \in 1 .. Len(todo) /\ Head(todo) = todo[1]
        BY <4>1, Tails
      <4> QED BY <1>1, <4>2 DEF Alive, ReaderKept
    <3>4. wpc[i] = "get_new"
      BY <1>1, <3>1, <3>2, <3>3 DEF Published, UsingKept, Inside
    <3>5. preempt
      BY <3>4, DebugAssumption DEF MayRun, Unreferenced
    <3>6. buffer'[i] = <<>>
      BY <1>1, <3>1 DEF SectionKept
    <3> QED BY <1>5, <2>1, <2>2, <2>4, <3>4, <3>5, <3>6 DEF Put
  <2> QED BY <2>3, <2>4
<1> QED BY <1>1, <1>4, <1>5 DEF ReadSection, Empties, TypeOK


LEMMA ReadSectionNext ==
    ASSUME Runs, MayRun(None), ReadSection
    PROVE  IInv'
<1>1. /\ TypeOK /\ Alive /\ LogKept /\ NumbersKept /\ (~preempt => ~crashed)
      /\ rpc = "visit" /\ rpc' = "scan" /\ todo' = Tail(todo)
      /\ UNCHANGED <<section, unloaded, writeVars, event, envVars, crashed>>
      /\ todo # <<>> /\ mem[Head(todo)] = "live"
  BY DEF Runs, IInv, ReadSection, Alive, ReaderKept
<1>2. /\ 1 \in 1 .. Len(todo) /\ Head(todo) = todo[1] /\ Head(todo) \in Writers
      /\ todo' \in Seq(Writers) /\ Len(todo') = Len(todo) - 1 /\ Len(todo) \in Nat
      /\ \A k \in 1 .. Len(todo') : k + 1 \in 1 .. Len(todo) /\ todo'[k] = todo[k + 1]
  <2>1. todo \in Seq(Writers)
    BY <1>1 DEF TypeOK
  <2> QED BY <1>1, <2>1, Tails, LenProperties
<1>3. PICK i \in Writers : i = Head(todo) /\ i = todo[1]
  BY <1>2
<1>4. \/ /\ log' = log \o buffer[i] /\ room' = room - Len(buffer[i]) /\ Len(buffer[i]) <= room
         /\ buffer' = [buffer EXCEPT ![i] = <<>>]
         /\ total_filled' = total_filled - Len(buffer[i])
      \/ UNCHANGED <<log, room, buffer, total_filled>>
  BY <1>3 DEF ReadSection, Empties
<1>5. \/ /\ folded[i] /\ buffer'[i] = <<>>
         /\ sections' = Unlinked(sections, i) /\ folded' = [folded EXCEPT ![i] = FALSE]
         /\ mem' = [mem EXCEPT ![i] = "freed"] /\ Inside(i) = {}
         /\ refcount' = [refcount EXCEPT ![i] = @ + (-2)] /\ refcount'[i] = 0
      \/ /\ UNCHANGED <<sections, folded>>
         /\ mem' = mem \/ /\ mem' = [mem EXCEPT ![i] = "freed"]
                          /\ preempt /\ wpc[i] = "get_new" /\ buffer'[i] = <<>>
         /\ refcount' = [refcount EXCEPT ![i] = @ + (-1)]
         /\ refcount'[i] = refcount[i] - 1 /\ refcount'[i] \in Nat
  BY <1>3, ReadSectionStep
<1>6. /\ \A j \in Writers \ {i} : /\ mem'[j] = mem[j] /\ refcount'[j] = refcount[j]
                                  /\ folded'[j] = folded[j] /\ buffer'[j] = buffer[j]
      /\ buffer'[i] = buffer[i] \/ buffer'[i] = <<>>
      /\ mem' \in [Writers -> {"unused", "live", "freed"}] /\ folded' \in [Writers -> BOOLEAN]
  BY <1>1, <1>4, <1>5 DEF TypeOK
<1>7. refcount' \in [Writers -> Nat]
  <2>1. \/ refcount' = [refcount EXCEPT ![i] = @ + (-2)]
        \/ refcount' = [refcount EXCEPT ![i] = @ + (-1)]
    BY <1>5
  <2>2. refcount' \in [Writers -> Int]
    <3>1. refcount \in [Writers -> Nat]
      BY <1>1 DEF TypeOK
    <3> QED BY <2>1, <3>1
  <2>3. refcount'[i] \in Nat
    BY <1>5
  <2> QED BY <1>1, <1>6, <2>2, <2>3 DEF TypeOK
<1>8. LogKept' /\ NumbersKept' /\ log' \in Seq(Records) /\ buffer' \in [Writers -> Seq(Records)]
  <2>1. CASE log' = log \o buffer[i] /\ buffer' = [buffer EXCEPT ![i] = <<>>]
    BY <1>1, <2>1, Emptied DEF writeVars
  <2>2. CASE UNCHANGED <<log, buffer>>
    BY <1>1, <2>2, LogSame, NoCalls, NumbersSame DEF TypeOK, writeVars
  <2> QED BY <1>4, <2>1, <2>2
<1>9. total_filled' = Cardinality(Held)' /\ total_filled' \in Nat /\ room' \in Nat
  <2>1. CASE /\ room' = room - Len(buffer[i]) /\ Len(buffer[i]) <= room
             /\ buffer' = [buffer EXCEPT ![i] = <<>>]
             /\ total_filled' = total_filled - Len(buffer[i])
    <3>1. <<>> \in Seq(Records) /\ Len(<<>>) = 0
      BY EmptySeq
    <3>2. /\ Cardinality(Held)' = Cardinality(Held) - Len(buffer[i]) + 0
          /\ Cardinality(Held) \in Nat /\ Cardinality(Held) >= Len(buffer[i])
          /\ Len(buffer[i]) \in Nat
      BY <1>1, <2>1, <3>1, Holds
    <3>3. total_filled = Cardinality(Held) /\ room \in Nat
      BY <1>1 DEF Alive, TypeOK
    <3> QED BY <2>1, <3>2, <3>3
  <2>2. CASE UNCHANGED <<room, buffer, total_filled>>
    BY <1>1, <2>2 DEF Alive, Held, TypeOK
  <2> QED BY <1>4, <2>1, <2>2
<1>10. /\ sections \in Seq(Writers) /\ Unlinked(sections, i) \in Seq(Writers)
       /\ \A k \in 1 .. Len(Unlinked(sections, i)) :
             \E l \in 1 .. Len(sections) : Unlinked(sections, i)[k] = sections[l]
       /\ \A k \in 1 .. Len(Unlinked(sections, i)) : Unlinked(sections, i)[k] # i
       /\ \A l \in 1 .. Len(sections) : sections[l] # i =>
             \E k \in 1 .. Len(Unlinked(sections, i)) : Unlinked(sections, i)[k] = sections[l]
       /\ \A k, l \in 1 .. Len(Unlinked(sections, i)) :
             Unlinked(sections, i)[k] = Unlinked(sections, i)[l] => k = l
  <2>1. /\ sections \in Seq(Writers)
        /\ \A k, l \in 1 .. Len(sections) : sections[k] = sections[l] => k = l
    BY <1>1 DEF TypeOK, Alive, ListedOnce
  <2> QED BY <2>1, UnlinkedKeeps
<1>11. TypeOK'
  <2>1. sections' \in Seq(Writers)
    BY <1>5, <1>10
  <2> QED BY <1>1, <1>2, <1>6, <1>7, <1>8, <1>9, <2>1 DEF TypeOK, ReaderPCs, writeVars, envVars
<1>12. \A j : j # i => (Listed(j)' <=> Listed(j))
  <2>1. CASE sections' = sections
    BY <2>1 DEF Listed
  <2>2. CASE sections' = Unlinked(sections, i)
    <3>1. ASSUME NEW j, j # i, Listed(j) PROVE Listed(j)'
      BY <1>10, <2>2, <3>1 DEF Listed
    <3>2. ASSUME NEW j, j # i, Listed(j)' PROVE Listed(j)
      <4>1. PICK k \in 1 .. Len(Unlinked(sections, i)) : Unlinked(sections, i)[k] = j
        BY <2>2, <3>2 DEF Listed
      <4> QED BY <1>10, <4>1 DEF Listed
    <3> QED BY <3>1, <3>2
  <2> QED BY <1>5, <2>1, <2>2
<1>13. /\ Visited = {i} /\ Visited' = {} /\ \A j : Inside(j)' = Inside(j)
       /\ \A j : j # i => (Published(j)' <=> Published(j))
  BY <1>1, <1>3, <1>12 DEF Visited, Inside, Published, writeVars
<1>14. ASSUME NEW j \in Writers \ {i} PROVE Counts(j)' /\ SectionKept(j)'
  <2>1. {j} \cap Visited = {} /\ {j} \cap Visited' = {}
    BY <1>13
  <2>2. Counts(j)'
    BY <1>1, <1>6, <1>13, <2>1 DEF Alive, Counts
  <2>3. SectionKept(j)'
    BY <1>1, <1>6, <1>12, <1>13 DEF Alive, SectionKept, writeVars, envVars
  <2> QED BY <2>2, <2>3
<1>15. ListedOnce'
  <2>1. \A k, l \in 1 .. Len(sections') : sections'[k] = sections'[l] => k = l
    BY <1>1, <1>5, <1>10 DEF Alive, ListedOnce
  <2>2. ASSUME NEW k \in 1 .. Len(todo'), NEW l \in 1 .. Len(todo'), todo'[k] = todo'[l]
        PROVE  k = l
    <3>1. k + 1 = l + 1
      BY <1>1, <1>2, <2>2 DEF Alive, ListedOnce
    <3> QED BY <3>1
  <2> QED BY <2>1, <2>2 DEF ListedOnce
<1>16. ReaderKept'
  <2>1. ASSUME NEW k \in 1 .. Len(todo') PROVE Listed(todo[k])'
    <3>1. k + 1 # 1
      OBVIOUS
    <3>2. todo[k + 1] # i /\ Listed(todo[k + 1])
      BY <1>1, <1>2, <1>3, <3>1 DEF Alive, ListedOnce, ReaderKept
    <3> QED BY <1>2, <1>12, <3>2
  <2> QED BY <1>1, <2>1 DEF ReaderKept, Listed
<1>17. IsFiniteSet(Inside(i)) /\ Cardinality(Inside(i)) \in Nat
  <2>1. IsFiniteSet(Inside(i))
    BY DebugAssumption, FS_Subset DEF Inside
  <2> QED BY <2>1, FS_CardinalityType
<1>18. /\ Cardinality({i} \cap Visited) = 1 /\ Cardinality({i} \cap Visited') = 0
       /\ refcount[i] \in Nat /\ Counts(i) /\ SectionKept(i) /\ mem[i] = "live"
  <2>1. {i} \cap Visited = {i} /\ {i} \cap Visited' = {}
    BY <1>13
  <2> QED BY <1>1, <1>3, <2>1, FS_Singleton, FS_EmptySet DEF TypeOK, Alive
<1>19. Counts(i)' /\ SectionKept(i)' /\ \A j, o : Leads(j, o) => Leads(j, o)'
  <2>1. CASE /\ folded[i] /\ buffer'[i] = <<>>
             /\ sections' = Unlinked(sections, i) /\ folded' = [folded EXCEPT ![i] = FALSE]
             /\ mem' = [mem EXCEPT ![i] = "freed"] /\ Inside(i) = {}
             /\ refcount'[i] = 0
    <3>1. Published(i) /\ ~Listed(i)' /\ ~Published(i)'
      BY <1>10, <1>18, <2>1 DEF SectionKept, Listed, Published
    <3>2. /\ folded'[i] = FALSE /\ mem'[i] = "freed"
          /\ wpc'[i] = wpc[i] /\ wpc[i] \notin {"get_new", "lock_new", "list"}
      BY <1>1, <1>18, <2>1, <3>1 DEF TypeOK, Published, SectionKept, writeVars
    <3>3. SectionKept(i)'
      BY <2>1, <3>1, <3>2 DEF SectionKept
    <3>4. Counts(i)'
      <4>1. Cardinality(Inside(i)') = 0
        BY <1>13, <2>1, FS_EmptySet
      <4> QED BY <1>18, <2>1, <3>1, <4>1 DEF Counts
    <3>5. ASSUME NEW j, NEW o, Leads(j, o) PROVE Leads(j, o)'
      BY <1>6, <1>13, <2>1, <3>5 DEF Leads
    <3> QED BY <3>3, <3>4, <3>5
  <2>2. CASE /\ UNCHANGED <<sections, folded>>
             /\ mem' = mem \/ /\ mem' = [mem EXCEPT ![i] = "freed"]
                              /\ preempt /\ wpc[i] = "get_new" /\ buffer'[i] = <<>>
             /\ refcount'[i] = refcount[i] - 1
    <3>1. /\ Listed(i)' <=> Listed(i)
          /\ Published(i)' <=> Published(i)
      BY <1>1, <2>2 DEF Listed, Published, writeVars
    <3>2. mem'[i] = "live" \/ (mem'[i] = "freed" /\ preempt /\ wpc[i] = "get_new")
      BY <1>1, <1>18, <2>2 DEF TypeOK
    <3>3. wpc'[i] = wpc[i] /\ preempt' = preempt /\ folded'[i] = folded[i]
      BY <1>1, <2>2 DEF writeVars, envVars
    <3>4. SectionKept(i)'
      BY <1>6, <1>18, <3>1, <3>2, <3>3 DEF SectionKept
    <3>5. Counts(i)'
      BY <1>13, <1>17, <1>18, <2>2, <3>1 DEF Counts
    <3>6. ASSUME NEW j, NEW o, Leads(j, o) PROVE Leads(j, o)'
      BY <1>6, <1>13, <2>2, <3>1, <3>6 DEF Leads
    <3> QED BY <3>4, <3>5, <3>6
  <2> QED BY <1>5, <2>1, <2>2
<1>20. \A u \in Writers : UsingKept(u)'
  BY <1>1, <1>19 DEF Alive, UsingKept, Busy, writeVars
<1>21. PointersKept'
  BY <1>1, <1>19 DEF Alive, PointersKept
<1>22. Alive'
  BY <1>9, <1>14, <1>15, <1>16, <1>19, <1>20, <1>21 DEF Alive
<1> QED BY <1>1, <1>8, <1>11, <1>22 DEF Runs, IInv, envVars

-----------------------------------------------------------------------------
(* The end of a handle, and of the driver.                                 *)

\* Only its own process uses the section of a handle.
LEMMA OwnersApart ==
    ASSUME NEW p \in Processes, NEW w \in Writers, Owner(w) = p
    PROVE  w = p
BY DebugAssumption DEF Owner

LEMMA CloseNext ==
    ASSUME Runs, NEW p \in Processes, Close(p)
    PROVE  IInv'
<1>1. /\ TypeOK /\ Alive /\ p \in Writers
      /\ UNCHANGED <<mem, buffer, refcount, sections, total_filled, unloaded, using, records,
                     readVars, event, envVars, crashed>>
      /\ wpc[p] = "idle" /\ wpc' = [wpc EXCEPT ![p] = "gone"]
      /\ IF section[p] = None
           THEN UNCHANGED <<section, folded>>
           ELSE /\ folded' = [folded EXCEPT ![section[p]] = TRUE]
                /\ section' = [section EXCEPT ![p] = None]
  BY DEF Runs, IInv, Close, Goto, Writers
<1>2. section[p] # None => Leads(section[p], p)
  BY <1>1 DEF Alive, PointersKept
<1>3. wpc'[p] = "gone" /\ \A u \in Writers \ {p} : wpc'[u] = wpc[u]
  BY <1>1 DEF TypeOK
<1>4. TypeOK'
  BY <1>1, <1>2 DEF TypeOK, WriterPCs, readVars, envVars, Leads
<1>5. LogKept' /\ NumbersKept'
  <2>1. \A u \in Writers : NumberSame(u)
    BY <1>1, <1>3 DEF NumberSame, Busy
  <2> QED BY <1>1, <2>1, LogSame, NumbersSame DEF Runs, IInv, readVars
<1>6. /\ \A i : Listed(i)' <=> Listed(i)
      /\ \A i \in Writers : Published(i)' <=> Published(i)
      /\ Visited' = Visited /\ \A i : Inside(i)' = Inside(i)
  BY <1>1, <1>3, InsideSame DEF Listed, Published, Visited, readVars
<1>7. \A i \in Writers : Counts(i)'
  BY <1>1, <1>6, CountsSame DEF Alive
<1>8. \A i, o : Leads(i, o) /\ o # p => Leads(i, o)'
  <2>1. ASSUME NEW i, NEW o, Leads(i, o), o # p PROVE Leads(i, o)'
    <3>1. folded'[i] = folded[i]
      BY <1>1, <1>2, <2>1 DEF Leads, TypeOK
    <3> QED BY <1>6, <2>1, <3>1 DEF Leads
  <2> QED BY <2>1
<1>9. UsingKept(p)'
  BY <1>1, <1>3 DEF Alive, UsingKept, Busy
<1>10. ASSUME NEW u \in Writers \ {p} PROVE UsingKept(u)'
  <2>1. Owner(u) # p
    BY OwnersApart
  <2> QED BY <1>1, <1>3, <1>8, <2>1 DEF Alive, UsingKept, Busy
<1>11. ASSUME NEW i \in Writers PROVE SectionKept(i)'
  <2>1. folded'[i] => Published(i)
    BY <1>1, <1>2 DEF Alive, SectionKept, Leads, TypeOK
  <2> QED BY <1>1, <1>3, <1>6, <2>1 DEF Alive, SectionKept, envVars
<1>12. PointersKept'
  <2>1. ASSUME NEW o \in Processes \cup {driver}, section'[o] # None PROVE Leads(section[o], o)'
    <3>1. o # p /\ section'[o] = section[o]
      BY <1>1, <2>1 DEF TypeOK
    <3> QED BY <1>1, <1>8, <2>1, <3>1 DEF Alive, PointersKept
  <2> QED BY <2>1 DEF PointersKept
<1>13. ListedOnce' /\ ReaderKept' /\ (total_filled = Cardinality(Held))'
  BY <1>1, <1>6 DEF Alive, ListedOnce, ReaderKept, Held, readVars
<1>14. Alive'
  BY <1>7, <1>9, <1>10, <1>11, <1>12, <1>13 DEF Alive
<1> QED BY <1>1, <1>4, <1>5, <1>14 DEF Runs, IInv, envVars

\* What is on the list.
LEMMA OnList == TypeOK => \A i : i \in ToSet(sections) <=> Listed(i)
BY DEF TypeOK, ToSet, Listed

LEMMA UnloadNext ==
    ASSUME Runs, Unload
    PROVE  IInv'
<1>1. /\ TypeOK /\ Alive /\ rpc = "gone"
      /\ UNCHANGED <<buffer, folded, section, total_filled, writeVars, readVars, event,
                     envVars, crashed>>
      /\ \A p \in Processes : wpc[p] = "gone"
      /\ \A t \in Threads : wpc[t] = "idle"
      /\ unloaded' = TRUE /\ sections' = <<>>
      /\ refcount' = [i \in Writers |-> refcount[i] - IF i \in ToSet(sections) THEN 1 ELSE 0]
      /\ mem' = [i \in Writers |-> IF i \in ToSet(sections) /\ refcount[i] = 1 THEN "freed"
                                                                            ELSE mem[i]]
  BY DEF Runs, IInv, Unload
<1>2. \A w \in Writers : wpc[w] \in {"idle", "gone"}
  BY <1>1 DEF Writers
<1>3. \A i \in Writers : refcount[i] = IF Listed(i) THEN 1 ELSE 0
  <2>1. ASSUME NEW i \in Writers PROVE refcount[i] = IF Listed(i) THEN 1 ELSE 0
    <3>1. Inside(i) = {} /\ {i} \cap Visited = {} /\ (Published(i) <=> Listed(i)) /\ Counts(i)
      BY <1>1, <1>2 DEF Inside, Visited, Published, Alive
    <3>2. Cardinality(Inside(i)) = 0 /\ Cardinality({i} \cap Visited) = 0
      BY <3>1, FS_EmptySet
    <3> QED BY <3>1, <3>2 DEF Counts
  <2> QED BY <2>1
<1>4. \A i \in Writers : refcount'[i] = 0 /\ mem'[i] # "live"
  <2>1. ASSUME NEW i \in Writers PROVE refcount'[i] = 0 /\ mem'[i] # "live"
    <3>1. (i \in ToSet(sections) <=> Listed(i)) /\ SectionKept(i) /\ wpc[i] # "list"
      BY <1>1, <1>2, OnList DEF Alive
    <3> QED BY <1>1, <1>3, <3>1 DEF SectionKept
  <2> QED BY <2>1
<1>5. TypeOK'
  <2>1. refcount' \in [Writers -> Nat]
    BY <1>1, <1>4
  <2>2. mem' \in [Writers -> {"unused", "live", "freed"}]
    BY <1>1 DEF TypeOK
  <2>3. sections' \in Seq(Writers) /\ unloaded' \in BOOLEAN
    BY <1>1, EmptySeq
  <2> QED BY <1>1, <2>1, <2>2, <2>3 DEF TypeOK, writeVars, readVars, envVars
<1>6. LogKept' /\ NumbersKept'
  BY <1>1, LogSame, NoCalls, NumbersSame DEF Runs, IInv, writeVars, readVars
<1>7. Ended'
  BY <1>1, <1>2, <1>4 DEF Ended, Busy, writeVars, readVars
<1> QED BY <1>1, <1>5, <1>6, <1>7 DEF Runs, IInv, envVars

-----------------------------------------------------------------------------
(* The theorems.                                                           *)

\* Of an unloaded driver only records that are dropped are left.
LEMMA EndedNext ==
    ASSUME IInv, ~crashed, unloaded, Next
    PROVE  \/ \E w \in Writers : Drop(w)
           \/ UNCHANGED vars
<1>1. Ended
  BY DEF IInv
<1>2. ASSUME NEW w \in Writers, Writer(w) PROVE Drop(w)
  BY <1>1, <1>2 DEF Writer, Ended, Busy, Find, Create, Begin, List, Get, Write, Wake
<1>3. ~Reader /\ ~ReaderQuits /\ ~Unload
  BY <1>1 DEF Ended, Reader, ReadBegin, ReadGet, ReadSection, ReadEnd, ReaderQuits, Unload
<1>4. \A p \in Processes : ~Close(p)
  BY <1>1 DEF Ended, Close
<1> QED BY <1>2, <1>3, <1>4 DEF Next, Stop

LEMMA Unchanged == IInv /\ UNCHANGED vars => IInv'
<1> SUFFICES ASSUME IInv, UNCHANGED vars PROVE IInv'
  OBVIOUS
<1>1. /\ UNCHANGED <<mem, buffer, refcount, folded, sections, section, total_filled, unloaded>>
      /\ UNCHANGED <<wpc, using, records, rpc, todo, room, log, event>>
      /\ UNCHANGED <<user_size, remembers, preempt, crashed>>
  BY DEF vars, secVars, writeVars, readVars, envVars
<1>2. TypeOK'
  BY <1>1 DEF IInv, TypeOK
<1>3. LogKept' /\ NumbersKept'
  BY <1>1, LogSame, NoCalls, NumbersSame DEF IInv
<1>4. Ended => Ended'
  BY <1>1 DEF Ended, Busy
<1>5. /\ \A i : (Listed(i)' <=> Listed(i)) /\ (Published(i)' <=> Published(i))
      /\ \A i : Inside(i)' = Inside(i)
      /\ Visited' = Visited
  BY <1>1 DEF Listed, Published, Inside, Visited
<1>6. \A i, o : Leads(i, o) => Leads(i, o)'
  BY <1>1, <1>5 DEF Leads
<1>7. Alive => Alive'
  BY <1>1, <1>5, <1>6 DEF Alive, UsingKept, SectionKept, Counts, PointersKept, ListedOnce,
     ReaderKept, Held, Busy
<1> QED BY <1>1, <1>2, <1>3, <1>4, <1>7 DEF IInv

LEMMA Inductive == IInv /\ [Next]_vars => IInv'
<1> SUFFICES ASSUME IInv, [Next]_vars PROVE IInv'
  OBVIOUS
<1>1. CASE UNCHANGED vars
  BY <1>1, Unchanged
<1>2. CASE Next /\ crashed
  BY <1>2, Unchanged DEF Next, Stop
<1>3. CASE Next /\ ~crashed /\ unloaded
  BY <1>3, EndedNext, DropNext, Unchanged
<1>4. CASE Next /\ ~crashed /\ ~unloaded
  <2>1. Runs
    BY <1>4 DEF Runs
  <2>2. ASSUME NEW w \in Writers, Writer(w) PROVE IInv'
    BY <1>4, <2>1, <2>2, DropNext, FindNext, CreateNext, ListNext, GetNext, WriteNext, WakeNext
       DEF Writer
  <2>3. CASE Reader
    BY <2>1, <2>3, ReadBeginNext, ReadGetNext, ReadSectionNext, ReadEndNext DEF Reader
  <2>4. CASE ReaderQuits
    BY <2>1, <2>4, ReadEndNext
  <2>5. ASSUME NEW p \in Processes, Close(p) PROVE IInv'
    BY <2>1, <2>5, CloseNext
  <2>6. CASE Unload
    BY <2>1, <2>6, UnloadNext
  <2>7. CASE Stop
    BY <2>7, Unchanged DEF Stop
  <2> QED BY <1>4, <2>2, <2>3, <2>4, <2>5, <2>6, <2>7 DEF Next
<1> QED BY <1>1, <1>2, <1>3, <1>4

\* The references, the sections and the records stay as the invariant describes them.
THEOREM Invariance == Spec => []IInv
<1>1. Init => IInv
  BY Started
<1>2. IInv /\ [Next]_vars => IInv'
  BY Inductive
<1> QED BY <1>1, <1>2, PTL DEF Spec


LEMMA OrderKept == IInv => LogOrdered
<1> SUFFICES ASSUME IInv PROVE LogOrdered
  OBVIOUS
<1>1. DOMAIN log = 1 .. Len(log) /\ InOrder(log) /\ Len(log) \in Nat
  BY DEF IInv, TypeOK, LogKept
<1> QED BY <1>1 DEF LogOrdered, InOrder, Before

LEMMA LiveKept == IInv => SectionsLive
<1> SUFFICES ASSUME IInv PROVE SectionsLive
  OBVIOUS
<1>1. TypeOK /\ (~preempt => ~crashed)
  BY DEF IInv
<1>2. ASSUME ~crashed, ~unloaded, NEW i \in Reachable
      PROVE  mem[i] = "live" \/ (preempt /\ Unreferenced(i))
  <2>1. Alive /\ i # None
    BY <1>2 DEF IInv, Reachable
  <2>2. ASSUME NEW j \in Writers, Listed(j)
        PROVE  mem[j] = "live" \/ (preempt /\ Unreferenced(j))
    BY <2>1, <2>2 DEF Alive, SectionKept, Unreferenced
  <2>3. CASE i \in ToSet(sections)
    <3>1. Listed(i)
      BY <1>1, <2>3, OnList
    <3>2. i \in Writers
      BY <1>1, <3>1 DEF Listed, TypeOK
    <3> QED BY <2>2, <3>1, <3>2
  <2>4. CASE i \in ToSet(todo)
    <3>1. PICK k \in 1 .. Len(todo) : todo[k] = i
      BY <1>1, <2>4 DEF ToSet, TypeOK
    <3>2. Listed(todo[k])
      BY <2>1 DEF Alive, ReaderKept
    <3>3. i \in Writers
      BY <1>1, <3>1 DEF TypeOK
    <3> QED BY <2>2, <3>1, <3>2, <3>3
  <2>5. CASE i \in Range(section)
    <3>1. PICK o \in Processes \cup {driver} : section[o] = i
      BY <1>1, <2>5 DEF Range, TypeOK
    <3>2. i \in Writers /\ Listed(i)
      BY <2>1, <3>1 DEF Alive, PointersKept, Leads, Published
    <3> QED BY <2>2, <3>2
  <2>6. CASE i \in Range(using)
    <3>1. PICK w \in Writers : using[w] = i
      BY <1>1, <2>6 DEF Range, TypeOK
    <3>2. UsingKept(w) /\ SectionKept(w) /\ Busy(w)
      BY <2>1, <3>1 DEF Alive, UsingKept
    <3>3. CASE wpc[w] = "list"
      BY <3>1, <3>2, <3>3 DEF UsingKept, SectionKept
    <3>4. CASE wpc[w] # "list"
      <4>1. i \in Writers /\ Listed(i)
        BY <3>1, <3>2, <3>4 DEF UsingKept, SectionKept, Leads, Published, Busy
      <4> QED BY <2>2, <4>1
    <3> QED BY <3>3, <3>4
  <2> QED BY <1>2, <2>3, <2>4, <2>5, <2>6 DEF Reachable
<1>3. ASSUME ~crashed, ~unloaded, NEW i \in Writers, mem[i] = "freed" PROVE buffer[i] = <<>>
  <2>1. SectionKept(i)
    BY <1>3 DEF IInv, Alive
  <2> QED BY <1>3, <2>1 DEF SectionKept, Published
<1> QED BY <1>1, <1>2, <1>3 DEF SectionsLive

LEMMA CountsKept == IInv => RefCountExact
<1> SUFFICES ASSUME IInv, ~crashed PROVE RefCountExact
  BY DEF RefCountExact
<1>1. \A i \in Writers : Published(i) <=>
          i \in ToSet(sections) /\ wpc[i] \notin {"get_new", "lock_new"}
  BY OnList DEF IInv, Published
<1>2. ASSUME NEW i \in Writers
      PROVE  /\ refcount[i] = Cardinality(Inside(i)) + Cardinality({i} \cap Visited)
                                + IF Published(i) THEN 1 ELSE 0
             /\ mem[i] = "live" => refcount[i] > 0 \/ wpc[i] \in {"list", "get_new"}
  <2>1. CASE unloaded
    <3>1. Ended
      BY <2>1 DEF IInv
    <3>2. Inside(i) = {} /\ {i} \cap Visited = {} /\ ~Published(i)
      <4>1. Len(sections) = 0
        BY <3>1 DEF Ended
      <4> QED BY <3>1, <4>1 DEF Ended, Busy, Inside, Visited, Published, Listed
    <3>3. Cardinality(Inside(i)) = 0 /\ Cardinality({i} \cap Visited) = 0
      BY <3>2, FS_EmptySet
    <3> QED BY <3>1, <3>2, <3>3 DEF Ended
  <2>2. CASE ~unloaded
    <3>1. Counts(i) /\ UsingKept(i) /\ SectionKept(i)
      BY <2>2 DEF IInv, Alive
    <3>2. IsFiniteSet(Inside(i)) /\ Cardinality(Inside(i)) \in Nat /\ Cardinality({i} \cap Visited) \in Nat
      <4>1. IsFiniteSet(Inside(i))
        BY DebugAssumption, FS_Subset DEF Inside
      <4> QED BY <4>1, FS_CardinalityType, Visits
    <3>3. ASSUME mem[i] = "live", wpc[i] \notin {"list", "get_new"} PROVE refcount[i] > 0
      <4>1. CASE Published(i)
        BY <3>1, <3>2, <4>1 DEF Counts
      <4>2. CASE ~Published(i)
        <5>1. wpc[i] = "lock_new"
          BY <3>1, <3>3, <4>2 DEF SectionKept, Published
        <5>2. i \in Inside(i)
          BY <3>1, <5>1 DEF UsingKept, Inside
        <5>3. Cardinality(Inside(i)) # 0
          BY <3>2, <5>2, FS_EmptySet
        <5> QED BY <3>1, <3>2, <4>2, <5>3 DEF Counts
      <4> QED BY <4>1, <4>2
    <3> QED BY <3>1, <3>3 DEF Counts
  <2> QED BY <2>1, <2>2
<1> QED BY <1>1, <1>2 DEF RefCountExact, Inside

\* No section is freed while anything leads to it, every count of references and the total
\* are exact, and the reader gets each record once, those of a handle in order, in every
\* build and on both hosts (co_debug_writev, co_debug_read, co_debug_fold, co_debug_free).
THEOREM LogStaysExact == Spec => []LogExact
<1>1. IInv => TotalExact
  BY DEF IInv, Alive, TotalExact
<1>2. IInv => LogExact
  BY <1>1, OrderKept, LiveKept, CountsKept DEF LogExact, SectionsExact
<1> QED BY <1>2, Invariance, PTL

\* Writers, the reader and the sections keep to their domains (kernel/debug.c).
THEOREM TypeCorrect == Spec => []TypeOK
<1>1. IInv => TypeOK
  BY DEF IInv
<1> QED BY <1>1, Invariance, PTL
=============================================================================
