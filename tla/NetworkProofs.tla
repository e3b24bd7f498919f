--------------------------- MODULE NetworkProofs ----------------------------
(***************************************************************************)
(* Proofs about module Network: the TAP adapter, for any reads and         *)
(* processors, any sizes of the two queues and any number of opens; the    *)
(* filter, for any daemons, packets and messages.                          *)
(*                                                                         *)
(* A read is in one place: in a call of TapDeviceHook, in the queue once,  *)
(* or taken from it by one AdapterTransmit.  That each packet is of the    *)
(* session that reads it needs that Windows closes the device after its    *)
(* last read; that a packet and a read do not wait together needs that     *)
(* whoever queues a packet comes back to look for a read.                  *)
(***************************************************************************)
EXTENDS Network, FiniteSetTheorems, SequenceTheorems, TLAPS

Fresh == {<<0>>, <<session>>}

Reads == [at : {"none", "hook", "unserved", "served", "queued", "lost"}, cancel : BOOLEAN,
          routine : BOOLEAN, call : {"none", "lookup"}, packet : Seq(Nat)]
Transmissions ==
    [at : {"none", "tested", "match", "serve"}, packet : Seq(Nat), irp : SUBSET Irps]

TypeOK ==
    /\ m_InterfaceIsRunning \in BOOLEAN /\ m_MediaState \in BOOLEAN
    /\ halt \in {"no", "asked", "flushed", "freed"}
    /\ m_TapOpens \in {0, 1}
    /\ m_PacketQueue \in Seq(Nat) /\ m_IrpQueue \in Seq(Irps)
    /\ irp \in [Irps -> Reads] /\ tx \in [Threads -> Transmissions]
    /\ handle \in {"closed", "open", "closing"} /\ session \in Nat
    /\ gap \in BOOLEAN /\ early \in BOOLEAN

\* A device that is open is open to the process; one that is closed has no reads.
Opened ==
    /\ m_TapOpens = 1 => halt = "no" /\ handle # "closed"
    /\ handle = "closed" => \A i \in Irps : ~Outstanding(i)

\* A packet that waits is of this session, or of none.
PacketsFresh ==
    /\ \A k \in 1 .. Len(m_PacketQueue) : m_PacketQueue[k] \in {0, session}
    /\ \A t \in Threads : tx[t].at = "tested" => tx[t].packet \in Fresh

\* Between two sessions it is of none.
PacketsOld ==
    handle = "closed" /\ halt = "no" =>
        /\ \A k \in 1 .. Len(m_PacketQueue) : m_PacketQueue[k] = 0
        /\ \A t \in Threads : tx[t].at = "tested" => tx[t].packet = <<0>>

\* Whoever queued the packet is to come back, and finds the adapter up.
Matched ==
    m_PacketQueue # <<>> /\ m_IrpQueue # <<>> /\ halt = "no" =>
        gap \/ (m_InterfaceIsRunning /\ \E t \in Threads : tx[t].at \in {"match", "serve"})

QueuedOnce ==
    \A k, l \in 1 .. Len(m_IrpQueue) : m_IrpQueue[k] = m_IrpQueue[l] => k = l

\* A read in the queue is under way, or was completed by a cancel that did not find the adapter.
QueuedReads ==
    \A k \in 1 .. Len(m_IrpQueue) : irp[m_IrpQueue[k]].at \in {"queued", "lost"}

\* So is one that was taken from it, by one AdapterTransmit, for a packet it may get.
TakenReads ==
    /\ \A t \in Threads : tx[t].at # "serve" => tx[t].irp = {}
    /\ \A t \in Threads : \A i \in tx[t].irp :
          /\ irp[i].at \in {"queued", "lost"}
          /\ irp[i].at = "queued" => tx[t].packet \in Fresh
          /\ \A k \in 1 .. Len(m_IrpQueue) : m_IrpQueue[k] # i
    /\ \A t, u \in Threads : t # u => tx[t].irp \cap tx[u].irp = {}

ServedReads == \A i \in Irps : irp[i].at = "served" => irp[i].packet \in Fresh

ReadsKept == QueuedOnce /\ QueuedReads /\ TakenReads /\ ServedReads

\* After a fault nothing is modelled, so what is said of the reads holds before it.
IInv ==
    /\ TypeOK /\ ReadsExact /\ HaltReleases /\ Matched /\ Opened /\ PacketsFresh /\ PacketsOld
    /\ fault = "none" => ReadsKept
-----------------------------------------------------------------------------
(* The two queues.                                                         *)

LEMMA Tails ==
    ASSUME NEW S, NEW q \in Seq(S), q # <<>>
    PROVE  /\ 1 \in 1 .. Len(q) /\ Head(q) = q[1] /\ Head(q) \in S
           /\ Tail(q) \in Seq(S) /\ Len(Tail(q)) = Len(q) - 1
           /\ \A k \in 1 .. Len(Tail(q)) : k + 1 \in 1 .. Len(q) /\ Tail(q)[k] = q[k + 1]
<1>1. Len(q) \in Nat /\ Len(q) # 0
  BY LenProperties, EmptySeq
<1>2. /\ Head(q) \in S /\ Tail(q) \in Seq(S) /\ Len(Tail(q)) = Len(q) - 1
      /\ \A k \in 1 .. Len(Tail(q)) : Tail(q)[k] = q[k + 1]
  BY HeadTailProperties
<1> QED BY <1>1, <1>2

LEMMA Appended ==
    ASSUME NEW S, NEW q \in Seq(S), NEW e \in S
    PROVE  /\ q \o <<e>> = Append(q, e) /\ Append(q, e) \in Seq(S) /\ Append(q, e) # <<>>
           /\ Len(Append(q, e)) = Len(q) + 1 /\ Len(q) \in Nat
           /\ Append(q, e)[Len(q) + 1] = e
           /\ \A k \in 1 .. Len(q) : Append(q, e)[k] = q[k]
           /\ \A k \in 1 .. Len(q) + 1 : k \in 1 .. Len(q) \/ k = Len(q) + 1
<1>1. Len(q) \in Nat
  BY LenProperties
<1>2. /\ Append(q, e) \in Seq(S) /\ Append(q, e) # <<>> /\ Len(Append(q, e)) = Len(q) + 1
      /\ Append(q, e)[Len(q) + 1] = e
      /\ \A k \in 1 .. Len(q) : Append(q, e)[k] = q[k]
  BY AppendProperties
<1>3. q \o <<e>> = Append(q, e)
  BY AppendIsConcat
<1> QED BY <1>1, <1>2, <1>3

\* QueueExtract keeps the others, in their order, once.
LEMMA ExtractedKeeps ==
    ASSUME NEW S, NEW q \in Seq(S), NEW i,
           \A k, l \in 1 .. Len(q) : q[k] = q[l] => k = l
    PROVE  /\ Extracted(q, i) \in Seq(S)
           /\ q = <<>> => Extracted(q, i) = <<>>
           /\ \A k \in 1 .. Len(Extracted(q, i)) :
                 \E l \in 1 .. Len(q) : Extracted(q, i)[k] = q[l]
           /\ \A k \in 1 .. Len(Extracted(q, i)) : Extracted(q, i)[k] # i
           /\ \A k, l \in 1 .. Len(Extracted(q, i)) :
                 Extracted(q, i)[k] = Extracted(q, i)[l] => k = l
<1>1. CASE ~Contains(q, i)
  BY <1>1 DEF Extracted, Contains
<1>2. CASE Contains(q, i)
  <2> DEFINE m == CHOOSE k \in 1 .. Len(q) : q[k] = i
             e == Extracted(q, i)
  <2>1. m \in 1 .. Len(q) /\ q[m] = i
    BY <1>2 DEF Contains
  <2> DEFINE a == SubSeq(q, 1, m - 1)
             b == SubSeq(q, m + 1, Len(q))
  <2>2. e = a \o b
    BY <1>2 DEF Extracted, RemoveAt
  <2> HIDE DEF m, e
  <2>3. Len(q) \in Nat /\ m \in Nat /\ 1 <= m /\ m <= Len(q)
    BY <2>1, LenProperties
  <2>4. a \in Seq(S) /\ Len(a) = m - 1 /\ \A k \in 1 .. m - 1 : a[k] = q[k]
    BY <2>3
  <2>5. /\ b \in Seq(S) /\ Len(b) = Len(q) - m
        /\ \A k \in 1 .. Len(q) - m : b[k] = q[m + k]
    BY <2>3
  <2> HIDE DEF a, b
  <2>6. /\ e \in Seq(S) /\ Len(e) = Len(q) - 1
        /\ \A k \in 1 .. Len(e) : e[k] = IF k < m THEN q[k] ELSE q[k + 1]
    <3>1. /\ e \in Seq(S) /\ Len(e) = Len(q) - 1
          /\ \A k \in 1 .. Len(q) - 1 : e[k] = IF k <= m - 1 THEN a[k] ELSE b[k - (m - 1)]
      <4>1. /\ a \o b \in Seq(S) /\ Len(a \o b) = Len(a) + Len(b)
            /\ \A k \in 1 .. Len(a) + Len(b) :
                  (a \o b)[k] = IF k <= Len(a) THEN a[k] ELSE b[k - Len(a)]
        <5>1. a \in Seq(S) /\ b \in Seq(S)
          BY <2>4, <2>5
        <5> QED BY <5>1, ConcatProperties
      <4>2. Len(a) = m - 1 /\ Len(a) + Len(b) = Len(q) - 1
        BY <2>3, <2>4, <2>5
      <4> QED BY <2>2, <4>1, <4>2
    <3>2. ASSUME NEW k \in 1 .. Len(q) - 1, k < m PROVE e[k] = q[k]
      BY <2>3, <2>4, <3>1, <3>2
    <3>3. ASSUME NEW k \in 1 .. Len(q) - 1, ~(k < m) PROVE e[k] = q[k + 1]
      <4>1. k - (m - 1) \in 1 .. Len(q) - m /\ m + (k - (m - 1)) = k + 1
        BY <2>3, <3>3
      <4> QED BY <2>3, <2>5, <3>1, <3>3, <4>1
    <3> QED BY <3>1, <3>2, <3>3
  <2>7. \A k \in 1 .. Len(e) : \E l \in 1 .. Len(q) : e[k] = q[l] /\ l = IF k < m THEN k ELSE k + 1
    BY <2>3, <2>6
  <2>8. \A k \in 1 .. Len(e) : e[k] # i
    BY <2>1, <2>3, <2>6, <2>7
  <2>9. \A k, l \in 1 .. Len(e) : e[k] = e[l] => k = l
    BY <2>3, <2>6, <2>7
  <2>10. q # <<>>
    BY <2>3
  <2> QED BY <2>6, <2>7, <2>8, <2>9, <2>10 DEF e
<1> QED BY <1>1, <1>2
-----------------------------------------------------------------------------
(* What a step keeps that changes one read, or one transmission.           *)

LEMMA OneRead ==
    ASSUME TypeOK, ReadsKept, NEW i \in Irps, UNCHANGED <<m_IrpQueue, tx, session>>,
           \A j \in Irps \ {i} : irp'[j] = irp[j],
           irp[i].at \in {"queued", "lost"} => irp'[i].at \in {"queued", "lost"},
           irp'[i].at = "queued" => irp[i].at = "queued",
           irp'[i].at = "served" => irp'[i].packet \in Fresh
    PROVE  ReadsKept'
<1>1. \A j \in Irps : /\ irp[j].at \in {"queued", "lost"} => irp'[j].at \in {"queued", "lost"}
                      /\ irp'[j].at = "queued" => irp[j].at = "queued"
  OBVIOUS
<1>2. \A k \in 1 .. Len(m_IrpQueue) : m_IrpQueue[k] \in Irps
  BY DEF TypeOK
<1>3. QueuedOnce' /\ QueuedReads'
  BY <1>1, <1>2 DEF ReadsKept, QueuedOnce, QueuedReads
<1>4. \A t \in Threads : tx[t].irp \subseteq Irps
  BY DEF TypeOK, Transmissions
<1>5. TakenReads'
  BY <1>1, <1>4 DEF ReadsKept, TakenReads, Fresh
<1>6. ServedReads'
  BY DEF ReadsKept, ServedReads, Fresh
<1> QED BY <1>3, <1>5, <1>6 DEF ReadsKept

LEMMA SameReads ==
    ASSUME ReadsKept, UNCHANGED <<m_IrpQueue, irp, tx, session>>
    PROVE  ReadsKept'
BY DEF ReadsKept, QueuedOnce, QueuedReads, TakenReads, ServedReads, Fresh

LEMMA SameTaken ==
    ASSUME TakenReads, session' = session,
           \A t \in Threads : /\ tx'[t].irp = tx[t].irp /\ tx'[t].at = tx[t].at
                              /\ tx[t].at = "serve" => tx'[t].packet = tx[t].packet,
           \A t \in Threads : \A i \in tx[t].irp :
               irp'[i] = irp[i] /\ \A k \in 1 .. Len(m_IrpQueue') : m_IrpQueue'[k] # i
    PROVE  TakenReads'
<1>1. \A t \in Threads : tx[t].irp # {} => tx[t].at = "serve"
  BY DEF TakenReads
<1>2. \A t \in Threads : \A i \in tx'[t].irp :
          /\ irp'[i].at \in {"queued", "lost"}
          /\ irp'[i].at = "queued" => tx'[t].packet \in Fresh'
  BY <1>1 DEF TakenReads, Fresh
<1> QED BY <1>2 DEF TakenReads

LEMMA OneTx ==
    ASSUME ReadsKept, NEW t \in Threads, UNCHANGED <<m_IrpQueue, irp, session>>,
           \A u \in Threads \ {t} : tx'[u] = tx[u],
           tx'[t].irp = {}
    PROVE  ReadsKept'
<1>1. \A u \in Threads : tx'[u] = tx[u] \/ tx'[u].irp = {}
  OBVIOUS
<1>2. TakenReads'
  BY <1>1 DEF ReadsKept, TakenReads, Fresh
<1> QED BY <1>2 DEF ReadsKept, QueuedOnce, QueuedReads, ServedReads, Fresh

\* The parts that say nothing of the reads, when packets and transmissions stay.
Parts == TypeOK /\ HaltReleases /\ Matched /\ Opened /\ PacketsFresh /\ PacketsOld

LEMMA SamePackets ==
    ASSUME PacketsFresh, PacketsOld, UNCHANGED <<m_PacketQueue, tx, session>>,
           handle' = "closed" /\ halt' = "no" => handle = "closed" /\ halt = "no"
    PROVE  PacketsFresh' /\ PacketsOld'
BY DEF PacketsFresh, PacketsOld, Fresh

LEMMA PacketSeq == <<>> \in Seq(Nat) /\ \A n \in Nat : <<n>> \in Seq(Nat) /\ <<n>> # <<>>
<1>1. <<>> \in Seq(Nat)
  OBVIOUS
<1>2. ASSUME NEW n \in Nat PROVE <<n>> \in Seq(Nat) /\ <<n>> # <<>>
  BY <1>2
<1> QED BY <1>1, <1>2

LEMMA Initially == Init => IInv
<1> SUFFICES ASSUME Init PROVE IInv
  OBVIOUS
<1>1. TypeOK
  <2>1. NoRead \in Reads
    BY PacketSeq DEF NoRead, Reads
  <2>2. NoTx \in Transmissions
    BY PacketSeq DEF NoTx, Transmissions
  <2>3. m_PacketQueue \in Seq(Nat) /\ m_IrpQueue \in Seq(Irps)
    BY DEF Init
  <2> QED BY <2>1, <2>2, <2>3 DEF Init, TypeOK
<1>2. ReadsKept
  BY DEF Init, ReadsKept, QueuedOnce, QueuedReads, TakenReads, ServedReads, NoRead, NoTx
<1>3. Opened /\ PacketsFresh /\ PacketsOld
  BY DEF Init, Opened, PacketsFresh, PacketsOld, Outstanding, NoRead, NoTx
<1> QED BY <1>1, <1>2, <1>3 DEF IInv, Init, ReadsExact, HaltReleases, Matched, queueVars
-----------------------------------------------------------------------------
(* The device and the adapter.                                             *)

LEMMA CreateNext ==
    ASSUME IInv, fault = "none", Create
    PROVE  IInv'
<1>1. /\ Parts /\ ReadsKept
      /\ UNCHANGED <<m_InterfaceIsRunning, halt, m_MediaState, queueVars, irp, tx, fault, happened>>
      /\ handle = "closed" /\ halt = "no" /\ handle' = "open" /\ m_TapOpens' = 1
      /\ session' = session + 1
  BY DEF IInv, Parts, Create
<1>2. \A i \in Irps : irp[i].at \in {"none", "lost"}
  BY <1>1 DEF Parts, Opened, Outstanding
<1>3. TypeOK'
  BY <1>1 DEF Parts, TypeOK, queueVars, happened
<1>4. HaltReleases' /\ Matched' /\ Opened'
  BY <1>1 DEF Parts, HaltReleases, Matched, Opened, queueVars, happened
<1>5. PacketsFresh' /\ PacketsOld'
  BY <1>1 DEF Parts, PacketsFresh, PacketsOld, queueVars, Fresh
<1>6. TakenReads'
  <2>1. \A t \in Threads : tx[t].irp \subseteq Irps
    BY <1>1 DEF Parts, TypeOK, Transmissions
  <2>2. \A t \in Threads : \A i \in tx[t].irp : irp[i].at # "queued"
    BY <1>2, <2>1
  <2> QED BY <1>1, <2>2 DEF ReadsKept, TakenReads, queueVars
<1>7. ServedReads'
  BY <1>1, <1>2 DEF ServedReads
<1> QED BY <1>1, <1>3, <1>4, <1>5, <1>6, <1>7
        DEF IInv, ReadsKept, QueuedOnce, QueuedReads, queueVars, ReadsExact

\* The steps that leave the queues, the reads and the transmissions alone.
LEMMA AdapterNext ==
    ASSUME IInv, fault = "none", CloseHandle \/ SetMediaStatus \/ SetPower \/ Halt \/ HaltFree
    PROVE  IInv'
<1>1. /\ Parts /\ ReadsKept /\ UNCHANGED <<queueVars, irp, tx, fault, session>>
      /\ handle' = handle \/ (handle = "open" /\ handle' = "closing")
      /\ halt' = halt \/ (halt' = "asked" /\ m_TapOpens' = 0) \/ (halt = "flushed" /\ halt' = "freed")
      /\ halt' = "no" => halt = "no"
      /\ m_TapOpens' = m_TapOpens \/ m_TapOpens' = 0
  BY DEF IInv, Parts, CloseHandle, SetMediaStatus, SetPower, Halt, HaltFree
<1>2. TypeOK'
  <2>1. UNCHANGED <<queueVars, irp, tx, session>> /\ TypeOK
    BY <1>1 DEF Parts
  <2>2. m_InterfaceIsRunning' \in BOOLEAN
    BY <2>1 DEF TypeOK, CloseHandle, SetMediaStatus, SetPower, Halt, HaltFree
  <2>3. m_MediaState' \in BOOLEAN
    BY <2>1 DEF TypeOK, CloseHandle, SetMediaStatus, SetPower, Halt, HaltFree
  <2>4. gap' \in BOOLEAN
    BY <2>1 DEF TypeOK, CloseHandle, SetMediaStatus, SetPower, Halt, HaltFree, happened
  <2>5. early' \in BOOLEAN
    BY <2>1 DEF TypeOK, CloseHandle, SetMediaStatus, SetPower, Halt, HaltFree, happened, Busy
  <2> QED BY <1>1, <2>1, <2>2, <2>3, <2>4, <2>5 DEF TypeOK, queueVars
<1>3. HaltReleases' /\ Opened'
  BY <1>1 DEF Parts, HaltReleases, Opened, queueVars, Outstanding
<1>4. Matched'
  <2>1. CASE SetPower
    BY <1>1, <2>1 DEF Parts, Matched, SetPower, queueVars
  <2>2. CASE CloseHandle \/ SetMediaStatus \/ Halt \/ HaltFree
    BY <1>1, <2>2 DEF Parts, Matched, CloseHandle, SetMediaStatus, Halt, HaltFree, queueVars,
                      happened
  <2> QED BY <2>1, <2>2
<1>5. PacketsFresh' /\ PacketsOld'
  BY <1>1, SamePackets DEF Parts, queueVars
<1>6. ReadsKept'
  BY <1>1, SameReads DEF queueVars
<1> QED BY <1>1, <1>2, <1>3, <1>4, <1>5, <1>6 DEF IInv, ReadsExact
-----------------------------------------------------------------------------
(* The reads.                                                              *)

\* A read that is completed, with the call of its cancel routine that may still come.
LEMMA Ended ==
    ASSUME TypeOK, NEW i \in Irps
    PROVE  /\ [NoRead EXCEPT !.call = irp[i].call] \in Reads
           /\ [NoRead EXCEPT !.call = irp[i].call].at = "none"
<1>1. irp[i] \in Reads
  BY DEF TypeOK
<1> QED BY <1>1, PacketSeq DEF NoRead, Reads

\* What IoCompleteRequest leaves behind.
LEMMA CompletedReads ==
    ASSUME TypeOK, NEW i \in Irps, NEW p, Completed(i, p), fault = "none",
           irp[i].at # "none", irp[i].at = "lost" \/ p \in {<<>>} \cup Fresh
    PROVE  /\ irp' \in [Irps -> Reads] /\ irp'[i].at = "none"
           /\ \A j \in Irps \ {i} : irp'[j] = irp[j]
           /\ fault' \in {"none", "lost read"}
<1>1. irp' = [irp EXCEPT ![i] = [NoRead EXCEPT !.call = irp[i].call]]
  BY DEF Completed
<1>2. irp \in [Irps -> Reads]
  BY DEF TypeOK
<1>3. irp' \in [Irps -> Reads] /\ irp'[i].at = "none" /\ \A j \in Irps \ {i} : irp'[j] = irp[j]
  BY <1>1, <1>2, Ended
<1>4. fault' \in {"none", "lost read"}
  BY DEF Completed, Outstanding, Fresh
<1> QED BY <1>3, <1>4

\* The steps of one read that leave the packets, the adapter and the transmissions alone.
LEMMA ReadParts ==
    ASSUME Parts, NEW i \in Irps, UNCHANGED <<adapterVars, m_PacketQueue, tx, early>>,
           irp' \in [Irps -> Reads], \A j \in Irps \ {i} : irp'[j] = irp[j],
           irp'[i].at \notin {"none", "lost"} => handle = "open" \/ irp[i].at \notin {"none", "lost"},
           m_IrpQueue' \in Seq(Irps), gap' \in BOOLEAN,
           halt # "no" /\ m_IrpQueue = <<>> => m_IrpQueue' = <<>>,
           Matched'
    PROVE  Parts'
<1>1. TypeOK'
  BY DEF Parts, TypeOK, adapterVars
<1>2. HaltReleases'
  BY DEF Parts, HaltReleases, adapterVars, queueVars
<1>3. Opened'
  BY DEF Parts, Opened, Outstanding, adapterVars
<1>4. PacketsFresh' /\ PacketsOld'
  BY SamePackets DEF Parts, adapterVars
<1> QED BY <1>1, <1>2, <1>3, <1>4 DEF Parts

LEMMA SameMatched ==
    ASSUME Matched, UNCHANGED <<halt, gap, m_InterfaceIsRunning, tx>>,
           m_PacketQueue' # <<>> => m_PacketQueue # <<>>,
           m_IrpQueue' # <<>> => m_IrpQueue # <<>>
    PROVE  Matched'
BY DEF Matched

LEMMA ReadNext ==
    ASSUME IInv, fault = "none", NEW i \in Irps, Read(i)
    PROVE  IInv'
<1>1. /\ Parts /\ ReadsKept /\ UNCHANGED <<adapterVars, queueVars, tx, fault, happened>>
      /\ handle = "open" /\ irp[i].at = "none" /\ irp' = [irp EXCEPT ![i].at = "hook"]
  BY DEF IInv, Parts, Read
<1>2. irp \in [Irps -> Reads]
  BY <1>1 DEF Parts, TypeOK
<1>3. /\ irp' \in [Irps -> Reads] /\ irp'[i].at = "hook"
      /\ \A j \in Irps \ {i} : irp'[j] = irp[j]
  BY <1>1, <1>2 DEF Reads
<1>4. Matched'
  BY <1>1, SameMatched DEF Parts, queueVars, adapterVars, happened
<1>5. ReadsKept'
  BY <1>1, <1>3, OneRead DEF Parts, queueVars, adapterVars
<1>6. Parts'
  BY <1>1, <1>3, <1>4, ReadParts DEF Parts, TypeOK, queueVars, happened
<1> QED BY <1>1, <1>5, <1>6 DEF IInv, Parts, ReadsExact

LEMMA CancelNext ==
    ASSUME IInv, fault = "none", NEW i \in Irps, Cancel(i)
    PROVE  IInv'
<1>1. /\ Parts /\ ReadsKept /\ UNCHANGED <<adapterVars, queueVars, tx, fault, happened>>
      /\ irp' = [irp EXCEPT ![i].cancel = TRUE, ![i].routine = FALSE,
                            ![i].call = IF irp[i].routine THEN "lookup" ELSE "none"]
  BY DEF IInv, Parts, Cancel
<1>2. irp \in [Irps -> Reads]
  BY <1>1 DEF Parts, TypeOK
<1>3. /\ irp' \in [Irps -> Reads] /\ irp'[i].at = irp[i].at /\ irp'[i].packet = irp[i].packet
      /\ \A j \in Irps \ {i} : irp'[j] = irp[j]
  <2>1. PICK call \in {"none", "lookup"} : call = IF irp[i].routine THEN "lookup" ELSE "none"
    OBVIOUS
  <2>2. irp' = [irp EXCEPT ![i] =
                    [irp[i] EXCEPT !.cancel = TRUE, !.routine = FALSE, !.call = call]]
    BY <1>1, <1>2, <2>1
  <2>3. LET r == [irp[i] EXCEPT !.cancel = TRUE, !.routine = FALSE, !.call = call]
        IN  r \in Reads /\ r.at = irp[i].at /\ r.packet = irp[i].packet
    <3>1. irp[i] \in Reads
      BY <1>2
    <3> QED BY <3>1 DEF Reads
  <2> QED BY <1>2, <2>2, <2>3
<1>4. Matched'
  BY <1>1, SameMatched DEF Parts, queueVars, adapterVars, happened
<1>5. ReadsKept'
  BY <1>1, <1>3, OneRead DEF Parts, ReadsKept, ServedReads, queueVars, adapterVars
<1>6. Parts'
  BY <1>1, <1>3, <1>4, ReadParts DEF Parts, TypeOK, queueVars, happened
<1> QED BY <1>1, <1>5, <1>6 DEF IInv, Parts, ReadsExact

LEMMA ReadServedNext ==
    ASSUME IInv, fault = "none", NEW i \in Irps, ReadServed(i)
    PROVE  IInv'
<1>1. /\ Parts /\ ReadsKept /\ UNCHANGED <<adapterVars, queueVars, tx, happened>>
      /\ irp[i].at = "served" /\ Completed(i, irp[i].packet)
  BY DEF IInv, Parts, ReadServed
<1>2. irp[i].packet \in Fresh
  BY <1>1 DEF ReadsKept, ServedReads
<1>3. PICK p : p = irp[i].packet
  OBVIOUS
<1>4. /\ irp' \in [Irps -> Reads] /\ irp'[i].at = "none" /\ fault' \in {"none", "lost read"}
      /\ \A j \in Irps \ {i} : irp'[j] = irp[j]
  BY <1>1, <1>2, <1>3, CompletedReads DEF Parts
<1>5. Matched'
  BY <1>1, SameMatched DEF Parts, queueVars, adapterVars, happened
<1>6. ReadsKept'
  BY <1>1, <1>4, OneRead DEF Parts, queueVars, adapterVars
<1>7. Parts'
  BY <1>1, <1>4, <1>5, ReadParts DEF Parts, TypeOK, queueVars, happened
<1> QED BY <1>4, <1>6, <1>7 DEF IInv, Parts, ReadsExact

LEMMA ReadNowNext ==
    ASSUME IInv, fault = "none", NEW i \in Irps, ReadNow(i)
    PROVE  IInv'
<1>1. /\ Parts /\ ReadsKept /\ UNCHANGED <<adapterVars, m_IrpQueue, tx, fault, happened>>
      /\ irp[i].at = "hook" /\ irp \in [Irps -> Reads]
  BY DEF IInv, Parts, ReadNow, TypeOK
<1>2. CASE IS_UP /\ m_PacketQueue # <<>> /\ m_IrpQueue = <<>>
  <2>1. /\ irp' = [irp EXCEPT ![i].at = "served", ![i].packet = <<Head(m_PacketQueue)>>]
        /\ m_PacketQueue' = Tail(m_PacketQueue)
    BY <1>2 DEF ReadNow
  <2>2. /\ Head(m_PacketQueue) \in Nat /\ Head(m_PacketQueue) \in {0, session}
        /\ m_PacketQueue' \in Seq(Nat)
        /\ \A k \in 1 .. Len(m_PacketQueue') :
              k + 1 \in 1 .. Len(m_PacketQueue) /\ m_PacketQueue'[k] = m_PacketQueue[k + 1]
    BY <1>1, <1>2, <2>1, Tails DEF Parts, TypeOK, PacketsFresh
  <2>3. /\ irp' \in [Irps -> Reads] /\ irp'[i].at = "served" /\ irp'[i].packet \in Fresh
        /\ \A j \in Irps \ {i} : irp'[j] = irp[j]
    <3>1. <<Head(m_PacketQueue)>> \in Seq(Nat) /\ <<Head(m_PacketQueue)>> \in Fresh
      BY <2>2, PacketSeq DEF Fresh
    <3> QED BY <1>1, <2>1, <3>1 DEF Reads
  <2>4. TypeOK'
    BY <1>1, <2>2, <2>3 DEF Parts, TypeOK, adapterVars, happened
  <2>5. HaltReleases' /\ Matched'
    BY <1>1, <1>2 DEF HaltReleases, Matched, IS_UP, adapterVars
  <2>6. Opened'
    BY <1>1, <2>3 DEF Parts, Opened, Outstanding, adapterVars
  <2>7. PacketsFresh' /\ PacketsOld'
    BY <1>1, <2>2 DEF Parts, PacketsFresh, PacketsOld, Fresh, adapterVars
  <2>8. ReadsKept'
    BY <1>1, <2>3, OneRead DEF Parts, adapterVars, Fresh
  <2> QED BY <1>1, <2>4, <2>5, <2>6, <2>7, <2>8 DEF IInv, ReadsExact
<1>3. CASE ~(IS_UP /\ m_PacketQueue # <<>> /\ m_IrpQueue = <<>>)
  <2>1. irp' = [irp EXCEPT ![i].at = "unserved"] /\ UNCHANGED m_PacketQueue
    BY <1>3 DEF ReadNow
  <2>2. /\ irp' \in [Irps -> Reads] /\ irp'[i].at = "unserved"
        /\ \A j \in Irps \ {i} : irp'[j] = irp[j]
    BY <1>1, <2>1 DEF Reads
  <2>3. Matched'
    BY <1>1, <2>1, SameMatched DEF Parts, adapterVars, happened
  <2>4. ReadsKept'
    BY <1>1, <2>2, OneRead DEF Parts, adapterVars
  <2>5. Parts'
    BY <1>1, <2>1, <2>2, <2>3, ReadParts DEF Parts, TypeOK, happened
  <2> QED BY <1>1, <2>4, <2>5 DEF IInv, Parts, ReadsExact
<1> QED BY <1>2, <1>3

LEMMA ReadPendNext ==
    ASSUME IInv, fault = "none", NEW i \in Irps, ReadPend(i)
    PROVE  IInv'
<1>1. /\ Parts /\ ReadsKept /\ UNCHANGED <<adapterVars, m_PacketQueue, tx, early>>
      /\ irp[i].at = "unserved" /\ irp \in [Irps -> Reads]
      /\ m_IrpQueue \in Seq(Irps) /\ \A t \in Threads : tx[t].irp \subseteq Irps
  BY DEF IInv, Parts, ReadPend, TypeOK, Transmissions
<1>2. CASE IS_UP /\ Len(m_IrpQueue) < IRP_QUEUE_SIZE
  <2>1. /\ m_IrpQueue' = Append(m_IrpQueue, i) /\ gap' = (m_PacketQueue # <<>>) /\ fault' = fault
        /\ irp' = [irp EXCEPT ![i].at = "queued", ![i].routine = TRUE]
    BY <1>2 DEF ReadPend
  <2>2. /\ irp' \in [Irps -> Reads] /\ irp'[i].at = "queued"
        /\ \A j \in Irps \ {i} : irp'[j] = irp[j]
    BY <1>1, <2>1 DEF Reads
  <2>3. /\ m_IrpQueue' \in Seq(Irps) /\ Len(m_IrpQueue') = Len(m_IrpQueue) + 1
        /\ Len(m_IrpQueue) \in Nat /\ m_IrpQueue'[Len(m_IrpQueue) + 1] = i
        /\ \A k \in 1 .. Len(m_IrpQueue) : m_IrpQueue'[k] = m_IrpQueue[k]
        /\ \A k \in 1 .. Len(m_IrpQueue') : k \in 1 .. Len(m_IrpQueue) \/ k = Len(m_IrpQueue) + 1
    BY <1>1, <2>1, Appended
  <2>4. Parts'
    <3>1. Matched'
      BY <1>1, <2>1 DEF Matched
    <3>2. gap' \in BOOLEAN
      BY <2>1
    <3>3. halt = "no"
      BY <1>2 DEF IS_UP
    <3> QED BY <1>1, <2>2, <2>3, <3>1, <3>2, <3>3, ReadParts
  <2>5. \A k \in 1 .. Len(m_IrpQueue) : m_IrpQueue[k] # i /\ m_IrpQueue[k] \in Irps
    BY <1>1 DEF ReadsKept, QueuedReads
  <2>6. QueuedOnce'
    <3>1. ASSUME NEW k \in 1 .. Len(m_IrpQueue'), NEW l \in 1 .. Len(m_IrpQueue'),
                 m_IrpQueue'[k] = m_IrpQueue'[l]
          PROVE  k = l
      <4>1. QueuedOnce
        BY <1>1 DEF ReadsKept
      <4> QED BY <2>3, <2>5, <3>1, <4>1 DEF QueuedOnce
    <3> QED BY <3>1 DEF QueuedOnce
  <2>7. QueuedReads'
    BY <1>1, <2>2, <2>3, <2>5 DEF ReadsKept, QueuedReads
  <2>8. TakenReads'
    <3>1. \A t \in Threads : i \notin tx[t].irp
      BY <1>1 DEF ReadsKept, TakenReads
    <3>2. \A t \in Threads : \A j \in tx[t].irp : irp'[j] = irp[j] /\ j # i
      BY <1>1, <2>2, <3>1
    <3>3. \A t \in Threads : \A j \in tx[t].irp : \A k \in 1 .. Len(m_IrpQueue') : m_IrpQueue'[k] # j
      BY <1>1, <2>3, <3>2 DEF ReadsKept, TakenReads
    <3> QED BY <1>1, <3>2, <3>3 DEF ReadsKept, TakenReads, Fresh, adapterVars
  <2>9. ServedReads'
    BY <1>1, <2>2 DEF ReadsKept, ServedReads, Fresh, adapterVars
  <2> QED BY <2>1, <2>4, <2>6, <2>7, <2>8, <2>9 DEF IInv, Parts, ReadsExact, ReadsKept
<1>3. CASE ~(IS_UP /\ Len(m_IrpQueue) < IRP_QUEUE_SIZE)
  <2>1. Completed(i, <<>>) /\ UNCHANGED <<m_IrpQueue, gap>>
    BY <1>3 DEF ReadPend
  <2>2. /\ irp' \in [Irps -> Reads] /\ irp'[i].at = "none" /\ fault' \in {"none", "lost read"}
        /\ \A j \in Irps \ {i} : irp'[j] = irp[j]
    BY <1>1, <2>1, CompletedReads DEF Parts
  <2>3. Matched'
    BY <1>1, <2>1, SameMatched DEF Parts, adapterVars
  <2>4. ReadsKept'
    BY <1>1, <2>1, <2>2, OneRead DEF Parts, adapterVars
  <2>5. Parts'
    BY <1>1, <2>1, <2>2, <2>3, ReadParts DEF Parts, TypeOK
  <2> QED BY <2>2, <2>4, <2>5 DEF IInv, Parts, ReadsExact
<1> QED BY <1>2, <1>3

LEMMA CancelIRPNext ==
    ASSUME IInv, fault = "none", NEW i \in Irps, NEW found \in BOOLEAN, CancelIRP(i, found)
    PROVE  IInv'
<1> DEFINE queued == Contains(m_IrpQueue, i)
<1>1. /\ Parts /\ ReadsKept /\ UNCHANGED <<adapterVars, m_PacketQueue, tx, early>>
      /\ irp' = [irp EXCEPT ![i] = IF ~found THEN [NoRead EXCEPT !.at = "lost"]
                                   ELSE IF queued THEN NoRead ELSE [@ EXCEPT !.call = "none"]]
      /\ fault' = IF Outstanding(i) THEN fault ELSE "stale read"
      /\ m_IrpQueue' = IF found THEN Extracted(m_IrpQueue, i) ELSE m_IrpQueue
      /\ gap' = (gap /\ m_IrpQueue' # <<>>)
  BY DEF IInv, Parts, CancelIRP
<1>2. /\ irp \in [Irps -> Reads] /\ m_IrpQueue \in Seq(Irps) /\ gap \in BOOLEAN
      /\ \A t \in Threads : tx[t].irp \subseteq Irps
      /\ \A k, l \in 1 .. Len(m_IrpQueue) : m_IrpQueue[k] = m_IrpQueue[l] => k = l
  BY <1>1 DEF Parts, TypeOK, Transmissions, ReadsKept, QueuedOnce
<1>3. /\ [NoRead EXCEPT !.at = "lost"] \in Reads /\ [NoRead EXCEPT !.at = "lost"].at = "lost"
      /\ NoRead \in Reads /\ NoRead.at = "none"
  BY PacketSeq DEF NoRead, Reads
<1>4. /\ [irp[i] EXCEPT !.call = "none"] \in Reads
      /\ [irp[i] EXCEPT !.call = "none"].at = irp[i].at
      /\ [irp[i] EXCEPT !.call = "none"].packet = irp[i].packet
  BY <1>2 DEF Reads
<1>5. \A j \in Irps \ {i} : irp'[j] = irp[j]
  BY <1>1, <1>2
<1>6. /\ irp' \in [Irps -> Reads]
      /\ irp'[i].at \in {"none", "lost"} \/ (irp'[i].at = irp[i].at /\ irp'[i].packet = irp[i].packet)
      /\ ~found => irp'[i].at = "lost"
      /\ found /\ ~queued => irp'[i].at = irp[i].at
  <2>1. CASE ~found
    BY <1>1, <1>2, <1>3, <2>1
  <2>2. CASE found /\ queued
    BY <1>1, <1>2, <1>3, <2>2
  <2>3. CASE found /\ ~queued
    BY <1>1, <1>2, <1>4, <2>3
  <2> QED BY <2>1, <2>2, <2>3
<1>7. /\ Extracted(m_IrpQueue, i) \in Seq(Irps)
      /\ m_IrpQueue = <<>> => Extracted(m_IrpQueue, i) = <<>>
      /\ \A k \in 1 .. Len(Extracted(m_IrpQueue, i)) :
            \E l \in 1 .. Len(m_IrpQueue) : Extracted(m_IrpQueue, i)[k] = m_IrpQueue[l]
      /\ \A k \in 1 .. Len(Extracted(m_IrpQueue, i)) : Extracted(m_IrpQueue, i)[k] # i
      /\ \A k, l \in 1 .. Len(Extracted(m_IrpQueue, i)) :
            Extracted(m_IrpQueue, i)[k] = Extracted(m_IrpQueue, i)[l] => k = l
  BY <1>2, ExtractedKeeps
<1> HIDE DEF queued
<1>8. Parts'
  <2>1. m_IrpQueue' \in Seq(Irps) /\ (m_IrpQueue = <<>> => m_IrpQueue' = <<>>)
    BY <1>1, <1>2, <1>7
  <2>2. Matched'
    BY <1>1, <2>1 DEF Parts, Matched, adapterVars
  <2>3. gap' \in BOOLEAN
    BY <1>1, <1>2
  <2> QED BY <1>1, <1>5, <1>6, <2>1, <2>2, <2>3, ReadParts
<1>9. CASE ~found
  BY <1>1, <1>5, <1>6, <1>8, <1>9, OneRead DEF Parts, IInv, ReadsExact, adapterVars
<1>10. CASE found /\ ~queued
  <2>1. m_IrpQueue' = m_IrpQueue
    BY <1>1, <1>10 DEF Extracted, queued
  <2>2. ReadsKept'
    BY <1>1, <1>5, <1>6, <1>10, <2>1, OneRead DEF Parts, ReadsKept, ServedReads, adapterVars
  <2> QED BY <1>1, <1>8, <2>2 DEF Parts, IInv, ReadsExact
<1>11. CASE found /\ queued
  <2>1. PICK k \in 1 .. Len(m_IrpQueue) : m_IrpQueue[k] = i
    BY <1>11 DEF queued, Contains
  <2>2. \A t \in Threads : i \notin tx[t].irp
    BY <1>1, <2>1 DEF ReadsKept, TakenReads
  <2>3. m_IrpQueue' = Extracted(m_IrpQueue, i)
    BY <1>1, <1>11
  <2>4. QueuedOnce'
    BY <1>7, <2>3 DEF QueuedOnce
  <2>5. QueuedReads'
    <3>1. ASSUME NEW l \in 1 .. Len(m_IrpQueue') PROVE irp'[m_IrpQueue'[l]].at \in {"queued", "lost"}
      <4>1. PICK n \in 1 .. Len(m_IrpQueue) : m_IrpQueue'[l] = m_IrpQueue[n]
        BY <1>7, <2>3
      <4>2. m_IrpQueue'[l] \in Irps \ {i}
        BY <1>2, <1>7, <2>3, <4>1
      <4> QED BY <1>1, <1>5, <4>1, <4>2 DEF ReadsKept, QueuedReads
    <3> QED BY <3>1 DEF QueuedReads
  <2>6. TakenReads'
    <3>1. \A t \in Threads : \A j \in tx[t].irp : irp'[j] = irp[j]
      BY <1>2, <1>5, <2>2
    <3>2. ASSUME NEW t \in Threads, NEW j \in tx[t].irp, NEW l \in 1 .. Len(m_IrpQueue')
          PROVE  m_IrpQueue'[l] # j
      <4>1. \E n \in 1 .. Len(m_IrpQueue) : m_IrpQueue'[l] = m_IrpQueue[n]
        BY <1>7, <2>3
      <4> QED BY <1>1, <4>1 DEF ReadsKept, TakenReads
    <3>3. session' = session /\ tx' = tx /\ TakenReads
      BY <1>1 DEF ReadsKept, adapterVars
    <3> QED BY <3>1, <3>2, <3>3, SameTaken
  <2>7. ServedReads'
    BY <1>1, <1>5, <1>6 DEF ReadsKept, ServedReads, Fresh, adapterVars
  <2> QED BY <1>1, <1>8, <2>4, <2>5, <2>6, <2>7 DEF Parts, IInv, ReadsExact, ReadsKept
<1> QED BY <1>9, <1>10, <1>11

\* The queues are empty, and their reads completed.
LEMMA Flushed ==
    ASSUME IInv, fault = "none", FlushQueues,
           \A t \in Threads : /\ tx'[t].irp = tx[t].irp /\ tx'[t].at = tx[t].at
                              /\ tx[t].at = "serve" => tx'[t].packet = tx[t].packet,
           session' = session
    PROVE  /\ irp' \in [Irps -> Reads] /\ m_IrpQueue' = <<>> /\ m_PacketQueue' = <<>>
           /\ gap' \in BOOLEAN /\ fault' \in {"none", "lost read"}
           /\ \A i \in Irps : irp'[i] = irp[i] \/ irp'[i].at = "none"
           /\ ReadsKept'
<1>1. /\ m_IrpQueue' = <<>> /\ m_PacketQueue' = <<>> /\ gap' = FALSE
      /\ irp' = [i \in Irps |-> IF Contains(m_IrpQueue, i) THEN [NoRead EXCEPT !.call = irp[i].call]
                                ELSE irp[i]]
      /\ fault' \in {"none", "lost read"}
      /\ TypeOK /\ ReadsKept
  BY DEF FlushQueues, IInv
<1>2. irp' \in [Irps -> Reads] /\ \A i \in Irps : irp'[i] = irp[i] \/ irp'[i].at = "none"
  <2>1. irp \in [Irps -> Reads]
    BY <1>1 DEF TypeOK
  <2>2. ASSUME NEW i \in Irps
        PROVE  irp'[i] \in Reads /\ (irp'[i] = irp[i] \/ irp'[i].at = "none")
    BY <1>1, <2>1, Ended
  <2> QED BY <1>1, <2>2
<1>3. Len(m_IrpQueue') = 0
  BY <1>1
<1>4. QueuedOnce' /\ QueuedReads'
  BY <1>3 DEF QueuedOnce, QueuedReads
<1>5. TakenReads'
  <2>1. ASSUME NEW t \in Threads, NEW i \in tx[t].irp PROVE irp'[i] = irp[i]
    <3>1. i \in Irps
      BY <1>1 DEF TypeOK, Transmissions
    <3>2. ~Contains(m_IrpQueue, i)
      BY <1>1 DEF ReadsKept, TakenReads, Contains
    <3> QED BY <1>1, <3>1, <3>2
  <2>2. \A i : \A k \in 1 .. Len(m_IrpQueue') : m_IrpQueue'[k] # i
    BY <1>3
  <2>3. TakenReads
    BY <1>1 DEF ReadsKept
  <2> QED BY <2>1, <2>2, <2>3, SameTaken
<1>6. ServedReads'
  BY <1>1, <1>2 DEF ReadsKept, ServedReads, Fresh
<1> QED BY <1>1, <1>2, <1>4, <1>5, <1>6 DEF ReadsKept

LEMMA HaltFlushNext ==
    ASSUME IInv, fault = "none", HaltFlush
    PROVE  IInv'
<1>1. /\ Parts /\ FlushQueues /\ halt = "asked" /\ halt' = "flushed"
      /\ UNCHANGED <<m_InterfaceIsRunning, m_TapOpens, m_MediaState, handle, session, tx, early>>
  BY DEF IInv, Parts, HaltFlush
<1>2. /\ irp' \in [Irps -> Reads] /\ m_IrpQueue' = <<>> /\ m_PacketQueue' = <<>>
      /\ gap' \in BOOLEAN /\ fault' \in {"none", "lost read"}
      /\ \A i \in Irps : irp'[i] = irp[i] \/ irp'[i].at = "none"
      /\ ReadsKept'
  BY <1>1, Flushed
<1>3. TypeOK'
  BY <1>1, <1>2, EmptySeq DEF Parts, TypeOK
<1>4. HaltReleases' /\ Matched' /\ Opened'
  BY <1>1, <1>2 DEF Parts, HaltReleases, Matched, Opened, Outstanding, queueVars
<1>5. PacketsFresh' /\ PacketsOld'
  <2>1. Len(m_PacketQueue') = 0
    BY <1>2
  <2> QED BY <1>1, <2>1 DEF Parts, PacketsFresh, PacketsOld, Fresh
<1> QED BY <1>2, <1>3, <1>4, <1>5 DEF IInv, ReadsExact

LEMMA CloseNext ==
    ASSUME IInv, fault = "none", Close
    PROVE  IInv'
<1>1. /\ Parts /\ ReadsKept /\ handle = "closing" /\ handle' = "closed"
      /\ \A i \in Irps : ~Outstanding(i)
      /\ UNCHANGED <<m_InterfaceIsRunning, halt, session, early>>
  BY DEF IInv, Parts, Close
<1>2. CASE halt = "no"
  <2>1. /\ m_TapOpens' = 0 /\ m_MediaState' = FALSE /\ FlushQueues
        /\ tx' = [t \in Threads |-> IF tx[t].at = "tested" THEN [tx[t] EXCEPT !.packet = <<0>>]
                                    ELSE tx[t]]
    BY <1>2 DEF Close
  <2>2. tx \in [Threads -> Transmissions]
    BY <1>1 DEF Parts, TypeOK
  <2>3. /\ tx' \in [Threads -> Transmissions]
        /\ \A t \in Threads : /\ tx'[t].irp = tx[t].irp /\ tx'[t].at = tx[t].at
                              /\ tx[t].at = "serve" => tx'[t].packet = tx[t].packet
                              /\ tx[t].at = "tested" => tx'[t].packet = <<0>>
    BY <2>1, <2>2, PacketSeq DEF Transmissions
  <2>4. /\ irp' \in [Irps -> Reads] /\ m_IrpQueue' = <<>> /\ m_PacketQueue' = <<>>
        /\ gap' \in BOOLEAN /\ fault' \in {"none", "lost read"}
        /\ \A i \in Irps : irp'[i] = irp[i] \/ irp'[i].at = "none"
        /\ ReadsKept'
    BY <1>1, <2>1, <2>3, Flushed
  <2>5. TypeOK'
    BY <1>1, <2>1, <2>3, <2>4, EmptySeq DEF Parts, TypeOK
  <2>6. HaltReleases' /\ Matched'
    BY <2>4 DEF HaltReleases, Matched, queueVars
  <2>7. Opened'
    <3>1. \A i \in Irps : irp'[i].at \in {"none", "lost"}
      BY <1>1, <2>4 DEF Outstanding
    <3> QED BY <2>1, <3>1 DEF Opened, Outstanding
  <2>8. PacketsFresh' /\ PacketsOld'
    <3>1. \A k \in 1 .. Len(m_PacketQueue') : m_PacketQueue'[k] = 0
      <4>1. Len(m_PacketQueue') = 0
        BY <2>4
      <4> QED BY <4>1
    <3>2. \A t \in Threads : tx'[t].at = "tested" => tx'[t].packet = <<0>>
      BY <2>3
    <3> QED BY <3>1, <3>2 DEF PacketsFresh, PacketsOld, Fresh
  <2> QED BY <2>4, <2>5, <2>6, <2>7, <2>8 DEF IInv, ReadsExact
<1>3. CASE halt # "no"
  <2>1. UNCHANGED <<m_TapOpens, m_MediaState, queueVars, irp, tx, fault, gap>>
    BY <1>3 DEF Close
  <2>2. TypeOK'
    BY <1>1, <2>1 DEF Parts, TypeOK, queueVars
  <2>3. HaltReleases' /\ Matched' /\ Opened'
    BY <1>1, <1>3, <2>1 DEF Parts, HaltReleases, Matched, Opened, Outstanding, queueVars
  <2>4. PacketsFresh' /\ PacketsOld'
    BY <1>1, <1>3, <2>1, SamePackets DEF Parts, queueVars
  <2>5. ReadsKept'
    BY <1>1, <2>1, SameReads DEF queueVars
  <2> QED BY <2>1, <2>2, <2>3, <2>4, <2>5 DEF IInv, ReadsExact
<1> QED BY <1>2, <1>3
-----------------------------------------------------------------------------
(* The transmissions.                                                      *)

LEMMA TxTestNext ==
    ASSUME IInv, fault = "none", NEW t \in Threads, TxTest(t)
    PROVE  IInv'
<1>1. /\ Parts /\ ReadsKept /\ UNCHANGED <<adapterVars, queueVars, irp, fault, happened>>
      /\ tx[t].at = "none" /\ m_TapOpens = 1 /\ tx \in [Threads -> Transmissions]
      /\ tx' = [tx EXCEPT ![t] = [NoTx EXCEPT !.at = "tested", !.packet = <<session>>]]
  BY DEF IInv, Parts, TypeOK, TxTest
<1>2. LET r == [NoTx EXCEPT !.at = "tested", !.packet = <<session>>]
      IN  r \in Transmissions /\ r.at = "tested" /\ r.packet = <<session>> /\ r.irp = {}
  <2>1. <<session>> \in Seq(Nat)
    BY <1>1, PacketSeq DEF Parts, TypeOK
  <2> QED BY <2>1 DEF NoTx, Transmissions
<1>3. /\ tx' \in [Threads -> Transmissions] /\ \A u \in Threads \ {t} : tx'[u] = tx[u]
      /\ tx'[t].at = "tested" /\ tx'[t].packet = <<session>> /\ tx'[t].irp = {}
  BY <1>1, <1>2
<1>4. TypeOK'
  BY <1>1, <1>3 DEF Parts, TypeOK, adapterVars, queueVars, happened
<1>5. HaltReleases' /\ Opened'
  BY <1>1 DEF Parts, HaltReleases, Opened, Outstanding, adapterVars, queueVars
<1>6. Matched'
  <2>1. \A u \in Threads : tx[u].at \in {"match", "serve"} => tx'[u].at \in {"match", "serve"}
    BY <1>1, <1>3
  <2> QED BY <1>1, <2>1 DEF Parts, Matched, adapterVars, queueVars, happened
<1>7. PacketsFresh' /\ PacketsOld'
  <2>1. handle # "closed"
    BY <1>1 DEF Parts, Opened
  <2> QED BY <1>1, <1>3, <2>1 DEF Parts, PacketsFresh, PacketsOld, Fresh, adapterVars, queueVars
<1>8. ReadsKept'
  BY <1>1, <1>3, OneTx DEF adapterVars, queueVars
<1> QED BY <1>1, <1>4, <1>5, <1>6, <1>7, <1>8 DEF IInv, ReadsExact

LEMMA NoTxAgain ==
    ASSUME NEW a \in {"none", "match"}
    PROVE  LET r == [NoTx EXCEPT !.at = a] IN r \in Transmissions /\ r.at = a /\ r.irp = {}
BY PacketSeq DEF NoTx, Transmissions

LEMMA TxPushNext ==
    ASSUME IInv, fault = "none", NEW t \in Threads, TxPush(t)
    PROVE  IInv'
<1>1. /\ Parts /\ ReadsKept /\ UNCHANGED <<adapterVars, m_IrpQueue, irp, fault, happened>>
      /\ tx[t].at = "tested" /\ tx \in [Threads -> Transmissions]
  BY DEF IInv, Parts, TypeOK, TxPush
<1>2. CASE IS_UP /\ Len(m_PacketQueue) < PACKET_QUEUE_SIZE
  <2>1. /\ m_PacketQueue' = m_PacketQueue \o tx[t].packet
        /\ tx' = [tx EXCEPT ![t] = [NoTx EXCEPT !.at = "match"]]
    BY <1>2 DEF TxPush
  <2>2. PICK n \in Nat : /\ tx[t].packet = <<n>> /\ n \in {0, session}
                         /\ handle = "closed" /\ halt = "no" => n = 0
    <3>1. session \in Nat /\ tx[t].packet \in Fresh
      BY <1>1 DEF Parts, TypeOK, PacketsFresh
    <3>2. CASE tx[t].packet = <<0>>
      BY <3>2
    <3>3. CASE tx[t].packet # <<0>>
      <4>1. ~(handle = "closed" /\ halt = "no")
        BY <1>1, <3>3 DEF Parts, PacketsOld
      <4> QED BY <3>1, <3>3, <4>1 DEF Fresh
    <3> QED BY <3>2, <3>3
  <2>3. /\ m_PacketQueue' \in Seq(Nat) /\ Len(m_PacketQueue') = Len(m_PacketQueue) + 1
        /\ Len(m_PacketQueue) \in Nat /\ m_PacketQueue'[Len(m_PacketQueue) + 1] = n
        /\ \A k \in 1 .. Len(m_PacketQueue) : m_PacketQueue'[k] = m_PacketQueue[k]
        /\ \A k \in 1 .. Len(m_PacketQueue') :
              k \in 1 .. Len(m_PacketQueue) \/ k = Len(m_PacketQueue) + 1
    <3>1. m_PacketQueue \in Seq(Nat)
      BY <1>1 DEF Parts, TypeOK
    <3>2. m_PacketQueue' = Append(m_PacketQueue, n)
      BY <2>1, <2>2, <3>1, Appended
    <3> QED BY <3>1, <3>2, Appended
  <2>4. /\ tx' \in [Threads -> Transmissions] /\ \A u \in Threads \ {t} : tx'[u] = tx[u]
        /\ tx'[t].at = "match" /\ tx'[t].irp = {}
    BY <1>1, <2>1, NoTxAgain
  <2>5. TypeOK'
    BY <1>1, <2>3, <2>4 DEF Parts, TypeOK, adapterVars, happened
  <2>6. HaltReleases' /\ Opened' /\ Matched'
    BY <1>1, <1>2, <2>4
    DEF Parts, HaltReleases, Opened, Matched, Outstanding, IS_UP, adapterVars, queueVars
  <2>7. PacketsFresh'
    BY <1>1, <2>2, <2>3, <2>4 DEF Parts, PacketsFresh, Fresh, adapterVars
  <2>8. PacketsOld'
    BY <1>1, <2>2, <2>3, <2>4 DEF Parts, PacketsOld, adapterVars
  <2>9. ReadsKept'
    BY <1>1, <2>4, OneTx DEF adapterVars
  <2> QED BY <1>1, <2>5, <2>6, <2>7, <2>8, <2>9 DEF IInv, ReadsExact
<1>3. CASE ~(IS_UP /\ Len(m_PacketQueue) < PACKET_QUEUE_SIZE)
  <2>1. tx' = [tx EXCEPT ![t] = NoTx] /\ UNCHANGED m_PacketQueue
    BY <1>3 DEF TxPush
  <2>2. NoTx \in Transmissions /\ NoTx.at = "none" /\ NoTx.irp = {}
    BY PacketSeq DEF NoTx, Transmissions
  <2>3. /\ tx' \in [Threads -> Transmissions] /\ \A u \in Threads \ {t} : tx'[u] = tx[u]
        /\ tx'[t].at = "none" /\ tx'[t].irp = {}
    BY <1>1, <2>1, <2>2
  <2>4. TypeOK'
    BY <1>1, <2>1, <2>3 DEF Parts, TypeOK, adapterVars, happened
  <2>5. HaltReleases' /\ Opened'
    BY <1>1, <2>1 DEF Parts, HaltReleases, Opened, Outstanding, adapterVars, queueVars
  <2>6. Matched'
    <3>1. \A u \in Threads : tx[u].at \in {"match", "serve"} => tx'[u].at \in {"match", "serve"}
      BY <1>1, <2>3
    <3> QED BY <1>1, <2>1, <3>1 DEF Parts, Matched, adapterVars, happened
  <2>7. PacketsFresh' /\ PacketsOld'
    <3>1. \A u \in Threads : tx'[u].at = "tested" => tx'[u] = tx[u]
      BY <2>3
    <3> QED BY <1>1, <2>1, <3>1 DEF Parts, PacketsFresh, PacketsOld, Fresh, adapterVars
  <2>8. ReadsKept'
    BY <1>1, <2>3, OneTx DEF adapterVars
  <2> QED BY <1>1, <2>4, <2>5, <2>6, <2>7, <2>8 DEF IInv, ReadsExact
<1> QED BY <1>2, <1>3

LEMMA TxMatchNext ==
    ASSUME IInv, fault = "none", NEW t \in Threads, TxMatch(t)
    PROVE  IInv'
<1>1. /\ Parts /\ ReadsKept /\ UNCHANGED <<adapterVars, irp, fault, early>>
      /\ tx[t].at = "match" /\ tx \in [Threads -> Transmissions]
      /\ m_PacketQueue \in Seq(Nat) /\ m_IrpQueue \in Seq(Irps)
  BY DEF IInv, Parts, TypeOK, TxMatch
<1>2. CASE IS_UP /\ m_PacketQueue # <<>> /\ m_IrpQueue # <<>>
  <2>1. /\ tx' = [tx EXCEPT ![t] = [at |-> "serve", packet |-> <<Head(m_PacketQueue)>>,
                                    irp |-> {Head(m_IrpQueue)}]]
        /\ m_PacketQueue' = Tail(m_PacketQueue) /\ m_IrpQueue' = Tail(m_IrpQueue) /\ gap' = FALSE
    BY <1>2 DEF TxMatch
  <2>2. /\ 1 \in 1 .. Len(m_PacketQueue) /\ Head(m_PacketQueue) = m_PacketQueue[1]
        /\ Head(m_PacketQueue) \in Nat /\ m_PacketQueue' \in Seq(Nat)
        /\ \A k \in 1 .. Len(m_PacketQueue') :
              k + 1 \in 1 .. Len(m_PacketQueue) /\ m_PacketQueue'[k] = m_PacketQueue[k + 1]
    BY <1>1, <1>2, <2>1, Tails
  <2>3. /\ 1 \in 1 .. Len(m_IrpQueue) /\ Head(m_IrpQueue) = m_IrpQueue[1]
        /\ Head(m_IrpQueue) \in Irps /\ m_IrpQueue' \in Seq(Irps)
        /\ \A k \in 1 .. Len(m_IrpQueue') :
              k + 1 \in 1 .. Len(m_IrpQueue) /\ m_IrpQueue'[k] = m_IrpQueue[k + 1]
    BY <1>1, <1>2, <2>1, Tails
  <2>4. PICK i \in Irps : i = Head(m_IrpQueue)
    BY <2>3
  <2>5. PICK n \in Nat : n = Head(m_PacketQueue) /\ n \in {0, session}
    BY <1>1, <2>2 DEF Parts, PacketsFresh
  <2>6. /\ tx' \in [Threads -> Transmissions] /\ \A u \in Threads \ {t} : tx'[u] = tx[u]
        /\ tx'[t].at = "serve" /\ tx'[t].irp = {i} /\ tx'[t].packet \in Fresh
    <3>1. <<n>> \in Seq(Nat) /\ <<n>> \in Fresh
      BY <2>5, PacketSeq DEF Fresh
    <3> QED BY <1>1, <2>1, <2>4, <2>5, <3>1 DEF Transmissions
  <2>7. TypeOK'
    BY <1>1, <2>1, <2>2, <2>3, <2>6 DEF Parts, TypeOK, adapterVars
  <2>8. HaltReleases' /\ Opened' /\ Matched'
    BY <1>1, <1>2, <2>6
    DEF Parts, HaltReleases, Opened, Matched, Outstanding, IS_UP, adapterVars, queueVars
  <2>9. PacketsFresh' /\ PacketsOld'
    <3>1. \A u \in Threads : tx'[u].at = "tested" => tx'[u] = tx[u]
      BY <2>6
    <3> QED BY <1>1, <2>2, <3>1 DEF Parts, PacketsFresh, PacketsOld, Fresh, adapterVars
  <2>10. QueuedOnce'
    <3>1. ASSUME NEW k \in 1 .. Len(m_IrpQueue'), NEW l \in 1 .. Len(m_IrpQueue'),
                 m_IrpQueue'[k] = m_IrpQueue'[l]
          PROVE  k = l
      <4>1. k + 1 = l + 1
        BY <1>1, <2>3, <3>1 DEF ReadsKept, QueuedOnce
      <4> QED BY <4>1
    <3> QED BY <3>1 DEF QueuedOnce
  <2>11. QueuedReads'
    BY <1>1, <2>3 DEF ReadsKept, QueuedReads
  <2>12. \A k \in 1 .. Len(m_IrpQueue') : m_IrpQueue'[k] # i
    <3>1. ASSUME NEW k \in 1 .. Len(m_IrpQueue'), m_IrpQueue'[k] = i PROVE FALSE
      <4>1. k + 1 = 1
        BY <1>1, <2>3, <2>4, <3>1 DEF ReadsKept, QueuedOnce
      <4> QED BY <4>1
    <3> QED BY <3>1
  <2>13. TakenReads'
    <3>1. irp[i].at \in {"queued", "lost"} /\ \A u \in Threads : i \notin tx[u].irp
      <4>1. QueuedReads /\ TakenReads
        BY <1>1 DEF ReadsKept
      <4> QED BY <2>3, <2>4, <4>1 DEF QueuedReads, TakenReads
    <3>2. ASSUME NEW u \in Threads, NEW j \in tx'[u].irp
          PROVE  /\ irp'[j].at \in {"queued", "lost"}
                 /\ irp'[j].at = "queued" => tx'[u].packet \in Fresh'
                 /\ \A k \in 1 .. Len(m_IrpQueue') : m_IrpQueue'[k] # j
      <4>1. CASE u = t
        BY <1>1, <2>6, <2>12, <3>1, <4>1 DEF adapterVars, Fresh
      <4>2. CASE u # t
        <5>1. /\ j \in tx[u].irp /\ tx'[u] = tx[u] /\ irp'[j] = irp[j] /\ session' = session
          BY <1>1, <2>6, <3>2, <4>2 DEF adapterVars
        <5>2. /\ irp[j].at \in {"queued", "lost"} /\ (irp[j].at = "queued" => tx[u].packet \in Fresh)
              /\ \A k \in 1 .. Len(m_IrpQueue) : m_IrpQueue[k] # j
          BY <1>1, <5>1 DEF ReadsKept, TakenReads
        <5> QED BY <2>3, <5>1, <5>2 DEF Fresh
      <4> QED BY <4>1, <4>2
    <3>3. \A u \in Threads : tx'[u].at # "serve" => tx'[u].irp = {}
      BY <1>1, <2>6 DEF ReadsKept, TakenReads
    <3>4. \A u, v \in Threads : u # v => tx'[u].irp \cap tx'[v].irp = {}
      BY <1>1, <2>6, <3>1 DEF ReadsKept, TakenReads
    <3> QED BY <3>2, <3>3, <3>4 DEF TakenReads
  <2>14. ServedReads'
    BY <1>1 DEF ReadsKept, ServedReads, Fresh, adapterVars
  <2> QED BY <1>1, <2>7, <2>8, <2>9, <2>10, <2>11, <2>13, <2>14 DEF IInv, ReadsExact, ReadsKept
<1>3. CASE ~(IS_UP /\ m_PacketQueue # <<>> /\ m_IrpQueue # <<>>)
  <2>1. tx' = [tx EXCEPT ![t] = NoTx] /\ UNCHANGED <<queueVars, gap>>
    BY <1>3 DEF TxMatch
  <2>2. NoTx \in Transmissions /\ NoTx.at = "none" /\ NoTx.irp = {}
    BY PacketSeq DEF NoTx, Transmissions
  <2>3. /\ tx' \in [Threads -> Transmissions] /\ \A u \in Threads \ {t} : tx'[u] = tx[u]
        /\ tx'[t].at = "none" /\ tx'[t].irp = {}
    BY <1>1, <2>1, <2>2
  <2>4. TypeOK'
    BY <1>1, <2>1, <2>3 DEF Parts, TypeOK, adapterVars, queueVars
  <2>5. HaltReleases' /\ Opened'
    BY <1>1, <2>1 DEF Parts, HaltReleases, Opened, Outstanding, adapterVars, queueVars
  <2>6. Matched'
    BY <1>1, <1>3, <2>1 DEF Parts, Matched, IS_UP, adapterVars, queueVars
  <2>7. PacketsFresh' /\ PacketsOld'
    <3>1. \A u \in Threads : tx'[u].at = "tested" => tx'[u] = tx[u]
      BY <2>3
    <3> QED BY <1>1, <2>1, <3>1 DEF Parts, PacketsFresh, PacketsOld, Fresh, adapterVars, queueVars
  <2>8. ReadsKept'
    BY <1>1, <2>1, <2>3, OneTx DEF adapterVars, queueVars
  <2> QED BY <1>1, <2>4, <2>5, <2>6, <2>7, <2>8 DEF IInv, ReadsExact
<1> QED BY <1>2, <1>3

LEMMA TxServeNext ==
    ASSUME IInv, fault = "none", NEW t \in Threads, TxServe(t)
    PROVE  IInv'
<1>1. /\ Parts /\ ReadsKept /\ UNCHANGED <<adapterVars, queueVars, happened>>
      /\ tx[t].at = "serve" /\ tx \in [Threads -> Transmissions]
      /\ tx' = [tx EXCEPT ![t] = [NoTx EXCEPT !.at = "match"]]
      /\ \A u \in Threads : tx[u].irp \subseteq Irps
  BY DEF IInv, Parts, TypeOK, TxServe, Transmissions
<1>2. PICK i \in Irps : i \in tx[t].irp /\ Completed(i, tx[t].packet)
  BY <1>1 DEF TxServe
<1>3. PICK p : p = tx[t].packet
  OBVIOUS
<1>4. /\ irp[i].at \in {"queued", "lost"} /\ (irp[i].at = "queued" => p \in Fresh)
      /\ \A k \in 1 .. Len(m_IrpQueue) : m_IrpQueue[k] # i
      /\ \A u \in Threads \ {t} : i \notin tx[u].irp
  BY <1>1, <1>2, <1>3 DEF ReadsKept, TakenReads
<1>5. /\ irp' \in [Irps -> Reads] /\ irp'[i].at = "none" /\ fault' \in {"none", "lost read"}
      /\ \A j \in Irps \ {i} : irp'[j] = irp[j]
  BY <1>1, <1>2, <1>3, <1>4, CompletedReads DEF Parts
<1>6. /\ tx' \in [Threads -> Transmissions] /\ \A u \in Threads \ {t} : tx'[u] = tx[u]
      /\ tx'[t].at = "match" /\ tx'[t].irp = {}
  BY <1>1, NoTxAgain
<1>7. TypeOK'
  BY <1>1, <1>5, <1>6 DEF Parts, TypeOK, adapterVars, queueVars, happened
<1>8. HaltReleases' /\ Opened'
  BY <1>1, <1>5 DEF Parts, HaltReleases, Opened, Outstanding, adapterVars, queueVars
<1>9. Matched'
  <2>1. \A u \in Threads : tx[u].at \in {"match", "serve"} => tx'[u].at \in {"match", "serve"}
    BY <1>6
  <2> QED BY <1>1, <2>1 DEF Parts, Matched, adapterVars, queueVars, happened
<1>10. PacketsFresh' /\ PacketsOld'
  <2>1. \A u \in Threads : tx'[u].at = "tested" => tx'[u] = tx[u]
    BY <1>6
  <2> QED BY <1>1, <2>1 DEF Parts, PacketsFresh, PacketsOld, Fresh, adapterVars, queueVars
<1>11. QueuedOnce' /\ QueuedReads'
  <2>1. \A k \in 1 .. Len(m_IrpQueue) : m_IrpQueue[k] \in Irps \ {i}
    BY <1>1, <1>4 DEF Parts, TypeOK
  <2> QED BY <1>1, <1>5, <2>1 DEF ReadsKept, QueuedOnce, QueuedReads, queueVars
<1>12. TakenReads'
  <2>1. ASSUME NEW u \in Threads, NEW j \in tx'[u].irp
        PROVE  /\ irp'[j].at \in {"queued", "lost"}
               /\ irp'[j].at = "queued" => tx'[u].packet \in Fresh'
               /\ \A k \in 1 .. Len(m_IrpQueue') : m_IrpQueue'[k] # j
    <3>1. u # t /\ j \in tx[u].irp /\ tx'[u] = tx[u] /\ session' = session
      BY <1>1, <1>6, <2>1 DEF adapterVars
    <3>2. irp'[j] = irp[j]
      BY <1>1, <1>4, <1>5, <3>1
    <3>3. /\ irp[j].at \in {"queued", "lost"} /\ (irp[j].at = "queued" => tx[u].packet \in Fresh)
          /\ \A k \in 1 .. Len(m_IrpQueue) : m_IrpQueue[k] # j
      BY <1>1, <3>1 DEF ReadsKept, TakenReads
    <3> QED BY <1>1, <3>1, <3>2, <3>3 DEF Fresh, queueVars
  <2>2. \A u \in Threads : tx'[u].at # "serve" => tx'[u].irp = {}
    BY <1>1, <1>6 DEF ReadsKept, TakenReads
  <2>3. \A u, v \in Threads : u # v => tx'[u].irp \cap tx'[v].irp = {}
    BY <1>1, <1>6 DEF ReadsKept, TakenReads
  <2> QED BY <2>1, <2>2, <2>3 DEF TakenReads
<1>13. ServedReads'
  BY <1>1, <1>5 DEF ReadsKept, ServedReads, Fresh, adapterVars
<1> QED BY <1>5, <1>7, <1>8, <1>9, <1>10, <1>11, <1>12, <1>13 DEF IInv, ReadsExact, ReadsKept
-----------------------------------------------------------------------------
LEMMA Inductive == IInv /\ [Next]_vars => IInv'
<1> SUFFICES ASSUME IInv, [Next]_vars PROVE IInv'
  OBVIOUS
<1>1. CASE UNCHANGED vars
  <2>1. UNCHANGED <<adapterVars, queueVars, irp, tx, fault, happened>>
    BY <1>1 DEF vars
  <2>2. TypeOK' /\ ReadsExact'
    BY <2>1 DEF IInv, TypeOK, ReadsExact, adapterVars, queueVars, happened
  <2>3. HaltReleases' /\ Matched' /\ Opened'
    BY <2>1 DEF IInv, HaltReleases, Matched, Opened, Outstanding, adapterVars, queueVars, happened
  <2>4. PacketsFresh' /\ PacketsOld'
    BY <2>1, SamePackets DEF IInv, adapterVars, queueVars
  <2>5. fault' = "none" => ReadsKept'
    BY <2>1, SameReads DEF IInv, adapterVars, queueVars
  <2> QED BY <2>2, <2>3, <2>4, <2>5 DEF IInv
<1>2. CASE Next
  <2>1. fault = "none"
    BY <1>2 DEF Next
  <2>2. CASE Create \/ CloseHandle \/ Close \/ SetMediaStatus
    BY <2>1, <2>2, CreateNext, AdapterNext, CloseNext
  <2>3. CASE SetPower \/ Halt \/ HaltFlush \/ HaltFree
    BY <2>1, <2>3, AdapterNext, HaltFlushNext
  <2>4. ASSUME NEW i \in Irps, Read(i) \/ Cancel(i) \/ ReadStep(i)
        PROVE  IInv'
    BY <2>1, <2>4, ReadNext, CancelNext, ReadNowNext, ReadServedNext, ReadPendNext, CancelIRPNext
       DEF ReadStep
  <2>5. ASSUME NEW t \in Threads, TxTest(t) \/ TxStep(t)
        PROVE  IInv'
    BY <2>1, <2>5, TxTestNext, TxPushNext, TxMatchNext, TxServeNext DEF TxStep
  <2> QED BY <1>2, <2>2, <2>3, <2>4, <2>5 DEF Next
<1> QED BY <1>1, <1>2

\* The types, and where each packet and each read is, in every behaviour.
THEOREM Invariance == Spec => []IInv
BY Initially, Inductive, PTL DEF Spec

\* A read of the process is completed once and with a packet it may get, does not wait beside a
\* packet, and is not held by an adapter that halted (tapdrvr.c), for any number of reads and
\* processors and any sizes of the queues.
THEOREM TapStaysExact == Spec => []TapExact
<1>1. IInv => TapExact
  <2>1. ASSUME Matched PROVE NoneWaits
    BY <2>1 DEF Matched, NoneWaits, Busy
  <2> QED BY <2>1 DEF IInv, TapExact
<1> QED BY <1>1, Invariance, PTL

\* A read is in the queue once, so that QueueExtract (mem.c) takes out one.
THEOREM ReadsQueuedOnce == Spec => [](fault = "none" => QueuedOnce)
<1>1. IInv => (fault = "none" => QueuedOnce)
  BY DEF IInv, ReadsKept
<1> QED BY <1>1, Invariance, PTL

-----------------------------------------------------------------------------
(* The filter.  An adapter is at one point of its life, and the handle by   *)
(* which NDIS knows it is given back only when no packet is under way.      *)

Adapters == [at : {"none", "done", "tested", "opening", "bound", "listed", "closing", "freed"},
             handle : BOOLEAN]

NetTypes ==
    /\ protocol \in {"registered", "closing", "none"}
    /\ adapter \in [Daemons -> Adapters]
    /\ packet \in [Packets -> [at : {"free", "transfer", "send"}, adapter : SUBSET Daemons]]
    /\ message \in [Messages -> {"none", "work", "queue", "leaked"}]
    /\ monitor \in BOOLEAN

\* An adapter is known to NDIS from its opening to its closing, unless NDIS took it away.
HandlesKept ==
    \A d \in Daemons :
        /\ adapter[d].handle => adapter[d].at \in {"bound", "listed", "closing"}
        /\ adapter[d].at \in {"bound", "listed"} => adapter[d].handle \/ removed

PacketsKept ==
    \A p \in Packets : /\ packet[p].at = "transfer" => packet[p].adapter # {}
                       /\ \A d \in packet[p].adapter : adapter[d].handle

InUse(d) == adapter[d].at \in {"tested", "opening", "bound", "listed", "closing"}

OneInUse == ~overlapped => \A d, e \in Daemons : InUse(d) /\ InUse(e) => d = e

\* Adapters close only after the protocol began to, and none is bound from then on.
ProtocolKept ==
    /\ protocol = "registered" => \A d \in Daemons : adapter[d].at # "closing"
    /\ protocol = "closing" =>
          \A d \in Daemons : adapter[d].at \notin {"tested", "opening", "bound"}

\* When the monitor is gone no adapter is there, and messages only if it went too early.
MonitorKept ==
    ~monitor /\ protocol # "none" =>
        /\ protocol = "closing"
        /\ \A d \in Daemons : ~adapter[d].handle /\ adapter[d].at # "listed"
        /\ ~over => \A m \in Messages : message[m] # "work"

NetInv ==
    /\ NetTypes /\ HandlesKept /\ PacketsKept /\ OneInUse /\ ProtocolKept /\ MonitorKept
    /\ crashed => over \/ removed \/ protocol = "none"

LEMMA NetInit == Net!Init => NetInv
<1> SUFFICES ASSUME Net!Init PROVE NetInv
  OBVIOUS
<1>1. NetTypes
  BY DEF Net!Init, Net!NoPacket, NetTypes, Adapters
<1> QED BY <1>1 DEF Net!Init, Net!NoPacket, NetInv, HandlesKept, PacketsKept, OneInUse, InUse,
   ProtocolKept, MonitorKept

\* A daemon that binds: its adapter goes on, and that of no other changes.
BindsOn(d) ==
    /\ UNCHANGED <<protocol, removed, packet, message, monitor, crashed, over>>
    /\ adapter' \in [Daemons -> Adapters]
    /\ \A e \in Daemons \ {d} : adapter'[e] = adapter[e]
    /\ overlapped => overlapped'
    /\ \/ /\ adapter[d].at = "none" /\ monitor /\ protocol = "registered"
          /\ adapter'[d].handle = adapter[d].handle
          /\ \/ adapter'[d].at = "done"
             \/ /\ adapter'[d].at = "tested"
                /\ \A e \in Daemons : adapter[e].at # "listed"
                /\ ~overlapped' =>
                      \A e \in Daemons : adapter[e].at \notin {"tested", "opening", "bound"}
       \/ /\ adapter[d].at \in {"tested", "opening"}
          /\ adapter'[d].at \in {"bound", "opening", "done"}
          /\ adapter'[d].handle <=> adapter'[d].at = "bound"
       \/ /\ adapter[d].at = "bound" /\ adapter'[d].at = "listed"
          /\ adapter'[d].handle = adapter[d].handle

LEMMA BindStep ==
    ASSUME NetInv, ~crashed, NEW d \in Daemons,
           \/ Net!BindTest(d) \/ Net!BindList(d)
           \/ \E result \in {"bound", "opening", "done"} : Net!BindOpen(d, result)
           \/ \E ok \in BOOLEAN : Net!OpenComplete(d, ok)
    PROVE  BindsOn(d)
<1>1. adapter \in [Daemons -> Adapters]
  BY DEF NetInv, NetTypes
<1>2. CASE Net!BindTest(d)
  <2>1. adapter' = [adapter EXCEPT ![d].at = IF Net!Listed # {} THEN "done" ELSE "tested"]
    BY <1>2 DEF Net!BindTest
  <2>2. /\ adapter' \in [Daemons -> Adapters]
        /\ \A e \in Daemons \ {d} : adapter'[e] = adapter[e]
        /\ adapter'[d].handle = adapter[d].handle
        /\ adapter'[d].at = IF Net!Listed # {} THEN "done" ELSE "tested"
    BY <1>1, <2>1 DEF Adapters
  <2> QED BY <1>2, <2>2 DEF BindsOn, Net!BindTest, Net!Listed, Net!Binding
<1>3. CASE Net!BindList(d)
  BY <1>1, <1>3 DEF BindsOn, Adapters, Net!BindList
<1>4. ASSUME NEW result \in {"bound", "opening", "done"}, Net!BindOpen(d, result)
      PROVE  BindsOn(d)
  BY <1>1, <1>4 DEF BindsOn, Adapters, Net!BindOpen
<1>5. ASSUME NEW ok \in BOOLEAN, Net!OpenComplete(d, ok) PROVE BindsOn(d)
  BY <1>1, <1>5 DEF BindsOn, Adapters, Net!OpenComplete
<1> QED BY <1>2, <1>3, <1>4, <1>5

LEMMA Binds ==
    ASSUME NetInv, ~crashed, NEW d \in Daemons, BindsOn(d)
    PROVE  NetInv'
<1> USE DEF BindsOn, Adapters
<1>1. NetTypes'
  BY DEF NetInv, NetTypes
<1>2. HandlesKept' /\ PacketsKept'
  BY DEF NetInv, HandlesKept, PacketsKept, NetTypes
<1>3. OneInUse'
  BY DEF NetInv, OneInUse, InUse, ProtocolKept, NetTypes
<1>4. ProtocolKept'
  BY DEF NetInv, ProtocolKept, NetTypes
<1>5. MonitorKept'
  BY DEF NetInv, MonitorKept, NetTypes, ProtocolKept, HandlesKept
<1> QED BY <1>1, <1>2, <1>3, <1>4, <1>5 DEF NetInv

\* Packets and messages come and go while the adapters stay.
LEMMA Transfers ==
    ASSUME NetInv, ~crashed,
           \/ \E d \in Daemons : Net!Arrives(d) \/ \E p \in Packets : Net!Inject(d, p)
           \/ \E p \in Packets : Net!Completes(p)
    PROVE  NetInv'
<1>1. /\ UNCHANGED <<protocol, adapter, overlapped, removed, monitor, crashed, over>>
      /\ packet' \in [Packets -> [at : {"free", "transfer", "send"}, adapter : SUBSET Daemons]]
      /\ message' \in [Messages -> {"none", "work", "queue", "leaked"}]
  BY DEF NetInv, NetTypes, Adapters, Net!Arrives, Net!Inject, Net!Completes, Net!Receive, Net!ReceivePart,
     Net!SendComplete, Net!TransferComplete, Net!TransferMessage, Net!NoPacket, Net!adapterVars
<1>2. \/ message' = message
      \/ \E d \in Daemons : adapter[d].handle
  BY DEF NetInv, NetTypes, PacketsKept, Net!Arrives, Net!Inject, Net!Completes, Net!Receive,
     Net!ReceivePart, Net!SendComplete, Net!TransferComplete, Net!TransferMessage, Net!Open
<1>3. PacketsKept'
  BY <1>1 DEF NetInv, NetTypes, PacketsKept, Net!Arrives, Net!Inject, Net!Completes,
     Net!Receive, Net!ReceivePart, Net!SendComplete, Net!TransferComplete, Net!NoPacket, Net!Open
<1>4. NetTypes' /\ HandlesKept' /\ OneInUse' /\ ProtocolKept'
  BY <1>1 DEF NetInv, NetTypes, HandlesKept, OneInUse, InUse, ProtocolKept
<1>5. MonitorKept'
  BY <1>1, <1>2 DEF NetInv, MonitorKept
<1> QED BY <1>1, <1>3, <1>4, <1>5 DEF NetInv

\* A work item that runs, and the guest that takes a message.
LEMMA Delivers ==
    ASSUME NetInv, ~crashed, NEW m \in Messages,
           Net!GuestReads(m) \/ \E ok \in BOOLEAN : Net!Work(m, ok)
    PROVE  NetInv'
<1>1. /\ UNCHANGED <<protocol, adapter, overlapped, removed, packet, monitor, over>>
      /\ \E a \in {"queue", "none"} : message' = [message EXCEPT ![m] = a]
      /\ crashed' => ~monitor /\ message[m] = "work"
  <2>1. CASE Net!GuestReads(m)
    BY <2>1 DEF Net!GuestReads, Net!adapterVars
  <2>2. ASSUME NEW ok \in BOOLEAN, Net!Work(m, ok)
        PROVE  /\ \E a \in {"queue", "none"} : message' = [message EXCEPT ![m] = a]
               /\ crashed' => ~monitor /\ message[m] = "work"
               /\ UNCHANGED <<protocol, adapter, overlapped, removed, packet, monitor, over>>
    BY <2>2 DEF Net!Work, Net!adapterVars
  <2> QED BY <2>1, <2>2
<1>2. NetTypes' /\ HandlesKept' /\ PacketsKept' /\ OneInUse' /\ ProtocolKept'
  BY <1>1 DEF NetInv, NetTypes, HandlesKept, PacketsKept, OneInUse, InUse, ProtocolKept
<1>3. MonitorKept'
  BY <1>1 DEF NetInv, NetTypes, MonitorKept
<1>4. crashed' => over' \/ removed' \/ protocol' = "none"
  BY <1>1 DEF NetInv, MonitorKept
<1> QED BY <1>2, <1>3, <1>4 DEF NetInv

\* An adapter that goes, and the protocol.
LEMMA Closes ==
    ASSUME NetInv, ~crashed,
           \/ \E d \in Daemons : Net!Unbind(d) \/ Net!Close(d) \/ Net!CloseComplete(d)
           \/ Net!Unregister
    PROVE  NetInv'
<1>1. CASE Net!Unregister
  <2>1. /\ UNCHANGED <<adapter, overlapped, removed, packet, message, monitor, crashed, over>>
        /\ protocol = "registered" /\ protocol' = "closing"
        /\ \A d \in Daemons : adapter[d].at \notin {"tested", "opening", "bound"}
    BY <1>1 DEF Net!Unregister, Net!Binding
  <2> QED BY <2>1 DEF NetInv, NetTypes, HandlesKept, PacketsKept, OneInUse, InUse, ProtocolKept,
     MonitorKept
<1>2. ASSUME NEW d \in Daemons, Net!Unbind(d) \/ Net!Close(d) \/ Net!CloseComplete(d)
      PROVE  NetInv'
  <2>1. /\ UNCHANGED <<protocol, overlapped, packet, message, monitor, over>>
        /\ adapter' \in [Daemons -> Adapters]
        /\ \A e \in Daemons \ {d} : adapter'[e] = adapter[e]
        /\ removed => removed'
        /\ \/ /\ adapter[d].at = "listed" /\ adapter'[d].at = "listed" /\ ~adapter'[d].handle
              /\ \A p \in Packets : d \notin packet[p].adapter
              /\ removed' /\ ~crashed'
           \/ /\ adapter[d].at = "listed" /\ adapter'[d].at = "closing" /\ protocol = "closing"
              /\ adapter'[d].handle = adapter[d].handle
              /\ crashed' => ~adapter[d].handle
           \/ /\ adapter[d].at = "closing" /\ adapter'[d].at = "freed" /\ ~adapter'[d].handle
              /\ \A p \in Packets : d \notin packet[p].adapter
              /\ ~crashed'
    <3> USE DEF NetInv, NetTypes, Adapters, Net!Listed, Net!Outstanding, Net!Open
    <3>1. CASE Net!Unbind(d)
      BY <3>1 DEF Net!Unbind
    <3>2. CASE Net!Close(d)
      BY <3>2 DEF Net!Close
    <3>3. CASE Net!CloseComplete(d)
      BY <3>3 DEF Net!CloseComplete
    <3> QED BY <1>2, <3>1, <3>2, <3>3
  <2>2. NetTypes'
    BY <2>1 DEF NetInv, NetTypes
  <2>3. HandlesKept' /\ PacketsKept'
    BY <2>1 DEF NetInv, NetTypes, HandlesKept, PacketsKept
  <2>4. OneInUse' /\ ProtocolKept'
    BY <2>1 DEF NetInv, NetTypes, OneInUse, InUse, ProtocolKept
  <2>5. MonitorKept'
    BY <2>1 DEF NetInv, NetTypes, MonitorKept
  <2>6. crashed' => over' \/ removed' \/ protocol' = "none"
    BY <2>1 DEF NetInv, HandlesKept
  <2> QED BY <2>2, <2>3, <2>4, <2>5, <2>6 DEF NetInv
<1> QED BY <1>1, <1>2

LEMMA Destroys ==
    ASSUME NetInv, ~crashed, Net!Destroy
    PROVE  NetInv'
<1>1. /\ UNCHANGED <<protocol, adapter, overlapped, removed, packet>> /\ monitor /\ monitor' = FALSE
      /\ protocol # "none" => /\ \A d \in Daemons : ~adapter[d].handle /\ adapter[d].at # "listed"
                              /\ protocol = "closing" /\ ~crashed'
      /\ over' = \E m \in Messages : message[m] = "work"
      /\ message' = [m \in Messages |-> IF message[m] = "queue" THEN "none" ELSE message[m]]
  BY DEF Net!Destroy, Net!adapterVars, Net!Open, Net!Listed, NetInv, NetTypes
<1>2. NetTypes' /\ HandlesKept' /\ PacketsKept' /\ OneInUse' /\ ProtocolKept'
  BY <1>1 DEF NetInv, NetTypes, HandlesKept, PacketsKept, OneInUse, InUse, ProtocolKept
<1>3. MonitorKept'
  BY <1>1 DEF NetInv, NetTypes, MonitorKept
<1>4. crashed' => over' \/ removed' \/ protocol' = "none"
  BY <1>1 DEF NetInv, MonitorKept
<1> QED BY <1>2, <1>3, <1>4 DEF NetInv

LEMMA NetNext == NetInv /\ [Net!Next]_conetVars => NetInv'
<1> SUFFICES ASSUME NetInv, [Net!Next]_conetVars PROVE NetInv'
  OBVIOUS
<1>1. CASE UNCHANGED conetVars
  BY <1>1 DEF conetVars, NetInv, NetTypes, HandlesKept, PacketsKept, OneInUse, InUse,
     ProtocolKept, MonitorKept
<1>2. CASE Net!Next
  <2>1. ~crashed
    BY <1>2 DEF Net!Next
  <2>2. ASSUME NEW d \in Daemons,
               \/ Net!BindTest(d) \/ Net!BindList(d)
               \/ \E result \in {"bound", "opening", "done"} : Net!BindOpen(d, result)
               \/ \E ok \in BOOLEAN : Net!OpenComplete(d, ok)
        PROVE  NetInv'
    BY <2>1, <2>2, BindStep, Binds
  <2> QED BY <1>2, <2>1, <2>2, Transfers, Delivers, Closes, Destroys DEF Net!Next
<1> QED BY <1>1, <1>2

LEMMA OneKept == NetInv => Net!OneAdapter
<1> SUFFICES ASSUME NetInv, ~overlapped,
                    Net!Cardinality({d \in Daemons : Net!Open(d)}) > 1
             PROVE  FALSE
  BY DEF Net!OneAdapter
<1> DEFINE Known == {d \in Daemons : Net!Open(d)}
<1>1. \A d, e \in Known : d = e
  BY DEF NetInv, OneInUse, InUse, HandlesKept, Net!Open
<1>2. Net!Cardinality(Known) = Cardinality(Known)
  BY DEF Net!Cardinality, Cardinality, Net!IsFiniteSet, IsFiniteSet
<1>3. Known = {} \/ \E d : Known = {d}
  BY <1>1
<1>4. Cardinality(Known) \in {0, 1}
  BY <1>3, FS_EmptySet, FS_Singleton
<1> QED BY <1>2, <1>4

\* Of the filter between NDIS and a VM, for any number of daemons, packets and messages: a
\* packet keeps its adapter, the unit has one adapter unless two daemons bound it at once,
\* and nothing is used that is gone outside of the named races (conet.c).
THEOREM ConetStaysExact == Net!Spec => []ConetExact
<1>1. NetInv => ConetExact
  <2> SUFFICES ASSUME NetInv PROVE Net!PacketsLive /\ Net!OneAdapter /\ Net!NothingStale
    BY DEF ConetExact, Net!ConetExact
  <2> QED BY OneKept DEF NetInv, PacketsKept, Net!PacketsLive, Net!NothingStale, Net!Open
<1>2. NetInv /\ [Net!Next]_(Net!vars) => NetInv'
  BY NetNext DEF Net!vars, Net!adapterVars, conetVars
<1> QED BY <1>1, <1>2, NetInit, PTL DEF Net!Spec
=============================================================================
