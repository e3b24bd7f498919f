----------------------------- MODULE PipesProofs ----------------------------
(***************************************************************************)
(* Proofs about module Pipes, for any finite set of senders, any limit and *)
(* any number of messages.  Windows: every request of the reader is        *)
(* accounted for, and the driver implements MessagePipe until it stops the *)
(* host.  Linux: the queue is bounded, a reader is never left asleep by    *)
(* the end, and the driver implements the same MessagePipe.                *)
(***************************************************************************)
EXTENDS Pipes, FiniteSetTheorems, SequenceTheorems, TLAPS

USE DEF Goto, Releases, Sees, Hands, Breaks, Drop, Complete, NoRequest, descVars, reqVars,
        sendVars, readVars, SenderPCs, EofPCs, ReaderPCs

\* Senders that hold a reference of their own to the descriptor.
Busy == {s \in Senders : spc[s] \notin {"idle", "ended"} \cup EofPCs}

\* A sender inside co_manager_send has a message, only the thread of the VM makes the end, a
\* thread that is to take a request saw one, and none queues a message beside a request.
Positions ==
    /\ \A s \in Busy : sends[s] # 0
    /\ \A s \in Senders : spc[s] \in EofPCs \cup {"ended"} => s = vm
    /\ \A s \in Senders : spc[s] \in {"take", "eof_take", "eof_complete"} => seen[s] # 0
    /\ \A s \in Senders : spc[s] \in {"take", "eof_take"} => preempt
    /\ \A s \in Senders : spc[s] = "queue" => irp = NoRequest

\* The descriptor is active only in a slot and with a handle, which the end takes away.
Lifetime ==
    /\ active => handle /\ connected
    /\ connected => spc[vm] \notin EofPCs \cup {"ended"}

\* A reader that waits found no message; its request is pending, unless the end took it.
Waiting ==
    /\ rpc = "wait" \/ irp # NoRequest => out_queue = <<>>
    /\ rpc = "wait" /\ irp = NoRequest => ~active
    /\ rpc \in {"issue", "entered", "cancelled"} => irp = NoRequest

\* While the host runs, a request that is pending is not completed, and one nobody saw is
\* that of a reader that has just entered.
Pending ==
    ~crashed =>
      /\ irp # NoRequest => inflight
      /\ rpc = "entered" => inflight /\ \A s \in Senders : seen[s] # read

\* While the host runs the count is exact, but for a request that the end is to complete
\* although another did.
Exact == ref_count = References

Short ==
    /\ preempt /\ spc[vm] = "eof_complete"
    /\ ref_count = References - 1
    /\ seen[vm] = read => ~inflight

Counted ==
    ~crashed =>
      /\ Exact \/ Short
      /\ spc[vm] = "eof_complete" /\ seen[vm] = read => irp = NoRequest
      /\ inflight /\ irp = NoRequest /\ rpc # "entered" => spc[vm] = "eof_complete" /\ Exact

\* If the test and the taking are not interrupted, the request the end took is the newest,
\* and waits to be completed.
Taken ==
    ~preempt =>
      /\ ~crashed
      /\ spc[vm] = "eof_complete" =>
           /\ inflight /\ irp = NoRequest /\ seen[vm] = read
           /\ rpc \in {"wait", "exit"}

IInv == TypeOK /\ Positions /\ Lifetime /\ Waiting /\ Pending /\ Counted /\ Taken

-----------------------------------------------------------------------------
(* Lemmas.                                                                 *)

\* The messages that fit and the rest are sequences of messages.
LEMMA Split ==
    ASSUME NEW S, NEW q \in Seq(S), NEW k \in 1..Len(q)
    PROVE  SubSeq(q, 1, k) \in Seq(S) /\ SubSeq(q, k + 1, Len(q)) \in Seq(S)
<1>1. Len(q) \in Nat /\ \A i \in 1..Len(q) : q[i] \in S
  BY LenProperties, ElementOfSeq
<1>2. \A i \in 1..k : q[i] \in S
  BY <1>1
<1>3. SubSeq(q, 1, k) \in Seq(S)
  BY <1>1, <1>2, SubSeqProperties, SMT
<1>4. SubSeq(q, k + 1, Len(q)) \in Seq(S)
  BY <1>1, SubSeqProperties, SMT
<1> QED BY <1>3, <1>4

\* The busy senders are finitely many, and each is one.
LEMMA BusyFinite ==
    /\ IsFiniteSet(Busy)
    /\ Cardinality(Busy) \in Nat
    /\ \A s \in Busy : Cardinality(Busy) >= 1
<1>1. IsFiniteSet(Busy)
  BY WinPipeAssumption, FS_Subset DEF Busy
<1>2. Cardinality(Busy) \in Nat
  BY <1>1, FS_CardinalityType
<1>3. \A s \in Busy : Cardinality(Busy) # 0
  BY <1>1, FS_EmptySet
<1> QED BY <1>1, <1>2, <1>3

\* The references, with n busy senders.
Refs(n) ==
    (IF handle THEN 1 ELSE 0)
    + (IF connected \/ spc[vm] \in EofPCs THEN 1 ELSE 0)
    + (IF irp = NoRequest THEN 0 ELSE 1)
    + (IF spc[vm] = "eof_complete" THEN 1 ELSE 0)
    + (IF rpc = "cancelled" THEN 1 ELSE 0)
    + n

LEMMA ReferencesValue == References = Refs(Cardinality(Busy)) /\ References \in Nat
<1>1. Cardinality(Busy) \in Nat
  BY BusyFinite
<1> QED BY <1>1 DEF References, Busy, Refs

\* A step of a sender that stays busy, or stays outside, keeps the busy senders.
LEMMA SameBusy ==
    ASSUME TypeOK, NEW s \in Senders, NEW p \in SenderPCs, spc' = [spc EXCEPT ![s] = p],
           spc[s] \in {"idle", "ended"} \cup EofPCs <=> p \in {"idle", "ended"} \cup EofPCs
    PROVE  Busy' = Busy
BY DEF Busy, TypeOK

LEMMA OneMoreBusy ==
    ASSUME TypeOK, NEW s \in Senders, spc[s] = "idle", spc' = [spc EXCEPT ![s] = "found"]
    PROVE  Cardinality(Busy') = Cardinality(Busy) + 1
<1>1. Busy' = Busy \cup {s} /\ s \notin Busy
  BY DEF Busy, TypeOK
<1> QED BY <1>1, BusyFinite, FS_AddElement

LEMMA OneLessBusy ==
    ASSUME TypeOK, NEW s \in Senders, spc[s] = "close", spc' = [spc EXCEPT ![s] = "idle"]
    PROVE  Cardinality(Busy') = Cardinality(Busy) - 1
<1>1. Busy' = Busy \ {s} /\ s \in Busy
  BY DEF Busy, TypeOK
<1> QED BY <1>1, BusyFinite, FS_RemoveElement

\* A busy sender that goes on without a request or a reference leaves the count as it is.
LEMMA QuietSend ==
    ASSUME TypeOK, NEW s \in Busy, NEW p \in SenderPCs \ ({"idle", "ended"} \cup EofPCs),
           spc' = [spc EXCEPT ![s] = p],
           seen' = seen \/ seen' = [seen EXCEPT ![s] = irp],
           UNCHANGED <<ref_count, handle, connected, irp, rpc, inflight, read, preempt, crashed>>,
           Counted
    PROVE  Counted'
<1>1. Cardinality(Busy') = Cardinality(Busy)
  BY SameBusy DEF Busy
<1>2. /\ spc'[vm] = "eof_complete" <=> spc[vm] = "eof_complete"
      /\ spc'[vm] \in EofPCs <=> spc[vm] \in EofPCs
      /\ spc[vm] = "eof_complete" => seen'[vm] = seen[vm]
  BY WinPipeAssumption DEF TypeOK, Busy
<1>3. References = Refs(Cardinality(Busy)) /\ References' = Refs(Cardinality(Busy))'
  BY DEF References, Refs, Busy
<1>4. References' = References
  BY <1>1, <1>2, <1>3 DEF Refs
<1> QED BY <1>2, <1>4 DEF Counted, Exact, Short

\* While the host runs, whoever is to drop a reference has one.
LEMMA Enough ==
    ASSUME IInv, ~crashed
    PROVE  /\ ref_count \in Nat
           /\ \A s \in Busy : ref_count >= 1
           /\ handle => ref_count >= 1
           /\ handle /\ connected => ref_count >= 2
           /\ rpc = "cancelled" => ref_count >= 1
           /\ spc[vm] \in EofPCs => ref_count >= 1
           /\ \A s \in Busy : active => ref_count >= 3
           /\ rpc = "cancelled" /\ active => ref_count >= 3
<1>1. References = ref_count \/ (spc[vm] = "eof_complete" /\ References = ref_count + 1)
  BY ReferencesValue DEF IInv, Counted, Exact, Short, TypeOK
<1>2. active => handle /\ connected /\ spc[vm] \notin EofPCs
  BY DEF IInv, Lifetime
<1>3. connected => spc[vm] \notin EofPCs
  BY DEF IInv, Lifetime
<1>4. Cardinality(Busy) \in Nat /\ \A s \in Busy : Cardinality(Busy) >= 1
  BY BusyFinite
<1>5. ref_count \in Nat
  BY DEF IInv, TypeOK
<1> QED BY <1>1, <1>2, <1>3, <1>4, <1>5, ReferencesValue DEF Refs

\* The message of a sender.
LEMMA MessageOfSender ==
    ASSUME IInv, NEW s \in Busy
    PROVE  <<s, sends[s]>> \in Messages
BY WinPipeAssumption DEF IInv, TypeOK, Positions, Messages, Busy

-----------------------------------------------------------------------------
(* Each step keeps the inductive invariant.                                *)

LEMMA TypesNext == IInv /\ [Next]_vars => TypeOK'
<1> SUFFICES ASSUME IInv, [Next]_vars PROVE TypeOK'
  OBVIOUS
<1>a. CASE UNCHANGED vars
  BY <1>a DEF IInv, TypeOK, vars
<1>b. CASE ~UNCHANGED vars
  <2> USE WinPipeAssumption DEF TypeOK
  <2>a. TypeOK /\ ~crashed /\ Positions /\ Waiting
    BY <1>b DEF Next, Stop, IInv
  <2>b. \A n \in {1, 2} : n <= ref_count => (Drop(n) => ref_count' \in Nat /\ out_queue' \in Seq(Messages))
    BY <2>a, EmptySeq
  <2>1. ASSUME NEW s \in Senders, Lookup(s) PROVE TypeOK'
    <3>1. sends' \in [Senders -> 0..MaxSends]
      <4>1. sends[s] + 1 \in 0..MaxSends
        BY <2>1, <2>a DEF Lookup
      <4> QED BY <2>1, <2>a, <4>1 DEF Lookup
    <3>2. spc' = [spc EXCEPT ![s] = "found"] /\ spc[s] = "idle" /\ ref_count' = ref_count + 1
          /\ UNCHANGED <<out_queue, active, lock, connected, reqVars, readVars>>
      BY <2>1 DEF Lookup
    <3>3. /\ spc' \in [Senders -> SenderPCs]
          /\ \A x \in Senders : lock' = x <=> spc'[x] \in {"direct", "take", "queue", "test"}
      BY <2>a, <3>2
    <3> QED BY <2>a, <3>1, <3>2, <3>3
  <2>2. ASSUME NEW s \in Senders, SendLock(s) PROVE TypeOK'
    BY <2>2, <2>a DEF SendLock
  <2>3. ASSUME NEW s \in Senders, NoDirect(s) PROVE TypeOK'
    BY <2>3, <2>a DEF NoDirect
  <2>4. ASSUME NEW s \in Senders, SendSees(s) PROVE TypeOK'
    BY <2>4, <2>a DEF SendSees
  <2>5. ASSUME NEW s \in Senders, SendDirect(s) PROVE TypeOK'
    <3>1. s \in Busy /\ lock = s
      BY <2>5, <2>a DEF SendDirect, Busy
    <3>2. ref_count' \in Nat /\ out_queue' \in Seq(Messages)
      BY <2>5, <2>a, <2>b, <3>1, Enough DEF SendDirect
    <3>3. <<s, sends[s]>> \in Messages
      BY <3>1, MessageOfSender
    <3>4. /\ rpc' \in ReaderPCs
          /\ handle' = handle
          /\ rc' = rc
          /\ got' \in Seq(Messages)
      <4>1. CASE rpc = "wait"
        <5>1. got' = Append(got, <<s, sends[s]>>) /\ rpc' = "issue" /\ UNCHANGED <<handle, rc>>
          BY <4>1, <2>5 DEF SendDirect
        <5>2. got' \in Seq(Messages)
          BY <5>1, <2>a, <3>3, AppendProperties
        <5> QED BY <5>1, <5>2
      <4>2. CASE rpc # "wait"
        BY <4>2, <2>5, <2>a DEF SendDirect
      <4> QED BY <4>1, <4>2
    <3>6. crashed' \in BOOLEAN /\ inflight' = FALSE
      <4>1. CASE Complete(irp)
        BY <4>1
      <4>2. CASE Complete(seen[s])
        BY <4>2
      <4> QED BY <4>1, <4>2, <2>5 DEF SendDirect
    <3>7. irp' = NoRequest /\ read' = read /\ seen' \in [Senders -> 0..read]
      BY <2>5, <2>a DEF SendDirect
    <3>5. /\ spc' = [spc EXCEPT ![s] = "close"]
          /\ lock' = None
          /\ UNCHANGED <<active, connected, preempt, sends>>
      BY <2>5 DEF SendDirect
    <3> QED BY <2>a, <3>1, <3>2, <3>4, <3>5, <3>6, <3>7
  <2>6. ASSUME NEW s \in Senders, Enqueue(s) PROVE TypeOK'
    <3>1. <<s, sends[s]>> \in Messages
      BY <2>6, <2>a, MessageOfSender DEF Enqueue, Busy
    <3>2. out_queue' \in Seq(Messages)
      BY <2>6, <2>a, <3>1 DEF Enqueue
    <3> QED BY <2>6, <2>a, <3>2 DEF Enqueue
  <2>7. ASSUME NEW s \in Senders, EnqueueFails(s) PROVE TypeOK'
    BY <2>7, <2>a DEF EnqueueFails
  <2>8. ASSUME NEW s \in Senders, SendInactive(s) PROVE TypeOK'
    BY <2>8, <2>a DEF SendInactive
  <2>9. ASSUME NEW s \in Senders, SendWaits(s) PROVE TypeOK'
    BY <2>9, <2>a DEF SendWaits
  <2>10. ASSUME NEW s \in Senders, SendAwakes(s) PROVE TypeOK'
    BY <2>10, <2>a DEF SendAwakes
  <2>11. ASSUME NEW s \in Senders, SendReturns(s) PROVE TypeOK'
    BY <2>11, <2>a DEF SendReturns
  <2>12. ASSUME NEW s \in Senders, SendDone(s) PROVE TypeOK'
    <3>1. ref_count' \in Nat /\ out_queue' \in Seq(Messages)
      BY <2>12, <2>a, <2>b, Enough DEF SendDone, Busy
    <3>2. /\ spc' = [spc EXCEPT ![s] = "idle"] /\ spc[s] = "close"
          /\ UNCHANGED <<active, lock, connected, reqVars, sends, readVars>>
      BY <2>12 DEF SendDone
    <3> QED BY <2>a, <3>1, <3>2
  <2>13. CASE Eof
    BY <2>13, <2>a DEF Eof
  <2>14. CASE EofAlone
    BY <2>14, <2>a DEF EofAlone
  <2>15. CASE EofSees
    BY <2>15, <2>a DEF EofSees
  <2>16. CASE EofTakes
    <3>1. seen' \in [Senders -> 0..read]
      <4>1. irp \in 0..read
        BY <2>a
      <4>2. CASE seen' = [seen EXCEPT ![vm] = irp]
        BY <4>1, <4>2, <2>a
      <4>3. CASE UNCHANGED seen
        BY <4>3, <2>a
      <4> QED BY <4>2, <4>3, <2>16 DEF EofTakes
    <3>2. /\ spc' = [spc EXCEPT ![vm] = "eof_complete"] /\ spc[vm] \in {"eof", "eof_take"}
          /\ irp' = NoRequest
          /\ UNCHANGED <<descVars, inflight, read, preempt, crashed, sends, readVars>>
      BY <2>16 DEF EofTakes
    <3> QED BY <2>a, <3>1, <3>2
  <2>17. CASE EofCompletes
    <3>1. ref_count' \in Nat /\ out_queue' \in Seq(Messages)
      BY <2>17, <2>a, <2>b, Enough DEF EofCompletes
    <3>2. /\ rpc' \in ReaderPCs
          /\ rc' \in {"OK", "ERROR", "BROKEN_PIPE"}
          /\ UNCHANGED <<handle, got>>
      BY <2>17, <2>a DEF EofCompletes
    <3>3. /\ crashed' \in BOOLEAN
          /\ inflight' = FALSE
          /\ seen' \in [Senders -> 0..read]
      BY <2>17, <2>a DEF EofCompletes
    <3>4. /\ spc' = [spc EXCEPT ![vm] = "eof_close"] /\ spc[vm] = "eof_complete"
          /\ UNCHANGED <<active, lock, connected, irp, read, preempt, sends>>
      BY <2>17 DEF EofCompletes
    <3> QED BY <2>a, <3>1, <3>2, <3>3, <3>4
  <2>18. CASE EofDone
    <3>1. ref_count' \in Nat /\ out_queue' \in Seq(Messages)
      BY <2>18, <2>a, <2>b, Enough DEF EofDone
    <3>2. /\ spc' = [spc EXCEPT ![vm] = "ended"] /\ spc[vm] = "eof_close"
          /\ UNCHANGED <<active, lock, connected, reqVars, sends, readVars>>
      BY <2>18 DEF EofDone
    <3> QED BY <2>a, <3>1, <3>2
  <2>19. CASE EofSkips
    BY <2>19, <2>a DEF EofSkips
  <2>20. CASE ReadIssue
    <3>1. irp = NoRequest
      BY <2>20, <2>a DEF ReadIssue, Waiting
    <3>2. seen \in [Senders -> 0..(read + 1)]
      BY <2>a
    <3> QED BY <2>20, <2>a, <3>1, <3>2 DEF ReadIssue
  <2>21. CASE ReadFails
    BY <2>21, <2>a DEF ReadFails
  <2>22. CASE ReadPends
    BY <2>22, <2>a DEF ReadPends
  <2>23. ASSUME NEW k \in 1..Len(out_queue), ReadCopy(k) PROVE TypeOK'
    <3>1. SubSeq(out_queue, 1, k) \in Seq(Messages) /\ out_queue' \in Seq(Messages)
      BY <2>23, <2>a, Split DEF ReadCopy
    <3>2. got' \in Seq(Messages)
      BY <2>23, <2>a, <3>1, ConcatProperties DEF ReadCopy
    <3> QED BY <2>23, <2>a, <3>1, <3>2 DEF ReadCopy
  <2>24. CASE Quit
    BY <2>24, <2>a DEF Quit
  <2>25. CASE Cancel
    BY <2>25, <2>a DEF Cancel
  <2>26. CASE CancelDone
    <3>1. ref_count' \in Nat /\ out_queue' \in Seq(Messages)
      BY <2>26, <2>a, <2>b, Enough DEF CancelDone
    <3> QED BY <2>26, <2>a, <3>1 DEF CancelDone
  <2>27. CASE Deactivate
    BY <2>27, <2>a DEF Deactivate
  <2>28. CASE CloseHandle
    <3>1. ref_count' \in Nat /\ out_queue' \in Seq(Messages)
      BY <2>28, <2>a, <2>b, Enough DEF CloseHandle
    <3>2. connected' \in BOOLEAN /\ handle' = FALSE
      BY <2>28, <2>a DEF CloseHandle
    <3>3. UNCHANGED <<active, lock, reqVars, sendVars, rpc, rc, got>>
      BY <2>28 DEF CloseHandle
    <3> QED BY <2>a, <3>1, <3>2, <3>3
  <2> QED
    BY <1>b, <2>1, <2>2, <2>3, <2>4, <2>5, <2>6, <2>7, <2>8, <2>9, <2>10, <2>11, <2>12, <2>13,
       <2>14, <2>15, <2>16, <2>17, <2>18, <2>19, <2>20, <2>21, <2>22, <2>23, <2>24, <2>25,
       <2>26, <2>27, <2>28
    DEF Next, Send, End, Read, Leave, Stop
<1> QED BY <1>a, <1>b

\* Threads stay where a message, a request or the end leads them.
LEMMA PositionsNext == IInv /\ [Next]_vars => Positions'
<1> SUFFICES ASSUME IInv, [Next]_vars PROVE Positions'
  OBVIOUS
<1>a. CASE UNCHANGED vars
  BY <1>a DEF IInv, Positions, Busy, vars
<1>b. CASE ~UNCHANGED vars
  <2> USE WinPipeAssumption DEF TypeOK, Positions, Busy
  <2>a. TypeOK /\ ~crashed /\ Positions /\ Waiting
    BY <1>b DEF Next, Stop, IInv
  <2>1. ASSUME NEW s \in Senders, Lookup(s) PROVE Positions'
    BY <2>1, <2>a DEF Lookup
  <2>2. ASSUME NEW s \in Senders, SendLock(s) PROVE Positions'
    BY <2>2, <2>a DEF SendLock
  <2>3. ASSUME NEW s \in Senders, NoDirect(s) PROVE Positions'
    BY <2>3, <2>a DEF NoDirect
  <2>4. ASSUME NEW s \in Senders, SendSees(s) PROVE Positions'
    BY <2>4, <2>a DEF SendSees
  <2>5. ASSUME NEW s \in Senders, SendDirect(s) PROVE Positions'
    BY <2>5, <2>a DEF SendDirect
  <2>6. ASSUME NEW s \in Senders, Enqueue(s) PROVE Positions'
    BY <2>6, <2>a DEF Enqueue
  <2>7. ASSUME NEW s \in Senders, EnqueueFails(s) PROVE Positions'
    BY <2>7, <2>a DEF EnqueueFails
  <2>8. ASSUME NEW s \in Senders, SendInactive(s) PROVE Positions'
    BY <2>8, <2>a DEF SendInactive
  <2>9. ASSUME NEW s \in Senders, SendWaits(s) PROVE Positions'
    BY <2>9, <2>a DEF SendWaits
  <2>10. ASSUME NEW s \in Senders, SendAwakes(s) PROVE Positions'
    BY <2>10, <2>a DEF SendAwakes
  <2>11. ASSUME NEW s \in Senders, SendReturns(s) PROVE Positions'
    BY <2>11, <2>a DEF SendReturns
  <2>12. ASSUME NEW s \in Senders, SendDone(s) PROVE Positions'
    BY <2>12, <2>a DEF SendDone
  <2>13. CASE Eof
    BY <2>13, <2>a DEF Eof
  <2>14. CASE EofAlone
    BY <2>14, <2>a DEF EofAlone
  <2>15. CASE EofSees
    BY <2>15, <2>a DEF EofSees
  <2>16. CASE EofTakes
    BY <2>16, <2>a DEF EofTakes
  <2>17. CASE EofCompletes
    BY <2>17, <2>a DEF EofCompletes
  <2>18. CASE EofDone
    BY <2>18, <2>a DEF EofDone
  <2>19. CASE EofSkips
    BY <2>19, <2>a DEF EofSkips
  <2>20. CASE ReadIssue
    BY <2>20, <2>a DEF ReadIssue
  <2>21. CASE ReadFails
    BY <2>21, <2>a DEF ReadFails
  <2>22. CASE ReadPends
    BY <2>22, <2>a DEF ReadPends
  <2>23. ASSUME NEW k \in 1..Len(out_queue), ReadCopy(k) PROVE Positions'
    BY <2>23, <2>a DEF ReadCopy
  <2>24. CASE Quit
    BY <2>24, <2>a DEF Quit
  <2>25. CASE Cancel
    BY <2>25, <2>a DEF Cancel
  <2>26. CASE CancelDone
    BY <2>26, <2>a DEF CancelDone
  <2>27. CASE Deactivate
    BY <2>27, <2>a DEF Deactivate
  <2>28. CASE CloseHandle
    BY <2>28, <2>a DEF CloseHandle
  <2> QED
    BY <1>b, <2>1, <2>2, <2>3, <2>4, <2>5, <2>6, <2>7, <2>8, <2>9, <2>10, <2>11, <2>12,
       <2>13, <2>14, <2>15, <2>16, <2>17, <2>18, <2>19, <2>20, <2>21, <2>22, <2>23,
       <2>24, <2>25, <2>26, <2>27, <2>28
    DEF Next, Send, End, Read, Leave, Stop
<1> QED BY <1>a, <1>b

\* The end and the closing of the handle make the descriptor inactive first.
LEMMA LifetimeNext == IInv /\ [Next]_vars => Lifetime'
<1> SUFFICES ASSUME IInv, [Next]_vars PROVE Lifetime'
  OBVIOUS
<1>a. CASE UNCHANGED vars
  BY <1>a DEF IInv, Lifetime, Positions, vars
<1>b. CASE ~UNCHANGED vars
  <2> USE WinPipeAssumption DEF TypeOK, Lifetime, Positions
  <2>a. TypeOK /\ ~crashed /\ Positions /\ Lifetime
    BY <1>b DEF Next, Stop, IInv
  <2>1. ASSUME NEW s \in Senders, Lookup(s) PROVE Lifetime'
    BY <2>1, <2>a DEF Lookup
  <2>2. ASSUME NEW s \in Senders, SendLock(s) PROVE Lifetime'
    BY <2>2, <2>a DEF SendLock
  <2>3. ASSUME NEW s \in Senders, NoDirect(s) PROVE Lifetime'
    BY <2>3, <2>a DEF NoDirect
  <2>4. ASSUME NEW s \in Senders, SendSees(s) PROVE Lifetime'
    BY <2>4, <2>a DEF SendSees
  <2>5. ASSUME NEW s \in Senders, SendDirect(s) PROVE Lifetime'
    BY <2>5, <2>a DEF SendDirect
  <2>6. ASSUME NEW s \in Senders, Enqueue(s) PROVE Lifetime'
    BY <2>6, <2>a DEF Enqueue
  <2>7. ASSUME NEW s \in Senders, EnqueueFails(s) PROVE Lifetime'
    BY <2>7, <2>a DEF EnqueueFails
  <2>8. ASSUME NEW s \in Senders, SendInactive(s) PROVE Lifetime'
    BY <2>8, <2>a DEF SendInactive
  <2>9. ASSUME NEW s \in Senders, SendWaits(s) PROVE Lifetime'
    BY <2>9, <2>a DEF SendWaits
  <2>10. ASSUME NEW s \in Senders, SendAwakes(s) PROVE Lifetime'
    BY <2>10, <2>a DEF SendAwakes
  <2>11. ASSUME NEW s \in Senders, SendReturns(s) PROVE Lifetime'
    BY <2>11, <2>a DEF SendReturns
  <2>12. ASSUME NEW s \in Senders, SendDone(s) PROVE Lifetime'
    BY <2>12, <2>a DEF SendDone
  <2>13. CASE Eof
    BY <2>13, <2>a DEF Eof
  <2>14. CASE EofAlone
    BY <2>14, <2>a DEF EofAlone
  <2>15. CASE EofSees
    BY <2>15, <2>a DEF EofSees
  <2>16. CASE EofTakes
    BY <2>16, <2>a DEF EofTakes
  <2>17. CASE EofCompletes
    BY <2>17, <2>a DEF EofCompletes
  <2>18. CASE EofDone
    BY <2>18, <2>a DEF EofDone
  <2>19. CASE EofSkips
    BY <2>19, <2>a DEF EofSkips
  <2>20. CASE ReadIssue
    BY <2>20, <2>a DEF ReadIssue
  <2>21. CASE ReadFails
    BY <2>21, <2>a DEF ReadFails
  <2>22. CASE ReadPends
    BY <2>22, <2>a DEF ReadPends
  <2>23. ASSUME NEW k \in 1..Len(out_queue), ReadCopy(k) PROVE Lifetime'
    BY <2>23, <2>a DEF ReadCopy
  <2>24. CASE Quit
    BY <2>24, <2>a DEF Quit
  <2>25. CASE Cancel
    BY <2>25, <2>a DEF Cancel
  <2>26. CASE CancelDone
    BY <2>26, <2>a DEF CancelDone
  <2>27. CASE Deactivate
    BY <2>27, <2>a DEF Deactivate
  <2>28. CASE CloseHandle
    BY <2>28, <2>a DEF CloseHandle
  <2> QED
    BY <1>b, <2>1, <2>2, <2>3, <2>4, <2>5, <2>6, <2>7, <2>8, <2>9, <2>10, <2>11, <2>12,
       <2>13, <2>14, <2>15, <2>16, <2>17, <2>18, <2>19, <2>20, <2>21, <2>22, <2>23,
       <2>24, <2>25, <2>26, <2>27, <2>28
    DEF Next, Send, End, Read, Leave, Stop
<1> QED BY <1>a, <1>b

\* A read waits beside an empty queue only.
LEMMA WaitingNext == IInv /\ [Next]_vars => Waiting'
<1> SUFFICES ASSUME IInv, [Next]_vars PROVE Waiting'
  OBVIOUS
<1>a. CASE UNCHANGED vars
  BY <1>a DEF IInv, Lifetime, Positions, Waiting, vars
<1>b. CASE ~UNCHANGED vars
  <2> USE WinPipeAssumption DEF TypeOK, Lifetime, Positions, Waiting
  <2>a. TypeOK /\ ~crashed /\ Positions /\ Lifetime /\ Waiting
    BY <1>b DEF Next, Stop, IInv
  <2>1. ASSUME NEW s \in Senders, Lookup(s) PROVE Waiting'
    BY <2>1, <2>a DEF Lookup
  <2>2. ASSUME NEW s \in Senders, SendLock(s) PROVE Waiting'
    BY <2>2, <2>a DEF SendLock
  <2>3. ASSUME NEW s \in Senders, NoDirect(s) PROVE Waiting'
    BY <2>3, <2>a DEF NoDirect
  <2>4. ASSUME NEW s \in Senders, SendSees(s) PROVE Waiting'
    BY <2>4, <2>a DEF SendSees
  <2>5. ASSUME NEW s \in Senders, SendDirect(s) PROVE Waiting'
    BY <2>5, <2>a DEF SendDirect
  <2>6. ASSUME NEW s \in Senders, Enqueue(s) PROVE Waiting'
    BY <2>6, <2>a DEF Enqueue
  <2>7. ASSUME NEW s \in Senders, EnqueueFails(s) PROVE Waiting'
    BY <2>7, <2>a DEF EnqueueFails
  <2>8. ASSUME NEW s \in Senders, SendInactive(s) PROVE Waiting'
    BY <2>8, <2>a DEF SendInactive
  <2>9. ASSUME NEW s \in Senders, SendWaits(s) PROVE Waiting'
    BY <2>9, <2>a DEF SendWaits
  <2>10. ASSUME NEW s \in Senders, SendAwakes(s) PROVE Waiting'
    BY <2>10, <2>a DEF SendAwakes
  <2>11. ASSUME NEW s \in Senders, SendReturns(s) PROVE Waiting'
    BY <2>11, <2>a DEF SendReturns
  <2>12. ASSUME NEW s \in Senders, SendDone(s) PROVE Waiting'
    BY <2>12, <2>a DEF SendDone
  <2>13. CASE Eof
    BY <2>13, <2>a DEF Eof
  <2>14. CASE EofAlone
    BY <2>14, <2>a DEF EofAlone
  <2>15. CASE EofSees
    BY <2>15, <2>a DEF EofSees
  <2>16. CASE EofTakes
    BY <2>16, <2>a DEF EofTakes
  <2>17. CASE EofCompletes
    BY <2>17, <2>a DEF EofCompletes
  <2>18. CASE EofDone
    BY <2>18, <2>a DEF EofDone
  <2>19. CASE EofSkips
    BY <2>19, <2>a DEF EofSkips
  <2>20. CASE ReadIssue
    BY <2>20, <2>a DEF ReadIssue
  <2>21. CASE ReadFails
    BY <2>21, <2>a DEF ReadFails
  <2>22. CASE ReadPends
    <3>1. read # 0
      <4>1. seen[vm] # read
        BY <2>22, <1>b, <2>a DEF ReadPends, IInv, Pending
      <4> QED BY <4>1, <2>a
    <3> QED BY <2>22, <2>a, <3>1 DEF ReadPends
  <2>23. ASSUME NEW k \in 1..Len(out_queue), ReadCopy(k) PROVE Waiting'
    BY <2>23, <2>a DEF ReadCopy
  <2>24. CASE Quit
    BY <2>24, <2>a DEF Quit
  <2>25. CASE Cancel
    BY <2>25, <2>a DEF Cancel
  <2>26. CASE CancelDone
    BY <2>26, <2>a DEF CancelDone
  <2>27. CASE Deactivate
    BY <2>27, <2>a DEF Deactivate
  <2>28. CASE CloseHandle
    BY <2>28, <2>a DEF CloseHandle
  <2> QED
    BY <1>b, <2>1, <2>2, <2>3, <2>4, <2>5, <2>6, <2>7, <2>8, <2>9, <2>10, <2>11, <2>12,
       <2>13, <2>14, <2>15, <2>16, <2>17, <2>18, <2>19, <2>20, <2>21, <2>22, <2>23,
       <2>24, <2>25, <2>26, <2>27, <2>28
    DEF Next, Send, End, Read, Leave, Stop
<1> QED BY <1>a, <1>b

\* A request waits until it is completed.
LEMMA PendingNext == IInv /\ [Next]_vars => Pending'
<1> SUFFICES ASSUME IInv, [Next]_vars PROVE Pending'
  OBVIOUS
<1>a. CASE UNCHANGED vars
  BY <1>a DEF IInv, Positions, Waiting, Pending, vars
<1>b. CASE ~UNCHANGED vars
  <2> USE WinPipeAssumption DEF TypeOK, Positions, Waiting, Pending
  <2>a. TypeOK /\ ~crashed /\ Positions /\ Lifetime /\ Waiting /\ Pending /\ Counted
    BY <1>b DEF Next, Stop, IInv
  <2>1. ASSUME NEW s \in Senders, Lookup(s) PROVE Pending'
    BY <2>1, <2>a DEF Lookup
  <2>2. ASSUME NEW s \in Senders, SendLock(s) PROVE Pending'
    BY <2>2, <2>a DEF SendLock
  <2>3. ASSUME NEW s \in Senders, NoDirect(s) PROVE Pending'
    BY <2>3, <2>a DEF NoDirect
  <2>4. ASSUME NEW s \in Senders, SendSees(s) PROVE Pending'
    BY <2>4, <2>a DEF SendSees
  <2>5. ASSUME NEW s \in Senders, SendDirect(s) PROVE Pending'
    BY <2>5, <2>a DEF SendDirect
  <2>6. ASSUME NEW s \in Senders, Enqueue(s) PROVE Pending'
    BY <2>6, <2>a DEF Enqueue
  <2>7. ASSUME NEW s \in Senders, EnqueueFails(s) PROVE Pending'
    BY <2>7, <2>a DEF EnqueueFails
  <2>8. ASSUME NEW s \in Senders, SendInactive(s) PROVE Pending'
    BY <2>8, <2>a DEF SendInactive
  <2>9. ASSUME NEW s \in Senders, SendWaits(s) PROVE Pending'
    BY <2>9, <2>a DEF SendWaits
  <2>10. ASSUME NEW s \in Senders, SendAwakes(s) PROVE Pending'
    BY <2>10, <2>a DEF SendAwakes
  <2>11. ASSUME NEW s \in Senders, SendReturns(s) PROVE Pending'
    BY <2>11, <2>a DEF SendReturns
  <2>12. ASSUME NEW s \in Senders, SendDone(s) PROVE Pending'
    BY <2>12, <2>a DEF SendDone
  <2>13. CASE Eof
    BY <2>13, <2>a DEF Eof
  <2>14. CASE EofAlone
    BY <2>14, <2>a DEF EofAlone
  <2>15. CASE EofSees
    BY <2>15, <2>a DEF EofSees
  <2>16. CASE EofTakes
    <3>1. irp' = NoRequest /\ UNCHANGED <<rpc, inflight, read, crashed>>
      BY <2>16 DEF EofTakes
    <3>2. CASE seen' = [seen EXCEPT ![vm] = irp] /\ irp # NoRequest
      BY <3>1, <3>2, <2>a
    <3>3. CASE UNCHANGED seen
      BY <3>1, <3>3, <2>a
    <3> QED BY <3>2, <3>3, <2>16 DEF EofTakes
  <2>17. CASE EofCompletes
    <3>1. /\ irp' = irp /\ (rpc' = "entered" <=> rpc = "entered")
          /\ crashed' = ~(inflight /\ seen[vm] = read)
          /\ spc[vm] = "eof_complete"
      BY <2>17 DEF EofCompletes
    <3>2. ~crashed' => irp = NoRequest /\ rpc # "entered"
      BY <2>a, <3>1 DEF Counted
    <3> QED BY <3>1, <3>2
  <2>18. CASE EofDone
    BY <2>18, <2>a DEF EofDone
  <2>19. CASE EofSkips
    BY <2>19, <2>a DEF EofSkips
  <2>20. CASE ReadIssue
    <3>1. \A s \in Senders : seen[s] # read + 1
      BY <2>a
    <3>2. /\ irp' = irp /\ seen' = seen /\ read' = read + 1 /\ inflight' = TRUE
          /\ rpc = "issue"
      BY <2>20 DEF ReadIssue
    <3> QED BY <2>a, <3>1, <3>2
  <2>21. CASE ReadFails
    BY <2>21, <2>a DEF ReadFails
  <2>22. CASE ReadPends
    BY <2>22, <2>a DEF ReadPends
  <2>23. ASSUME NEW k \in 1..Len(out_queue), ReadCopy(k) PROVE Pending'
    BY <2>23, <2>a DEF ReadCopy
  <2>24. CASE Quit
    BY <2>24, <2>a DEF Quit
  <2>25. CASE Cancel
    BY <2>25, <2>a DEF Cancel
  <2>26. CASE CancelDone
    BY <2>26, <2>a DEF CancelDone
  <2>27. CASE Deactivate
    BY <2>27, <2>a DEF Deactivate
  <2>28. CASE CloseHandle
    BY <2>28, <2>a DEF CloseHandle
  <2> QED
    BY <1>b, <2>1, <2>2, <2>3, <2>4, <2>5, <2>6, <2>7, <2>8, <2>9, <2>10, <2>11, <2>12,
       <2>13, <2>14, <2>15, <2>16, <2>17, <2>18, <2>19, <2>20, <2>21, <2>22, <2>23,
       <2>24, <2>25, <2>26, <2>27, <2>28
    DEF Next, Send, End, Read, Leave, Stop
<1> QED BY <1>a, <1>b

\* The count follows the references.
LEMMA CountedNext == IInv /\ [Next]_vars => Counted'
<1> SUFFICES ASSUME IInv, [Next]_vars PROVE Counted'
  OBVIOUS
<1>a. CASE UNCHANGED vars
  BY <1>a DEF IInv, Counted, Exact, Short, References, vars
<1>b. CASE ~UNCHANGED vars
  <2> USE WinPipeAssumption DEF TypeOK, Counted, Exact, Short, Refs
  <2>a. TypeOK /\ ~crashed /\ Positions /\ Lifetime /\ Waiting /\ Pending /\ Counted
    BY <1>b DEF Next, Stop, IInv
  <2>b. References = Refs(Cardinality(Busy)) /\ Cardinality(Busy) \in Nat
    BY ReferencesValue, BusyFinite DEF Refs
  <2>c. References' = Refs(Cardinality(Busy))'
    BY DEF References, Refs, Busy
  <2>d. References \in Nat
    BY ReferencesValue
  <2>1. ASSUME NEW s \in Senders, Lookup(s) PROVE Counted'
    <3>1. Cardinality(Busy') = Cardinality(Busy) + 1
      BY <2>1, <2>a, OneMoreBusy DEF Lookup
    <3>2. /\ spc'[vm] = "eof_complete" <=> spc[vm] = "eof_complete"
          /\ spc'[vm] \in EofPCs <=> spc[vm] \in EofPCs
          /\ ref_count' = ref_count + 1
          /\ UNCHANGED <<handle, connected, reqVars, rpc>>
      BY <2>1, <2>a DEF Lookup
    <3>3. References' = References + 1
      BY <2>b, <2>c, <3>1, <3>2
    <3>4. (Exact => Exact') /\ (Short => Short')
      BY <2>a, <2>d, <3>2, <3>3
    <3> QED BY <2>a, <3>2, <3>4
  <2>2. ASSUME NEW s \in Senders, SendLock(s) PROVE Counted'
    BY <2>2, <2>a, QuietSend DEF SendLock, Busy
  <2>3. ASSUME NEW s \in Senders, NoDirect(s) PROVE Counted'
    BY <2>3, <2>a, QuietSend DEF NoDirect, Busy
  <2>4. ASSUME NEW s \in Senders, SendSees(s) PROVE Counted'
    BY <2>4, <2>a, QuietSend DEF SendSees, Busy
  <2>5. ASSUME NEW s \in Senders, SendDirect(s) PROVE Counted'
    <3>1. s \in Busy /\ Cardinality(Busy') = Cardinality(Busy)
      BY <2>5, <2>a, SameBusy DEF SendDirect, Busy
    <3>2. spc'[vm] = "eof_complete" <=> spc[vm] = "eof_complete"
      BY <2>5, <2>a, <3>1 DEF SendDirect, Busy
    <3>3. spc'[vm] \in EofPCs <=> spc[vm] \in EofPCs
      BY <2>5, <2>a, <3>1 DEF SendDirect, Busy
    <3>4. /\ irp' = NoRequest /\ inflight' = FALSE /\ ref_count' = ref_count - 1
          /\ rpc' = "cancelled" <=> rpc = "cancelled"
          /\ UNCHANGED <<handle, connected, read, preempt>>
      BY <2>5, <2>a DEF SendDirect
    <3>5. ASSUME irp # NoRequest PROVE Counted'
      <4>1. References' = References - 1
        BY <2>b, <2>c, <3>1, <3>2, <3>3, <3>4, <3>5
      <4> QED BY <2>a, <2>b, <3>2, <3>4, <4>1
    <3>6. ASSUME irp = NoRequest, ~crashed' PROVE Counted'
      <4>1. spc[s] = "take" /\ inflight /\ seen[s] = read
        BY <2>5, <3>6 DEF SendDirect
      <4>2. preempt /\ spc[vm] = "eof_complete" /\ Exact
        BY <2>a, <3>6, <4>1 DEF Pending, Positions
      <4> QED BY <2>a, <2>b, <2>c, <3>1, <3>2, <3>3, <3>4, <3>6, <4>2
    <3> QED BY <3>5, <3>6
  <2>6. ASSUME NEW s \in Senders, Enqueue(s) PROVE Counted'
    BY <2>6, <2>a, QuietSend DEF Enqueue, Busy
  <2>7. ASSUME NEW s \in Senders, EnqueueFails(s) PROVE Counted'
    BY <2>7, <2>a, QuietSend DEF EnqueueFails, Busy
  <2>8. ASSUME NEW s \in Senders, SendInactive(s) PROVE Counted'
    BY <2>8, <2>a, QuietSend DEF SendInactive, Busy
  <2>9. ASSUME NEW s \in Senders, SendWaits(s) PROVE Counted'
    BY <2>9, <2>a, QuietSend DEF SendWaits, Busy
  <2>10. ASSUME NEW s \in Senders, SendAwakes(s) PROVE Counted'
    BY <2>10, <2>a, QuietSend DEF SendAwakes, Busy
  <2>11. ASSUME NEW s \in Senders, SendReturns(s) PROVE Counted'
    BY <2>11, <2>a, QuietSend DEF SendReturns, Busy
  <2>12. ASSUME NEW s \in Senders, SendDone(s) PROVE Counted'
    <3>1. Cardinality(Busy') = Cardinality(Busy) - 1
      BY <2>12, <2>a, OneLessBusy DEF SendDone
    <3>2. /\ spc'[vm] = "eof_complete" <=> spc[vm] = "eof_complete"
          /\ spc'[vm] \in EofPCs <=> spc[vm] \in EofPCs
          /\ ref_count' = ref_count - 1
          /\ UNCHANGED <<handle, connected, reqVars, rpc>>
      BY <2>12, <2>a DEF SendDone
    <3>3. References' = References - 1
      BY <2>b, <2>c, <3>1, <3>2
    <3> QED BY <2>a, <2>b, <3>2, <3>3
  <2>13. CASE Eof
    <3>1. Cardinality(Busy') = Cardinality(Busy)
      BY <2>13, <2>a, SameBusy DEF Eof
    <3> QED BY <2>13, <2>a, <2>b, <2>c, <3>1 DEF Eof
  <2>14. CASE EofAlone
    <3>1. Cardinality(Busy') = Cardinality(Busy)
      BY <2>14, <2>a, SameBusy DEF EofAlone
    <3> QED BY <2>14, <2>a, <2>b, <2>c, <3>1 DEF EofAlone
  <2>15. CASE EofSees
    <3>1. Cardinality(Busy') = Cardinality(Busy)
      BY <2>15, <2>a, SameBusy DEF EofSees
    <3> QED BY <2>15, <2>a, <2>b, <2>c, <3>1 DEF EofSees
  <2>16. CASE EofTakes
    <3>1. Cardinality(Busy') = Cardinality(Busy)
      BY <2>16, <2>a, SameBusy DEF EofTakes
    <3>2. /\ spc[vm] \in {"eof", "eof_take"} /\ spc'[vm] = "eof_complete"
          /\ spc[vm] = "eof" => irp # NoRequest
          /\ spc[vm] = "eof_take" => preempt /\ seen' = seen
          /\ irp' = NoRequest
          /\ UNCHANGED <<handle, connected, ref_count, rpc, inflight, read, preempt, crashed>>
      BY <2>16, <2>a DEF EofTakes, Positions
    <3>3. ref_count = References /\ (irp = NoRequest /\ rpc # "entered" => ~inflight)
      BY <2>a, <3>2
    <3>4. References' = IF irp = NoRequest THEN References + 1 ELSE References
      BY <2>b, <2>c, <3>1, <3>2
    <3>5. CASE irp # NoRequest
      BY <3>2, <3>3, <3>4, <3>5
    <3>6. CASE irp = NoRequest
      <4>1. rpc = "entered" => seen'[vm] # read
        BY <2>a, <3>2, <3>6 DEF Pending
      <4>2. ref_count' = References' - 1
        BY <2>b, <3>2, <3>3, <3>4, <3>6
      <4> QED BY <2>a, <3>2, <3>3, <3>6, <4>1, <4>2
    <3> QED BY <3>5, <3>6
  <2>17. CASE EofCompletes
    <3>1. Cardinality(Busy') = Cardinality(Busy)
      BY <2>17, <2>a, SameBusy DEF EofCompletes
    <3> QED BY SMTT(30), <2>17, <2>a, <2>b, <2>c, <3>1 DEF EofCompletes
  <2>18. CASE EofDone
    <3>1. Cardinality(Busy') = Cardinality(Busy)
      BY <2>18, <2>a, SameBusy DEF EofDone
    <3>2. /\ spc[vm] = "eof_close" /\ spc'[vm] = "ended" /\ ~connected
          /\ ref_count' = ref_count - 1
          /\ UNCHANGED <<handle, connected, reqVars, rpc>>
      BY <2>18, <2>a DEF EofDone, Lifetime
    <3>3. References' = References - 1
      BY <2>b, <2>c, <3>1, <3>2
    <3> QED BY <2>a, <2>b, <3>2, <3>3
  <2>19. CASE EofSkips
    <3>1. Cardinality(Busy') = Cardinality(Busy)
      BY <2>19, <2>a, SameBusy DEF EofSkips
    <3> QED BY <2>19, <2>a, <2>b, <2>c, <3>1 DEF EofSkips
  <2>20. CASE ReadIssue
    <3>1. Cardinality(Busy') = Cardinality(Busy)
      BY <2>20 DEF ReadIssue, Busy
    <3> QED BY <2>20, <2>a, <2>b, <2>c, <3>1 DEF ReadIssue
  <2>21. CASE ReadFails
    <3>1. Cardinality(Busy') = Cardinality(Busy)
      BY <2>21 DEF ReadFails, Busy
    <3> QED BY <2>21, <2>a, <2>b, <2>c, <3>1 DEF ReadFails
  <2>22. CASE ReadPends
    <3>1. Cardinality(Busy') = Cardinality(Busy)
      BY <2>22 DEF ReadPends, Busy
    <3>2. /\ rpc = "entered" /\ rpc' = "wait" /\ irp = NoRequest /\ irp' = read
          /\ ref_count' = ref_count + 1
          /\ UNCHANGED <<handle, connected, inflight, read, seen, preempt, crashed, spc>>
      BY <2>22 DEF ReadPends
    <3>3. seen[vm] # read /\ read # 0
      <4>1. \A s \in Senders : seen[s] # read
        BY <2>a, <3>2 DEF Pending
      <4> QED BY <4>1, <2>a
    <3>4. References' = References + 1
      BY <2>b, <2>c, <3>1, <3>2, <3>3
    <3> QED BY SMTT(30), <2>a, <2>b, <3>2, <3>3, <3>4
  <2>23. ASSUME NEW k \in 1..Len(out_queue), ReadCopy(k) PROVE Counted'
    <3>1. Cardinality(Busy') = Cardinality(Busy)
      BY <2>23 DEF ReadCopy, Busy
    <3> QED BY <2>23, <2>a, <2>b, <2>c, <3>1 DEF ReadCopy
  <2>24. CASE Quit
    <3>1. Cardinality(Busy') = Cardinality(Busy)
      BY <2>24 DEF Quit, Busy
    <3> QED BY <2>24, <2>a, <2>b, <2>c, <3>1 DEF Quit
  <2>25. CASE Cancel
    <3>1. Cardinality(Busy') = Cardinality(Busy)
      BY <2>25 DEF Cancel, Busy
    <3> QED BY <2>25, <2>a, <2>b, <2>c, <3>1 DEF Cancel
  <2>26. CASE CancelDone
    <3>1. Cardinality(Busy') = Cardinality(Busy)
      BY <2>26 DEF CancelDone, Busy
    <3> QED BY SMTT(30), <2>26, <2>a, <2>b, <2>c, <3>1 DEF CancelDone
  <2>27. CASE Deactivate
    <3>1. Cardinality(Busy') = Cardinality(Busy)
      BY <2>27 DEF Deactivate, Busy
    <3> QED BY <2>27, <2>a, <2>b, <2>c, <3>1 DEF Deactivate
  <2>28. CASE CloseHandle
    <3>1. Cardinality(Busy') = Cardinality(Busy)
      BY <2>28 DEF CloseHandle, Busy
    <3>2. handle /\ ~handle' /\ UNCHANGED <<reqVars, spc, rpc>>
      BY <2>28, <2>a DEF CloseHandle
    <3>3. CASE connected /\ ~connected' /\ Drop(2)
      <4>1. References' = References - 2
        BY SMTT(30), <2>a, <2>b, <2>c, <3>1, <3>2, <3>3 DEF Lifetime
      <4>2. ref_count' = ref_count - 2
        BY <3>3
      <4>3. (Exact => Exact') /\ (Short => Short')
        BY <2>a, <2>d, <3>2, <4>1, <4>2
      <4> QED BY <2>a, <3>2, <4>3
    <3>4. CASE UNCHANGED connected /\ Drop(1)
      <4>1. References' = References - 1
        BY <2>b, <2>c, <3>1, <3>2, <3>4
      <4> QED BY <2>a, <2>b, <3>2, <3>4, <4>1
    <3>5. handle' = FALSE /\ connected' \in BOOLEAN
      BY <2>28, <2>a DEF CloseHandle
    <3> QED BY <2>28, <3>3, <3>4, <3>5 DEF CloseHandle
  <2> QED
    BY <1>b, <2>1, <2>2, <2>3, <2>4, <2>5, <2>6, <2>7, <2>8, <2>9, <2>10, <2>11, <2>12,
       <2>13, <2>14, <2>15, <2>16, <2>17, <2>18, <2>19, <2>20, <2>21, <2>22, <2>23,
       <2>24, <2>25, <2>26, <2>27, <2>28
    DEF Next, Send, End, Read, Leave, Stop
<1> QED BY <1>a, <1>b

\* Without a switch between the test and the taking, nobody takes what another took.
LEMMA TakenNext == IInv /\ [Next]_vars => Taken'
<1> SUFFICES ASSUME IInv, [Next]_vars PROVE Taken'
  OBVIOUS
<1>a. CASE UNCHANGED vars
  BY <1>a DEF IInv, Positions, Waiting, Pending, Taken, vars
<1>b. CASE ~UNCHANGED vars
  <2> USE WinPipeAssumption DEF TypeOK, Positions, Waiting, Pending, Taken
  <2>a. TypeOK /\ ~crashed /\ Positions /\ Waiting /\ Pending /\ Taken
    BY <1>b DEF Next, Stop, IInv
  <2>1. ASSUME NEW s \in Senders, Lookup(s) PROVE Taken'
    BY <2>1, <2>a DEF Lookup
  <2>2. ASSUME NEW s \in Senders, SendLock(s) PROVE Taken'
    BY <2>2, <2>a DEF SendLock
  <2>3. ASSUME NEW s \in Senders, NoDirect(s) PROVE Taken'
    BY <2>3, <2>a DEF NoDirect
  <2>4. ASSUME NEW s \in Senders, SendSees(s) PROVE Taken'
    BY <2>4, <2>a DEF SendSees
  <2>5. ASSUME NEW s \in Senders, SendDirect(s) PROVE Taken'
    BY <2>5, <2>a DEF SendDirect
  <2>6. ASSUME NEW s \in Senders, Enqueue(s) PROVE Taken'
    BY <2>6, <2>a DEF Enqueue
  <2>7. ASSUME NEW s \in Senders, EnqueueFails(s) PROVE Taken'
    BY <2>7, <2>a DEF EnqueueFails
  <2>8. ASSUME NEW s \in Senders, SendInactive(s) PROVE Taken'
    BY <2>8, <2>a DEF SendInactive
  <2>9. ASSUME NEW s \in Senders, SendWaits(s) PROVE Taken'
    BY <2>9, <2>a DEF SendWaits
  <2>10. ASSUME NEW s \in Senders, SendAwakes(s) PROVE Taken'
    BY <2>10, <2>a DEF SendAwakes
  <2>11. ASSUME NEW s \in Senders, SendReturns(s) PROVE Taken'
    BY <2>11, <2>a DEF SendReturns
  <2>12. ASSUME NEW s \in Senders, SendDone(s) PROVE Taken'
    BY <2>12, <2>a DEF SendDone
  <2>13. CASE Eof
    BY <2>13, <2>a DEF Eof
  <2>14. CASE EofAlone
    BY <2>14, <2>a DEF EofAlone
  <2>15. CASE EofSees
    BY <2>15, <2>a DEF EofSees
  <2>16. CASE EofTakes
    BY <2>16, <2>a DEF EofTakes
  <2>17. CASE EofCompletes
    BY <2>17, <2>a DEF EofCompletes
  <2>18. CASE EofDone
    BY <2>18, <2>a DEF EofDone
  <2>19. CASE EofSkips
    BY <2>19, <2>a DEF EofSkips
  <2>20. CASE ReadIssue
    BY <2>20, <2>a DEF ReadIssue
  <2>21. CASE ReadFails
    BY <2>21, <2>a DEF ReadFails
  <2>22. CASE ReadPends
    BY <2>22, <2>a DEF ReadPends
  <2>23. ASSUME NEW k \in 1..Len(out_queue), ReadCopy(k) PROVE Taken'
    BY <2>23, <2>a DEF ReadCopy
  <2>24. CASE Quit
    BY <2>24, <2>a DEF Quit
  <2>25. CASE Cancel
    BY <2>25, <2>a DEF Cancel
  <2>26. CASE CancelDone
    BY <2>26, <2>a DEF CancelDone
  <2>27. CASE Deactivate
    BY <2>27, <2>a DEF Deactivate
  <2>28. CASE CloseHandle
    BY <2>28, <2>a DEF CloseHandle
  <2> QED
    BY <1>b, <2>1, <2>2, <2>3, <2>4, <2>5, <2>6, <2>7, <2>8, <2>9, <2>10, <2>11, <2>12,
       <2>13, <2>14, <2>15, <2>16, <2>17, <2>18, <2>19, <2>20, <2>21, <2>22, <2>23,
       <2>24, <2>25, <2>26, <2>27, <2>28
    DEF Next, Send, End, Read, Leave, Stop
<1> QED BY <1>a, <1>b

-----------------------------------------------------------------------------
(* Theorems.                                                               *)

LEMMA IInvInit == Init => IInv
<1> SUFFICES ASSUME Init PROVE IInv
  OBVIOUS
<1> USE WinPipeAssumption DEF Init
<1>1. Busy = {}
  BY DEF Busy
<1>2. References = 2
  BY <1>1, ReferencesValue, FS_EmptySet DEF Refs
<1>3. TypeOK
  <2>1. out_queue \in Seq(Messages) /\ got \in Seq(Messages)
    BY EmptySeq
  <2>2. \A s \in Senders : spc[s] = "idle" /\ lock # s
    OBVIOUS
  <2>3. spc \in [Senders -> SenderPCs] /\ sends \in [Senders -> 0..MaxSends]
    OBVIOUS
  <2>4. seen \in [Senders -> 0..read] /\ read \in Nat
    OBVIOUS
  <2> QED BY <2>1, <2>2, <2>3, <2>4 DEF TypeOK
<1>4. Positions /\ Lifetime /\ Waiting /\ Pending
  BY <1>1 DEF Positions, Lifetime, Waiting, Pending
<1>5. Counted /\ Taken
  BY <1>2 DEF Counted, Exact, Taken
<1> QED BY <1>3, <1>4, <1>5 DEF IInv

LEMMA IInvNext == IInv /\ [Next]_vars => IInv'
BY TypesNext, PositionsNext, LifetimeNext, WaitingNext, PendingNext, CountedNext, TakenNext
DEF IInv

THEOREM Invariance == Spec => []IInv
BY IInvInit, IInvNext, PTL DEF Spec

\* The variables have their types, and opened->lock has one holder.
THEOREM TypeCorrect == Spec => []TypeOK
<1>1. IInv => TypeOK
  BY DEF IInv
<1> QED BY <1>1, Invariance, PTL

\* A read never waits beside a message and, unless a thread is interrupted between the
\* test of irp and the taking, the count is that of the references and no request is
\* completed twice.
THEOREM RequestsStayExact == Spec => []RequestsExact
<1>1. IInv => NeverBoth
  BY DEF IInv, Waiting, NeverBoth
<1>2. IInv => RefCountExact
  BY DEF IInv, Counted, Taken, Exact, Short, RefCountExact
<1>3. IInv => CompletedOnce
  BY DEF IInv, TypeOK, Taken, CompletedOnce
<1>4. IInv => RequestsExact
  BY <1>1, <1>2, <1>3 DEF RequestsExact
<1> QED BY <1>4, Invariance, PTL

\* While the host runs the descriptor is not given back under its handle, its slot, a sender
\* that found it, the end or a cancel that is to drop a reference, although the count is one
\* short when two threads took one request.
THEOREM NeverFreedInUse ==
    Spec => [](/\ ~crashed
               /\ \/ handle \/ connected \/ Busy # {}
                  \/ spc[vm] \in EofPCs \/ rpc = "cancelled"
               => ~Freed)
<1> DEFINE Use == \/ handle \/ connected \/ Busy # {}
                  \/ spc[vm] \in EofPCs \/ rpc = "cancelled"
<1>1. IInv => (~crashed /\ Use => ~Freed)
  <2> SUFFICES ASSUME IInv, ~crashed, Use PROVE ref_count # 0
    BY DEF Freed
  <2>1. ref_count = References \/ (spc[vm] = "eof_complete" /\ ref_count = References - 1)
    BY DEF IInv, Counted, Exact, Short
  <2>2. Busy # {} => Cardinality(Busy) >= 1
    BY BusyFinite
  <2> QED BY <2>1, <2>2, ReferencesValue, BusyFinite DEF Refs
<1> QED BY <1>1, Invariance, PTL

\* References that are dropped discard messages only when the descriptor ended.
LEMMA Drops ==
    ASSUME NEW n \in Nat, Drop(n), active => ref_count # n, UNCHANGED <<got, active>>
    PROVE  Pipe!Next \/ UNCHANGED Pipe!pipeVars
BY DEF Pipe!Next, Pipe!Discard, Pipe!pipeVars

\* Every step is one of the abstract pipe, or none.
LEMMA StepSimulation == IInv /\ [Next]_vars => [Pipe!Next]_Pipe!pipeVars
<1> SUFFICES ASSUME IInv, [Next]_vars PROVE Pipe!Next \/ UNCHANGED Pipe!pipeVars
  OBVIOUS
<1>1. CASE UNCHANGED vars
  BY <1>1 DEF vars, Pipe!pipeVars
<1>2. CASE ~UNCHANGED vars
  <2>a. ~crashed
    BY <1>2 DEF Next, Stop
  <2>1. ASSUME NEW s \in Senders, SendDirect(s) PROVE Pipe!Next \/ UNCHANGED Pipe!pipeVars
    <3>1. s \in Busy
      BY <2>1 DEF SendDirect, Busy
    <3>2. Drop(1) /\ active' = active /\ (active => ref_count # 1)
      BY <2>1, <2>a, <3>1, Enough DEF SendDirect
    <3>3. CASE rpc = "wait"
      <4>1. out_queue = <<>> /\ out_queue' = <<>>
        BY <3>2, <3>3 DEF IInv, Waiting
      <4>2. got' = Append(got, <<s, sends[s]>>)
        BY <2>1, <3>3 DEF SendDirect
      <4>3. Pipe!Hand(<<s, sends[s]>>)
        BY <3>2, <4>1, <4>2 DEF Pipe!Hand
      <4> QED BY <3>1, <4>3, MessageOfSender DEF Pipe!Next
    <3>4. CASE rpc # "wait"
      BY <2>1, <3>2, <3>4, Drops DEF SendDirect
    <3> QED BY <3>3, <3>4
  <2>2. ASSUME NEW s \in Senders, Enqueue(s) PROVE Pipe!Next
    <3>1. <<s, sends[s]>> \in Messages
      BY <2>2, MessageOfSender DEF Enqueue, Busy
    <3>2. Pipe!Accept(<<s, sends[s]>>)
      BY <2>2 DEF Enqueue, Pipe!Accept
    <3> QED BY <3>1, <3>2 DEF Pipe!Next
  <2>3. ASSUME NEW s \in Senders, SendDone(s) PROVE Pipe!Next \/ UNCHANGED Pipe!pipeVars
    BY <2>3, <2>a, Enough, Drops DEF SendDone, Busy
  <2>4. ASSUME NEW s \in Senders,
               \/ Lookup(s) \/ SendLock(s) \/ NoDirect(s) \/ SendSees(s) \/ EnqueueFails(s)
               \/ SendInactive(s) \/ SendWaits(s) \/ SendAwakes(s) \/ SendReturns(s)
        PROVE  UNCHANGED Pipe!pipeVars
    BY <2>4 DEF Lookup, SendLock, NoDirect, SendSees, EnqueueFails, SendInactive, SendWaits,
                SendAwakes, SendReturns, Pipe!pipeVars
  <2>5. CASE Eof \/ Deactivate
    BY <2>5 DEF Eof, Deactivate, Pipe!Next, Pipe!End
  <2>6. CASE EofCompletes \/ EofDone
    <3>1. spc[vm] \in EofPCs /\ Drop(1) /\ UNCHANGED <<got, active>>
      BY <2>6 DEF EofCompletes, EofDone
    <3>2. ~active
      BY <3>1 DEF IInv, Lifetime
    <3> QED BY <3>1, <3>2, Drops
  <2>7. CASE EofAlone \/ EofSees \/ EofTakes \/ EofSkips
    BY <2>7 DEF EofAlone, EofSees, EofTakes, EofSkips, Pipe!pipeVars
  <2>8. ASSUME NEW k \in 1..Len(out_queue), ReadCopy(k) PROVE Pipe!Next
    BY <2>8 DEF ReadCopy, Pipe!Next, Pipe!Receive
  <2>9. CASE ReadIssue \/ ReadFails \/ ReadPends \/ Quit \/ Cancel
    BY <2>9 DEF ReadIssue, ReadFails, ReadPends, Quit, Cancel, Pipe!pipeVars
  <2>10. CASE CancelDone
    BY <2>10, <2>a, Enough, Drops DEF CancelDone
  <2>11. CASE CloseHandle
    BY <2>11, Drops DEF CloseHandle
  <2> QED
    BY <1>2, <2>1, <2>2, <2>3, <2>4, <2>5, <2>6, <2>7, <2>8, <2>9, <2>10, <2>11
    DEF Next, Send, End, Read, Leave, Stop
<1> QED BY <1>1, <1>2

\* The senders, the reader and the end, with their requests, implement the pipe that the
\* driver of Linux implements: nothing is received twice, out of order or without being
\* sent, and nothing is discarded before the end.
THEOREM Implementation == Spec => ImplementsPipe
<1>1. Init => Pipe!Init
  BY DEF Init, Pipe!Init
<1> QED BY <1>1, StepSimulation, Invariance, PTL DEF Spec, ImplementsPipe, Pipe!Spec

-----------------------------------------------------------------------------
(* The pipe of a Linux host.                                               *)

USE
  DEF Linux!Goto, Linux!WakeUp, Linux!Releases, Linux!Leave, Linux!Sample, Linux!Removes,
      Linux!descVars, Linux!waitVars, Linux!sendVars,
        Linux!readVars, Linux!SenderPCs, Linux!ReaderPCs

\* The senders that may have added the message that took the queue over the limit.
LinuxWaiters == {s \in Senders : l_spc[s] \in {"test", "sleep"}}

\* While messages are accepted, each one over the limit has a sender of its own that
\* did not return; the end lets senders return, and no message comes after it.
LinuxQueueCounted ==
    /\ l_active => Len(l_queue) <= Limit + Cardinality(LinuxWaiters)
    /\ Linux!QueueBounded

\* A sender inside co_manager_send has a message, a reader asleep is on the wait queue,
\* and a descriptor is given back only when it is closed.
LinuxPositions ==
    /\ \A s \in Senders : l_spc[s] \notin {"idle", "eof", "ended"} => l_sends[s] # 0
    /\ l_rpc = "asleep" => waiting
    /\ l_rpc = "closed" => ~l_active

LinuxIInv == Linux!TypeOK /\ LinuxPositions /\ LinuxQueueCounted /\ Linux!EndWakesReader

-----------------------------------------------------------------------------
(* Lemmas.                                                                 *)

\* The messages that fit and the rest are sequences of messages.
LEMMA LinuxSplit ==
    ASSUME NEW S, NEW q \in Seq(S), NEW k \in 1..Len(q)
    PROVE  /\ SubSeq(q, 1, k) \in Seq(S)
           /\ SubSeq(q, k + 1, Len(q)) \in Seq(S)
           /\ Len(SubSeq(q, k + 1, Len(q))) = Len(q) - k
<1>1. /\ Len(q) \in Nat
      /\ \A i \in 1..Len(q) : q[i] \in S
  BY LenProperties, ElementOfSeq
<1>2. /\ \A i \in 1..k : q[i] \in S
      /\ \A i \in (k + 1)..Len(q) : q[i] \in S
  BY <1>1
<1>3. SubSeq(q, 1, k) \in Seq(S)
  BY <1>1, <1>2, SubSeqProperties, SMT
<1>4. /\ SubSeq(q, k + 1, Len(q)) \in Seq(S)
      /\ Len(SubSeq(q, k + 1, Len(q))) = IF k + 1 <= Len(q) THEN Len(q) - (k + 1) + 1 ELSE 0
  BY <1>1, <1>2, SubSeqProperties, SMT
<1> QED BY <1>1, <1>3, <1>4

\* The instance counts like this module.
LEMMA LinuxCardinality == Linux!Cardinality(Senders) = Cardinality(Senders)
BY DEF Linux!Cardinality, Cardinality, Linux!IsFiniteSet, IsFiniteSet

\* The number of waiters is at most the number of senders.
LEMMA LinuxWaitersFinite ==
    /\ IsFiniteSet(LinuxWaiters)
    /\ Cardinality(LinuxWaiters) \in Nat
    /\ Cardinality(Senders) \in Nat
    /\ Cardinality(LinuxWaiters) <= Cardinality(Senders)
BY WinPipeAssumption, FS_Subset, FS_CardinalityType DEF LinuxWaiters

\* The message of a sender that is about to add it.
LEMMA LinuxMessageOfSender ==
    ASSUME Linux!TypeOK, LinuxPositions, NEW s \in Senders, l_spc[s] = "queue"
    PROVE  <<s, l_sends[s]>> \in Linux!Messages
<1>1. l_sends \in [Senders -> 0..MaxSends] /\ MaxSends \in Nat
  BY WinPipeAssumption DEF Linux!TypeOK
<1>2. l_sends[s] # 0
  BY DEF LinuxPositions
<1>3. l_sends[s] \in 1..MaxSends
  BY ONLY <1>1, <1>2
<1> QED BY <1>3 DEF Linux!Messages

\* Every step keeps the types and the positions.
LEMMA LinuxTypesNext == Linux!TypeOK /\ LinuxPositions /\ [Linux!Next]_(Linux!vars) => Linux!TypeOK' /\ LinuxPositions'
<1> SUFFICES ASSUME Linux!TypeOK, LinuxPositions, [Linux!Next]_(Linux!vars) PROVE Linux!TypeOK' /\ LinuxPositions'
  OBVIOUS
<1> USE WinPipeAssumption DEF Linux!TypeOK, LinuxPositions
<1>1. ASSUME NEW s \in Senders, Linux!Lookup(s) PROVE Linux!TypeOK' /\ LinuxPositions'
  BY <1>1 DEF Linux!Lookup
<1>2. ASSUME NEW s \in Senders, Linux!SendLock(s) PROVE Linux!TypeOK' /\ LinuxPositions'
  BY <1>2 DEF Linux!SendLock
<1>3. ASSUME NEW s \in Senders, Linux!Enqueue(s) PROVE Linux!TypeOK' /\ LinuxPositions'
  <2>1. <<s, l_sends[s]>> \in Linux!Messages
    BY <1>3, LinuxMessageOfSender DEF Linux!Enqueue
  <2>2. l_queue' \in Seq(Linux!Messages)
    BY <1>3, <2>1 DEF Linux!Enqueue
  <2> QED BY <1>3, <2>2 DEF Linux!Enqueue
<1>4. ASSUME NEW s \in Senders, Linux!EnqueueFails(s) PROVE Linux!TypeOK' /\ LinuxPositions'
  BY <1>4 DEF Linux!EnqueueFails
<1>5. ASSUME NEW s \in Senders, Linux!SendInactive(s) PROVE Linux!TypeOK' /\ LinuxPositions'
  BY <1>5 DEF Linux!SendInactive
<1>6. ASSUME NEW s \in Senders, Linux!SendWaits(s) PROVE Linux!TypeOK' /\ LinuxPositions'
  BY <1>6 DEF Linux!SendWaits
<1>7. ASSUME NEW s \in Senders, Linux!SendAwakes(s) PROVE Linux!TypeOK' /\ LinuxPositions'
  BY <1>7 DEF Linux!SendAwakes
<1>8. ASSUME NEW s \in Senders, Linux!SendReturns(s) PROVE Linux!TypeOK' /\ LinuxPositions'
  BY <1>8 DEF Linux!SendReturns
<1>9. CASE Linux!Eof
  BY <1>9 DEF Linux!Eof
<1>10. CASE Linux!EofWakes
  BY <1>10 DEF Linux!EofWakes
<1>11. CASE Linux!EofSkips
  BY <1>11 DEF Linux!EofSkips
<1>12. CASE Linux!PollSample \/ Linux!PollAgain
  BY <1>12 DEF Linux!PollSample, Linux!PollAgain
<1>13. CASE Linux!PollWait
  BY <1>13 DEF Linux!PollWait
<1>14. CASE Linux!PollTimeout
  BY <1>14 DEF Linux!PollTimeout
<1>15. CASE Linux!ReadActive \/ Linux!ReadFails \/ Linux!HangUp \/ Linux!Detach
  <2>1. CASE Linux!ReadActive
    BY <2>1 DEF Linux!ReadActive
  <2>2. CASE Linux!ReadFails
    BY <2>2 DEF Linux!ReadFails
  <2>3. CASE Linux!HangUp
    <3>1. UNCHANGED <<Linux!descVars, Linux!waitVars, Linux!sendVars, limited, mask, l_got>>
      BY <2>3 DEF Linux!HangUp
    <3>2. l_rpc = "ready" /\ l_rpc' = "exit" /\ l_rc' = "BROKEN_PIPE"
      BY <2>3 DEF Linux!HangUp
    <3> QED BY <3>1, <3>2
  <2>4. CASE Linux!Detach
    BY <2>4 DEF Linux!Detach
  <2> QED BY <1>15, <2>1, <2>2, <2>3, <2>4
<1>16. ASSUME NEW k \in 1..Len(l_queue), Linux!ReadCopy(k) PROVE Linux!TypeOK' /\ LinuxPositions'
  <2>1. /\ SubSeq(l_queue, 1, k) \in Seq(Linux!Messages)
        /\ l_queue' \in Seq(Linux!Messages)
    BY <1>16, LinuxSplit DEF Linux!ReadCopy
  <2>2. l_got' \in Seq(Linux!Messages)
    BY <1>16, <2>1, ConcatProperties DEF Linux!ReadCopy
  <2> QED BY <1>16, <2>1, <2>2 DEF Linux!ReadCopy
<1>17. CASE Linux!Close
  BY <1>17 DEF Linux!Close
<1>18. CASE Linux!Free
  BY <1>18 DEF Linux!Free
<1>19. CASE UNCHANGED Linux!vars
  BY <1>19 DEF Linux!vars
<1> QED
  BY <1>1, <1>2, <1>3, <1>4, <1>5, <1>6, <1>7, <1>8, <1>9, <1>10, <1>11, <1>12, <1>13,
     <1>14, <1>15, <1>16, <1>17, <1>18, <1>19
       DEF Linux!Next, Linux!Send, Linux!End, Linux!Poll, Linux!Read, Linux!Stop

\* A reader goes to sleep only when it saw active, and the end wakes a reader asleep.
LEMMA LinuxEndWakesNext ==
    Linux!TypeOK /\ LinuxPositions /\ Linux!EndWakesReader /\ [Linux!Next]_(Linux!vars) => Linux!EndWakesReader'
<1> SUFFICES ASSUME Linux!TypeOK, LinuxPositions, Linux!EndWakesReader, [Linux!Next]_(Linux!vars) PROVE Linux!EndWakesReader'
  OBVIOUS
<1> USE WinPipeAssumption DEF Linux!EndWakesReader
<1>1. ASSUME NEW s \in Senders, Linux!Lookup(s) \/ Linux!Send(s) PROVE Linux!EndWakesReader'
  <2>1. l_rpc' = l_rpc /\ l_active' = l_active
    BY <1>1
      DEF Linux!Lookup, Linux!Send, Linux!SendLock, Linux!Enqueue, Linux!EnqueueFails,
          Linux!SendInactive, Linux!SendWaits,
                Linux!SendAwakes, Linux!SendReturns
  <2>4. woken => woken'
    <3>1. CASE Linux!SendLock(s)
      BY <3>1 DEF Linux!SendLock
    <3>2. CASE ~Linux!SendLock(s)
      BY <1>1, <3>2
        DEF Linux!Lookup, Linux!Send, Linux!Enqueue, Linux!EnqueueFails, Linux!SendInactive,
            Linux!SendWaits,
                        Linux!SendAwakes, Linux!SendReturns
    <3> QED BY <3>1, <3>2
  <2>2. l_spc[s] # "eof"
    BY <1>1
      DEF Linux!Lookup, Linux!Send, Linux!SendLock, Linux!Enqueue, Linux!EnqueueFails,
          Linux!SendInactive, Linux!SendWaits,
                Linux!SendAwakes, Linux!SendReturns
  <2>3. \E p \in Linux!SenderPCs : l_spc' = [l_spc EXCEPT ![s] = p]
    BY <1>1
      DEF Linux!Lookup, Linux!Send, Linux!SendLock, Linux!Enqueue, Linux!EnqueueFails,
          Linux!SendInactive, Linux!SendWaits,
                Linux!SendAwakes, Linux!SendReturns
  <2> QED BY <2>1, <2>2, <2>3, <2>4 DEF Linux!TypeOK
<1>2. CASE Linux!Eof
  BY <1>2 DEF Linux!Eof, Linux!TypeOK
<1>3. CASE Linux!EofWakes
  BY <1>3 DEF Linux!EofWakes, Linux!TypeOK, LinuxPositions
<1>4. CASE Linux!EofSkips
  BY <1>4 DEF Linux!EofSkips
<1>5. CASE Linux!PollWait
  BY <1>5 DEF Linux!PollWait, Linux!TypeOK
<1>6. CASE Linux!PollSample \/ Linux!PollAgain \/ Linux!PollTimeout
  BY <1>6 DEF Linux!PollSample, Linux!PollAgain, Linux!PollTimeout
<1>7. CASE Linux!Read \/ Linux!Detach \/ Linux!Close
  BY <1>7
    DEF Linux!Read, Linux!ReadActive, Linux!ReadFails, Linux!ReadCopy, Linux!HangUp,
        Linux!Detach, Linux!Close
<1>8. CASE Linux!Free \/ Linux!Stop \/ UNCHANGED Linux!vars
  BY <1>8 DEF Linux!Free, Linux!Stop, Linux!vars
<1> QED
  BY <1>1, <1>2, <1>3, <1>4, <1>5, <1>6, <1>7, <1>8 DEF Linux!Next, Linux!End, Linux!Poll

\* A sender that starts to wait is one more waiter.
LEMMA LinuxOneMoreWaiter ==
    ASSUME Linux!TypeOK, NEW s \in Senders, l_spc[s] = "queue", l_spc' = [l_spc EXCEPT ![s] = "test"]
    PROVE  Cardinality(LinuxWaiters') = Cardinality(LinuxWaiters) + 1
<1>1. LinuxWaiters' = LinuxWaiters \cup {s} /\ s \notin LinuxWaiters
  BY DEF LinuxWaiters, Linux!TypeOK
<1> QED BY <1>1, LinuxWaitersFinite, FS_AddElement

\* The waiters stay the same when no sender comes to or leaves the wait.
LEMMA LinuxSameWaiters ==
    ASSUME Linux!TypeOK, NEW s \in Senders, NEW p \in Linux!SenderPCs, l_spc' = [l_spc EXCEPT ![s] = p],
           l_spc[s] \in {"test", "sleep"} <=> p \in {"test", "sleep"}
    PROVE  LinuxWaiters' = LinuxWaiters
BY DEF LinuxWaiters, Linux!TypeOK

\* Every step keeps the count of the queue.
LEMMA LinuxQueueCountedNext ==
    Linux!TypeOK /\ LinuxPositions /\ LinuxQueueCounted /\ [Linux!Next]_(Linux!vars) => LinuxQueueCounted'
<1> SUFFICES ASSUME Linux!TypeOK, LinuxPositions, LinuxQueueCounted, [Linux!Next]_(Linux!vars) PROVE LinuxQueueCounted'
  OBVIOUS
<1>a. /\ Limit \in Nat
      /\ vm \in Senders
      /\ Len(l_queue) \in Nat
      /\ Len(l_queue') \in Nat
      /\ Cardinality(LinuxWaiters) \in Nat
      /\ Cardinality(Senders) \in Nat
      /\ Linux!Cardinality(Senders) = Cardinality(Senders)
      /\ Cardinality(LinuxWaiters') \in Nat
      /\ Cardinality(LinuxWaiters') <= Cardinality(Senders)
  <2>1. Linux!TypeOK'
    BY LinuxTypesNext
  <2>2. /\ IsFiniteSet(LinuxWaiters')
        /\ Cardinality(LinuxWaiters') \in Nat
        /\ Cardinality(LinuxWaiters') <= Cardinality(Senders)
    BY WinPipeAssumption, FS_Subset, FS_CardinalityType DEF LinuxWaiters
  <2> QED BY <2>1, <2>2, LinuxCardinality, LinuxWaitersFinite, WinPipeAssumption, LenProperties
    DEF Linux!TypeOK
<1> USE <1>a DEF LinuxQueueCounted, Linux!QueueBounded
<1>1. ASSUME NEW s \in Senders, Linux!Enqueue(s) PROVE LinuxQueueCounted'
  <2>1. Len(l_queue') = Len(l_queue) + 1
    BY <1>1 DEF Linux!Enqueue, Linux!TypeOK
  <2>2. Cardinality(LinuxWaiters') = Cardinality(LinuxWaiters) + 1
    BY <1>1, LinuxOneMoreWaiter DEF Linux!Enqueue
  <2>3. l_active /\ Len(l_queue) <= Limit + Cardinality(LinuxWaiters)
    BY <1>1 DEF Linux!Enqueue
  <2> QED BY <2>1, <2>2, <2>3
<1>2. ASSUME NEW s \in Senders, Linux!EnqueueFails(s) PROVE LinuxQueueCounted'
  <2>1. Cardinality(LinuxWaiters') = Cardinality(LinuxWaiters) + 1
    BY <1>2, LinuxOneMoreWaiter DEF Linux!EnqueueFails
  <2>2. l_active' = l_active /\ l_queue' = l_queue
    BY <1>2 DEF Linux!EnqueueFails
  <2> QED BY <2>1, <2>2
<1>3. ASSUME NEW s \in Senders, Linux!SendReturns(s) PROVE LinuxQueueCounted'
  BY <1>3 DEF Linux!SendReturns
<1>4. ASSUME NEW s \in Senders,
             Linux!Lookup(s) \/ Linux!SendLock(s) \/ Linux!SendInactive(s) \/ Linux!SendWaits(s) \/ Linux!SendAwakes(s)
      PROVE  LinuxQueueCounted'
  <2>1. l_active' = l_active /\ l_queue' = l_queue
    BY <1>4
      DEF Linux!Lookup, Linux!SendLock, Linux!SendInactive, Linux!SendWaits, Linux!SendAwakes
  <2>2. LinuxWaiters' = LinuxWaiters
    BY <1>4, LinuxSameWaiters
      DEF Linux!Lookup, Linux!SendLock, Linux!SendInactive, Linux!SendWaits, Linux!SendAwakes
  <2> QED BY <2>1, <2>2
<1>5. CASE Linux!Eof
  BY <1>5 DEF Linux!Eof
<1>6. CASE Linux!EofWakes \/ Linux!EofSkips
  <2>1. l_active' = l_active /\ l_queue' = l_queue
    BY <1>6 DEF Linux!EofWakes, Linux!EofSkips
  <2>2. LinuxWaiters' = LinuxWaiters
    BY <1>6, LinuxSameWaiters DEF Linux!EofWakes, Linux!EofSkips
  <2> QED BY <2>1, <2>2
<1>7. ASSUME NEW k \in 1..Len(l_queue), Linux!ReadCopy(k) PROVE LinuxQueueCounted'
  <2>1. Len(l_queue') = Len(l_queue) - k
    BY <1>7, LinuxSplit DEF Linux!ReadCopy, Linux!TypeOK
  <2>2. l_active' = l_active /\ LinuxWaiters' = LinuxWaiters
    BY <1>7 DEF Linux!ReadCopy, LinuxWaiters
  <2> QED BY <2>1, <2>2
<1>8. CASE Linux!Poll \/ Linux!ReadActive \/ Linux!ReadFails \/ Linux!HangUp \/ Linux!Detach \/ Linux!Stop \/ UNCHANGED Linux!vars
  <2>1. l_active' = l_active /\ l_queue' = l_queue /\ l_spc' = l_spc
    BY <1>8
      DEF Linux!Poll, Linux!PollSample, Linux!PollWait, Linux!PollAgain, Linux!PollTimeout,
          Linux!ReadActive, Linux!ReadFails,
                Linux!HangUp, Linux!Detach, Linux!Stop, Linux!vars
  <2>2. LinuxWaiters' = LinuxWaiters
    BY <2>1 DEF LinuxWaiters
  <2> QED BY <2>1, <2>2
<1>9. CASE Linux!Close
  BY <1>9 DEF Linux!Close
<1>10. CASE Linux!Free
  <2>1. l_queue' = <<>> /\ Len(l_queue') = 0
    BY <1>10 DEF Linux!Free
  <2> QED BY <2>1
<1> QED
  BY <1>1, <1>2, <1>3, <1>4, <1>5, <1>6, <1>7, <1>8, <1>9, <1>10
  DEF Linux!Next, Linux!Send, Linux!End, Linux!Read

-----------------------------------------------------------------------------
(* Theorems.                                                               *)

LEMMA LinuxIInvInit == Linux!Init => LinuxIInv
<1> SUFFICES ASSUME Linux!Init PROVE LinuxIInv
  OBVIOUS
<1> USE WinPipeAssumption DEF Linux!Init
<1>1. Linux!TypeOK /\ LinuxPositions
  <2>1. l_queue \in Seq(Linux!Messages) /\ l_got \in Seq(Linux!Messages)
    BY EmptySeq
  <2>2. \A s \in Senders : l_spc[s] = "idle" /\ l_lock # s
    OBVIOUS
  <2>3. l_spc \in [Senders -> Linux!SenderPCs] /\ l_sends \in [Senders -> 0..MaxSends]
    OBVIOUS
  <2> QED BY <2>1, <2>2, <2>3 DEF Linux!TypeOK, LinuxPositions
<1>2. LinuxQueueCounted
  <2>1. Len(l_queue) = 0
    BY DEF Linux!Init
  <2> QED BY <2>1, LinuxCardinality, LinuxWaitersFinite
    DEF LinuxQueueCounted, Linux!QueueBounded
<1> QED BY <1>1, <1>2 DEF LinuxIInv, Linux!EndWakesReader

LEMMA LinuxIInvNext == LinuxIInv /\ [Linux!Next]_(Linux!vars) => LinuxIInv'
BY LinuxTypesNext, LinuxEndWakesNext, LinuxQueueCountedNext DEF LinuxIInv

THEOREM LinuxInvariance == Linux!Spec => []LinuxIInv
BY LinuxIInvInit, LinuxIInvNext, PTL DEF Linux!Spec

\* The variables have their types, and opened->lock has one holder.
THEOREM LinuxTypeCorrect == Linux!Spec => []Linux!TypeOK
<1>1. LinuxIInv => Linux!TypeOK
  BY DEF LinuxIInv
<1> QED BY <1>1, LinuxInvariance, PTL

\* However many senders there are, a queue over its limit is so by one message
\* of each at most.
THEOREM LinuxQueueIsBounded == Linux!Spec => []Linux!QueueBounded
<1>1. LinuxIInv => Linux!QueueBounded
  BY DEF LinuxIInv, LinuxQueueCounted
<1> QED BY <1>1, LinuxInvariance, PTL

\* A reader is not left asleep by the end of the VM.
THEOREM LinuxEndWakes == Linux!Spec => []Linux!EndWakesReader
<1>1. LinuxIInv => Linux!EndWakesReader
  BY DEF LinuxIInv
<1> QED BY <1>1, LinuxInvariance, PTL

\* The queue stays within its bound, and its reader hears of the end.
THEOREM LinuxPipeStaysSafe == Linux!Spec => []LinuxSafe
<1>1. Linux!QueueBounded /\ Linux!EndWakesReader => LinuxSafe
  BY DEF LinuxSafe, Linux!PipeSafe
<1> QED BY <1>1, LinuxQueueIsBounded, LinuxEndWakes, PTL

\* Every step is one of the abstract pipe, or none.
LEMMA LinuxStepSimulation == LinuxIInv /\ [Linux!Next]_(Linux!vars) => [Linux!Pipe!Next]_(Linux!Pipe!pipeVars)
<1> SUFFICES ASSUME LinuxIInv, [Linux!Next]_(Linux!vars) PROVE [Linux!Pipe!Next]_(Linux!Pipe!pipeVars)
  OBVIOUS
<1> USE DEF LinuxIInv, Linux!Pipe!pipeVars
<1>1. ASSUME NEW s \in Senders, Linux!Enqueue(s) PROVE Linux!Pipe!Next
  <2>1. <<s, l_sends[s]>> \in Linux!Messages
    BY <1>1, LinuxMessageOfSender DEF Linux!Enqueue
  <2>2. Linux!Pipe!Accept(<<s, l_sends[s]>>)
    BY <1>1 DEF Linux!Enqueue, Linux!Pipe!Accept
  <2> QED BY <2>1, <2>2 DEF Linux!Pipe!Next
<1>2. ASSUME NEW k \in 1..Len(l_queue), Linux!ReadCopy(k) PROVE Linux!Pipe!Next
  BY <1>2 DEF Linux!ReadCopy, Linux!Pipe!Next, Linux!Pipe!Receive
<1>3. CASE Linux!Eof \/ Linux!Close
  BY <1>3 DEF Linux!Eof, Linux!Close, Linux!Pipe!Next, Linux!Pipe!End
<1>4. CASE Linux!Free
  BY <1>4 DEF Linux!Free, LinuxPositions, Linux!Pipe!Next, Linux!Pipe!Discard
<1>5. ASSUME NEW s \in Senders,
             \/ Linux!Lookup(s) \/ Linux!SendLock(s) \/ Linux!EnqueueFails(s) \/ Linux!SendInactive(s)
             \/ Linux!SendWaits(s) \/ Linux!SendAwakes(s) \/ Linux!SendReturns(s)
      PROVE  UNCHANGED Linux!Pipe!pipeVars
  BY <1>5
    DEF Linux!Lookup, Linux!SendLock, Linux!EnqueueFails, Linux!SendInactive, Linux!SendWaits,
        Linux!SendAwakes,
              Linux!SendReturns
<1>6. CASE Linux!EofWakes \/ Linux!EofSkips \/ Linux!Poll
  BY <1>6
    DEF Linux!EofWakes, Linux!EofSkips, Linux!Poll, Linux!PollSample, Linux!PollWait,
        Linux!PollAgain, Linux!PollTimeout
<1>7. CASE Linux!ReadActive \/ Linux!ReadFails \/ Linux!HangUp \/ Linux!Detach \/ Linux!Stop \/ UNCHANGED Linux!vars
  BY <1>7
    DEF Linux!ReadActive, Linux!ReadFails, Linux!HangUp, Linux!Detach, Linux!Stop, Linux!vars
<1> QED
  BY <1>1, <1>2, <1>3, <1>4, <1>5, <1>6, <1>7 DEF Linux!Next, Linux!Send, Linux!End, Linux!Read

\* The senders, the reader and the end together implement a first-in first-out pipe:
\* nothing is received twice, out of order or without being sent.
THEOREM LinuxImplementation == Linux!Spec => LinuxImplementsPipe
<1>1. Linux!Init => Linux!Pipe!Init
  BY DEF Linux!Init, Linux!Pipe!Init
<1> QED BY <1>1, LinuxStepSimulation, LinuxInvariance, PTL
    DEF Linux!Spec, LinuxImplementsPipe, Linux!ImplementsPipe, Linux!Pipe!Spec
=============================================================================
