--------------------------- MODULE DevicesProofs ----------------------------
(***************************************************************************)
(* Proofs about Devices: BlockDevices for any number of VMs, block         *)
(* devices, requests, segments and boots, ScsiDevices for any number of    *)
(* VMs, commands, vectors and boots and a queue of any size.               *)
(*                                                                         *)
(* What BlocksExact says of a VM that runs is not inductive: it needs to   *)
(* know what the call in the passage page asks for (CallKept), that the    *)
(* segment of a started request is in one place (SegmentsKept), and that   *)
(* completions are of this boot (BootsKept).  VMs share only rc.           *)
(***************************************************************************)
EXTENDS Devices, FiniteSetTheorems, SequenceTheorems, TLAPS

GuestRecord   == [refcount : Int, device : Bdevs \cup {None}, opens : [Bdevs -> Int]]
CallRecord    == [type : {None, "STAT", "OPEN", "CLOSE", "IO"},
                  for : Bdevs \cup Requests \cup {None},
                  at : {"none", "host", "answer"}, ok : BOOLEAN, pending : BOOLEAN]
RequestRecord == [at : {"none", "queued", "started", "ended"}, left : Int]
DevRecord     == [use_count : Nat, state : {"CLOSED", "OPENED"}, op : {"async", "default"}]

\* Every variable stays in its domain.
TypeOK ==
    /\ guest \in [Vms -> GuestRecord]
    /\ stat_ok \in [Vms -> Bdevs \cup {None}]
    /\ request \in [Vms -> [Requests -> RequestRecord]]
    /\ call \in [Vms -> CallRecord]
    /\ rc \in BOOLEAN
    /\ dev \in [Vms -> DevRecord]
    /\ vm \in [Vms -> {"runs", "flushed", "freed"}]
    /\ boot \in [Vms -> 1..MaxBoots]
    /\ io \in [Vms -> SUBSET Began]
    /\ irq \in [Vms -> Seq(Began)]
    /\ mixed \in [Vms -> BOOLEAN] /\ dirty \in [Vms -> BOOLEAN]
    /\ lost \in [Vms -> BOOLEAN] /\ corrupt \in [Vms -> BOOLEAN]

\* What is called is for a block device or a request; only a transfer that the host began is
\* pending; a VM that does not run calls nothing and its guest has nothing open.
CallKept(v) ==
    /\ call[v].at = "none" => call[v] = NoCall
    /\ call[v].at # "none" =>
        \/ call[v].type \in {"STAT", "OPEN", "CLOSE"} /\ call[v].for \in Bdevs
        \/ call[v].type = "IO" /\ call[v].for \in Requests
    /\ call[v].at = "host" => call[v].ok /\ ~call[v].pending
    /\ call[v].at = "answer" =>
        (call[v].pending <=> call[v].type = "IO" /\ call[v].ok /\ dev[v].op = "async")
    /\ vm[v] # "runs" =>
        /\ call[v] = NoCall /\ guest[v] = NoDevice /\ stat_ok[v] = None
        /\ \A r \in Requests : request[v][r].at = "none"

\* Guest and host count the same opens; the guest sizes only what is not open, and opens and
\* closes only what has the unit.
Agree(v) ==
    /\ dev[v].use_count = guest[v].refcount + Uncounted(v)
    /\ guest[v].refcount >= 0
    /\ dev[v].state = "OPENED" <=> dev[v].use_count > 0
    /\ \A b \in Bdevs : guest[v].opens[b] = IF b = guest[v].device THEN guest[v].refcount ELSE 0
    /\ guest[v].device = None <=> guest[v].refcount = 0
    /\ stat_ok[v] # None => guest[v].refcount = 0
    /\ call[v].type \in {"STAT", "OPEN", "CLOSE"} => stat_ok[v] = None
    /\ call[v].type = "STAT" => guest[v].refcount = 0
    /\ call[v].type = "OPEN" => guest[v].device \in {None, call[v].for}
    /\ call[v].type = "CLOSE" => guest[v].device = call[v].for /\ call[v].ok

CountsKept(v) == vm[v] = "runs" /\ ~mixed[v] => Agree(v)

\* Where the segment of a request can be.
InCall(v, r)  == call[v].type = "IO" /\ call[v].for = r /\ ~call[v].pending
InHost(v, r)  == \E x \in io[v] : x.req = r
InQueue(v, r) == \E i \in DOMAIN irq[v] : irq[v][i].req = r

OnePlace(v, r) ==
    /\ request[v][r].at = "started" <=> InCall(v, r) \/ InHost(v, r) \/ InQueue(v, r)
    /\ ~(InCall(v, r) /\ InHost(v, r))
    /\ ~(InCall(v, r) /\ InQueue(v, r))
    /\ ~(InHost(v, r) /\ InQueue(v, r))

QueuedOnce(v) == \A i, j \in DOMAIN irq[v] : irq[v][i].req = irq[v][j].req => i = j

SegmentsKept(v) ==
    vm[v] = "runs" /\ ~dirty[v] /\ ~lost[v] /\ ~mixed[v] =>
        (\A r \in Requests : OnePlace(v, r)) /\ QueuedOnce(v)

\* Unless a boot ended with requests in the host, what is there and in the queue is of this
\* boot.
BootsKept(v) == ~dirty[v] =>
    /\ ~corrupt[v]
    /\ \A x \in io[v] : x.boot = boot[v]
    /\ \A i \in DOMAIN irq[v] : irq[v][i].boot = boot[v]
    /\ vm[v] # "runs" => io[v] = {} /\ irq[v] = <<>>

VmKept(v) == CallKept(v) /\ CountsKept(v) /\ SegmentsKept(v) /\ BootsKept(v)

IInv == TypeOK /\ \A v \in Vms : VmKept(v)

-----------------------------------------------------------------------------
(* Parts of a step.                                                        *)

\* What an action does to a VM it is not about.
Same(n) ==
    /\ guest'[n] = guest[n] /\ stat_ok'[n] = stat_ok[n] /\ request'[n] = request[n]
    /\ call'[n] = call[n] /\ dev'[n] = dev[n] /\ vm'[n] = vm[n] /\ boot'[n] = boot[n]
    /\ io'[n] = io[n] /\ irq'[n] = irq[n] /\ mixed'[n] = mixed[n] /\ dirty'[n] = dirty[n]
    /\ lost'[n] = lost[n] /\ corrupt'[n] = corrupt[n]

LEMMA SameKept ==
    ASSUME NEW n \in Vms, VmKept(n), Same(n)
    PROVE  VmKept(n)'
<1>1. CallKept(n)'
  BY DEF VmKept, Same, CallKept
<1>2. CountsKept(n)'
  BY DEF VmKept, Same, CountsKept, Agree, Uncounted
<1>3. SegmentsKept(n)'
  BY DEF VmKept, Same, SegmentsKept, OnePlace, InCall, InHost, InQueue, QueuedOnce
<1>4. BootsKept(n)'
  BY DEF VmKept, Same, BootsKept
<1> QED BY <1>1, <1>2, <1>3, <1>4 DEF VmKept

LEMMA StepKept ==
    ASSUME IInv, TypeOK', NEW v \in Vms, \A n \in Vms \ {v} : Same(n), VmKept(v)'
    PROVE  IInv'
BY SameKept DEF IInv

\* The guest calls, the host answers, the call returns.
LEMMA Calls ==
    ASSUME TypeOK, NEW v \in Vms, NEW type \in {"STAT", "OPEN", "CLOSE", "IO"},
           NEW for \in Bdevs \cup Requests, Call(v, type, for)
    PROVE  /\ call' \in [Vms -> CallRecord]
           /\ call'[v].type = type /\ call'[v].for = for /\ call'[v].at = "host"
           /\ call'[v].ok = TRUE /\ call'[v].pending = FALSE
           /\ \A n \in Vms \ {v} : call'[n] = call[n]
BY DEF Call, TypeOK, NoCall, CallRecord

LEMMA Returns ==
    ASSUME TypeOK, NEW v \in Vms, Returned(v)
    PROVE  /\ call' \in [Vms -> CallRecord]
           /\ call'[v] = NoCall
           /\ \A n \in Vms \ {v} : call'[n] = call[n]
BY DEF Returned, TypeOK, NoCall, CallRecord

LEMMA Answered ==
    ASSUME NEW c \in CallRecord, NEW ok \in BOOLEAN, NEW pending \in BOOLEAN
    PROVE  [c EXCEPT !.at = "answer", !.ok = ok, !.pending = pending] \in CallRecord
BY DEF CallRecord

LEMMA Answers ==
    ASSUME TypeOK, NEW v \in Vms, NEW ok \in BOOLEAN, NEW pending \in BOOLEAN, Answer(v, ok, pending)
    PROVE  /\ call' \in [Vms -> CallRecord] /\ rc' \in BOOLEAN /\ mixed' = mixed
           /\ call'[v].type = call[v].type /\ call'[v].for = call[v].for
           /\ call'[v].at = "answer" /\ call'[v].ok = ok /\ call'[v].pending = pending
           /\ \A n \in Vms \ {v} : call'[n] = call[n]
<1>1. /\ call'[v].type = call[v].type /\ call'[v].for = call[v].for
      /\ call'[v].at = "answer" /\ call'[v].ok = ok /\ call'[v].pending = pending
      /\ \A n \in Vms \ {v} : call'[n] = call[n]
  BY DEF Answer, TypeOK, CallRecord
<1>2. call' \in [Vms -> CallRecord]
  <2>1. [call[v] EXCEPT !.at = "answer", !.ok = ok, !.pending = pending] \in CallRecord
    <3>1. call[v] \in CallRecord
      BY DEF TypeOK
    <3> QED BY <3>1, Answered
  <2>2. call' = [call EXCEPT ![v] = [call[v] EXCEPT !.at = "answer", !.ok = ok, !.pending = pending]]
    BY DEF Answer, TypeOK
  <2> QED BY <2>1, <2>2 DEF TypeOK
<1>3. rc' \in BOOLEAN /\ mixed' = mixed
  BY DEF Answer
<1> QED BY <1>1, <1>2, <1>3

\* A guest that runs calls nothing.
LEMMA Idles ==
    ASSUME NEW v \in Vms, call[v] = NoCall
    PROVE  /\ call[v].type \notin {"STAT", "OPEN", "CLOSE", "IO"} /\ call[v].at = "none"
           /\ Uncounted(v) = 0
           /\ \A r : ~InCall(v, r)
BY BlockDevicesAssumption DEF NoCall, Uncounted, InCall

\* What is in the host and in the queue stays.
LEMMA IoSame ==
    ASSUME NEW v \in Vms, VmKept(v), io'[v] = io[v], irq'[v] = irq[v], dirty'[v] = dirty[v],
           corrupt'[v] = corrupt[v], boot'[v] = boot[v], vm'[v] = vm[v]
    PROVE  BootsKept(v)'
BY DEF VmKept, BootsKept

LEMMA SegmentsSame ==
    ASSUME NEW v \in Vms, VmKept(v), io'[v] = io[v], irq'[v] = irq[v], dirty'[v] = dirty[v],
           lost'[v] = lost[v], mixed'[v] = FALSE => mixed[v] = FALSE, vm'[v] = vm[v],
           mixed'[v] \in BOOLEAN, mixed[v] \in BOOLEAN,
           \A r \in Requests : (request'[v][r].at = "started") = (request[v][r].at = "started"),
           \A r \in Requests : InCall(v, r)' = InCall(v, r)
    PROVE  SegmentsKept(v)'
<1>1. \A r \in Requests : InHost(v, r)' = InHost(v, r) /\ InQueue(v, r)' = InQueue(v, r)
  BY DEF InHost, InQueue
<1>2. ASSUME vm[v] = "runs" /\ ~dirty[v] /\ ~lost[v] /\ ~mixed[v]
      PROVE  (\A r \in Requests : OnePlace(v, r)') /\ QueuedOnce(v)'
  BY <1>1, <1>2 DEF VmKept, SegmentsKept, OnePlace, QueuedOnce
<1> QED BY <1>2 DEF SegmentsKept

-----------------------------------------------------------------------------
(* The guest opens and closes.                                             *)

LEMMA StatNext ==
    ASSUME IInv, NEW v \in Vms, NEW b \in Bdevs, Stat(v, b)
    PROVE  IInv'
<1>0. TypeOK /\ VmKept(v)
  BY DEF IInv
<1>1. /\ call' \in [Vms -> CallRecord]
      /\ call'[v].type = "STAT" /\ call'[v].for = b /\ call'[v].at = "host"
      /\ call'[v].ok = TRUE /\ call'[v].pending = FALSE
      /\ \A n \in Vms \ {v} : call'[n] = call[n]
  BY <1>0, Calls DEF Stat
<1>2. UNCHANGED <<guestVars, rcVars, hostVars, ioVars>> /\ Runs(v)
  BY DEF Stat
<1>3. TypeOK'
  BY <1>0, <1>1, <1>2 DEF TypeOK, guestVars, rcVars, hostVars, ioVars
<1>4. \A n \in Vms \ {v} : Same(n)
  BY <1>1, <1>2 DEF Same, guestVars, rcVars, hostVars, ioVars
<1>5. CallKept(v)'
  BY <1>1, <1>2 DEF CallKept, Runs, hostVars
<1>6. CountsKept(v)'
  BY <1>0, <1>1, <1>2, Idles
     DEF VmKept, CountsKept, Agree, Uncounted, Stat, Runs, guestVars, rcVars, hostVars
<1>7. SegmentsKept(v)'
  <2>1. \A r \in Requests : InCall(v, r)' = InCall(v, r)
    BY <1>1, <1>2, Idles DEF InCall, Runs
  <2> QED BY <1>0, <1>2, <2>1, SegmentsSame DEF TypeOK, guestVars, rcVars, hostVars, ioVars
<1>8. BootsKept(v)'
  BY <1>0, <1>2, IoSame DEF hostVars, ioVars
<1> QED BY <1>3, <1>4, <1>5, <1>6, <1>7, <1>8, StepKept DEF VmKept

LEMMA OpenNext ==
    ASSUME IInv, NEW v \in Vms, NEW b \in Bdevs, Open(v, b)
    PROVE  IInv'
<1>0. TypeOK /\ VmKept(v)
  BY DEF IInv
<1>1. /\ call' \in [Vms -> CallRecord]
      /\ call'[v].type = "OPEN" /\ call'[v].for = b /\ call'[v].at = "host"
      /\ call'[v].ok = TRUE /\ call'[v].pending = FALSE
      /\ \A n \in Vms \ {v} : call'[n] = call[n]
  BY <1>0, Calls DEF Open
<1>2. /\ UNCHANGED <<guest, request, rcVars, hostVars, ioVars>> /\ Runs(v)
      /\ stat_ok' = [stat_ok EXCEPT ![v] = None]
  BY DEF Open
<1>3. TypeOK'
  BY <1>0, <1>1, <1>2 DEF TypeOK, rcVars, hostVars, ioVars
<1>4. \A n \in Vms \ {v} : Same(n)
  BY <1>0, <1>1, <1>2 DEF Same, TypeOK, rcVars, hostVars, ioVars
<1>5. CallKept(v)'
  BY <1>1, <1>2 DEF CallKept, Runs, hostVars
<1>6. CountsKept(v)'
  <2>1. ASSUME Agree(v) PROVE Agree(v)'
    <3>1. guest[v].device \in {None, b}
      BY <2>1, BlockDevicesAssumption DEF Open, Agree
    <3> QED BY <1>0, <1>1, <1>2, <2>1, <3>1, Idles DEF Agree, Uncounted, Runs, hostVars, TypeOK
  <2> QED BY <1>0, <1>2, <2>1 DEF VmKept, CountsKept, rcVars, hostVars
<1>7. SegmentsKept(v)'
  <2>1. \A r \in Requests : InCall(v, r)' = InCall(v, r)
    BY <1>1, <1>2, Idles DEF InCall, Runs
  <2> QED BY <1>0, <1>2, <2>1, SegmentsSame DEF TypeOK, rcVars, hostVars, ioVars
<1>8. BootsKept(v)'
  BY <1>0, <1>2, IoSame DEF hostVars, ioVars
<1> QED BY <1>3, <1>4, <1>5, <1>6, <1>7, <1>8, StepKept DEF VmKept

LEMMA ReleaseNext ==
    ASSUME IInv, NEW v \in Vms, NEW b \in Bdevs, Release(v, b)
    PROVE  IInv'
<1>0. TypeOK /\ VmKept(v)
  BY DEF IInv
<1>1. /\ call' \in [Vms -> CallRecord]
      /\ call'[v].type = "CLOSE" /\ call'[v].for = b /\ call'[v].at = "host"
      /\ call'[v].ok = TRUE /\ call'[v].pending = FALSE
      /\ \A n \in Vms \ {v} : call'[n] = call[n]
  BY <1>0, Calls DEF Release
<1>2. UNCHANGED <<guestVars, rcVars, hostVars, ioVars>> /\ Runs(v)
  BY DEF Release
<1>3. TypeOK'
  BY <1>0, <1>1, <1>2 DEF TypeOK, guestVars, rcVars, hostVars, ioVars
<1>4. \A n \in Vms \ {v} : Same(n)
  BY <1>1, <1>2 DEF Same, guestVars, rcVars, hostVars, ioVars
<1>5. CallKept(v)'
  BY <1>1, <1>2 DEF CallKept, Runs, hostVars
<1>6. CountsKept(v)'
  <2>1. ASSUME Agree(v) PROVE Agree(v)'
    <3>1. guest[v].device = b
      BY <2>1 DEF Release, Agree
    <3> QED BY <1>0, <1>1, <1>2, <2>1, <3>1, Idles
            DEF Agree, Uncounted, Release, Runs, guestVars, hostVars
  <2> QED BY <1>0, <1>2, <2>1 DEF VmKept, CountsKept, rcVars, hostVars
<1>7. SegmentsKept(v)'
  <2>1. \A r \in Requests : InCall(v, r)' = InCall(v, r)
    BY <1>1, <1>2, Idles DEF InCall, Runs
  <2> QED BY <1>0, <1>2, <2>1, SegmentsSame DEF TypeOK, guestVars, rcVars, hostVars, ioVars
<1>8. BootsKept(v)'
  BY <1>0, <1>2, IoSame DEF hostVars, ioVars
<1> QED BY <1>3, <1>4, <1>5, <1>6, <1>7, <1>8, StepKept DEF VmKept

\* Where only the call, the requests and what is under way change, the counts stay.
LEMMA CountsSame ==
    ASSUME NEW v \in Vms, VmKept(v), guest'[v] = guest[v], stat_ok'[v] = stat_ok[v],
           dev'[v] = dev[v], vm'[v] = vm[v], mixed'[v] = FALSE => mixed[v] = FALSE,
           mixed'[v] \in BOOLEAN, mixed[v] \in BOOLEAN,
           call[v].type \notin {"STAT", "OPEN", "CLOSE"}, call'[v].type \notin {"STAT", "OPEN", "CLOSE"}
    PROVE  CountsKept(v)'
<1>1. ASSUME Agree(v) PROVE Agree(v)'
  BY <1>1 DEF Agree, Uncounted
<1> QED BY <1>1 DEF VmKept, CountsKept

-----------------------------------------------------------------------------
(* The guest reads and writes.                                             *)

Becomes(v, r, x) == request' = [request EXCEPT ![v][r] = x]

LEMMA RequestSet ==
    ASSUME TypeOK, NEW v \in Vms, NEW r \in Requests, NEW x \in RequestRecord, NEW at, x.at = at,
           Becomes(v, r, x)
    PROVE  /\ request' \in [Vms -> [Requests -> RequestRecord]]
           /\ request'[v][r].at = at /\ \A q \in Requests \ {r} : request'[v][q] = request[v][q]
           /\ \A m \in Vms \ {v} : request'[m] = request[m]
BY DEF TypeOK, Becomes

\* A request begins, and goes on with its next segment.
LEMMA RequestChanged ==
    ASSUME NEW x \in RequestRecord
    PROVE  /\ [x EXCEPT !.at = "started"] \in RequestRecord
           /\ [x EXCEPT !.at = "started"].at = "started"
           /\ [x EXCEPT !.left = @ - 1] \in RequestRecord
           /\ [x EXCEPT !.left = @ - 1].at = x.at
BY DEF RequestRecord

LEMMA RequestEnded == \E x \in RequestRecord : x = [at |-> "ended", left |-> 0] /\ x.at = "ended"
<1>1. [at |-> "ended", left |-> 0] \in RequestRecord
  BY DEF RequestRecord
<1>2. [at |-> "ended", left |-> 0].at = "ended"
  OBVIOUS
<1> QED BY <1>1, <1>2

\* A request that is not on its way is in none of the places.
LEMMA SubmitNext ==
    ASSUME IInv, NEW v \in Vms, NEW r \in Requests, Submit(v, r)
    PROVE  IInv'
<1>0. TypeOK /\ VmKept(v)
  BY DEF IInv
<1>1. PICK n \in 1..Segments : request' = [request EXCEPT ![v][r] = [at |-> "queued", left |-> n]]
  BY DEF Submit
<1>2. /\ UNCHANGED <<guest, stat_ok, call, rcVars, hostVars, ioVars>> /\ Runs(v)
      /\ request[v][r].at # "started"
  BY DEF Submit, Active
<1>3. /\ request' \in [Vms -> [Requests -> RequestRecord]]
      /\ request'[v][r].at = "queued" /\ \A q \in Requests \ {r} : request'[v][q] = request[v][q]
      /\ \A m \in Vms \ {v} : request'[m] = request[m]
  BY <1>0, <1>1, BlockDevicesAssumption DEF TypeOK, RequestRecord
<1>4. TypeOK'
  BY <1>0, <1>2, <1>3 DEF TypeOK, rcVars, hostVars, ioVars
<1>5. \A m \in Vms \ {v} : Same(m)
  BY <1>2, <1>3 DEF Same, rcVars, hostVars, ioVars
<1>6. CallKept(v)'
  BY <1>0, <1>2 DEF VmKept, CallKept, Runs, hostVars
<1>7. CountsKept(v)'
  BY <1>0, <1>2, CountsSame, Idles DEF Runs, TypeOK, rcVars, hostVars
<1>8. SegmentsKept(v)'
  <2>1. \A q \in Requests : InCall(v, q)' = InCall(v, q)
    BY <1>2 DEF InCall
  <2> QED BY <1>0, <1>2, <1>3, <2>1, SegmentsSame DEF TypeOK, rcVars, hostVars, ioVars
<1>9. BootsKept(v)'
  BY <1>0, <1>2, IoSame DEF hostVars, ioVars
<1> QED BY <1>4, <1>5, <1>6, <1>7, <1>8, <1>9, StepKept DEF VmKept

LEMMA FetchNext ==
    ASSUME IInv, NEW v \in Vms, NEW r \in Requests, Fetch(v, r)
    PROVE  IInv'
<1>0. TypeOK /\ VmKept(v)
  BY DEF IInv
<1>1. /\ call' \in [Vms -> CallRecord]
      /\ call'[v].type = "IO" /\ call'[v].for = r /\ call'[v].at = "host"
      /\ call'[v].ok = TRUE /\ call'[v].pending = FALSE
      /\ \A n \in Vms \ {v} : call'[n] = call[n]
  BY <1>0, Calls DEF Fetch
<1>2. /\ UNCHANGED <<guest, stat_ok, rcVars, hostVars, ioVars>> /\ Runs(v)
      /\ request[v][r].at = "queued"
  BY DEF Fetch
<1>3. /\ request' \in [Vms -> [Requests -> RequestRecord]]
      /\ request'[v][r].at = "started" /\ \A q \in Requests \ {r} : request'[v][q] = request[v][q]
      /\ \A m \in Vms \ {v} : request'[m] = request[m]
  <2>1. request[v][r] \in RequestRecord
    BY <1>0 DEF TypeOK
  <2>2. PICK x \in RequestRecord : x = [request[v][r] EXCEPT !.at = "started"] /\ x.at = "started"
    BY <2>1, RequestChanged
  <2>3. Becomes(v, r, x)
    BY <1>0, <2>2 DEF Fetch, TypeOK, Becomes
  <2>4. /\ request' \in [Vms -> [Requests -> RequestRecord]]
        /\ request'[v][r].at = "started" /\ \A q \in Requests \ {r} : request'[v][q] = request[v][q]
        /\ \A m \in Vms \ {v} : request'[m] = request[m]
    BY <1>0, <2>2, <2>3, RequestSet
  <2> QED BY <2>4
<1>4. TypeOK'
  BY <1>0, <1>1, <1>2, <1>3 DEF TypeOK, rcVars, hostVars, ioVars
<1>5. \A m \in Vms \ {v} : Same(m)
  BY <1>1, <1>2, <1>3 DEF Same, rcVars, hostVars, ioVars
<1>6. CallKept(v)'
  BY <1>1, <1>2 DEF CallKept, Runs, hostVars
<1>7. CountsKept(v)'
  BY <1>0, <1>1, <1>2, CountsSame, Idles DEF Runs, TypeOK, rcVars, hostVars
<1>8. SegmentsKept(v)'
  <2> SUFFICES ASSUME vm[v] = "runs", ~dirty[v], ~lost[v], ~mixed[v]
               PROVE  (\A q \in Requests : OnePlace(v, q)') /\ QueuedOnce(v)'
    BY <1>2 DEF SegmentsKept, rcVars, hostVars, ioVars
  <2>1. (\A q \in Requests : OnePlace(v, q)) /\ QueuedOnce(v)
    BY <1>0 DEF VmKept, SegmentsKept
  <2>2. \A q \in Requests : ~InCall(v, q) /\ (InCall(v, q)' <=> q = r)
    BY <1>1, <1>2, Idles DEF InCall, Runs
  <2>3. \A q \in Requests : InHost(v, q)' = InHost(v, q) /\ InQueue(v, q)' = InQueue(v, q)
    BY <1>2 DEF InHost, InQueue, ioVars
  <2>4. ASSUME NEW q \in Requests PROVE OnePlace(v, q)'
    <3>1. CASE q = r
      BY <1>2, <1>3, <2>1, <2>2, <2>3, <3>1 DEF OnePlace
    <3>2. CASE q # r
      BY <1>3, <2>1, <2>2, <2>3, <3>2 DEF OnePlace
    <3> QED BY <3>1, <3>2
  <2>5. QueuedOnce(v)'
    BY <1>2, <2>1 DEF QueuedOnce, ioVars
  <2> QED BY <2>4, <2>5
<1>9. BootsKept(v)'
  BY <1>0, <1>2, IoSame DEF hostVars, ioVars
<1> QED BY <1>4, <1>5, <1>6, <1>7, <1>8, <1>9, StepKept DEF VmKept

-----------------------------------------------------------------------------
(* A call returns.                                                         *)

\* What a call that returns leaves alone, and when the guest is given the answer to another.
LEMMA ReturnsMixed ==
    ASSUME TypeOK, NEW v \in Vms, Return(v)
    PROVE  /\ UNCHANGED <<rc, hostVars, ioVars>>
           /\ mixed' \in [Vms -> BOOLEAN]
           /\ mixed'[v] = FALSE => mixed[v] = FALSE /\ rc = call[v].ok
           /\ \A n \in Vms \ {v} : mixed'[n] = mixed[n]
           /\ vm[v] = "runs" \/ call[v] # NoCall
<1>1. UNCHANGED <<rc, hostVars, ioVars>> /\ mixed' = [mixed EXCEPT ![v] = @ \/ rc # call[v].ok]
  BY DEF Return
<1>2. mixed[v] \in BOOLEAN /\ (rc # call[v].ok) \in BOOLEAN
  BY DEF TypeOK
<1>3. mixed' \in [Vms -> BOOLEAN]
  BY <1>1, <1>2 DEF TypeOK
<1>4. mixed'[v] = (mixed[v] \/ rc # call[v].ok) /\ \A n \in Vms \ {v} : mixed'[n] = mixed[n]
  BY <1>1 DEF TypeOK
<1>5. vm[v] = "runs" \/ call[v] # NoCall
  BY DEF Return, NoCall
<1> QED BY <1>1, <1>2, <1>3, <1>4, <1>5

LEMMA NoCallKept ==
    ASSUME NEW v \in Vms, call'[v] = NoCall, vm'[v] = "runs"
    PROVE  CallKept(v)'
BY DEF CallKept, NoCall

LEMMA GuestCounts ==
    ASSUME TypeOK, NEW v \in Vms, NEW c \in Bdevs, NEW k \in Int, NEW device \in Bdevs \cup {None},
           Counted(v, c, k, device)
    PROVE  /\ guest' \in [Vms -> GuestRecord]
           /\ guest'[v].refcount = guest[v].refcount + k /\ guest'[v].device = device
           /\ \A b \in Bdevs : guest'[v].opens[b] = guest[v].opens[b] + IF b = c THEN k ELSE 0
           /\ \A n \in Vms \ {v} : guest'[n] = guest[n]
<1>1. PICK g \in GuestRecord : g = guest[v]
  BY DEF TypeOK
<1>2. PICK h : h = [refcount |-> g.refcount + k, device |-> device, opens |-> [g.opens EXCEPT ![c] = @ + k]]
  OBVIOUS
<1>3. h \in GuestRecord
  BY <1>2 DEF GuestRecord
<1>4. guest' = [guest EXCEPT ![v] = h]
  BY <1>1, <1>2 DEF Counted
<1>5. guest'[v] = h /\ \A n \in Vms \ {v} : guest'[n] = guest[n]
  BY <1>4 DEF TypeOK
<1>6. guest' \in [Vms -> GuestRecord]
  BY <1>3, <1>4 DEF TypeOK
<1>7. \A b \in Bdevs : h.opens[b] = g.opens[b] + IF b = c THEN k ELSE 0
  BY <1>2 DEF GuestRecord
<1> QED BY <1>1, <1>2, <1>5, <1>6, <1>7

\* STAT, OPEN and CLOSE return: the requests are where they were.
LEMMA OpensReturn ==
    ASSUME IInv, NEW v \in Vms, Return(v), Returned(v), request' = request,
           guest' \in [Vms -> GuestRecord], stat_ok' \in [Vms -> Bdevs \cup {None}],
           \A n \in Vms \ {v} : guest'[n] = guest[n] /\ stat_ok'[n] = stat_ok[n],
           call[v].type # "IO",
           Agree(v) /\ rc = call[v].ok => Agree(v)'
    PROVE  IInv'
<1>0. TypeOK /\ VmKept(v)
  BY DEF IInv
<1>1. /\ call' \in [Vms -> CallRecord] /\ call'[v] = NoCall
      /\ \A n \in Vms \ {v} : call'[n] = call[n]
  BY <1>0, Returns
<1>2. /\ UNCHANGED <<rc, hostVars, ioVars>>
      /\ mixed' \in [Vms -> BOOLEAN]
      /\ mixed'[v] = FALSE => mixed[v] = FALSE /\ rc = call[v].ok
      /\ \A n \in Vms \ {v} : mixed'[n] = mixed[n]
  BY <1>0, ReturnsMixed
<1>3. TypeOK'
  BY <1>0, <1>1, <1>2 DEF TypeOK, hostVars, ioVars
<1>4. \A n \in Vms \ {v} : Same(n)
  BY <1>1, <1>2 DEF Same, hostVars, ioVars
<1>5. vm[v] = "runs"
  BY <1>0 DEF VmKept, CallKept, Return, NoCall
<1>6. CallKept(v)'
  BY <1>1, <1>2, <1>5, NoCallKept DEF hostVars
<1>7. CountsKept(v)'
  <2>1. mixed[v] \in BOOLEAN /\ mixed'[v] \in BOOLEAN
    BY <1>0, <1>2 DEF TypeOK
  <2> QED BY <1>0, <1>2, <1>5, <2>1 DEF VmKept, CountsKept
<1>8. SegmentsKept(v)'
  <2>1. \A r \in Requests : InCall(v, r)' = InCall(v, r)
    <3>1. call'[v].type # "IO"
      BY <1>1, BlockDevicesAssumption DEF NoCall
    <3> QED BY <3>1 DEF InCall
  <2> QED BY <1>0, <1>2, <2>1, SegmentsSame DEF TypeOK, hostVars, ioVars
<1>9. BootsKept(v)'
  BY <1>0, <1>2, IoSame DEF hostVars, ioVars
<1> QED BY <1>3, <1>4, <1>6, <1>7, <1>8, <1>9, StepKept DEF VmKept

LEMMA StatReturnsNext ==
    ASSUME IInv, NEW v \in Vms, Return(v), call[v].type = "STAT"
    PROVE  IInv'
<1>0. TypeOK /\ VmKept(v)
  BY DEF IInv
<1>1. Returned(v) /\ StatReturns(v) /\ dev' = dev /\ call[v].at = "answer"
  BY DEF Return, hostVars
<1>2. call[v].for \in Bdevs
  BY <1>0, <1>1 DEF VmKept, CallKept
<1>3. /\ stat_ok' \in [Vms -> Bdevs \cup {None}]
      /\ \A n \in Vms \ {v} : stat_ok'[n] = stat_ok[n]
      /\ guest' = guest /\ request' = request
  BY <1>0, <1>1, <1>2 DEF StatReturns, TypeOK
<1>4. ASSUME Agree(v) PROVE Agree(v)'
  <2>1. call'[v] = NoCall
    BY <1>0, <1>1, Returns
  <2>2. Uncounted(v) = 0 /\ Uncounted(v)' = 0 /\ call'[v].type \notin {"STAT", "OPEN", "CLOSE"}
    BY <2>1, BlockDevicesAssumption DEF Uncounted, NoCall
  <2>3. guest[v].refcount = 0
    BY <1>4 DEF Agree
  <2> QED BY <1>1, <1>3, <1>4, <2>2, <2>3 DEF Agree
<1> QED BY <1>0, <1>1, <1>3, <1>4, OpensReturn DEF TypeOK

LEMMA OpenReturnsNext ==
    ASSUME IInv, NEW v \in Vms, Return(v), call[v].type = "OPEN"
    PROVE  IInv'
<1>0. TypeOK /\ VmKept(v)
  BY DEF IInv
<1>1. Returned(v) /\ OpenReturns(v) /\ dev' = dev /\ call[v].at = "answer"
  BY DEF Return, hostVars
<1>2. PICK c \in Bdevs : c = call[v].for
  BY <1>0, <1>1 DEF VmKept, CallKept
<1>3. call'[v] = NoCall
  BY <1>0, <1>1, Returns
<1>4. Uncounted(v)' = 0 /\ call'[v].type \notin {"STAT", "OPEN", "CLOSE"}
  BY <1>3, BlockDevicesAssumption DEF Uncounted, NoCall
<1>5. stat_ok' = stat_ok /\ request' = request
  BY <1>1 DEF OpenReturns
<1>6. CASE rc
  <2>1. /\ guest' \in [Vms -> GuestRecord]
        /\ guest'[v].refcount = guest[v].refcount + 1 /\ guest'[v].device = c
        /\ \A b \in Bdevs : guest'[v].opens[b] = guest[v].opens[b] + IF b = c THEN 1 ELSE 0
        /\ \A n \in Vms \ {v} : guest'[n] = guest[n]
    <3>1. Counted(v, c, 1, c)
      BY <1>1, <1>2, <1>6 DEF OpenReturns
    <3> QED BY <1>0, <3>1, GuestCounts
  <2>2. ASSUME Agree(v), call[v].ok PROVE Agree(v)'
    <3>1. Uncounted(v) = 1
      BY <1>1, <2>2 DEF Uncounted
    <3>2. guest[v].refcount \in Nat /\ dev[v].use_count = guest[v].refcount + 1 /\ stat_ok[v] = None
      BY <1>0, <2>2, <3>1 DEF Agree, TypeOK, GuestRecord
    <3>3. \A b \in Bdevs : guest[v].opens[b] = IF b = c THEN guest[v].refcount ELSE 0
      BY <1>2, <2>2, BlockDevicesAssumption DEF Agree
    <3>4. dev[v].state = "OPENED" /\ c # None
      BY <2>2, <3>2, BlockDevicesAssumption DEF Agree
    <3>5. \A b \in Bdevs : guest'[v].opens[b] = IF b = guest'[v].device THEN guest'[v].refcount ELSE 0
      BY <2>1, <3>2, <3>3
    <3> QED BY <1>1, <1>4, <1>5, <2>1, <3>2, <3>4, <3>5 DEF Agree
  <2> QED BY <1>0, <1>1, <1>5, <1>6, <2>1, <2>2, OpensReturn DEF TypeOK
<1>7. CASE ~rc
  <2>1. guest' = guest
    BY <1>1, <1>7 DEF OpenReturns
  <2>2. ASSUME Agree(v), ~call[v].ok PROVE Agree(v)'
    <3>1. Uncounted(v) = 0
      BY <2>2 DEF Uncounted
    <3> QED BY <1>1, <1>4, <1>5, <2>1, <2>2, <3>1 DEF Agree
  <2> QED BY <1>0, <1>1, <1>5, <1>7, <2>1, <2>2, OpensReturn DEF TypeOK
<1> QED BY <1>6, <1>7

LEMMA ReleaseReturnsNext ==
    ASSUME IInv, NEW v \in Vms, Return(v), call[v].type = "CLOSE"
    PROVE  IInv'
<1>0. TypeOK /\ VmKept(v)
  BY DEF IInv
<1>1. Returned(v) /\ ReleaseReturns(v) /\ dev' = dev /\ call[v].at = "answer"
  BY DEF Return, hostVars
<1>2. PICK c \in Bdevs : c = call[v].for
  BY <1>0, <1>1 DEF VmKept, CallKept
<1>3. call'[v] = NoCall
  BY <1>0, <1>1, Returns
<1>4. Uncounted(v)' = 0 /\ call'[v].type \notin {"STAT", "OPEN", "CLOSE"}
  BY <1>3, BlockDevicesAssumption DEF Uncounted, NoCall
<1>5. stat_ok' = stat_ok /\ request' = request
  BY <1>1 DEF ReleaseReturns
<1>6. /\ guest' \in [Vms -> GuestRecord]
      /\ guest'[v].refcount = guest[v].refcount - 1
      /\ guest'[v].device = IF guest[v].refcount = 1 THEN None ELSE guest[v].device
      /\ \A b \in Bdevs : guest'[v].opens[b] = guest[v].opens[b] - IF b = c THEN 1 ELSE 0
      /\ \A n \in Vms \ {v} : guest'[n] = guest[n]
  <2>1. PICK device \in Bdevs \cup {None} :
          device = IF guest[v].refcount = 1 THEN None ELSE guest[v].device
    BY <1>0 DEF TypeOK, GuestRecord
  <2>2. Counted(v, c, -1, device)
    BY <1>1, <1>2, <2>1 DEF ReleaseReturns
  <2>3. /\ guest[v].refcount \in Int /\ \A b \in Bdevs : guest[v].opens[b] \in Int
    BY <1>0 DEF TypeOK, GuestRecord
  <2>4. /\ guest' \in [Vms -> GuestRecord]
        /\ guest'[v].refcount = guest[v].refcount + (-1) /\ guest'[v].device = device
        /\ \A b \in Bdevs : guest'[v].opens[b] = guest[v].opens[b] + IF b = c THEN -1 ELSE 0
        /\ \A n \in Vms \ {v} : guest'[n] = guest[n]
    BY <1>0, <2>2, GuestCounts
  <2> QED BY <2>1, <2>3, <2>4
<1>7. ASSUME Agree(v) PROVE Agree(v)'
  <2>1. Uncounted(v) = -1 /\ guest[v].device = c /\ c # None /\ stat_ok[v] = None
    BY <1>1, <1>2, <1>7, BlockDevicesAssumption DEF Uncounted, Agree
  <2>2. guest[v].refcount \in Nat \ {0} /\ dev[v].use_count = guest[v].refcount - 1
    BY <1>0, <1>7, <2>1 DEF Agree, TypeOK, GuestRecord
  <2>3. \A b \in Bdevs : guest'[v].opens[b] = IF b = c THEN guest[v].refcount - 1 ELSE 0
    BY <1>6, <1>7, <2>1, <2>2 DEF Agree
  <2>4. \A b \in Bdevs : guest'[v].opens[b] = IF b = guest'[v].device THEN guest'[v].refcount ELSE 0
    BY <1>6, <2>1, <2>2, <2>3, BlockDevicesAssumption
  <2>5. /\ dev[v].state = "OPENED" <=> dev[v].use_count > 0
        /\ guest'[v].device = None <=> guest'[v].refcount = 0
        /\ guest'[v].refcount >= 0
    BY <1>6, <1>7, <2>1, <2>2 DEF Agree
  <2> QED BY <1>1, <1>4, <1>5, <1>6, <2>1, <2>2, <2>4, <2>5 DEF Agree
<1> QED BY <1>0, <1>1, <1>5, <1>6, <1>7, OpensReturn DEF TypeOK

\* The segment of a request ends, and it has another or has ended.
LEMMA SegmentEnds ==
    ASSUME TypeOK, NEW v \in Vms, NEW r \in Requests, EndSegment(v, r)
    PROVE  /\ request' \in [Vms -> [Requests -> RequestRecord]]
           /\ More(v, r) => request'[v][r].at = request[v][r].at
           /\ ~More(v, r) => request'[v][r].at = "ended"
           /\ \A q \in Requests \ {r} : request'[v][q] = request[v][q]
           /\ \A m \in Vms \ {v} : request'[m] = request[m]
<1>1. request[v][r] \in RequestRecord
  BY DEF TypeOK
<1>2. CASE More(v, r)
  <2>1. PICK x \in RequestRecord : x = [request[v][r] EXCEPT !.left = @ - 1] /\ x.at = request[v][r].at
    BY <1>1, RequestChanged
  <2>2. Becomes(v, r, x)
    BY <1>2, <2>1 DEF EndSegment, TypeOK, Becomes
  <2>3. /\ request' \in [Vms -> [Requests -> RequestRecord]]
        /\ request'[v][r].at = request[v][r].at /\ \A q \in Requests \ {r} : request'[v][q] = request[v][q]
        /\ \A m \in Vms \ {v} : request'[m] = request[m]
    BY <2>1, <2>2, RequestSet
  <2> QED BY <1>2, <2>3
<1>3. CASE ~More(v, r)
  <2>1. PICK x \in RequestRecord : x = [at |-> "ended", left |-> 0] /\ x.at = "ended"
    BY RequestEnded
  <2>2. Becomes(v, r, x)
    BY <1>3, <2>1 DEF EndSegment, Becomes
  <2>3. /\ request' \in [Vms -> [Requests -> RequestRecord]]
        /\ request'[v][r].at = "ended" /\ \A q \in Requests \ {r} : request'[v][q] = request[v][q]
        /\ \A m \in Vms \ {v} : request'[m] = request[m]
    BY <2>1, <2>2, RequestSet
  <2> QED BY <1>3, <2>3
<1> QED BY <1>2, <1>3

LEMMA TransferReturnsNext ==
    ASSUME IInv, NEW v \in Vms, Return(v), call[v].type = "IO"
    PROVE  IInv'
<1>0. TypeOK /\ VmKept(v)
  BY DEF IInv
<1>1. /\ TransferReturns(v) /\ UNCHANGED <<guest, stat_ok, rc, hostVars, ioVars>>
      /\ call[v].at = "answer"
  BY DEF Return
<1>2. PICK r \in Requests : r = call[v].for
  BY <1>0, <1>1 DEF VmKept, CallKept
<1>3. /\ mixed' \in [Vms -> BOOLEAN]
      /\ mixed'[v] = FALSE => mixed[v] = FALSE /\ rc = call[v].ok
      /\ \A n \in Vms \ {v} : mixed'[n] = mixed[n]
  BY <1>0, ReturnsMixed
\* What becomes of the call and the request.
<1> DEFINE Waits == rc /\ dev[v].op = "async" /\ call'[v] = NoCall /\ request' = request
           Goes  == /\ rc /\ dev[v].op = "default"
                    /\ call'[v].type = "IO" /\ call'[v].for = r /\ call'[v].at = "host"
                    /\ call'[v].ok = TRUE /\ call'[v].pending = FALSE
                    /\ request'[v][r].at = request[v][r].at
           Ends  == rc => dev[v].op = "default"
<1>4. /\ call' \in [Vms -> CallRecord]
      /\ request' \in [Vms -> [Requests -> RequestRecord]]
      /\ \A n \in Vms \ {v} : call'[n] = call[n] /\ request'[n] = request[n]
      /\ \A q \in Requests \ {r} : request'[v][q] = request[v][q]
      /\ \/ Waits
         \/ Goes
         \/ Ends /\ call'[v] = NoCall /\ request'[v][r].at = "ended"
  <2>1. CASE rc /\ dev[v].op = "async" /\ Returned(v) /\ UNCHANGED request
    BY <1>0, <2>1, Returns DEF TypeOK
  <2>2. CASE rc /\ dev[v].op = "default" /\ EndSegment(v, r) /\ More(v, r) /\ Call(v, "IO", r)
    <3>1. /\ call' \in [Vms -> CallRecord]
          /\ call'[v].type = "IO" /\ call'[v].for = r /\ call'[v].at = "host"
          /\ call'[v].ok = TRUE /\ call'[v].pending = FALSE
          /\ \A n \in Vms \ {v} : call'[n] = call[n]
      BY <1>0, <2>2, Calls
    <3>2. /\ request' \in [Vms -> [Requests -> RequestRecord]]
          /\ request'[v][r].at = request[v][r].at
          /\ \A q \in Requests \ {r} : request'[v][q] = request[v][q]
          /\ \A m \in Vms \ {v} : request'[m] = request[m]
      BY <1>0, <2>2, SegmentEnds
    <3> QED BY <2>2, <3>1, <3>2
  <2>3. CASE rc /\ dev[v].op = "default" /\ EndSegment(v, r) /\ ~More(v, r) /\ Returned(v)
    BY <1>0, <2>3, Returns, SegmentEnds
  <2>4. CASE ~rc /\ request' = [request EXCEPT ![v][r] = [at |-> "ended", left |-> 0]] /\ Returned(v)
    <3>1. PICK x \in RequestRecord : x = [at |-> "ended", left |-> 0] /\ x.at = "ended"
      BY RequestEnded
    <3>2. Becomes(v, r, x)
      BY <2>4, <3>1 DEF Becomes
    <3>3. /\ request' \in [Vms -> [Requests -> RequestRecord]]
          /\ request'[v][r].at = "ended" /\ \A q \in Requests \ {r} : request'[v][q] = request[v][q]
          /\ \A m \in Vms \ {v} : request'[m] = request[m]
      BY <1>0, <3>1, <3>2, RequestSet
    <3>4. /\ call' \in [Vms -> CallRecord] /\ call'[v] = NoCall
          /\ \A n \in Vms \ {v} : call'[n] = call[n]
      BY <1>0, <2>4, Returns
    <3> QED BY <2>4, <3>3, <3>4
  <2> QED BY <1>1, <1>2, <2>1, <2>2, <2>3, <2>4 DEF TransferReturns
<1>5. TypeOK'
  BY <1>0, <1>1, <1>3, <1>4 DEF TypeOK, hostVars, ioVars
<1>6. \A n \in Vms \ {v} : Same(n)
  BY <1>1, <1>3, <1>4 DEF Same, hostVars, ioVars
<1>7. vm[v] = "runs" /\ vm'[v] = "runs"
  BY <1>0, <1>1 DEF VmKept, CallKept, NoCall, hostVars
<1>8. CallKept(v)'
  <2>1. CASE call'[v] = NoCall
    BY <1>7, <2>1, NoCallKept
  <2>2. CASE Goes
    BY <1>7, <2>2 DEF CallKept
  <2> QED BY <1>4, <2>1, <2>2
<1>9. CountsKept(v)'
  <2>1. call'[v].type \notin {"STAT", "OPEN", "CLOSE"}
    BY <1>4, BlockDevicesAssumption DEF NoCall
  <2>2. mixed[v] \in BOOLEAN /\ mixed'[v] \in BOOLEAN
    BY <1>0, <1>3 DEF TypeOK
  <2> QED BY <1>0, <1>1, <1>3, <2>1, <2>2, CountsSame DEF hostVars
<1>10. SegmentsKept(v)'
  <2> SUFFICES ASSUME ~dirty[v], ~lost[v], ~mixed'[v]
               PROVE  (\A q \in Requests : OnePlace(v, q)') /\ QueuedOnce(v)'
    BY <1>1 DEF SegmentsKept, ioVars
  <2>0. ~mixed[v] /\ rc = call[v].ok
    <3>1. mixed'[v] = FALSE /\ mixed[v] \in BOOLEAN
      BY <1>0, <1>3 DEF TypeOK
    <3> QED BY <1>3, <3>1
  <2>1. (\A q \in Requests : OnePlace(v, q)) /\ QueuedOnce(v)
    BY <1>0, <1>7, <2>0 DEF VmKept, SegmentsKept
  <2>2. call[v].pending <=> rc /\ dev[v].op = "async"
    BY <1>0, <1>1, <2>0 DEF VmKept, CallKept
  <2>3. \A q \in Requests : InHost(v, q)' = InHost(v, q) /\ InQueue(v, q)' = InQueue(v, q)
    BY <1>1 DEF InHost, InQueue, ioVars
  <2>4. \A q \in Requests \ {r} : ~InCall(v, q) /\ ~InCall(v, q)'
    BY <1>2, <1>4, BlockDevicesAssumption DEF InCall, NoCall
  <2>5. \A q \in Requests \ {r} : OnePlace(v, q)'
    BY <1>4, <2>1, <2>3, <2>4 DEF OnePlace
  <2>6. OnePlace(v, r)'
    <3>1. CASE Waits
      <4>1. ~InCall(v, r) /\ ~InCall(v, r)'
        BY <2>2, <3>1, BlockDevicesAssumption DEF InCall, NoCall
      <4> QED BY <2>1, <2>3, <3>1, <4>1 DEF OnePlace
    <3>2. CASE Goes
      <4>1. InCall(v, r) /\ InCall(v, r)'
        BY <1>2, <2>2, <3>2 DEF InCall
      <4> QED BY <2>1, <2>3, <3>2, <4>1 DEF OnePlace
    <3>3. CASE Ends /\ call'[v] = NoCall /\ request'[v][r].at = "ended"
      <4>1. InCall(v, r) /\ ~InCall(v, r)'
        BY <1>2, <2>2, <3>3, BlockDevicesAssumption DEF InCall, NoCall
      <4> QED BY <2>1, <2>3, <3>3, <4>1 DEF OnePlace
    <3> QED BY <1>4, <3>1, <3>2, <3>3
  <2>7. QueuedOnce(v)'
    BY <1>1, <2>1 DEF QueuedOnce, ioVars
  <2> QED BY <2>5, <2>6, <2>7
<1>11. BootsKept(v)'
  BY <1>0, <1>1, IoSame DEF hostVars, ioVars
<1> QED BY <1>5, <1>6, <1>8, <1>9, <1>10, <1>11, StepKept DEF VmKept

LEMMA ReturnNext ==
    ASSUME IInv, NEW v \in Vms, Return(v)
    PROVE  IInv'
<1>1. call[v].type \in {"STAT", "OPEN", "CLOSE", "IO"}
  BY DEF IInv, VmKept, CallKept, Return
<1> QED BY <1>1, StatReturnsNext, OpenReturnsNext, ReleaseReturnsNext, TransferReturnsNext

-----------------------------------------------------------------------------
(* The host answers.                                                       *)

\* What every answer to an open, a close or a size keeps; the counts are left to each.
LEMMA OpensAnswered ==
    ASSUME IInv, NEW v \in Vms, NEW ok \in BOOLEAN, Answer(v, ok, FALSE),
           call[v].at = "host", call[v].type \in {"STAT", "OPEN", "CLOSE"},
           UNCHANGED <<guestVars, vm, boot, ioVars>>,
           dev' \in [Vms -> DevRecord], \A n \in Vms \ {v} : dev'[n] = dev[n],
           Agree(v) => Agree(v)'
    PROVE  IInv'
<1>0. TypeOK /\ VmKept(v)
  BY DEF IInv
<1>1. /\ call' \in [Vms -> CallRecord] /\ rc' \in BOOLEAN /\ mixed' = mixed
      /\ call'[v].type = call[v].type /\ call'[v].for = call[v].for
      /\ call'[v].at = "answer" /\ call'[v].ok = ok /\ call'[v].pending = FALSE
      /\ \A n \in Vms \ {v} : call'[n] = call[n]
  BY <1>0, Answers
<1>2. TypeOK'
  BY <1>0, <1>1 DEF TypeOK, guestVars, ioVars
<1>3. \A n \in Vms \ {v} : Same(n)
  BY <1>1 DEF Same, guestVars, ioVars
<1>4. vm[v] = "runs"
  BY <1>0 DEF VmKept, CallKept, NoCall
<1>5. CallKept(v)'
  <2>1. call[v].for \in Bdevs /\ call'[v].type # "IO"
    BY <1>0, <1>1 DEF VmKept, CallKept
  <2> QED BY <1>1, <1>4, <2>1 DEF CallKept
<1>6. CountsKept(v)'
  BY <1>0, <1>1 DEF VmKept, CountsKept
<1>7. SegmentsKept(v)'
  <2>1. \A r \in Requests : InCall(v, r)' = InCall(v, r)
    BY <1>1 DEF InCall
  <2> QED BY <1>0, <1>1, <2>1, SegmentsSame DEF TypeOK, guestVars, ioVars
<1>8. BootsKept(v)'
  BY <1>0, IoSame DEF ioVars
<1> QED BY <1>2, <1>3, <1>5, <1>6, <1>7, <1>8, StepKept DEF VmKept

LEMMA DevChanged ==
    ASSUME NEW d \in DevRecord, NEW n \in Nat, NEW state \in {"CLOSED", "OPENED"}
    PROVE  [d EXCEPT !.use_count = n, !.state = state] \in DevRecord
BY DEF DevRecord

LEMMA DevSet ==
    ASSUME TypeOK, NEW v \in Vms, NEW n \in Nat, NEW state \in {"CLOSED", "OPENED"},
           Used(v, n, state)
    PROVE  /\ dev' \in [Vms -> DevRecord]
           /\ dev'[v].use_count = n /\ dev'[v].state = state /\ dev'[v].op = dev[v].op
           /\ \A m \in Vms \ {v} : dev'[m] = dev[m]
<1>1. [dev[v] EXCEPT !.use_count = n, !.state = state] \in DevRecord
  <2>1. dev[v] \in DevRecord
    BY DEF TypeOK
  <2> QED BY <2>1, DevChanged
<1> QED BY <1>1 DEF Used, TypeOK, DevRecord

LEMMA ServeOpenNext ==
    ASSUME IInv, NEW v \in Vms, NEW ok \in BOOLEAN, ServeOpen(v, ok)
    PROVE  IInv'
<1>0. TypeOK /\ VmKept(v)
  BY DEF IInv
<1>1. /\ Answer(v, ok, FALSE) /\ UNCHANGED <<guestVars, vm, boot, ioVars>>
      /\ call[v].at = "host" /\ call[v].type = "OPEN"
  BY DEF ServeOpen
<1>2. dev[v] \in DevRecord /\ dev[v].use_count \in Nat /\ dev[v].state \in {"CLOSED", "OPENED"}
  BY <1>0 DEF TypeOK, DevRecord
<1>3. /\ call'[v].type = "OPEN" /\ call'[v].for = call[v].for
      /\ call'[v].at = "answer" /\ call'[v].ok = ok
  BY <1>0, <1>1, Answers
<1>4. Uncounted(v) = 0 /\ Uncounted(v)' = IF ok THEN 1 ELSE 0
  BY <1>1, <1>3 DEF Uncounted
<1>5. CASE ok
  <2>1. /\ dev' \in [Vms -> DevRecord]
        /\ dev'[v].use_count = dev[v].use_count + 1
        /\ dev'[v].state = IF dev[v].use_count >= 1 THEN dev[v].state ELSE "OPENED"
        /\ \A m \in Vms \ {v} : dev'[m] = dev[m]
    <3>1. CASE dev[v].use_count >= 1
      <4>1. Used(v, dev[v].use_count + 1, dev[v].state)
        BY <1>5, <3>1 DEF ServeOpen
      <4> QED BY <1>0, <1>2, <3>1, <4>1, DevSet
    <3>2. CASE ~(dev[v].use_count >= 1)
      <4>1. dev[v].state = "CLOSED"
        BY <1>5, <3>2 DEF ServeOpen
      <4>2. Used(v, dev[v].use_count + 1, "OPENED")
        BY <1>5, <3>2, <4>1 DEF ServeOpen
      <4> QED BY <1>0, <1>2, <3>2, <4>2, DevSet
    <3> QED BY <3>1, <3>2
  <2>2. ASSUME Agree(v) PROVE Agree(v)'
    <3>1. dev[v].use_count = guest[v].refcount /\ guest[v].refcount \in Int
      BY <1>0, <1>4, <2>2 DEF Agree, TypeOK, GuestRecord
    <3>2. dev'[v].state = "OPENED" <=> dev'[v].use_count > 0
      BY <1>2, <2>1, <2>2 DEF Agree
    <3> QED BY <1>1, <1>3, <1>4, <1>5, <2>1, <2>2, <3>1, <3>2 DEF Agree, guestVars
  <2> QED BY <1>1, <2>1, <2>2, OpensAnswered
<1>6. CASE ~ok
  <2>1. dev' = dev
    BY <1>6 DEF ServeOpen
  <2>2. ASSUME Agree(v) PROVE Agree(v)'
    BY <1>1, <1>3, <1>4, <1>6, <2>1, <2>2 DEF Agree, guestVars
  <2> QED BY <1>0, <1>1, <2>1, <2>2, OpensAnswered DEF TypeOK
<1> QED BY <1>5, <1>6

LEMMA ServeCloseNext ==
    ASSUME IInv, NEW v \in Vms, ServeClose(v)
    PROVE  IInv'
<1>0. TypeOK /\ VmKept(v)
  BY DEF IInv
<1>1. /\ UNCHANGED <<guestVars, vm, boot, ioVars>>
      /\ call[v].at = "host" /\ call[v].type = "CLOSE"
  BY DEF ServeClose
<1>2. dev[v] \in DevRecord /\ dev[v].use_count \in Nat /\ dev[v].state \in {"CLOSED", "OPENED"}
  BY <1>0 DEF TypeOK, DevRecord
<1>3. Uncounted(v) = 0
  BY <1>1 DEF Uncounted
<1>4. CASE dev[v].use_count > 1 \/ (dev[v].use_count = 1 /\ dev[v].state = "OPENED")
  <2>1. /\ dev' \in [Vms -> DevRecord]
        /\ dev'[v].use_count = dev[v].use_count - 1
        /\ dev'[v].state = IF dev[v].use_count = 1 THEN "CLOSED" ELSE dev[v].state
        /\ \A m \in Vms \ {v} : dev'[m] = dev[m]
    <3>1. PICK n \in Nat : n = dev[v].use_count - 1
      BY <1>2, <1>4
    <3>2. PICK state \in {"CLOSED", "OPENED"} :
            state = IF dev[v].use_count = 1 THEN "CLOSED" ELSE dev[v].state
      BY <1>2
    <3>3. Used(v, n, state)
      BY <1>4, <3>1, <3>2 DEF ServeClose
    <3> QED BY <1>0, <3>1, <3>2, <3>3, DevSet
  <2>2. Answer(v, TRUE, FALSE)
    BY <1>4 DEF ServeClose
  <2>3. /\ call'[v].type = "CLOSE" /\ call'[v].for = call[v].for
        /\ call'[v].at = "answer" /\ call'[v].ok
    BY <1>0, <1>1, <2>2, Answers
  <2>4. ASSUME Agree(v) PROVE Agree(v)'
    <3>1. Uncounted(v)' = -1
      BY <2>3 DEF Uncounted
    <3>2. dev[v].use_count = guest[v].refcount /\ guest[v].refcount \in Int
      BY <1>0, <1>3, <2>4 DEF Agree, TypeOK, GuestRecord
    <3>3. dev'[v].state = "OPENED" <=> dev'[v].use_count > 0
      BY <1>2, <1>4, <2>1, <2>4 DEF Agree
    <3> QED BY <1>1, <2>1, <2>3, <2>4, <3>1, <3>2, <3>3 DEF Agree, guestVars
  <2> QED BY <1>1, <2>1, <2>2, <2>4, OpensAnswered
<1>5. CASE ~(dev[v].use_count > 1 \/ (dev[v].use_count = 1 /\ dev[v].state = "OPENED"))
  <2>1. dev' = dev /\ Answer(v, FALSE, FALSE)
    BY <1>5 DEF ServeClose
  <2>2. ~Agree(v)
    <3> SUFFICES ASSUME Agree(v) PROVE FALSE
      OBVIOUS
    <3>1. guest[v].device # None
      BY <1>0, <1>1, BlockDevicesAssumption DEF Agree, VmKept, CallKept
    <3>2. dev[v].use_count > 0 /\ dev[v].state = "OPENED"
      BY <1>0, <1>3, <3>1 DEF Agree, TypeOK, GuestRecord
    <3> QED BY <1>2, <1>5, <3>2
  <2> QED BY <1>0, <1>1, <2>1, <2>2, OpensAnswered DEF TypeOK
<1> QED BY <1>4, <1>5

LEMMA ServeStatNext ==
    ASSUME IInv, NEW v \in Vms, NEW ok \in BOOLEAN, ServeStat(v, ok)
    PROVE  IInv'
<1>0. TypeOK /\ VmKept(v)
  BY DEF IInv
<1>1. /\ Answer(v, ok, FALSE) /\ UNCHANGED <<guestVars, hostVars, ioVars>>
      /\ call[v].at = "host" /\ call[v].type = "STAT"
  BY DEF ServeStat
<1>2. call'[v].type = "STAT" /\ call'[v].for = call[v].for
  BY <1>0, <1>1, Answers
<1>3. Uncounted(v) = 0 /\ Uncounted(v)' = 0
  BY <1>1, <1>2 DEF Uncounted
<1>4. ASSUME Agree(v) PROVE Agree(v)'
  BY <1>1, <1>2, <1>3, <1>4 DEF Agree, guestVars, hostVars
<1>5. dev' = dev /\ UNCHANGED <<guestVars, vm, boot, ioVars>>
  BY <1>1 DEF hostVars
<1> QED BY <1>0, <1>1, <1>4, <1>5, OpensAnswered DEF TypeOK

LEMMA ServeIoNext ==
    ASSUME IInv, NEW v \in Vms, NEW ok \in BOOLEAN, ServeIo(v, ok)
    PROVE  IInv'
<1>0. TypeOK /\ VmKept(v)
  BY DEF IInv
<1>1. /\ UNCHANGED <<guestVars, hostVars, irq, lost, corrupt, dirty>>
      /\ call[v].at = "host" /\ call[v].type = "IO"
      /\ Answer(v, ok, ok /\ dev[v].op = "async")
  BY DEF ServeIo
<1>2. PICK r \in Requests : r = call[v].for
  BY <1>0, <1>1 DEF VmKept, CallKept
<1>3. /\ call' \in [Vms -> CallRecord] /\ rc' \in BOOLEAN /\ mixed' = mixed
      /\ call'[v].type = "IO" /\ call'[v].for = r /\ call'[v].at = "answer"
      /\ call'[v].ok = ok /\ call'[v].pending = (ok /\ dev[v].op = "async")
      /\ \A n \in Vms \ {v} : call'[n] = call[n]
  <2>1. (ok /\ dev[v].op = "async") \in BOOLEAN
    OBVIOUS
  <2> QED BY <1>0, <1>1, <1>2, <2>1, Answers
<1>4. PICK x \in Began : x = [req |-> r, boot |-> boot[v]] /\ x.req = r /\ x.boot = boot[v]
  <2>1. [req |-> r, boot |-> boot[v]] \in Began
    BY <1>0 DEF TypeOK, Began
  <2>2. [req |-> r, boot |-> boot[v]].req = r /\ [req |-> r, boot |-> boot[v]].boot = boot[v]
    OBVIOUS
  <2> QED BY <2>1, <2>2
<1>5. /\ io'[v] = io[v] \cup IF ok /\ dev[v].op = "async" THEN {x} ELSE {}
      /\ io' \in [Vms -> SUBSET Began]
      /\ \A n \in Vms \ {v} : io'[n] = io[n]
  <2>1. CASE ok /\ dev[v].op = "async"
    <3>1. io' = [io EXCEPT ![v] = io[v] \cup {x}]
      BY <1>2, <1>4, <2>1 DEF ServeIo
    <3> QED BY <1>0, <2>1, <3>1 DEF TypeOK
  <2>2. CASE ~(ok /\ dev[v].op = "async")
    <3>1. io' = io
      BY <2>2 DEF ServeIo
    <3> QED BY <1>0, <2>2, <3>1 DEF TypeOK
  <2> QED BY <2>1, <2>2
<1>6. TypeOK'
  BY <1>0, <1>1, <1>3, <1>5 DEF TypeOK, guestVars, hostVars
<1>7. \A n \in Vms \ {v} : Same(n)
  BY <1>1, <1>3, <1>5 DEF Same, guestVars, hostVars
<1>8. vm[v] = "runs"
  BY <1>0, <1>1 DEF VmKept, CallKept, NoCall
<1>9. CallKept(v)'
  BY <1>1, <1>3, <1>8 DEF CallKept, hostVars
<1>10. CountsKept(v)'
  BY <1>0, <1>1, <1>3, CountsSame DEF TypeOK, guestVars, hostVars
<1>11. SegmentsKept(v)'
  <2> SUFFICES ASSUME ~dirty[v], ~lost[v], ~mixed[v]
               PROVE  (\A q \in Requests : OnePlace(v, q)') /\ QueuedOnce(v)'
    BY <1>1, <1>3 DEF SegmentsKept
  <2>1. (\A q \in Requests : OnePlace(v, q)) /\ QueuedOnce(v)
    BY <1>0, <1>8 DEF VmKept, SegmentsKept
  <2>2. \A q \in Requests : InCall(v, q) <=> q = r
    BY <1>0, <1>1, <1>2 DEF InCall, VmKept, CallKept
  <2>3. \A q \in Requests : InCall(v, q)' <=> q = r /\ ~(ok /\ dev[v].op = "async")
    BY <1>3 DEF InCall
  <2>4. \A q \in Requests : InHost(v, q)' <=> InHost(v, q) \/ (q = r /\ ok /\ dev[v].op = "async")
    BY <1>4, <1>5 DEF InHost
  <2>5. \A q \in Requests : InQueue(v, q)' = InQueue(v, q) /\ request'[v][q] = request[v][q]
    BY <1>1 DEF InQueue, guestVars
  <2>6. \A q \in Requests : OnePlace(v, q)'
    BY <2>1, <2>2, <2>3, <2>4, <2>5 DEF OnePlace
  <2>7. QueuedOnce(v)'
    BY <1>1, <2>1 DEF QueuedOnce
  <2> QED BY <2>6, <2>7
<1>12. BootsKept(v)'
  BY <1>0, <1>1, <1>4, <1>5, <1>8 DEF VmKept, BootsKept, hostVars
<1> QED BY <1>6, <1>7, <1>9, <1>10, <1>11, <1>12, StepKept DEF VmKept

LEMMA CompleteNext ==
    ASSUME IInv, NEW v \in Vms, NEW x \in Began, NEW kept \in BOOLEAN, Complete(v, x, kept)
    PROVE  IInv'
<1>0. TypeOK /\ VmKept(v)
  BY DEF IInv
<1>1. /\ x \in io[v] /\ UNCHANGED <<guestVars, call, rcVars, hostVars, dirty>>
      /\ io' = [io EXCEPT ![v] = @ \ {x}]
  BY DEF Complete
<1>2. /\ io'[v] = io[v] \ {x} /\ io' \in [Vms -> SUBSET Began]
      /\ \A n \in Vms \ {v} : io'[n] = io[n]
  BY <1>0, <1>1 DEF TypeOK
<1>3. CallKept(v)'
  BY <1>0, <1>1 DEF VmKept, CallKept, guestVars, hostVars
<1>4. CountsKept(v)'
  BY <1>0, <1>1 DEF VmKept, CountsKept, Agree, Uncounted, guestVars, rcVars, hostVars
<1>5. CASE vm[v] = "freed"
  <2>1. corrupt' = [corrupt EXCEPT ![v] = TRUE] /\ UNCHANGED <<irq, lost>>
    BY <1>5 DEF Complete
  <2>2. corrupt' \in [Vms -> BOOLEAN] /\ \A n \in Vms \ {v} : corrupt'[n] = corrupt[n]
    BY <1>0, <2>1 DEF TypeOK
  <2>3. TypeOK'
    BY <1>0, <1>1, <1>2, <2>1, <2>2 DEF TypeOK, guestVars, rcVars, hostVars
  <2>4. \A n \in Vms \ {v} : Same(n)
    BY <1>1, <1>2, <2>1, <2>2 DEF Same, guestVars, rcVars, hostVars
  <2>5. SegmentsKept(v)'
    BY <1>1, <1>5 DEF SegmentsKept, hostVars
  <2>6. BootsKept(v)'
    BY <1>0, <1>1, <1>5 DEF VmKept, BootsKept
  <2> QED BY <1>3, <1>4, <2>3, <2>4, <2>5, <2>6, StepKept DEF VmKept
<1>6. CASE vm[v] # "freed"
  <2>1. /\ irq' = IF kept THEN [irq EXCEPT ![v] = Append(@, x)] ELSE irq
        /\ lost' = [lost EXCEPT ![v] = @ \/ ~kept]
        /\ UNCHANGED corrupt
    BY <1>6 DEF Complete
  <2>2. irq[v] \in Seq(Began) /\ lost[v] \in BOOLEAN
    BY <1>0 DEF TypeOK
  <2>3. /\ irq' \in [Vms -> Seq(Began)] /\ \A n \in Vms \ {v} : irq'[n] = irq[n]
        /\ irq'[v] = IF kept THEN Append(irq[v], x) ELSE irq[v]
    BY <1>0, <2>1, <2>2 DEF TypeOK
  <2>4. lost' \in [Vms -> BOOLEAN] /\ \A n \in Vms \ {v} : lost'[n] = lost[n]
    <3>1. (lost[v] \/ ~kept) \in BOOLEAN
      OBVIOUS
    <3> QED BY <1>0, <2>1, <3>1 DEF TypeOK
  <2>5. lost'[v] = FALSE => lost[v] = FALSE /\ kept = TRUE
    <3>1. lost'[v] = (lost[v] \/ ~kept)
      BY <1>0, <2>1 DEF TypeOK
    <3> QED BY <2>2, <3>1
  <2>6. TypeOK'
    BY <1>0, <1>1, <1>2, <2>1, <2>3, <2>4 DEF TypeOK, guestVars, rcVars, hostVars
  <2>7. \A n \in Vms \ {v} : Same(n)
    BY <1>1, <1>2, <2>1, <2>3, <2>4 DEF Same, guestVars, rcVars, hostVars
  <2>8. kept => /\ DOMAIN irq'[v] = 1..(Len(irq[v]) + 1) /\ DOMAIN irq[v] = 1..Len(irq[v])
                /\ irq'[v][Len(irq[v]) + 1] = x
                /\ \A i \in DOMAIN irq[v] : irq'[v][i] = irq[v][i]
                /\ Len(irq[v]) \in Nat
    BY <2>2, <2>3
  <2>9. SegmentsKept(v)'
    <3> SUFFICES ASSUME vm[v] = "runs", ~dirty[v], ~lost'[v], ~mixed[v]
                 PROVE  (\A q \in Requests : OnePlace(v, q)') /\ QueuedOnce(v)'
      BY <1>1 DEF SegmentsKept, hostVars, rcVars
    <3>1. ~lost[v] /\ kept
      <4>1. lost'[v] = FALSE
        BY <2>4
      <4> QED BY <2>5, <4>1
    <3>2. (\A q \in Requests : OnePlace(v, q)) /\ QueuedOnce(v)
      BY <1>0, <3>1 DEF VmKept, SegmentsKept
    <3>3. PICK r \in Requests : r = x.req
      BY DEF Began
    <3>4. \A y \in io[v] : y.req = r => y = x
      <4>1. \A y \in io[v] : y \in Began /\ y.boot = x.boot
        BY <1>0, <1>1 DEF VmKept, BootsKept, TypeOK
      <4> QED BY <3>3, <4>1 DEF Began
    <3>5. \A q \in Requests : InCall(v, q)' = InCall(v, q) /\ request'[v][q] = request[v][q]
      BY <1>1 DEF InCall, guestVars
    <3>6. InHost(v, r) /\ ~InHost(v, r)' /\ \A q \in Requests \ {r} : InHost(v, q)' = InHost(v, q)
      BY <1>1, <1>2, <3>3, <3>4 DEF InHost
    <3>7. ~InQueue(v, r)
      BY <3>2, <3>6 DEF OnePlace
    <3>8. InQueue(v, r)' /\ \A q \in Requests \ {r} : InQueue(v, q)' = InQueue(v, q)
      <4>1. \A i \in DOMAIN irq'[v] : i \in DOMAIN irq[v] \/ i = Len(irq[v]) + 1
        BY <2>8, <3>1
      <4>2. Len(irq[v]) + 1 \in DOMAIN irq'[v] /\ \A i \in DOMAIN irq[v] : i \in DOMAIN irq'[v]
        BY <2>8, <3>1
      <4> QED BY <2>8, <3>1, <3>3, <4>1, <4>2 DEF InQueue
    <3>9. \A q \in Requests : OnePlace(v, q)'
      BY <3>2, <3>5, <3>6, <3>7, <3>8 DEF OnePlace
    <3>10. QueuedOnce(v)'
      <4>1. \A i \in DOMAIN irq[v] : irq[v][i].req # x.req
        BY <3>3, <3>7 DEF InQueue
      <4>2. \A i \in DOMAIN irq'[v] : i \in DOMAIN irq[v] \/ i = Len(irq[v]) + 1
        BY <2>8, <3>1
      <4> QED BY <2>8, <3>1, <3>2, <4>1, <4>2 DEF QueuedOnce
    <3> QED BY <3>9, <3>10
  <2>10. BootsKept(v)'
    <3>1. CASE kept
      <4>1. \A i \in DOMAIN irq'[v] : i \in DOMAIN irq[v] \/ i = Len(irq[v]) + 1
        BY <2>8, <3>1
      <4> QED BY <1>0, <1>1, <1>2, <2>1, <2>8, <3>1, <4>1 DEF VmKept, BootsKept, hostVars
    <3>2. CASE ~kept
      BY <1>0, <1>1, <1>2, <2>1, <2>3, <3>2 DEF VmKept, BootsKept, hostVars
    <3> QED BY <3>1, <3>2
  <2> QED BY <1>3, <1>4, <2>6, <2>7, <2>9, <2>10, StepKept DEF VmKept
<1> QED BY <1>5, <1>6

-----------------------------------------------------------------------------
(* The guest is interrupted.                                               *)

LEMMA QueueTail ==
    ASSUME NEW q \in Seq(Began), q # <<>>
    PROVE  /\ Head(q) \in Began /\ Tail(q) \in Seq(Began)
           /\ 1 \in DOMAIN q /\ q[1] = Head(q)
           /\ \A i \in DOMAIN Tail(q) : i + 1 \in DOMAIN q \ {1} /\ Tail(q)[i] = q[i + 1]
           /\ \A i \in DOMAIN q \ {1} : i - 1 \in DOMAIN Tail(q) /\ Tail(q)[i - 1] = q[i]
<1>1. /\ Tail(q) \in Seq(Began) /\ Len(Tail(q)) = Len(q) - 1 /\ Len(q) \in Nat \ {0}
      /\ Head(q) = q[1] /\ DOMAIN q = 1..Len(q) /\ DOMAIN Tail(q) = 1..(Len(q) - 1)
  OBVIOUS
<1>2. \A i \in DOMAIN Tail(q) : Tail(q)[i] = q[i + 1]
  OBVIOUS
<1>3. \A i \in DOMAIN Tail(q) : i + 1 \in DOMAIN q \ {1}
  BY <1>1
<1>4. \A i \in DOMAIN q \ {1} : i - 1 \in DOMAIN Tail(q) /\ (i - 1) + 1 = i
  BY <1>1
<1> QED BY <1>1, <1>2, <1>3, <1>4

LEMMA InterruptNext ==
    ASSUME IInv, NEW v \in Vms, Interrupt(v)
    PROVE  IInv'
<1>0. TypeOK /\ VmKept(v)
  BY DEF IInv
<1>1. /\ Runs(v) /\ irq[v] # <<>> /\ irq' = [irq EXCEPT ![v] = Tail(@)]
      /\ UNCHANGED <<guest, stat_ok, rcVars, hostVars, io, lost, dirty>>
  BY DEF Interrupt
<1>2. PICK m \in Began : m = Head(irq[v])
  BY <1>0, <1>1, QueueTail DEF TypeOK
<1>3. /\ irq'[v] = Tail(irq[v]) /\ irq' \in [Vms -> Seq(Began)]
      /\ \A n \in Vms \ {v} : irq'[n] = irq[n]
  BY <1>0, <1>1, QueueTail DEF TypeOK
<1>4. /\ 1 \in DOMAIN irq[v] /\ irq[v][1] = m
      /\ \A i \in DOMAIN irq'[v] : i + 1 \in DOMAIN irq[v] \ {1} /\ irq'[v][i] = irq[v][i + 1]
      /\ \A i \in DOMAIN irq[v] \ {1} : i - 1 \in DOMAIN irq'[v] /\ irq'[v][i - 1] = irq[v][i]
  BY <1>0, <1>1, <1>2, <1>3, QueueTail DEF TypeOK
<1>5. CASE m.boot # boot[v]
  <2>1. corrupt' = [corrupt EXCEPT ![v] = TRUE] /\ UNCHANGED <<request, call>>
    BY <1>2, <1>5 DEF Interrupt
  <2>2. corrupt' \in [Vms -> BOOLEAN] /\ \A n \in Vms \ {v} : corrupt'[n] = corrupt[n]
    BY <1>0, <2>1 DEF TypeOK
  <2>3. TypeOK'
    BY <1>0, <1>1, <1>3, <2>1, <2>2 DEF TypeOK, rcVars, hostVars
  <2>4. \A n \in Vms \ {v} : Same(n)
    BY <1>1, <1>3, <2>1, <2>2 DEF Same, rcVars, hostVars
  <2>5. dirty[v]
    BY <1>0, <1>4, <1>5 DEF VmKept, BootsKept
  <2>6. CallKept(v)'
    BY <1>0, <1>1, <2>1 DEF VmKept, CallKept, hostVars
  <2>7. CountsKept(v)'
    BY <1>0, <1>1, <2>1 DEF VmKept, CountsKept, Agree, Uncounted, rcVars, hostVars
  <2>8. SegmentsKept(v)' /\ BootsKept(v)'
    BY <1>1, <2>5 DEF SegmentsKept, BootsKept
  <2> QED BY <2>3, <2>4, <2>6, <2>7, <2>8, StepKept DEF VmKept
<1>6. CASE m.boot = boot[v]
  <2>1. PICK r \in Requests : r = m.req
    BY DEF Began
  <2>2. EndSegment(v, r) /\ corrupt' = corrupt
    BY <1>2, <1>6, <2>1 DEF Interrupt
  <2>3. /\ request' \in [Vms -> [Requests -> RequestRecord]]
        /\ More(v, r) => request'[v][r].at = request[v][r].at
        /\ ~More(v, r) => request'[v][r].at = "ended"
        /\ \A q \in Requests \ {r} : request'[v][q] = request[v][q]
        /\ \A n \in Vms \ {v} : request'[n] = request[n]
    BY <1>0, <2>2, SegmentEnds
  <2>4. /\ call' \in [Vms -> CallRecord] /\ \A n \in Vms \ {v} : call'[n] = call[n]
        /\ More(v, r) => /\ call'[v].type = "IO" /\ call'[v].for = r /\ call'[v].at = "host"
                         /\ call'[v].ok = TRUE /\ call'[v].pending = FALSE
        /\ ~More(v, r) => call'[v] = NoCall
    <3>1. CASE More(v, r)
      <4>1. Call(v, "IO", r)
        BY <1>2, <1>6, <2>1, <3>1 DEF Interrupt
      <4> QED BY <1>0, <3>1, <4>1, Calls
    <3>2. CASE ~More(v, r)
      <4>1. call' = call
        BY <1>2, <1>6, <2>1, <3>2 DEF Interrupt
      <4> QED BY <1>0, <1>1, <3>2, <4>1 DEF Runs, TypeOK
    <3> QED BY <3>1, <3>2
  <2>5. TypeOK'
    BY <1>0, <1>1, <1>3, <2>2, <2>3, <2>4 DEF TypeOK, rcVars, hostVars
  <2>6. \A n \in Vms \ {v} : Same(n)
    BY <1>1, <1>3, <2>2, <2>3, <2>4 DEF Same, rcVars, hostVars
  <2>7. CallKept(v)'
    <3>1. vm'[v] = "runs"
      BY <1>1 DEF Runs, hostVars
    <3>2. CASE More(v, r)
      BY <2>4, <3>1, <3>2 DEF CallKept
    <3>3. CASE ~More(v, r)
      BY <2>4, <3>1, <3>3, NoCallKept
    <3> QED BY <3>2, <3>3
  <2>8. CountsKept(v)'
    <3>1. call'[v].type \notin {"STAT", "OPEN", "CLOSE"}
      BY <2>4, BlockDevicesAssumption DEF NoCall
    <3> QED BY <1>0, <1>1, <3>1, CountsSame, Idles DEF Runs, TypeOK, rcVars, hostVars
  <2>9. SegmentsKept(v)'
    <3> SUFFICES ASSUME ~dirty[v], ~lost[v], ~mixed[v]
                 PROVE  (\A q \in Requests : OnePlace(v, q)') /\ QueuedOnce(v)'
      BY <1>1 DEF SegmentsKept, rcVars
    <3>1. (\A q \in Requests : OnePlace(v, q)) /\ QueuedOnce(v)
      BY <1>0, <1>1 DEF VmKept, SegmentsKept, Runs
    <3>2. \A q \in Requests : ~InCall(v, q) /\ (InCall(v, q)' <=> q = r /\ More(v, r))
      <4>1. \A q \in Requests : ~InCall(v, q)
        BY <1>1, Idles DEF Runs
      <4> QED BY <2>4, <4>1, BlockDevicesAssumption DEF InCall, NoCall
    <3>3. \A q \in Requests : InHost(v, q)' = InHost(v, q)
      BY <1>1 DEF InHost
    <3>4. InQueue(v, r) /\ ~InQueue(v, r)'
      <4>1. InQueue(v, r)
        BY <1>4, <2>1 DEF InQueue
      <4>2. \A i \in DOMAIN irq[v] : irq[v][i].req = r => i = 1
        BY <1>4, <2>1, <3>1 DEF QueuedOnce
      <4> QED BY <1>4, <4>1, <4>2 DEF InQueue
    <3>5. \A q \in Requests \ {r} : InQueue(v, q)' = InQueue(v, q)
      BY <1>4, <2>1 DEF InQueue
    <3>6. OnePlace(v, r)'
      BY <2>3, <3>1, <3>2, <3>3, <3>4 DEF OnePlace
    <3>7. \A q \in Requests \ {r} : OnePlace(v, q)'
      BY <2>3, <3>1, <3>2, <3>3, <3>5 DEF OnePlace
    <3>8. QueuedOnce(v)'
      <4> SUFFICES ASSUME NEW i \in DOMAIN irq'[v], NEW j \in DOMAIN irq'[v],
                          irq'[v][i].req = irq'[v][j].req
                   PROVE  i = j
        BY DEF QueuedOnce
      <4>1. i + 1 = j + 1
        BY <1>4, <3>1 DEF QueuedOnce
      <4>2. i \in Int /\ j \in Int
        BY <1>0, <1>3 DEF TypeOK
      <4> QED BY <4>1, <4>2
    <3> QED BY <3>6, <3>7, <3>8
  <2>10. BootsKept(v)'
    BY <1>0, <1>1, <1>4, <2>2 DEF VmKept, BootsKept, Runs, hostVars
  <2> QED BY <2>5, <2>6, <2>7, <2>8, <2>9, <2>10, StepKept DEF VmKept
<1> QED BY <1>5, <1>6

-----------------------------------------------------------------------------
(* A boot ends, and another begins.                                        *)

LEMMA FlushNext ==
    ASSUME IInv, NEW v \in Vms, Flush(v)
    PROVE  IInv'
<1>0. TypeOK /\ VmKept(v)
  BY DEF IInv
<1>1. /\ Runs(v) /\ vm' = [vm EXCEPT ![v] = "flushed"] /\ irq' = [irq EXCEPT ![v] = <<>>]
      /\ dirty' = [dirty EXCEPT ![v] = @ \/ io[v] # {}]
      /\ guest' = [guest EXCEPT ![v] = NoDevice] /\ stat_ok' = [stat_ok EXCEPT ![v] = None]
      /\ request' = [request EXCEPT ![v] = [r \in Requests |-> NoRequest]]
      /\ UNCHANGED <<call, rcVars, dev, boot, io, lost, corrupt>>
  BY DEF Flush
<1>2. /\ guest' \in [Vms -> GuestRecord] /\ guest'[v] = NoDevice
      /\ \A n \in Vms \ {v} : guest'[n] = guest[n]
  <2>1. NoDevice \in GuestRecord
    BY DEF NoDevice, GuestRecord
  <2> QED BY <1>0, <1>1, <2>1 DEF TypeOK
<1>3. /\ request' \in [Vms -> [Requests -> RequestRecord]]
      /\ \A r \in Requests : request'[v][r].at = "none"
      /\ \A n \in Vms \ {v} : request'[n] = request[n]
  <2>1. NoRequest \in RequestRecord /\ NoRequest.at = "none"
    BY DEF NoRequest, RequestRecord
  <2> QED BY <1>0, <1>1, <2>1 DEF TypeOK
<1>4. /\ dirty' \in [Vms -> BOOLEAN] /\ \A n \in Vms \ {v} : dirty'[n] = dirty[n]
      /\ dirty'[v] = (dirty[v] \/ io[v] # {})
  <2>1. (dirty[v] \/ io[v] # {}) \in BOOLEAN
    OBVIOUS
  <2> QED BY <1>0, <1>1, <2>1 DEF TypeOK
<1>5. /\ vm' \in [Vms -> {"runs", "flushed", "freed"}] /\ vm'[v] = "flushed"
      /\ stat_ok' \in [Vms -> Bdevs \cup {None}] /\ stat_ok'[v] = None
      /\ irq' \in [Vms -> Seq(Began)] /\ irq'[v] = <<>>
      /\ \A n \in Vms \ {v} : vm'[n] = vm[n] /\ stat_ok'[n] = stat_ok[n] /\ irq'[n] = irq[n]
  <2>1. <<>> \in Seq(Began)
    OBVIOUS
  <2> QED BY <1>0, <1>1, <2>1 DEF TypeOK
<1>6. TypeOK'
  BY <1>0, <1>1, <1>2, <1>3, <1>4, <1>5 DEF TypeOK, rcVars
<1>7. \A n \in Vms \ {v} : Same(n)
  BY <1>1, <1>2, <1>3, <1>4, <1>5 DEF Same, rcVars
<1>8. CallKept(v)'
  BY <1>1, <1>2, <1>3, <1>5 DEF CallKept, Runs, NoCall
<1>9. CountsKept(v)' /\ SegmentsKept(v)'
  BY <1>5 DEF CountsKept, SegmentsKept
<1>10. BootsKept(v)'
  <2>1. ~dirty'[v] => ~dirty[v] /\ io[v] = {}
    BY <1>4
  <2> QED BY <1>0, <1>1, <1>5, <2>1 DEF VmKept, BootsKept
<1> QED BY <1>6, <1>7, <1>8, <1>9, <1>10, StepKept DEF VmKept

LEMMA DevCloses ==
    ASSUME TypeOK, NEW v \in Vms, dev' = [dev EXCEPT ![v] = Closed(@)]
    PROVE  /\ dev' \in [Vms -> DevRecord]
           /\ dev'[v].use_count = 0 /\ dev'[v].state = "CLOSED"
           /\ \A n \in Vms \ {v} : dev'[n] = dev[n]
<1>1. Used(v, 0, "CLOSED")
  BY DEF TypeOK, Closed, Used
<1> QED BY <1>1, DevSet

LEMMA ReloadNext ==
    ASSUME IInv, NEW v \in Vms, Reload(v)
    PROVE  IInv'
<1>0. TypeOK /\ VmKept(v)
  BY DEF IInv
<1>1. /\ vm[v] = "flushed" /\ boot[v] < MaxBoots
      /\ vm' = [vm EXCEPT ![v] = "runs"] /\ boot' = [boot EXCEPT ![v] = @ + 1]
      /\ UNCHANGED <<guestVars, call, rcVars, ioVars>>
  BY DEF Reload
<1>2. /\ dev' \in [Vms -> DevRecord]
      /\ dev'[v].use_count = 0 /\ dev'[v].state = "CLOSED"
      /\ \A n \in Vms \ {v} : dev'[n] = dev[n]
  BY <1>0, DevCloses DEF Reload
<1>3. /\ vm' \in [Vms -> {"runs", "flushed", "freed"}] /\ boot' \in [Vms -> 1..MaxBoots]
      /\ \A n \in Vms \ {v} : vm'[n] = vm[n] /\ boot'[n] = boot[n]
  <2>1. boot[v] + 1 \in 1..MaxBoots
    BY <1>0, <1>1, BlockDevicesAssumption DEF TypeOK
  <2> QED BY <1>0, <1>1, <2>1 DEF TypeOK
<1>4. TypeOK'
  BY <1>0, <1>1, <1>2, <1>3 DEF TypeOK, guestVars, rcVars, ioVars
<1>5. \A n \in Vms \ {v} : Same(n)
  BY <1>1, <1>2, <1>3 DEF Same, guestVars, rcVars, ioVars
\* The guest that boots has nothing open, under way or called.
<1>6. /\ vm'[v] = "runs" /\ call'[v] = NoCall /\ guest'[v] = NoDevice /\ stat_ok'[v] = None
      /\ \A r \in Requests : request'[v][r].at = "none"
  BY <1>0, <1>1 DEF VmKept, CallKept, TypeOK, guestVars
<1>7. CallKept(v)'
  BY <1>6, NoCallKept
<1>8. CountsKept(v)'
  <2>1. Uncounted(v)' = 0 /\ call'[v].type \notin {"STAT", "OPEN", "CLOSE"}
    BY <1>6, BlockDevicesAssumption DEF Uncounted, NoCall
  <2>2. /\ guest'[v].refcount = 0 /\ guest'[v].device = None
        /\ \A b \in Bdevs : guest'[v].opens[b] = 0
    BY <1>6 DEF NoDevice
  <2> QED BY <1>2, <1>6, <2>1, <2>2 DEF CountsKept, Agree
<1>9. ~dirty[v] => io[v] = {} /\ irq[v] = <<>>
  BY <1>0, <1>1 DEF VmKept, BootsKept
<1>10. SegmentsKept(v)'
  <2> SUFFICES ASSUME ~dirty[v] PROVE (\A r \in Requests : OnePlace(v, r)') /\ QueuedOnce(v)'
    BY <1>1 DEF SegmentsKept, ioVars
  <2>1. \A r \in Requests : ~InCall(v, r)' /\ ~InHost(v, r)' /\ ~InQueue(v, r)'
    BY <1>1, <1>6, <1>9, BlockDevicesAssumption DEF InCall, InHost, InQueue, NoCall, ioVars
  <2>2. QueuedOnce(v)'
    BY <1>1, <1>9 DEF QueuedOnce, ioVars
  <2> QED BY <1>6, <2>1, <2>2 DEF OnePlace
<1>11. BootsKept(v)'
  BY <1>0, <1>1, <1>6, <1>9 DEF VmKept, BootsKept, ioVars
<1> QED BY <1>4, <1>5, <1>7, <1>8, <1>10, <1>11, StepKept DEF VmKept

LEMMA DestroyNext ==
    ASSUME IInv, NEW v \in Vms, Destroy(v)
    PROVE  IInv'
<1>0. TypeOK /\ VmKept(v)
  BY DEF IInv
<1>1. /\ vm[v] = "flushed" /\ vm' = [vm EXCEPT ![v] = "freed"] /\ irq' = [irq EXCEPT ![v] = <<>>]
      /\ UNCHANGED <<guestVars, call, rcVars, boot, io, lost, corrupt, dirty>>
  BY DEF Destroy
<1>2. /\ dev' \in [Vms -> DevRecord] /\ \A n \in Vms \ {v} : dev'[n] = dev[n]
  BY <1>0, DevCloses DEF Destroy
<1>3. /\ vm' \in [Vms -> {"runs", "flushed", "freed"}] /\ vm'[v] = "freed"
      /\ irq' \in [Vms -> Seq(Began)] /\ irq'[v] = <<>>
      /\ \A n \in Vms \ {v} : vm'[n] = vm[n] /\ irq'[n] = irq[n]
  <2>1. <<>> \in Seq(Began)
    OBVIOUS
  <2> QED BY <1>0, <1>1, <2>1 DEF TypeOK
<1>4. TypeOK'
  BY <1>0, <1>1, <1>2, <1>3 DEF TypeOK, guestVars, rcVars
<1>5. \A n \in Vms \ {v} : Same(n)
  BY <1>1, <1>2, <1>3 DEF Same, guestVars, rcVars
<1>6. CallKept(v)'
  BY <1>0, <1>1 DEF VmKept, CallKept, guestVars, NoCall
<1>7. CountsKept(v)' /\ SegmentsKept(v)'
  BY <1>3 DEF CountsKept, SegmentsKept
<1>8. BootsKept(v)'
  BY <1>0, <1>1, <1>3 DEF VmKept, BootsKept
<1> QED BY <1>4, <1>5, <1>6, <1>7, <1>8, StepKept DEF VmKept

-----------------------------------------------------------------------------
LEMMA InitIInv == Init => IInv
<1> SUFFICES ASSUME Init PROVE IInv
  OBVIOUS
<1>1. /\ NoDevice \in GuestRecord /\ NoRequest \in RequestRecord /\ NoCall \in CallRecord
      /\ NoRequest.at = "none"
  BY DEF NoDevice, GuestRecord, NoRequest, RequestRecord, NoCall, CallRecord
<1>2. /\ dev \in [Vms -> DevRecord]
      /\ \A v \in Vms : dev[v].use_count = 0 /\ dev[v].state = "CLOSED"
  BY DEF Init, DevRecord
<1>3. 1 \in 1..MaxBoots /\ <<>> \in Seq(Began)
  BY BlockDevicesAssumption
<1>4. TypeOK
  BY <1>1, <1>2, <1>3 DEF Init, TypeOK
<1>5. ASSUME NEW v \in Vms PROVE VmKept(v)
  <2>1. /\ call[v] = NoCall /\ guest[v] = NoDevice /\ stat_ok[v] = None /\ vm[v] = "runs"
        /\ io[v] = {} /\ irq[v] = <<>> /\ ~corrupt[v]
        /\ \A r \in Requests : request[v][r].at = "none"
    BY <1>1 DEF Init
  <2>2. CallKept(v)
    BY <2>1 DEF CallKept, NoCall
  <2>3. CountsKept(v)
    <3>1. Uncounted(v) = 0 /\ call[v].type \notin {"STAT", "OPEN", "CLOSE"}
      BY <2>1, Idles
    <3>2. /\ guest[v].refcount = 0 /\ guest[v].device = None
          /\ \A b \in Bdevs : guest[v].opens[b] = 0
      BY <2>1 DEF NoDevice
    <3> QED BY <1>2, <2>1, <3>1, <3>2 DEF CountsKept, Agree
  <2>4. SegmentsKept(v)
    BY <2>1, Idles DEF SegmentsKept, OnePlace, InHost, InQueue, QueuedOnce
  <2>5. BootsKept(v)
    BY <2>1 DEF BootsKept
  <2> QED BY <2>2, <2>3, <2>4, <2>5 DEF VmKept
<1> QED BY <1>4, <1>5 DEF IInv

LEMMA IInvNext == IInv /\ [Next]_vars => IInv'
<1> SUFFICES ASSUME IInv, [Next]_vars PROVE IInv'
  OBVIOUS
<1>1. CASE UNCHANGED vars
  <2>1. \A n \in Vms : Same(n)
    BY <1>1 DEF vars, guestVars, rcVars, hostVars, ioVars, Same
  <2>2. TypeOK'
    BY <1>1 DEF IInv, TypeOK, vars, guestVars, rcVars, hostVars, ioVars
  <2> QED BY <2>1, <2>2, SameKept DEF IInv
<1>2. ASSUME NEW v \in Vms,
             \/ \E b \in Bdevs : Stat(v, b) \/ Open(v, b) \/ Release(v, b)
             \/ \E r \in Requests : Submit(v, r) \/ Fetch(v, r)
             \/ Return(v) \/ Interrupt(v)
      PROVE  IInv'
  BY <1>2, StatNext, OpenNext, ReleaseNext, SubmitNext, FetchNext, ReturnNext, InterruptNext
<1>3. ASSUME NEW v \in Vms, Serve(v) PROVE IInv'
  BY <1>3, ServeOpenNext, ServeCloseNext, ServeStatNext, ServeIoNext DEF Serve
<1>4. ASSUME NEW v \in Vms, NEW x \in Began, Completes(v, x) PROVE IInv'
  BY <1>4, CompleteNext DEF Completes
<1>5. ASSUME NEW v \in Vms, Flush(v) \/ Reload(v) \/ Destroy(v) PROVE IInv'
  BY <1>5, FlushNext, ReloadNext, DestroyNext
<1> QED BY <1>1, <1>2, <1>3, <1>4, <1>5 DEF Next

\* What every VM keeps: guest and host in step, each segment in one place, completions of their
\* own boot.
THEOREM Invariance == Spec => []IInv
BY InitIInv, IInvNext, PTL DEF Spec

\* Every variable stays in its domain.
THEOREM TypeCorrect == Spec => []TypeOK
<1>1. IInv => TypeOK
  BY DEF IInv
<1> QED BY Invariance, <1>1, PTL

\* The places of a segment, counted.
LEMMA HeldIsPlaces ==
    ASSUME IInv, NEW v \in Vms, NEW r \in Requests, ~dirty[v], QueuedOnce(v), OnePlace(v, r)
    PROVE  Held(v, r) = IF request[v][r].at = "started" THEN 1 ELSE 0
<1> DEFINE hosts  == {x \in io[v] : x.req = r}
           queues == {i \in DOMAIN irq[v] : irq[v][i].req = r}
<1>1. Cardinality(hosts) = IF InHost(v, r) THEN 1 ELSE 0
  <2>1. CASE InHost(v, r)
    <3>1. PICK x \in io[v] : x.req = r
      BY <2>1 DEF InHost
    <3>2. \A y \in io[v] : y \in Began /\ y.boot = x.boot
      BY DEF IInv, VmKept, BootsKept, TypeOK
    <3>3. hosts = {x}
      BY <3>1, <3>2 DEF Began
    <3> QED BY <2>1, <3>3, FS_Singleton
  <2>2. CASE ~InHost(v, r)
    <3>1. hosts = {}
      BY <2>2 DEF InHost
    <3> QED BY <2>2, <3>1, FS_EmptySet
  <2> QED BY <2>1, <2>2
<1>2. Cardinality(queues) = IF InQueue(v, r) THEN 1 ELSE 0
  <2>1. CASE InQueue(v, r)
    <3>1. PICK i \in DOMAIN irq[v] : irq[v][i].req = r
      BY <2>1 DEF InQueue
    <3>2. queues = {i}
      BY <3>1 DEF QueuedOnce
    <3> QED BY <2>1, <3>2, FS_Singleton
  <2>2. CASE ~InQueue(v, r)
    <3>1. queues = {}
      BY <2>2 DEF InQueue
    <3> QED BY <2>2, <3>1, FS_EmptySet
  <2> QED BY <2>1, <2>2
<1>3. Held(v, r) = (IF InCall(v, r) THEN 1 ELSE 0) + Cardinality(hosts) + Cardinality(queues)
  BY DEF Held, InCall
<1> QED BY <1>1, <1>2, <1>3 DEF OnePlace

\* With any number of VMs, disks, requests and boots, guest and host agree on what is open and
\* under way, but for the answer of another VM, a message without memory and a boot that ended
\* with requests in the host.
THEOREM BlocksStayExact == Spec => []BlocksExact
<1>1. IInv => CountsAgree
  BY DEF IInv, VmKept, CountsKept, Agree, CountsAgree
<1>2. IInv => SegmentsExact
  BY HeldIsPlaces DEF IInv, VmKept, SegmentsKept, SegmentsExact
<1>3. IInv => BootsApart
  BY DEF IInv, VmKept, BootsKept, BootsApart
<1>4. IInv => BlocksExact
  BY <1>1, <1>2, <1>3 DEF BlocksExact
<1> QED BY Invariance, <1>4, PTL

-----------------------------------------------------------------------------
(* The SCSI devices.  While no two threads met in get_next_entry, an entry  *)
(* is free, or of one thread, or of one work item (EntryKept); a command is *)
(* in its thread, in one entry or in one message (CommandKept).             *)

Entries == Scsi!Entries
EntryRecord ==
    [in_use : BOOLEAN, at : {"idle", "queued", "good", "error", "sent"},
     vm : ScsiVms \cup {None}, cmd : Commands \cup {None}, boot : Nat, left : Int]
Message == [cmd : Commands, boot : Nat, at : {"good", "error"}]

ScsiTypes ==
    /\ command \in [ScsiVms -> [Commands -> {"none", "sent", "good", "error"}]]
    /\ os_handle \in [ScsiVms -> BOOLEAN]
    /\ pc \in [ScsiVms -> {"guest", "next", "wrap", "scan", "take", "submit"}]
    /\ cur \in [ScsiVms -> Commands \cup {None}]
    /\ s_r \in [ScsiVms -> Nat] /\ next_entry \in Nat
    /\ io_queue \in [Entries -> EntryRecord]
    /\ file \in [ScsiVms -> {"none", "open", "stale"}]
    /\ opened \in [ScsiVms -> Int]
    /\ resize \in [ScsiVms -> BOOLEAN] /\ unsized \in [ScsiVms -> BOOLEAN]
    /\ s_vm \in [ScsiVms -> {"runs", "flushed", "freed"}] /\ s_boot \in [ScsiVms -> Nat]
    /\ s_irq \in [ScsiVms -> Seq(Message)]
    /\ s_raced \in BOOLEAN /\ s_dirty \in [ScsiVms -> BOOLEAN]
    /\ s_lost \in [ScsiVms -> BOOLEAN] /\ s_corrupt \in [ScsiVms -> BOOLEAN]

\* A thread in the host has a command, and an entry of the queue from its claim on; only a VM
\* that runs has one.
ThreadKept(v) ==
    /\ pc[v] = "guest" <=> cur[v] = None
    /\ pc[v] \in {"wrap", "scan", "take", "submit"} => s_r[v] \in Entries
    /\ s_vm[v] # "runs" => pc[v] = "guest"

Taker(v, e) == pc[v] = "submit" /\ s_r[v] = e

\* An entry is marked by the one thread that is about to submit it, or holds a command.
EntryKept(e) ==
    /\ io_queue[e].at = "idle" => (io_queue[e].in_use <=> \E v \in ScsiVms : Taker(v, e))
    /\ \A v, w \in ScsiVms : Taker(v, e) /\ Taker(w, e) => v = w
    /\ io_queue[e].at # "idle" =>
        /\ io_queue[e].in_use /\ \A v \in ScsiVms : ~Taker(v, e)
        /\ io_queue[e].vm \in ScsiVms /\ io_queue[e].cmd \in Commands

\* Unless a boot ended with commands in the host, what is there and in the queue is of this
\* boot, and of a boot that runs.
BootKept(v) == ~s_dirty[v] =>
    /\ ~s_corrupt[v]
    /\ \A e \in Entries : io_queue[e].at # "idle" /\ io_queue[e].vm = v =>
          io_queue[e].boot = s_boot[v] /\ s_vm[v] = "runs"
    /\ \A i \in DOMAIN s_irq[v] : s_irq[v][i].boot = s_boot[v]
    /\ s_vm[v] # "runs" => s_irq[v] = <<>> /\ \A c \in Commands : command[v][c] = "none"

\* Where a command can be.
Carries(e, v, c) ==
    io_queue[e].at \in {"queued", "good", "error"} /\ io_queue[e].vm = v /\ io_queue[e].cmd = c
Carried(v, c) == \E e \in Entries : Carries(e, v, c)
Told(v, c) == \E i \in DOMAIN s_irq[v] : s_irq[v][i].cmd = c

CommandKept(v, c) ==
    /\ command[v][c] = "sent" <=> cur[v] = c \/ Carried(v, c) \/ Told(v, c)
    /\ ~(cur[v] = c /\ Carried(v, c)) /\ ~(cur[v] = c /\ Told(v, c))
    /\ ~(Carried(v, c) /\ Told(v, c))
    /\ \A e, f \in Entries : Carries(e, v, c) /\ Carries(f, v, c) => e = f
    /\ \A i, j \in DOMAIN s_irq[v] : s_irq[v][i].cmd = c /\ s_irq[v][j].cmd = c => i = j

CommandsKept(v) ==
    s_vm[v] = "runs" /\ ~s_dirty[v] /\ ~s_lost[v] => \A c \in Commands : CommandKept(v, c)

\* Guest and host agree on the handle of a file that got its size.
HandleKept(v) ==
    /\ os_handle[v] => s_vm[v] = "runs"
    /\ ~unsized[v] =>
        /\ opened[v] = IF file[v] = "open" THEN 1 ELSE 0
        /\ s_vm[v] = "runs" => (os_handle[v] <=> file[v] = "open")

ScsiInv ==
    /\ ScsiTypes
    /\ \A v \in ScsiVms : HandleKept(v)
    /\ ~s_raced =>
        /\ \A v \in ScsiVms : ThreadKept(v) /\ BootKept(v) /\ CommandsKept(v)
        /\ \A e \in Entries : EntryKept(e)

LEMMA ScsiStarts == Scsi!Init => ScsiInv
<1> SUFFICES ASSUME Scsi!Init PROVE ScsiInv
  OBVIOUS
<1>1. ScsiTypes
  <2>1. Scsi!Free \in EntryRecord
    BY DEF Scsi!Free, EntryRecord
  <2>2. io_queue \in [Entries -> EntryRecord]
    BY <2>1 DEF Scsi!Init, Entries
  <2>3. s_irq \in [ScsiVms -> Seq(Message)]
    BY EmptySeq DEF Scsi!Init
  <2>4. command \in [ScsiVms -> [Commands -> {"none", "sent", "good", "error"}]]
    BY DEF Scsi!Init
  <2>5. /\ os_handle \in [ScsiVms -> BOOLEAN] /\ cur \in [ScsiVms -> Commands \cup {None}]
        /\ pc \in [ScsiVms -> {"guest", "next", "wrap", "scan", "take", "submit"}]
        /\ s_r \in [ScsiVms -> Nat] /\ next_entry \in Nat
        /\ file \in [ScsiVms -> {"none", "open", "stale"}] /\ opened \in [ScsiVms -> Int]
    BY DEF Scsi!Init
  <2>6. /\ resize \in [ScsiVms -> BOOLEAN] /\ unsized \in [ScsiVms -> BOOLEAN]
        /\ s_vm \in [ScsiVms -> {"runs", "flushed", "freed"}] /\ s_boot \in [ScsiVms -> Nat]
        /\ s_raced \in BOOLEAN /\ s_dirty \in [ScsiVms -> BOOLEAN]
        /\ s_lost \in [ScsiVms -> BOOLEAN] /\ s_corrupt \in [ScsiVms -> BOOLEAN]
    BY DEF Scsi!Init
  <2> QED BY <2>2, <2>3, <2>4, <2>5, <2>6 DEF ScsiTypes
<1>2. ASSUME NEW v \in ScsiVms
      PROVE  HandleKept(v) /\ ThreadKept(v) /\ BootKept(v) /\ CommandsKept(v)
  <2>1. HandleKept(v) /\ ThreadKept(v) /\ BootKept(v)
    BY DEF Scsi!Init, Scsi!Free, HandleKept, ThreadKept, BootKept, Entries
  <2>2. CommandsKept(v)
    BY ScsiAssumption DEF Scsi!Init, Scsi!Free, Entries, CommandsKept, CommandKept, Carried, Carries, Told
  <2> QED BY <2>1, <2>2
<1>3. \A e \in Entries : EntryKept(e)
  BY DEF Scsi!Init, Scsi!Free, Entries, EntryKept, Taker
<1> QED BY <1>1, <1>2, <1>3 DEF ScsiInv

\* The guest opens or closes its handle: nothing else changes.
LEMMA ScsiHandles ==
    ASSUME ScsiInv, NEW v \in ScsiVms, Scsi!HostOpen(v) \/ Scsi!HostClose(v)
    PROVE  ScsiInv'
<1>1. UNCHANGED <<command, pc, cur, s_r, next_entry, io_queue, s_vm, s_boot, s_irq, s_raced,
                  s_dirty, s_lost, s_corrupt>>
  BY DEF Scsi!HostOpen, Scsi!HostClose, Scsi!threadVars, Scsi!queueVars, Scsi!vmVars, Scsi!msgVars
<1>2. /\ os_handle' \in [ScsiVms -> BOOLEAN] /\ resize' \in [ScsiVms -> BOOLEAN]
      /\ file' \in [ScsiVms -> {"none", "open", "stale"}]
      /\ opened' \in [ScsiVms -> Int] /\ unsized' \in [ScsiVms -> BOOLEAN]
      /\ \A n \in ScsiVms \ {v} :
            /\ os_handle'[n] = os_handle[n] /\ unsized'[n] = unsized[n]
            /\ file'[n] = file[n] /\ opened'[n] = opened[n]
      /\ s_vm[v] = "runs"
      /\ ~unsized'[v] =>
            /\ ~unsized[v]
            /\ \/ os_handle'[v] = os_handle[v] /\ file'[v] = file[v] /\ opened'[v] = opened[v]
               \/ ~os_handle[v] /\ os_handle'[v] /\ file'[v] = "open" /\ opened'[v] = opened[v] + 1
               \/ /\ os_handle[v] /\ ~os_handle'[v]
                  /\ file[v] = "open" => file'[v] = "none" /\ opened'[v] = opened[v] - 1
  <2> USE DEF ScsiInv, ScsiTypes, Scsi!Runs, Scsi!Open, Scsi!OpenFails, Scsi!Close, Scsi!fileVars
  <2>1. CASE Scsi!HostOpen(v)
    <3>1. s_vm[v] = "runs" /\ ~os_handle[v]
      BY <2>1 DEF Scsi!HostOpen
    <3>2. CASE Scsi!Open(v) /\ os_handle' = [os_handle EXCEPT ![v] = TRUE]
      <4>1. /\ os_handle' \in [ScsiVms -> BOOLEAN] /\ os_handle'[v]
            /\ \A n \in ScsiVms \ {v} : os_handle'[n] = os_handle[n]
        BY <3>2
      <4>2. /\ resize' \in [ScsiVms -> BOOLEAN] /\ unsized' = unsized
            /\ file' \in [ScsiVms -> {"none", "open", "stale"}] /\ file'[v] = "open"
            /\ opened' \in [ScsiVms -> Int] /\ opened'[v] = opened[v] + 1
            /\ \A n \in ScsiVms \ {v} : file'[n] = file[n] /\ opened'[n] = opened[n]
        BY <3>2
      <4> QED BY <3>1, <4>1, <4>2
    <3>3. CASE UNCHANGED <<file, opened, resize, unsized, os_handle>>
      BY <3>1, <3>3
    <3>4. CASE /\ file' = [file EXCEPT ![v] = "open"] /\ opened' = [opened EXCEPT ![v] = @ + 1]
               /\ unsized' = [unsized EXCEPT ![v] = TRUE] /\ UNCHANGED <<resize, os_handle>>
      BY <3>1, <3>4
    <3>5. CASE /\ file' = [file EXCEPT ![v] = "stale"] /\ resize' = [resize EXCEPT ![v] = FALSE]
               /\ unsized' = [unsized EXCEPT ![v] = TRUE] /\ UNCHANGED <<opened, os_handle>>
      BY <3>1, <3>5
    <3> QED BY <2>1, <3>2, <3>3, <3>4, <3>5 DEF Scsi!HostOpen
  <2>2. CASE Scsi!HostClose(v)
    BY <2>2 DEF Scsi!HostClose
  <2> QED BY <2>1, <2>2
<1>3. ScsiTypes'
  BY <1>1, <1>2 DEF ScsiInv, ScsiTypes
<1>4. \A n \in ScsiVms : HandleKept(n)'
  BY <1>1, <1>2 DEF ScsiInv, ScsiTypes, HandleKept
<1>5. ~s_raced' => /\ \A n \in ScsiVms : ThreadKept(n)' /\ BootKept(n)' /\ CommandsKept(n)'
                   /\ \A e \in Entries : EntryKept(e)'
  BY <1>1 DEF ScsiInv, ThreadKept, BootKept, CommandsKept, CommandKept, Carried, Carries, Told,
     EntryKept, Taker
<1>6. Entries' = Entries
  BY DEF Entries, Scsi!Entries
<1> QED BY <1>3, <1>4, <1>5, <1>6 DEF ScsiInv

\* A thread that looks for an entry: only its place changes.
LEMMA ScsiSearches ==
    ASSUME ScsiInv, NEW v \in ScsiVms, Scsi!Claim(v) \/ Scsi!Wrap(v) \/ Scsi!Scan(v)
    PROVE  ScsiInv'
<1>1. /\ UNCHANGED <<command, os_handle, cur, io_queue, file, opened, resize, unsized, s_vm, s_boot,
                     s_irq, s_dirty, s_lost, s_corrupt>>
      /\ ~s_raced /\ s_raced' \in BOOLEAN /\ next_entry' \in Nat
      /\ pc' \in [ScsiVms -> {"guest", "next", "wrap", "scan", "take", "submit"}]
      /\ s_r' \in [ScsiVms -> Nat]
      /\ pc[v] \in {"next", "wrap", "scan"} /\ pc'[v] \in {"wrap", "scan", "take"}
      /\ ~s_raced' /\ (pc[v] = "next" \/ s_r[v] \in Entries) => s_r'[v] \in Entries
      /\ \A n \in ScsiVms \ {v} : pc'[n] = pc[n] /\ s_r'[n] = s_r[n]
  <2> USE DEF ScsiInv, ScsiTypes, Scsi!Goto, Scsi!guestVars, Scsi!fileVars, Scsi!vmVars, Scsi!msgVars,
      Scsi!queueVars, Entries
  <2>1. CASE Scsi!Claim(v)
    <3>1. s_r' = [s_r EXCEPT ![v] = next_entry] /\ next_entry' = next_entry + 1
      BY <2>1 DEF Scsi!Claim
    <3>2. /\ s_r' \in [ScsiVms -> Nat] /\ s_r'[v] = next_entry /\ next_entry' \in Nat
          /\ \A n \in ScsiVms \ {v} : s_r'[n] = s_r[n]
      BY <3>1
    <3> QED BY <2>1, <3>2 DEF Scsi!Claim
  <2>2. CASE Scsi!Wrap(v)
    BY <2>2 DEF Scsi!Wrap
  <2>3. CASE Scsi!Scan(v)
    <3>1. PICK e \in Entries : s_r' = [s_r EXCEPT ![v] = e]
      BY <2>3 DEF Scsi!Scan
    <3>2. e \in Nat
      BY ScsiAssumption DEF Scsi!Entries
    <3> QED BY <2>3, <3>1, <3>2 DEF Scsi!Scan
  <2> QED BY <2>1, <2>2, <2>3
<1>2. ScsiTypes' /\ Entries' = Entries
  BY <1>1 DEF ScsiInv, ScsiTypes, Entries, Scsi!Entries
<1>3. \A n \in ScsiVms : HandleKept(n)'
  BY <1>1 DEF ScsiInv, HandleKept
<1>4. ASSUME ~s_raced', NEW n \in ScsiVms PROVE ThreadKept(n)' /\ BootKept(n)' /\ CommandsKept(n)'
  <2>1. ThreadKept(n)'
    BY <1>1, <1>2, <1>4 DEF ScsiInv, ThreadKept
  <2>2. BootKept(n)'
    BY <1>1, <1>2 DEF ScsiInv, BootKept
  <2>3. CommandsKept(n)'
    BY <1>1, <1>2 DEF ScsiInv, CommandsKept, CommandKept, Carried, Carries, Told
  <2> QED BY <2>1, <2>2, <2>3
<1>5. ASSUME ~s_raced', NEW e \in Entries PROVE EntryKept(e)'
  <2>1. \A n \in ScsiVms : Taker(n, e)' <=> Taker(n, e)
    BY <1>1 DEF Taker
  <2> QED BY <1>1, <2>1 DEF ScsiInv, EntryKept
<1> QED BY <1>2, <1>3, <1>4, <1>5 DEF ScsiInv

\* Only one entry changes.
EntryOnly(e) ==
    /\ io_queue' \in [Entries -> EntryRecord]
    /\ \A f \in Entries \ {e} : io_queue'[f] = io_queue[f]

\* A thread marks the entry it found.
LEMMA ScsiTakes ==
    ASSUME ScsiInv, NEW v \in ScsiVms, Scsi!Take(v)
    PROVE  ScsiInv'
<1> DEFINE e == s_r[v]
<1>0. ~s_raced /\ ThreadKept(v) /\ e \in Entries /\ EntryKept(e)
  BY DEF ScsiInv, Scsi!Take, ThreadKept
<1>1. /\ UNCHANGED <<command, os_handle, cur, s_r, next_entry, file, opened, resize, unsized, s_vm,
                     s_boot, s_irq, s_dirty, s_lost, s_corrupt>>
      /\ s_raced' = io_queue[e].in_use
      /\ pc' \in [ScsiVms -> {"guest", "next", "wrap", "scan", "take", "submit"}]
      /\ pc[v] = "take" /\ pc'[v] = "submit"
      /\ \A n \in ScsiVms \ {v} : pc'[n] = pc[n]
  BY DEF Scsi!Take, ScsiInv, ScsiTypes, Scsi!Goto, Scsi!guestVars, Scsi!fileVars, Scsi!vmVars, Scsi!msgVars
<1>2. /\ EntryOnly(e) /\ io_queue'[e].in_use
      /\ io_queue'[e].at = io_queue[e].at /\ io_queue'[e].vm = io_queue[e].vm
      /\ io_queue'[e].cmd = io_queue[e].cmd /\ io_queue'[e].boot = io_queue[e].boot
  <2>1. io_queue \in [Entries -> EntryRecord] /\ s_raced' \in BOOLEAN
    BY <1>0, <1>1 DEF ScsiInv, ScsiTypes, EntryRecord
  <2>2. io_queue' = [io_queue EXCEPT ![e].in_use = TRUE]
    BY DEF Scsi!Take
  <2> HIDE DEF e
  <2> QED BY <1>0, <2>1, <2>2 DEF EntryOnly, EntryRecord
<1>3. ScsiTypes' /\ Entries' = Entries
  <2>1. s_raced' \in BOOLEAN
    BY <1>0, <1>1 DEF ScsiInv, ScsiTypes, EntryRecord
  <2> QED BY <1>1, <1>2, <2>1 DEF ScsiInv, ScsiTypes, Entries, Scsi!Entries, EntryOnly
<1>4. \A n \in ScsiVms : HandleKept(n)'
  BY <1>1 DEF ScsiInv, HandleKept
<1>5. \A f \in Entries : /\ io_queue'[f].at = io_queue[f].at /\ io_queue'[f].vm = io_queue[f].vm
                         /\ io_queue'[f].cmd = io_queue[f].cmd /\ io_queue'[f].boot = io_queue[f].boot
  BY <1>2 DEF EntryOnly
<1>6. ASSUME ~s_raced', NEW n \in ScsiVms PROVE ThreadKept(n)' /\ BootKept(n)' /\ CommandsKept(n)'
  <2>1. ThreadKept(n)'
    BY <1>0, <1>1, <1>3 DEF ScsiInv, ThreadKept
  <2>2. BootKept(n)'
    BY <1>0, <1>1, <1>3, <1>5 DEF ScsiInv, BootKept
  <2>3. CommandsKept(n)'
    BY <1>0, <1>1, <1>3, <1>5 DEF ScsiInv, CommandsKept, CommandKept, Carried, Carries, Told
  <2> QED BY <2>1, <2>2, <2>3
<1>7. ASSUME ~s_raced', NEW f \in Entries PROVE EntryKept(f)'
  <2>1. /\ Taker(v, f)' <=> f = e
        /\ ~Taker(v, f)
        /\ \A n \in ScsiVms \ {v} : Taker(n, f)' <=> Taker(n, f)
    BY <1>1 DEF Taker
  <2>2. CASE f = e
    <3>1. io_queue[e].at = "idle" /\ \A n \in ScsiVms : ~Taker(n, e)
      BY <1>0, <1>1, <1>7 DEF EntryKept
    <3> QED BY <1>2, <2>1, <2>2, <3>1 DEF EntryKept
  <2>3. CASE f # e
    <3>1. io_queue'[f] = io_queue[f] /\ EntryKept(f)
      BY <1>0, <1>2, <2>3 DEF ScsiInv, EntryOnly
    <3>2. \A n \in ScsiVms : Taker(n, f)' <=> Taker(n, f)
      BY <2>1, <2>3
    <3> QED BY <3>1, <3>2 DEF EntryKept
  <2> QED BY <2>2, <2>3
<1> QED BY <1>3, <1>4, <1>6, <1>7 DEF ScsiInv

\* The guest sends a command: it is in its thread.
LEMMA ScsiSends ==
    ASSUME ScsiInv, NEW v \in ScsiVms, NEW c \in Commands, Scsi!Send(v, c)
    PROVE  ScsiInv'
<1>1. /\ UNCHANGED <<os_handle, s_r, next_entry, io_queue, file, opened, resize, unsized, s_vm, s_boot,
                     s_irq, s_raced, s_dirty, s_lost, s_corrupt>>
      /\ command' = [command EXCEPT ![v][c] = "sent"]
      /\ pc[v] = "guest" /\ ~s_raced /\ s_vm[v] = "runs" /\ command[v][c] # "sent"
  BY DEF Scsi!Send, Scsi!Runs, Scsi!queueVars, Scsi!fileVars, Scsi!vmVars, Scsi!msgVars
<1>2. /\ command' \in [ScsiVms -> [Commands -> {"none", "sent", "good", "error"}]]
      /\ command'[v][c] = "sent"
      /\ \A d \in Commands \ {c} : command'[v][d] = command[v][d]
      /\ \A n \in ScsiVms \ {v} : command'[n] = command[n]
  BY <1>1 DEF ScsiInv, ScsiTypes
<1>3. /\ pc' \in [ScsiVms -> {"guest", "next", "wrap", "scan", "take", "submit"}]
      /\ cur' \in [ScsiVms -> Commands \cup {None}]
      /\ pc'[v] = "next" /\ cur'[v] = c
      /\ \A n \in ScsiVms \ {v} : pc'[n] = pc[n] /\ cur'[n] = cur[n]
  BY DEF Scsi!Send, Scsi!Goto, ScsiInv, ScsiTypes
<1>4. ScsiTypes' /\ Entries' = Entries
  BY <1>1, <1>2, <1>3 DEF ScsiInv, ScsiTypes, Entries, Scsi!Entries
<1>5. \A n \in ScsiVms : HandleKept(n)'
  BY <1>1 DEF ScsiInv, HandleKept
<1>6. ASSUME NEW n \in ScsiVms PROVE ThreadKept(n)' /\ BootKept(n)' /\ CommandsKept(n)'
  <2>1. ThreadKept(n)'
    BY <1>1, <1>3, <1>4, ScsiAssumption DEF ScsiInv, ThreadKept
  <2>2. BootKept(n)'
    BY <1>1, <1>2, <1>4 DEF ScsiInv, BootKept
  <2>3. ASSUME s_vm'[n] = "runs", ~s_dirty'[n], ~s_lost'[n], NEW d \in Commands
        PROVE  CommandKept(n, d)'
    <3>1. CommandKept(n, d)
      BY <1>1, <2>3 DEF ScsiInv, CommandsKept
    <3>2. (Carried(n, d)' <=> Carried(n, d)) /\ (Told(n, d)' <=> Told(n, d))
      BY <1>1, <1>4 DEF Carried, Carries, Told
    <3>3. n = v => cur[n] = None
      BY <1>1 DEF ScsiInv, ThreadKept
    <3>4. command'[n][d] = "sent" <=> cur'[n] = d \/ Carried(n, d)' \/ Told(n, d)'
      BY <1>2, <1>3, <3>1, <3>2, <3>3, ScsiAssumption DEF CommandKept
    <3>5. ~(cur'[n] = d /\ Carried(n, d)') /\ ~(cur'[n] = d /\ Told(n, d)')
      BY <1>1, <1>3, <3>1, <3>2 DEF CommandKept
    <3> QED BY <1>1, <1>4, <3>1, <3>2, <3>4, <3>5 DEF CommandKept, Carries
  <2> QED BY <2>1, <2>2, <2>3 DEF CommandsKept
<1>7. ASSUME NEW e \in Entries PROVE EntryKept(e)'
  <2>1. \A n \in ScsiVms : Taker(n, e)' <=> Taker(n, e)
    BY <1>1, <1>3 DEF Taker
  <2> QED BY <1>1, <2>1 DEF ScsiInv, EntryKept
<1> QED BY <1>4, <1>5, <1>6, <1>7 DEF ScsiInv

\* A thread submits its entry: the command is carried by it.
LEMMA ScsiSubmits ==
    ASSUME ScsiInv, NEW v \in ScsiVms, Scsi!Submit(v)
    PROVE  ScsiInv'
<1> DEFINE e == s_r[v]
           k == cur[v]
<1>0. /\ ~s_raced /\ pc[v] = "submit" /\ ThreadKept(v) /\ e \in Entries /\ EntryKept(e)
      /\ k \in Commands /\ s_vm[v] = "runs"
  BY DEF ScsiInv, ScsiTypes, Scsi!Submit, ThreadKept
<1>1. /\ UNCHANGED <<command, os_handle, s_r, next_entry, file, opened, resize, unsized, s_vm, s_boot,
                     s_irq, s_raced, s_dirty, s_lost, s_corrupt>>
      /\ pc' \in [ScsiVms -> {"guest", "next", "wrap", "scan", "take", "submit"}]
      /\ cur' \in [ScsiVms -> Commands \cup {None}]
      /\ pc'[v] = "guest" /\ cur'[v] = None
      /\ \A n \in ScsiVms \ {v} : pc'[n] = pc[n] /\ cur'[n] = cur[n]
  BY DEF Scsi!Submit, ScsiInv, ScsiTypes, Scsi!Goto, Scsi!guestVars, Scsi!fileVars, Scsi!vmVars,
     Scsi!msgVars
<1>2. /\ io_queue[e].at = "idle" /\ io_queue[e].in_use /\ Taker(v, e)
      /\ \A n \in ScsiVms \ {v} : ~Taker(n, e)
  BY <1>0 DEF EntryKept, Taker
<1>3. /\ EntryOnly(e) /\ io_queue'[e].in_use
      /\ io_queue'[e].at = "queued" /\ io_queue'[e].vm = v
      /\ io_queue'[e].cmd = k /\ io_queue'[e].boot = s_boot[v]
  <2>1. PICK m \in 1..Vectors : io_queue' = [io_queue EXCEPT ![e] =
           [@ EXCEPT !.at = "queued", !.vm = v, !.cmd = k, !.boot = s_boot[v], !.left = m]]
    BY DEF Scsi!Submit
  <2>2. m \in Int /\ s_boot[v] \in Nat /\ io_queue[e] \in EntryRecord /\ io_queue \in [Entries -> EntryRecord]
    BY <1>0, ScsiAssumption DEF ScsiInv, ScsiTypes
  <2>3. io_queue'[e] = [io_queue[e] EXCEPT !.at = "queued", !.vm = v, !.cmd = k, !.boot = s_boot[v],
                                           !.left = m]
    BY <1>0, <2>1, <2>2
  <2>4. io_queue'[e] \in EntryRecord
    BY <1>0, <2>2, <2>3 DEF EntryRecord
  <2>5. EntryOnly(e)
    BY <1>0, <2>1, <2>2, <2>3, <2>4 DEF EntryOnly
  <2> QED BY <1>2, <2>2, <2>3, <2>5 DEF EntryRecord
<1>4. ScsiTypes' /\ Entries' = Entries
  BY <1>0, <1>1, <1>3 DEF ScsiInv, ScsiTypes, Entries, Scsi!Entries, EntryOnly
<1>5. \A n \in ScsiVms : HandleKept(n)'
  BY <1>1 DEF ScsiInv, HandleKept
<1>6. ASSUME NEW n \in ScsiVms PROVE ThreadKept(n)' /\ BootKept(n)' /\ CommandsKept(n)'
  <2>1. ThreadKept(n)'
    BY <1>0, <1>1, <1>4 DEF ScsiInv, ThreadKept
  <2>2. BootKept(n)'
    BY <1>0, <1>1, <1>3, <1>4 DEF ScsiInv, BootKept, EntryOnly
  <2>3. ASSUME s_vm'[n] = "runs", ~s_dirty'[n], ~s_lost'[n], NEW d \in Commands
        PROVE  CommandKept(n, d)'
    <3>1. CommandKept(n, d)
      BY <1>0, <1>1, <2>3 DEF ScsiInv, CommandsKept
    <3>2. \A f \in Entries : Carries(f, n, d)' <=> Carries(f, n, d) \/ (f = e /\ n = v /\ d = k)
      BY <1>2, <1>3 DEF Carries, EntryOnly
    <3>3. Carried(n, d)' <=> Carried(n, d) \/ (n = v /\ d = k)
      BY <1>0, <1>4, <3>2 DEF Carried
    <3>4. Told(n, d)' <=> Told(n, d)
      BY <1>1 DEF Told
    <3>5. cur'[n] = d <=> cur[n] = d /\ ~(n = v /\ d = k)
      BY <1>1, ScsiAssumption
    <3>6. command'[n][d] = "sent" <=> cur'[n] = d \/ Carried(n, d)' \/ Told(n, d)'
      BY <1>1, <3>1, <3>3, <3>4, <3>5 DEF CommandKept
    <3>7. \A f, g \in Entries : Carries(f, n, d)' /\ Carries(g, n, d)' => f = g
      BY <3>1, <3>2 DEF CommandKept, Carried
    <3> QED BY <1>1, <1>4, <3>1, <3>3, <3>4, <3>5, <3>6, <3>7 DEF CommandKept
  <2> QED BY <2>1, <2>2, <2>3 DEF CommandsKept
<1>7. ASSUME NEW f \in Entries PROVE EntryKept(f)'
  <2>1. \A n \in ScsiVms : Taker(n, f)' <=> Taker(n, f) /\ n # v
    BY <1>1 DEF Taker
  <2>2. CASE f = e
    BY <1>0, <1>2, <1>3, <2>1, <2>2 DEF EntryKept
  <2>3. CASE f # e
    <3>1. io_queue'[f] = io_queue[f] /\ EntryKept(f)
      BY <1>0, <1>3, <2>3 DEF ScsiInv, EntryOnly
    <3>2. \A n \in ScsiVms : Taker(n, f)' <=> Taker(n, f)
      BY <1>1, <2>1, <2>3 DEF Taker
    <3> QED BY <3>1, <3>2 DEF EntryKept
  <2> QED BY <2>2, <2>3
<1> QED BY <1>4, <1>5, <1>6, <1>7 DEF ScsiInv

\* A vector is transferred, or the command ends: its entry keeps what it carries.
LEMMA ScsiTransfers ==
    ASSUME ScsiInv, NEW e \in Entries, NEW ok \in BOOLEAN, Scsi!Transfer(e, ok)
    PROVE  ScsiInv'
<1>1. /\ UNCHANGED <<command, os_handle, pc, cur, s_r, next_entry, file, opened, resize, unsized, s_vm,
                     s_boot, s_irq, s_raced, s_dirty, s_lost, s_corrupt>>
      /\ ~s_raced /\ io_queue[e].at = "queued"
  BY DEF Scsi!Transfer, Scsi!guestVars, Scsi!threadVars, Scsi!fileVars, Scsi!vmVars, Scsi!msgVars
<1>2. /\ EntryOnly(e)
      /\ io_queue'[e].at \in {"queued", "good", "error"}
      /\ io_queue'[e].in_use = io_queue[e].in_use /\ io_queue'[e].vm = io_queue[e].vm
      /\ io_queue'[e].cmd = io_queue[e].cmd /\ io_queue'[e].boot = io_queue[e].boot
  <2>1. io_queue[e] \in EntryRecord /\ io_queue \in [Entries -> EntryRecord]
    BY DEF ScsiInv, ScsiTypes
  <2> DEFINE fewer == [io_queue[e] EXCEPT !.left = io_queue[e].left - 1]
             ended == [io_queue[e] EXCEPT !.at = IF ok THEN "good" ELSE "error"]
             x == IF ok /\ io_queue[e].left > 1 THEN fewer ELSE ended
  <2>2. io_queue' = [io_queue EXCEPT ![e] = x]
    BY DEF Scsi!Transfer
  <2>3. /\ fewer \in EntryRecord /\ fewer.at = "queued" /\ fewer.in_use = io_queue[e].in_use
        /\ fewer.vm = io_queue[e].vm /\ fewer.cmd = io_queue[e].cmd /\ fewer.boot = io_queue[e].boot
    BY <1>1, <2>1 DEF EntryRecord
  <2>4. /\ ended \in EntryRecord /\ ended.at \in {"good", "error"}
        /\ ended.in_use = io_queue[e].in_use
        /\ ended.vm = io_queue[e].vm /\ ended.cmd = io_queue[e].cmd /\ ended.boot = io_queue[e].boot
    BY <2>1 DEF EntryRecord
  <2>5. x = fewer \/ x = ended
    OBVIOUS
  <2>6. io_queue'[e] = x /\ \A f \in Entries \ {e} : io_queue'[f] = io_queue[f]
    BY <2>1, <2>2
  <2> HIDE DEF fewer, ended, x
  <2>7. EntryOnly(e)
    BY <2>1, <2>2, <2>3, <2>4, <2>5, <2>6 DEF EntryOnly
  <2> QED BY <2>3, <2>4, <2>5, <2>6, <2>7
<1>3. ScsiTypes' /\ Entries' = Entries
  BY <1>1, <1>2 DEF ScsiInv, ScsiTypes, Entries, Scsi!Entries, EntryOnly
<1>4. \A n \in ScsiVms : HandleKept(n)'
  BY <1>1 DEF ScsiInv, HandleKept
<1>5. ASSUME NEW n \in ScsiVms PROVE ThreadKept(n)' /\ BootKept(n)' /\ CommandsKept(n)'
  <2>1. ThreadKept(n)'
    BY <1>1, <1>3 DEF ScsiInv, ThreadKept
  <2>2. BootKept(n)'
    BY <1>1, <1>2, <1>3 DEF ScsiInv, BootKept, EntryOnly
  <2>3. \A f \in Entries, d \in Commands : Carries(f, n, d)' <=> Carries(f, n, d)
    BY <1>1, <1>2 DEF Carries, EntryOnly
  <2>4. \A d \in Commands : (Carried(n, d)' <=> Carried(n, d)) /\ (Told(n, d)' <=> Told(n, d))
    BY <1>1, <1>3, <2>3 DEF Carried, Told
  <2>5. CommandsKept(n)'
    BY <1>1, <1>3, <2>3, <2>4 DEF ScsiInv, CommandsKept, CommandKept
  <2> QED BY <2>1, <2>2, <2>5
<1>6. ASSUME NEW f \in Entries PROVE EntryKept(f)'
  <2>1. \A n \in ScsiVms : Taker(n, f)' <=> Taker(n, f)
    BY <1>1 DEF Taker
  <2> QED BY <1>1, <1>2, <2>1 DEF ScsiInv, EntryKept, EntryOnly
<1> QED BY <1>3, <1>4, <1>5, <1>6 DEF ScsiInv

\* An entry is given back.
LEMMA ScsiFrees ==
    ASSUME ScsiInv, NEW e \in Entries, Scsi!FreeEntry(e)
    PROVE  ScsiInv'
<1>1. /\ UNCHANGED <<command, os_handle, pc, cur, s_r, next_entry, file, opened, resize, unsized, s_vm,
                     s_boot, s_irq, s_raced, s_dirty, s_lost, s_corrupt>>
      /\ ~s_raced /\ io_queue[e].at = "sent"
      /\ io_queue' = [io_queue EXCEPT ![e] = Scsi!Free]
  BY DEF Scsi!FreeEntry, Scsi!guestVars, Scsi!threadVars, Scsi!fileVars, Scsi!vmVars, Scsi!msgVars
<1>2. EntryOnly(e) /\ io_queue'[e].at = "idle" /\ ~io_queue'[e].in_use
  <2>1. Scsi!Free \in EntryRecord /\ Scsi!Free.at = "idle" /\ ~Scsi!Free.in_use
    BY DEF Scsi!Free, EntryRecord
  <2> QED BY <1>1, <2>1 DEF EntryOnly, ScsiInv, ScsiTypes
<1>3. ScsiTypes' /\ Entries' = Entries
  BY <1>1, <1>2 DEF ScsiInv, ScsiTypes, Entries, Scsi!Entries, EntryOnly
<1>4. \A n \in ScsiVms : HandleKept(n)'
  BY <1>1 DEF ScsiInv, HandleKept
<1>5. ASSUME NEW n \in ScsiVms PROVE ThreadKept(n)' /\ BootKept(n)' /\ CommandsKept(n)'
  <2>1. ThreadKept(n)'
    BY <1>1, <1>3 DEF ScsiInv, ThreadKept
  <2>2. BootKept(n)'
    BY <1>1, <1>2, <1>3 DEF ScsiInv, BootKept, EntryOnly
  <2>3. \A f \in Entries, d \in Commands : Carries(f, n, d)' <=> Carries(f, n, d)
    BY <1>1, <1>2 DEF Carries, EntryOnly
  <2>4. \A d \in Commands : (Carried(n, d)' <=> Carried(n, d)) /\ (Told(n, d)' <=> Told(n, d))
    BY <1>1, <1>3, <2>3 DEF Carried, Told
  <2>5. CommandsKept(n)'
    BY <1>1, <1>3, <2>3, <2>4 DEF ScsiInv, CommandsKept, CommandKept
  <2> QED BY <2>1, <2>2, <2>5
<1>6. ASSUME NEW f \in Entries PROVE EntryKept(f)'
  <2>1. \A n \in ScsiVms : Taker(n, f)' <=> Taker(n, f)
    BY <1>1 DEF Taker
  <2> QED BY <1>1, <1>2, <2>1 DEF ScsiInv, EntryKept, EntryOnly
<1> QED BY <1>3, <1>4, <1>5, <1>6 DEF ScsiInv

\* The message of a work item: the command goes from its entry to the queue of the guest, or
\* is lost.
LEMMA ScsiAnswers ==
    ASSUME ScsiInv, NEW e \in Entries, NEW kept \in BOOLEAN, Scsi!SendIntr(e, kept)
    PROVE  ScsiInv'
<1> DEFINE x == io_queue[e]
           v == x.vm
           m == [cmd |-> x.cmd, boot |-> x.boot, at |-> x.at]
<1>1. /\ UNCHANGED <<command, os_handle, pc, cur, s_r, next_entry, file, opened, resize, unsized, s_vm,
                     s_boot, s_raced, s_dirty>>
      /\ ~s_raced /\ x.at \in {"good", "error"}
      /\ io_queue' = [io_queue EXCEPT ![e].at = "sent"]
  BY DEF Scsi!SendIntr, Scsi!guestVars, Scsi!threadVars, Scsi!fileVars, Scsi!vmVars
<1>2. /\ v \in ScsiVms /\ x.cmd \in Commands /\ x.boot \in Nat /\ x \in EntryRecord
      /\ EntryKept(e) /\ BootKept(v)
  BY <1>1 DEF ScsiInv, ScsiTypes, EntryKept, EntryRecord
<1>3. /\ EntryOnly(e) /\ io_queue'[e].at = "sent"
      /\ io_queue'[e].in_use = x.in_use /\ io_queue'[e].vm = v
      /\ io_queue'[e].cmd = x.cmd /\ io_queue'[e].boot = x.boot
  BY <1>1, <1>2 DEF EntryOnly, ScsiInv, ScsiTypes, EntryRecord
<1>4. m \in Message
  BY <1>1, <1>2 DEF Message
<1>5. /\ s_irq' \in [ScsiVms -> Seq(Message)]
      /\ s_lost' \in [ScsiVms -> BOOLEAN] /\ s_corrupt' \in [ScsiVms -> BOOLEAN]
      /\ \A n \in ScsiVms \ {v} : /\ s_irq'[n] = s_irq[n] /\ s_lost'[n] = s_lost[n]
                                  /\ s_corrupt'[n] = s_corrupt[n]
      /\ ~s_lost'[v] => ~s_lost[v]
      /\ ~s_dirty[v] => /\ s_corrupt'[v] = s_corrupt[v]
                        /\ s_irq'[v] = s_irq[v] \/ s_irq'[v] = Append(s_irq[v], m)
                        /\ ~s_lost'[v] => s_irq'[v] = Append(s_irq[v], m)
  <2>1. CASE s_vm[v] = "freed" \/ x.boot # s_boot[v]
    <3>1. s_corrupt' = [s_corrupt EXCEPT ![v] = TRUE] /\ s_irq' = s_irq /\ s_lost' = s_lost
      BY <2>1 DEF Scsi!SendIntr
    <3>2. s_dirty[v]
      BY <1>1, <1>2, <2>1 DEF BootKept
    <3> QED BY <1>2, <3>1, <3>2 DEF ScsiInv, ScsiTypes
  <2>2. CASE ~(s_vm[v] = "freed" \/ x.boot # s_boot[v])
    <3>1. /\ s_irq' = IF kept THEN [s_irq EXCEPT ![v] = Append(@, m)] ELSE s_irq
          /\ s_lost' = [s_lost EXCEPT ![v] = @ \/ ~kept]
          /\ s_corrupt' = s_corrupt
      BY <2>2 DEF Scsi!SendIntr
    <3>2. s_irq[v] \in Seq(Message) /\ Append(s_irq[v], m) \in Seq(Message)
      BY <1>2, <1>4, AppendProperties DEF ScsiInv, ScsiTypes
    <3> HIDE DEF m, v
    <3> QED BY <1>2, <3>1, <3>2 DEF ScsiInv, ScsiTypes
  <2> QED BY <2>1, <2>2
<1>6. ScsiTypes' /\ Entries' = Entries
  BY <1>1, <1>3, <1>5 DEF ScsiInv, ScsiTypes, Entries, Scsi!Entries, EntryOnly
<1>7. \A n \in ScsiVms : HandleKept(n)'
  BY <1>1 DEF ScsiInv, HandleKept
<1>8. /\ s_irq[v] \in Seq(Message)
      /\ DOMAIN Append(s_irq[v], m) = 1..Len(s_irq[v]) + 1 /\ DOMAIN s_irq[v] = 1..Len(s_irq[v])
      /\ Len(s_irq[v]) \in Nat
      /\ \A i \in DOMAIN s_irq[v] : Append(s_irq[v], m)[i] = s_irq[v][i]
      /\ Append(s_irq[v], m)[Len(s_irq[v]) + 1] = m
  BY <1>2, <1>4 DEF ScsiInv, ScsiTypes
<1>9. ASSUME NEW n \in ScsiVms PROVE ThreadKept(n)' /\ BootKept(n)' /\ CommandsKept(n)'
  <2>1. ThreadKept(n)'
    BY <1>1, <1>6 DEF ScsiInv, ThreadKept
  <2>2. BootKept(n)'
    <3>1. ASSUME ~s_dirty[n], NEW f \in Entries, io_queue'[f].at # "idle", io_queue'[f].vm = n
          PROVE  io_queue'[f].boot = s_boot[n] /\ s_vm[n] = "runs"
      BY <1>1, <1>3, <3>1 DEF ScsiInv, BootKept, EntryOnly
    <3>2. CASE n = v
      <4> SUFFICES ASSUME ~s_dirty[v]
                   PROVE  /\ ~s_corrupt'[v]
                          /\ \A i \in DOMAIN s_irq'[v] : s_irq'[v][i].boot = s_boot[v]
                          /\ s_vm[v] = "runs"
        BY <1>1, <1>6, <3>1, <3>2 DEF BootKept
      <4>1. x.boot = s_boot[v] /\ s_vm[v] = "runs" /\ ~s_corrupt[v]
        BY <1>1, <1>2 DEF BootKept
      <4>2. \A i \in DOMAIN s_irq[v] : s_irq[v][i].boot = s_boot[v]
        BY <1>2 DEF BootKept
      <4>3. m.boot = s_boot[v]
        BY <4>1
      <4>4. \A i \in DOMAIN s_irq'[v] : s_irq'[v][i].boot = s_boot[v]
        <5> HIDE DEF m, v, x
        <5>1. CASE s_irq'[v] = s_irq[v]
          BY <4>2, <5>1
        <5>2. CASE s_irq'[v] = Append(s_irq[v], m)
          BY <1>8, <4>2, <4>3, <5>2
        <5> QED BY <1>5, <5>1, <5>2
      <4> QED BY <1>5, <4>1, <4>4
    <3>3. CASE n # v
      <4>1. BootKept(n)
        BY <1>1 DEF ScsiInv
      <4>2. s_irq'[n] = s_irq[n] /\ s_corrupt'[n] = s_corrupt[n]
        BY <1>5, <3>3
      <4> QED BY <1>1, <1>6, <3>1, <4>1, <4>2 DEF BootKept
    <3> QED BY <3>2, <3>3
  <2>3. ASSUME s_vm'[n] = "runs", ~s_dirty'[n], ~s_lost'[n], NEW d \in Commands
        PROVE  CommandKept(n, d)'
    <3>1. CommandKept(n, d)
      BY <1>1, <1>5, <2>3 DEF ScsiInv, CommandsKept
    <3>2. \A f \in Entries : Carries(f, n, d)' <=> Carries(f, n, d) /\ f # e
      BY <1>1, <1>3 DEF Carries, EntryOnly
    <3>3. Carries(e, n, d) <=> n = v /\ d = x.cmd
      BY <1>1 DEF Carries
    <3>4. CASE n = v /\ d = x.cmd
      <4>1. ~Carried(n, d)' /\ Carried(n, d) /\ ~Told(n, d)
        BY <1>6, <3>1, <3>2, <3>3, <3>4 DEF CommandKept, Carried
      <4>2. s_irq'[n] = Append(s_irq[n], m)
        BY <1>1, <1>5, <2>3, <3>4
      <4>3. Told(n, d)'
        BY <1>8, <3>4, <4>2 DEF Told
      <4>4. \A i, j \in DOMAIN s_irq'[n] : s_irq'[n][i].cmd = d /\ s_irq'[n][j].cmd = d => i = j
        <5>1. \A i \in DOMAIN s_irq'[n] : s_irq'[n][i].cmd = d => i = Len(s_irq[n]) + 1
          BY <1>8, <3>4, <4>1, <4>2 DEF Told
        <5> QED BY <5>1
      <4>5. \A f, g \in Entries : ~Carries(f, n, d)'
        BY <1>6, <4>1 DEF Carried
      <4> QED BY <1>1, <1>6, <3>1, <4>1, <4>3, <4>4, <4>5 DEF CommandKept
    <3>5. CASE ~(n = v /\ d = x.cmd)
      <4>1. \A f \in Entries : Carries(f, n, d)' <=> Carries(f, n, d)
        BY <3>2, <3>3, <3>5
      <4>2. Carried(n, d)' <=> Carried(n, d)
        BY <1>6, <4>1 DEF Carried
      <4>3. /\ Told(n, d)' <=> Told(n, d)
            /\ \A i, j \in DOMAIN s_irq'[n] : s_irq'[n][i].cmd = d /\ s_irq'[n][j].cmd = d => i = j
        <5>1. CASE s_irq'[n] = s_irq[n]
          BY <3>1, <5>1 DEF Told, CommandKept
        <5>2. CASE n = v /\ s_irq'[n] = Append(s_irq[n], m)
          <6>1. m.cmd # d
            BY <3>5, <5>2
          <6>2. \A i \in DOMAIN s_irq'[n] : s_irq'[n][i].cmd = d =>
                  i \in DOMAIN s_irq[n] /\ s_irq[n][i].cmd = d
            BY <1>8, <5>2, <6>1
          <6>3. \A i \in DOMAIN s_irq[n] : i \in DOMAIN s_irq'[n] /\ s_irq'[n][i] = s_irq[n][i]
            BY <1>8, <5>2
          <6> QED BY <3>1, <6>2, <6>3 DEF Told, CommandKept
        <5> QED BY <1>1, <1>5, <2>3, <5>1, <5>2
      <4> QED BY <1>1, <1>6, <3>1, <4>1, <4>2, <4>3 DEF CommandKept
    <3> QED BY <3>4, <3>5
  <2> QED BY <2>1, <2>2, <2>3 DEF CommandsKept
<1>10. ASSUME NEW f \in Entries PROVE EntryKept(f)'
  <2>1. \A n \in ScsiVms : Taker(n, f)' <=> Taker(n, f)
    BY <1>1 DEF Taker
  <2> QED BY <1>1, <1>2, <1>3, <2>1 DEF ScsiInv, EntryKept, EntryOnly
<1> QED BY <1>6, <1>7, <1>9, <1>10 DEF ScsiInv

\* The guest takes a message: the command ends.
LEMMA ScsiEnds ==
    ASSUME ScsiInv, NEW v \in ScsiVms, Scsi!Interrupt(v)
    PROVE  ScsiInv'
<1> DEFINE q == s_irq[v]
           k == Head(s_irq[v]).cmd
<1>1. /\ UNCHANGED <<os_handle, pc, cur, s_r, next_entry, io_queue, file, opened, resize, unsized, s_vm,
                     s_boot, s_raced, s_dirty, s_lost>>
      /\ ~s_raced /\ s_vm[v] = "runs" /\ q # <<>>
      /\ s_irq' = [s_irq EXCEPT ![v] = Tail(@)]
  BY DEF Scsi!Interrupt, Scsi!Runs, Scsi!threadVars, Scsi!queueVars, Scsi!fileVars, Scsi!vmVars
<1>2. /\ q \in Seq(Message) /\ Len(q) \in Nat \ {0} /\ DOMAIN q = 1..Len(q)
      /\ Head(q) = q[1] /\ q[1] \in Message /\ k \in Commands /\ Tail(q) \in Seq(Message)
      /\ DOMAIN Tail(q) = 1..Len(q) - 1
      /\ \A i \in 1..Len(q) - 1 : Tail(q)[i] = q[i + 1]
  <2>1. q \in Seq(Message) /\ q # <<>>
    BY <1>1 DEF ScsiInv, ScsiTypes
  <2>2. /\ Len(q) \in Nat \ {0} /\ DOMAIN q = 1..Len(q) /\ Head(q) = q[1] /\ q[1] \in Message
        /\ Tail(q) \in Seq(Message) /\ DOMAIN Tail(q) = 1..Len(q) - 1
    BY <2>1
  <2>3. \A i \in 1..Len(q) - 1 : Tail(q)[i] = q[i + 1]
    BY <2>1
  <2> QED BY <2>1, <2>2, <2>3 DEF Message
<1>3. /\ s_irq' \in [ScsiVms -> Seq(Message)] /\ s_irq'[v] = Tail(q)
      /\ \A n \in ScsiVms \ {v} : s_irq'[n] = s_irq[n]
  BY <1>1, <1>2 DEF ScsiInv, ScsiTypes
<1>4. /\ command' \in [ScsiVms -> [Commands -> {"none", "sent", "good", "error"}]]
      /\ s_corrupt' \in [ScsiVms -> BOOLEAN]
      /\ \A n \in ScsiVms \ {v} : command'[n] = command[n] /\ s_corrupt'[n] = s_corrupt[n]
      /\ ~s_dirty[v] => /\ s_corrupt'[v] = s_corrupt[v] /\ command'[v][k] # "sent"
                        /\ \A d \in Commands \ {k} : command'[v][d] = command[v][d]
  <2>1. CASE Head(q).boot # s_boot[v]
    <3>1. s_dirty[v]
      BY <1>1, <1>2, <2>1 DEF ScsiInv, BootKept
    <3>2. s_corrupt' = [s_corrupt EXCEPT ![v] = TRUE] /\ command' = command
      BY <2>1 DEF Scsi!Interrupt
    <3> QED BY <3>1, <3>2 DEF ScsiInv, ScsiTypes
  <2>2. CASE Head(q).boot = s_boot[v]
    <3>1. command' = [command EXCEPT ![v][k] = Head(q).at] /\ s_corrupt' = s_corrupt
      BY <2>2 DEF Scsi!Interrupt
    <3>2. Head(q).at \in {"good", "error"}
      BY <1>2 DEF Message
    <3> QED BY <1>2, <3>1, <3>2 DEF ScsiInv, ScsiTypes
  <2> QED BY <2>1, <2>2
<1> HIDE DEF q, k
<1>5. ScsiTypes' /\ Entries' = Entries
  BY <1>1, <1>3, <1>4 DEF ScsiInv, ScsiTypes, Entries, Scsi!Entries
<1>6. \A n \in ScsiVms : HandleKept(n)'
  BY <1>1 DEF ScsiInv, HandleKept
<1>7. ASSUME NEW n \in ScsiVms PROVE ThreadKept(n)' /\ BootKept(n)' /\ CommandsKept(n)'
  <2>1. ThreadKept(n)'
    BY <1>1, <1>5 DEF ScsiInv, ThreadKept
  <2>2. BootKept(n)'
    <3>1. BootKept(n)
      BY <1>1 DEF ScsiInv
    <3>2. CASE n = v
      <4>1. ~s_dirty[v] => \A i \in DOMAIN s_irq'[v] : s_irq'[v][i].boot = s_boot[v]
        BY <1>2, <1>3, <3>1, <3>2 DEF BootKept, q
      <4> QED BY <1>1, <1>4, <1>5, <3>1, <3>2, <4>1 DEF BootKept
    <3>3. CASE n # v
      BY <1>1, <1>3, <1>4, <1>5, <3>1, <3>3 DEF BootKept
    <3> QED BY <3>2, <3>3
  <2>3. ASSUME s_vm'[n] = "runs", ~s_dirty'[n], ~s_lost'[n], NEW d \in Commands
        PROVE  CommandKept(n, d)'
    <3>1. CommandKept(n, d)
      BY <1>1, <2>3 DEF ScsiInv, CommandsKept
    <3>2. Carried(n, d)' <=> Carried(n, d)
      BY <1>1, <1>5 DEF Carried, Carries
    <3>3. \A f \in Entries : Carries(f, n, d)' <=> Carries(f, n, d)
      BY <1>1 DEF Carries
    <3>4. CASE n # v
      <4>1. Told(n, d)' <=> Told(n, d)
        BY <1>3, <3>4 DEF Told
      <4> QED BY <1>1, <1>3, <1>4, <1>5, <3>1, <3>2, <3>3, <3>4, <4>1 DEF CommandKept
    <3>5. CASE n = v
      <4>1. \A i \in DOMAIN s_irq'[v] : i \in 1..Len(q) - 1 /\ s_irq'[v][i] = q[i + 1]
        BY <1>2, <1>3
      <4>2. \A i, j \in DOMAIN q : q[i].cmd = d /\ q[j].cmd = d => i = j
        BY <3>1, <3>5 DEF CommandKept, q
      <4>3. \A i, j \in DOMAIN s_irq'[v] : s_irq'[v][i].cmd = d /\ s_irq'[v][j].cmd = d => i = j
        <5> SUFFICES ASSUME NEW i \in DOMAIN s_irq'[v], NEW j \in DOMAIN s_irq'[v],
                            s_irq'[v][i].cmd = d, s_irq'[v][j].cmd = d
                     PROVE  i = j
          OBVIOUS
        <5>1. i + 1 \in DOMAIN q /\ j + 1 \in DOMAIN q
          BY <1>2, <4>1
        <5>2. q[i + 1].cmd = d /\ q[j + 1].cmd = d
          BY <4>1
        <5>3. i + 1 = j + 1
          BY <4>2, <5>1, <5>2
        <5> QED BY <1>2, <4>1, <5>3
      <4>4. Told(n, d)' <=> Told(n, d) /\ d # k
        <5>1. Told(n, d) <=> \E i \in DOMAIN q : q[i].cmd = d
          BY <3>5 DEF Told, q
        <5>2. Told(n, d)' <=> \E i \in DOMAIN s_irq'[v] : s_irq'[v][i].cmd = d
          BY <3>5 DEF Told
        <5>3. q[1].cmd = k /\ 1 \in DOMAIN q
          BY <1>2 DEF k, q
        <5>4. CASE d = k
          <6>1. ASSUME NEW i \in DOMAIN s_irq'[v], s_irq'[v][i].cmd = d PROVE FALSE
            <7>1. i + 1 \in DOMAIN q /\ q[i + 1].cmd = d
              BY <1>2, <4>1, <6>1
            <7>2. i + 1 = 1
              BY <4>2, <5>3, <5>4, <7>1
            <7> QED BY <1>2, <4>1, <7>2
          <6> QED BY <5>2, <5>4, <6>1
        <5>5. CASE d # k
          <6>1. ASSUME NEW i \in DOMAIN q, q[i].cmd = d
                PROVE  \E j \in DOMAIN s_irq'[v] : s_irq'[v][j].cmd = d
            <7>1. i # 1
              BY <5>3, <5>5, <6>1
            <7>2. i - 1 \in DOMAIN s_irq'[v] /\ (i - 1) + 1 = i
              BY <1>2, <1>3, <7>1
            <7>3. s_irq'[v][i - 1] = q[i]
              BY <4>1, <7>2
            <7> QED BY <6>1, <7>2, <7>3
          <6>2. ASSUME NEW i \in DOMAIN s_irq'[v], s_irq'[v][i].cmd = d
                PROVE  \E j \in DOMAIN q : q[j].cmd = d
            BY <1>2, <4>1, <6>2
          <6> QED BY <5>1, <5>2, <5>5, <6>1, <6>2
        <5> QED BY <5>4, <5>5
      <4>5. Told(n, k)
        BY <1>2, <3>5 DEF Told, k, q
      <4>6. command'[n][d] = "sent" <=> command[n][d] = "sent" /\ d # k
        BY <1>1, <1>4, <2>3, <3>5
      <4>7. command'[n][d] = "sent" <=> cur'[n] = d \/ Carried(n, d)' \/ Told(n, d)'
        BY <1>1, <3>1, <3>2, <4>4, <4>5, <4>6 DEF CommandKept
      <4> QED BY <1>1, <1>5, <3>1, <3>2, <3>3, <3>5, <4>3, <4>4, <4>7 DEF CommandKept
    <3> QED BY <3>4, <3>5
  <2> QED BY <2>1, <2>2, <2>3 DEF CommandsKept
<1>8. ASSUME NEW e \in Entries PROVE EntryKept(e)'
  <2>1. \A n \in ScsiVms : Taker(n, e)' <=> Taker(n, e)
    BY <1>1 DEF Taker
  <2> QED BY <1>1, <2>1 DEF ScsiInv, EntryKept
<1> QED BY <1>5, <1>6, <1>7, <1>8 DEF ScsiInv

\* A boot ends: the guest forgets its commands, and the host has none of them unless the boot
\* is marked.
LEMMA ScsiFlushes ==
    ASSUME ScsiInv, NEW v \in ScsiVms, Scsi!Flush(v)
    PROVE  ScsiInv'
<1>1. /\ UNCHANGED <<pc, cur, s_r, next_entry, io_queue, file, opened, resize, unsized, s_boot, s_raced,
                     s_lost, s_corrupt>>
      /\ ~s_raced /\ s_vm[v] = "runs" /\ pc[v] = "guest"
  BY DEF Scsi!Flush, Scsi!Runs, Scsi!threadVars, Scsi!queueVars, Scsi!fileVars
<1>2. /\ s_vm' \in [ScsiVms -> {"runs", "flushed", "freed"}] /\ s_vm'[v] = "flushed"
      /\ s_irq' \in [ScsiVms -> Seq(Message)] /\ s_irq'[v] = <<>>
      /\ \A n \in ScsiVms \ {v} : s_vm'[n] = s_vm[n] /\ s_irq'[n] = s_irq[n]
  BY EmptySeq DEF Scsi!Flush, ScsiInv, ScsiTypes
<1>3. /\ command' \in [ScsiVms -> [Commands -> {"none", "sent", "good", "error"}]]
      /\ \A c \in Commands : command'[v][c] = "none"
      /\ os_handle' \in [ScsiVms -> BOOLEAN] /\ ~os_handle'[v]
      /\ \A n \in ScsiVms \ {v} : command'[n] = command[n] /\ os_handle'[n] = os_handle[n]
  <2>1. command' = [command EXCEPT ![v] = [c \in Commands |-> "none"]]
    BY DEF Scsi!Flush
  <2>2. [c \in Commands |-> "none"] \in [Commands -> {"none", "sent", "good", "error"}]
    OBVIOUS
  <2>3. os_handle' = [os_handle EXCEPT ![v] = FALSE]
    BY DEF Scsi!Flush
  <2> QED BY <2>1, <2>2, <2>3 DEF ScsiInv, ScsiTypes
<1>4. /\ s_dirty' \in [ScsiVms -> BOOLEAN]
      /\ \A n \in ScsiVms \ {v} : s_dirty'[n] = s_dirty[n]
      /\ ~s_dirty'[v] => ~s_dirty[v] /\ \A e \in Entries : io_queue[e].vm # v
  <2>1. s_dirty' = [s_dirty EXCEPT ![v] = @ \/ Scsi!Busy(v)]
    BY DEF Scsi!Flush
  <2>2. Scsi!Busy(v) <=> \E e \in Entries : io_queue[e].vm = v
    BY DEF Scsi!Busy, Entries
  <2> HIDE DEF Scsi!Busy
  <2> QED BY <2>1, <2>2 DEF ScsiInv, ScsiTypes
<1>5. ScsiTypes' /\ Entries' = Entries
  BY <1>1, <1>2, <1>3, <1>4 DEF ScsiInv, ScsiTypes, Entries, Scsi!Entries
<1>6. \A n \in ScsiVms : HandleKept(n)'
  BY <1>1, <1>2, <1>3 DEF ScsiInv, HandleKept
<1>7. ASSUME NEW n \in ScsiVms PROVE ThreadKept(n)' /\ BootKept(n)' /\ CommandsKept(n)'
  <2>1. ThreadKept(n) /\ BootKept(n) /\ CommandsKept(n)
    BY <1>1 DEF ScsiInv
  <2>2. CASE n = v
    <3>1. ThreadKept(n)' /\ CommandsKept(n)'
      BY <1>1, <1>2, <1>5, <2>1, <2>2 DEF ThreadKept, CommandsKept
    <3>2. BootKept(n)'
      BY <1>1, <1>2, <1>3, <1>4, <1>5, <2>1, <2>2 DEF BootKept
    <3> QED BY <3>1, <3>2
  <2>3. CASE n # v
    <3>1. /\ s_vm'[n] = s_vm[n] /\ s_irq'[n] = s_irq[n] /\ command'[n] = command[n]
          /\ s_dirty'[n] = s_dirty[n]
      BY <1>2, <1>3, <1>4, <2>3
    <3>2. ThreadKept(n)' /\ BootKept(n)'
      BY <1>1, <1>5, <2>1, <3>1 DEF ThreadKept, BootKept
    <3>3. CommandsKept(n)'
      BY <1>1, <1>5, <2>1, <3>1 DEF CommandsKept, CommandKept, Carried, Carries, Told
    <3> QED BY <3>2, <3>3
  <2> QED BY <2>2, <2>3
<1>8. ASSUME NEW e \in Entries PROVE EntryKept(e)'
  <2>1. \A n \in ScsiVms : Taker(n, e)' <=> Taker(n, e)
    BY <1>1 DEF Taker
  <2> QED BY <1>1, <2>1 DEF ScsiInv, EntryKept
<1> QED BY <1>5, <1>6, <1>7, <1>8 DEF ScsiInv

\* The devices of a boot that ended are given back, and the VM boots again or is freed.
LEMMA ScsiUnregisters ==
    ASSUME ScsiInv, NEW v \in ScsiVms, Scsi!Reload(v) \/ Scsi!Destroy(v)
    PROVE  ScsiInv'
<1>1. /\ UNCHANGED <<command, os_handle, pc, cur, s_r, next_entry, io_queue, resize, unsized, s_raced,
                     s_dirty, s_lost, s_corrupt>>
      /\ s_vm[v] = "flushed"
  BY DEF Scsi!Reload, Scsi!Destroy, Scsi!Unregister, Scsi!guestVars, Scsi!threadVars, Scsi!queueVars,
     Scsi!msgVars
<1>2. /\ file' \in [ScsiVms -> {"none", "open", "stale"}] /\ file'[v] = "none"
      /\ opened' \in [ScsiVms -> Int]
      /\ opened'[v] = IF file[v] = "open" THEN opened[v] - 1 ELSE opened[v]
      /\ \A n \in ScsiVms \ {v} : file'[n] = file[n] /\ opened'[n] = opened[n]
  <2>1. /\ file' = [file EXCEPT ![v] = "none"]
        /\ opened' = IF file[v] = "open" THEN [opened EXCEPT ![v] = @ - 1] ELSE opened
    BY DEF Scsi!Reload, Scsi!Destroy, Scsi!Unregister
  <2> QED BY <2>1 DEF ScsiInv, ScsiTypes
<1>3. /\ s_vm' \in [ScsiVms -> {"runs", "flushed", "freed"}] /\ s_vm'[v] \in {"runs", "freed"}
      /\ s_boot' \in [ScsiVms -> Nat]
      /\ s_irq' \in [ScsiVms -> Seq(Message)] /\ s_irq'[v] \in {s_irq[v], <<>>}
      /\ \A n \in ScsiVms \ {v} : s_vm'[n] = s_vm[n] /\ s_boot'[n] = s_boot[n] /\ s_irq'[n] = s_irq[n]
  <2> USE DEF ScsiInv, ScsiTypes
  <2>1. CASE Scsi!Reload(v)
    <3>1. s_vm' = [s_vm EXCEPT ![v] = "runs"] /\ s_boot' = [s_boot EXCEPT ![v] = @ + 1] /\ s_irq' = s_irq
      BY <2>1 DEF Scsi!Reload, Scsi!msgVars
    <3> QED BY <3>1
  <2>2. CASE Scsi!Destroy(v)
    <3>1. s_vm' = [s_vm EXCEPT ![v] = "freed"] /\ s_irq' = [s_irq EXCEPT ![v] = <<>>] /\ s_boot' = s_boot
      BY <2>2 DEF Scsi!Destroy
    <3> QED BY <3>1, EmptySeq
  <2> QED BY <2>1, <2>2
<1>4. ScsiTypes' /\ Entries' = Entries
  BY <1>1, <1>2, <1>3 DEF ScsiInv, ScsiTypes, Entries, Scsi!Entries
<1>5. \A n \in ScsiVms : HandleKept(n)'
  BY <1>1, <1>2, <1>3 DEF ScsiInv, ScsiTypes, HandleKept
<1>6. ASSUME ~s_raced', NEW n \in ScsiVms PROVE ThreadKept(n)' /\ BootKept(n)' /\ CommandsKept(n)'
  <2>1. ThreadKept(n) /\ BootKept(n) /\ CommandsKept(n)
    BY <1>1, <1>6 DEF ScsiInv
  <2>2. ThreadKept(n)'
    BY <1>1, <1>3, <1>4, <2>1 DEF ThreadKept
  <2>3. CASE n = v
    <3>1. ~s_dirty[v] =>
             /\ ~s_corrupt[v] /\ s_irq[v] = <<>> /\ s_irq'[v] = <<>>
             /\ \A e \in Entries : ~(io_queue[e].at # "idle" /\ io_queue[e].vm = v)
             /\ \A c \in Commands : command[v][c] = "none"
      BY <1>1, <1>3, <2>1, <2>3 DEF BootKept
    <3>2. BootKept(n)'
      BY <1>1, <1>4, <2>3, <3>1 DEF BootKept
    <3>3. ~s_dirty[v] => \A c \in Commands : CommandKept(v, c)'
      <4> SUFFICES ASSUME ~s_dirty[v], NEW c \in Commands PROVE CommandKept(v, c)'
        OBVIOUS
      <4>1. \A e \in Entries : ~Carries(e, v, c)'
        BY <1>1, <3>1 DEF Carries
      <4>2. ~Carried(v, c)' /\ ~Told(v, c)' /\ DOMAIN s_irq'[v] = {}
        BY <1>4, <3>1, <4>1 DEF Carried, Told
      <4>3. cur'[v] # c
        BY <1>1, <2>1, <2>3, ScsiAssumption DEF ThreadKept
      <4>4. command'[v][c] # "sent"
        BY <1>1, <3>1
      <4> QED BY <1>4, <4>1, <4>2, <4>3, <4>4 DEF CommandKept
    <3>4. CommandsKept(n)'
      BY <1>1, <2>3, <3>3 DEF CommandsKept
    <3> QED BY <2>2, <3>2, <3>4
  <2>4. CASE n # v
    <3>1. s_vm'[n] = s_vm[n] /\ s_boot'[n] = s_boot[n] /\ s_irq'[n] = s_irq[n]
      BY <1>3, <2>4
    <3>2. BootKept(n)'
      BY <1>1, <1>4, <2>1, <3>1 DEF BootKept
    <3>3. CommandsKept(n)'
      BY <1>1, <1>4, <2>1, <3>1 DEF CommandsKept, CommandKept, Carried, Carries, Told
    <3> QED BY <2>2, <3>2, <3>3
  <2> QED BY <2>3, <2>4
<1>7. ASSUME ~s_raced', NEW e \in Entries PROVE EntryKept(e)'
  <2>1. \A n \in ScsiVms : Taker(n, e)' <=> Taker(n, e)
    BY <1>1 DEF Taker
  <2> QED BY <1>1, <1>7, <2>1 DEF ScsiInv, EntryKept
<1> QED BY <1>4, <1>5, <1>6, <1>7 DEF ScsiInv

LEMMA ScsiNext == ScsiInv /\ [Scsi!Next]_scsiVars => ScsiInv'
<1> SUFFICES ASSUME ScsiInv, [Scsi!Next]_scsiVars PROVE ScsiInv'
  OBVIOUS
<1>1. CASE UNCHANGED scsiVars
  <2>1. Entries' = Entries /\ ScsiTypes' /\ s_raced' = s_raced
    BY <1>1 DEF ScsiInv, ScsiTypes, scsiVars, Entries, Scsi!Entries
  <2>2. \A v \in ScsiVms : HandleKept(v)'
    BY <1>1 DEF ScsiInv, HandleKept, scsiVars
  <2>3. ~s_raced => \A v \in ScsiVms : ThreadKept(v)' /\ BootKept(v)'
    BY <1>1, <2>1 DEF ScsiInv, ThreadKept, BootKept, scsiVars
  <2>4. ~s_raced => \A v \in ScsiVms : CommandsKept(v)'
    BY <1>1, <2>1 DEF ScsiInv, CommandsKept, CommandKept, Carried, Carries, Told, scsiVars
  <2>5. ~s_raced => \A e \in Entries : EntryKept(e)'
    BY <1>1 DEF ScsiInv, EntryKept, Taker, scsiVars
  <2> QED BY <2>1, <2>2, <2>3, <2>4, <2>5 DEF ScsiInv
<1>2. CASE Scsi!Next
  <2>1. ASSUME NEW v \in ScsiVms,
               \/ Scsi!HostOpen(v) \/ Scsi!HostClose(v) \/ Scsi!Thread(v) \/ Scsi!Scan(v)
               \/ Scsi!Interrupt(v) \/ Scsi!Flush(v) \/ Scsi!Reload(v) \/ Scsi!Destroy(v)
               \/ \E c \in Commands : Scsi!Send(v, c)
        PROVE  ScsiInv'
    BY <2>1, ScsiHandles, ScsiSearches, ScsiTakes, ScsiSends, ScsiSubmits, ScsiEnds, ScsiFlushes,
       ScsiUnregisters DEF Scsi!Thread
  <2>2. ASSUME NEW e \in Entries, Scsi!Work(e) PROVE ScsiInv'
    BY <2>2, ScsiTransfers, ScsiAnswers, ScsiFrees DEF Scsi!Work
  <2> QED BY <1>2, <2>1, <2>2 DEF Scsi!Next, Entries
<1> QED BY <1>1, <1>2

\* A set with at most one element has that many.
LEMMA AtMostOne ==
    ASSUME NEW S, \A x, y \in S : x = y
    PROVE  Scsi!Cardinality(S) = IF S = {} THEN 0 ELSE 1
<1>1. Scsi!Cardinality(S) = Cardinality(S)
  BY DEF Scsi!Cardinality, Cardinality, Scsi!IsFiniteSet, IsFiniteSet
<1>2. S = {} \/ \E x : S = {x}
  OBVIOUS
<1> QED BY <1>1, <1>2, FS_EmptySet, FS_Singleton

\* Of the SCSI devices of any number of VMs, with any number of commands, vectors and boots and
\* a queue of any size: an entry is of one thread or of one work item, a command ends once, and
\* guest and host agree on the handle, but for the named races and failures (os/winnt/kernel/scsi.c).
THEOREM ScsiStaysExact == Scsi!Spec => []ScsiExact
<1>1. ScsiInv => Scsi!EntriesExact
  <2> SUFFICES ASSUME ScsiInv, ~s_raced, NEW e \in Entries
               PROVE  LET takers == {v \in ScsiVms : pc[v] = "submit" /\ s_r[v] = e}
                      IN  IF io_queue[e].at = "idle"
                          THEN Scsi!Cardinality(takers) = IF io_queue[e].in_use THEN 1 ELSE 0
                          ELSE io_queue[e].in_use /\ takers = {}
    BY DEF Scsi!EntriesExact, Entries
  <2> DEFINE takers == {v \in ScsiVms : pc[v] = "submit" /\ s_r[v] = e}
  <2>1. EntryKept(e)
    BY DEF ScsiInv
  <2>2. Scsi!Cardinality(takers) = IF takers = {} THEN 0 ELSE 1
    BY <2>1, AtMostOne DEF EntryKept, Taker
  <2>3. takers = {} <=> \A v \in ScsiVms : ~Taker(v, e)
    BY DEF Taker
  <2> QED BY <2>1, <2>2, <2>3 DEF EntryKept
<1>2. ScsiInv => Scsi!CommandsExact
  <2> SUFFICES ASSUME ScsiInv, NEW v \in ScsiVms, ~s_raced, s_vm[v] = "runs", ~s_dirty[v], ~s_lost[v],
                      NEW c \in Commands
               PROVE  Scsi!Held(v, c) = IF command[v][c] = "sent" THEN 1 ELSE 0
    BY DEF Scsi!CommandsExact
  <2> DEFINE entries == {e \in Entries : io_queue[e].at \in {"queued", "good", "error"}
                                           /\ io_queue[e].vm = v /\ io_queue[e].cmd = c}
             answers == {i \in DOMAIN s_irq[v] : s_irq[v][i].cmd = c}
  <2>1. CommandKept(v, c)
    BY DEF ScsiInv, CommandsKept
  <2>2. Scsi!Cardinality(entries) = IF Carried(v, c) THEN 1 ELSE 0
    <3>1. \A e, f \in entries : e = f
      BY <2>1 DEF CommandKept, Carries
    <3>2. entries = {} <=> ~Carried(v, c)
      BY DEF Carried, Carries
    <3> HIDE DEF entries
    <3> QED BY <3>1, <3>2, AtMostOne
  <2>3. Scsi!Cardinality(answers) = IF Told(v, c) THEN 1 ELSE 0
    <3>1. \A i, j \in answers : i = j
      BY <2>1 DEF CommandKept
    <3>2. answers = {} <=> ~Told(v, c)
      BY DEF Told
    <3> HIDE DEF answers
    <3> QED BY <3>1, <3>2, AtMostOne
  <2>4. Scsi!Held(v, c) = (IF cur[v] = c THEN 1 ELSE 0) + Scsi!Cardinality(entries)
                          + Scsi!Cardinality(answers)
    BY DEF Scsi!Held, Entries
  <2> HIDE DEF entries, answers
  <2> QED BY <2>1, <2>2, <2>3, <2>4 DEF CommandKept
<1>3. ScsiInv => Scsi!HandlesExact
  <2> SUFFICES ASSUME ScsiInv, NEW v \in ScsiVms, ~unsized[v]
               PROVE  /\ os_handle[v] => file[v] = "open"
                      /\ opened[v] = IF file[v] = "open" THEN 1 ELSE 0
    BY DEF Scsi!HandlesExact
  <2> QED BY DEF ScsiInv, HandleKept
<1>4. ScsiInv => Scsi!BootsApart
  BY DEF ScsiInv, BootKept, Scsi!BootsApart
<1>5. ScsiInv => ScsiExact
  BY <1>1, <1>2, <1>3, <1>4 DEF ScsiExact, Scsi!ScsiExact
<1>6. ScsiInv /\ [Scsi!Next]_(Scsi!vars) => ScsiInv'
  BY ScsiNext DEF scsiVars, Scsi!vars, Scsi!guestVars, Scsi!threadVars, Scsi!queueVars, Scsi!fileVars,
     Scsi!vmVars, Scsi!msgVars
<1> QED BY <1>5, <1>6, ScsiStarts, PTL DEF Scsi!Spec
=============================================================================
