--------------------------- MODULE ManagerProofs ---------------------------
(***************************************************************************)
(* Proofs about module Manager, for any number of handles, VMs and modules  *)
(* and for both ways the counts may be compiled.                            *)
(*                                                                         *)
(* The reference count of a descriptor is exact only because a slot never   *)
(* holds a stranger, a lock has one holder and a descriptor that is being   *)
(* closed is beyond reach; and no pointer is cleared under a call that uses *)
(* it only because the count is exact.  IInv states these facts together,   *)
(* and each lemma <Part>Next shows that no step breaks one of its parts.    *)
(***************************************************************************)
EXTENDS Manager, FiniteSetTheorems, TLAPS

-----------------------------------------------------------------------------
(* The inductive invariant.                                                *)

\* The points of the code under connected_modules_write_lock.
Holds(t, m) ==
    \/ pc[t] \in {"connect", "replace", "disconnect"} /\ monitor[t] = m
    \/ down_pc[t] = "eof" /\ down[t] = m

LockHolders == \A t \in Handles, m \in Owners : lock[m] = t <=> Holds(t, m)

\* The memory of a descriptor, while its handle or a count keeps it.
Memories ==
    \A X \in Handles :
        /\ pc[X] = "none" <=> desc[X] = "unused"
        /\ pc[X] = "none" => ref_count[X] = 0 /\ Closers(X) = {}
        /\ ref_count[X] > 0 => desc[X] = "live"

\* A descriptor is closed for good by one thread, when its count is zero.
LastCloser ==
    \A X \in Handles :
        /\ Closers(X) # {} => ref_count[X] = 0 /\ desc[X] = "live"
        /\ \A t, u \in Closers(X) : t = u

\* Which calls may be below which: a close inside a refdown is one of the end
\* messages, and a refdown is called by CO_MONITOR_IOCTL_CLOSE or by a close
\* that dropped a last reference.
Stack ==
    \A t \in Handles :
        /\ below[t] # None => down_pc[t] # "idle" /\ below[t] # closing[t]
        /\ down_pc[t] # "idle" => (below[t] = None <=> pc[t] = "ioctl_close")
        /\ close_pc[t] # "idle" /\ down_pc[t] # "idle" => down_pc[t] = "eof"
        /\ down_pc[t] # "idle" => pc[t] \in {"user", "gone", "ioctl_close"}
        /\ down_pc[t] = "idle" /\ close_pc[t] # "idle" =>
                pc[t] \in {"user", "replace", "disconnect", "gone"}
        /\ close_pc[t] # "idle" /\ pc[t] = "disconnect" => closing[t] = t
        /\ pc[t] \in {"attach_store", "attach", "connect", "replace"} => t \in Daemons

\* X is attached to monitor m and has not released its slots yet, or it has
\* cut itself off with CO_MONITOR_IOCTL_CLOSE.
Member(X, m) ==
    \/ /\ monitor[X] = m
       /\ pc[X] \in {"user", "connect", "replace", "send", "ioctl_close",
                     "deactive", "disconnect"}
    \/ monitor[X] = None /\ pc[X] \in {"closed", "last_close", "gone"}

SlotMembers ==
    \A m \in Owners, md \in Modules :
        connected_modules[m][md] # None => Member(connected_modules[m][md], m)

\* What the holder of the lock closes was in a slot it protects.
LockedMembers ==
    \A t \in Handles, m \in Owners :
        lock[m] = t /\ closing[t] # None => Member(closing[t], m)

IInv ==
    /\ TypeOK
    /\ RefCountExact
    /\ LockHolders
    /\ Memories
    /\ LastCloser
    /\ Stack
    /\ SlotMembers
    /\ LockedMembers

USE DEF Returned, At, Goto, Acquire, Release, CallClose, CallRefdown, CloseReturn,
        DownReturn, StoreCount, descVars, monVars, callVars, closeVars, downVars

-----------------------------------------------------------------------------
(* Counting.                                                               *)

\* The three sets a count of references adds up are finite.
LEMMA FiniteReferences ==
    ASSUME TypeOK, NEW X \in Handles
    PROVE  /\ IsFiniteSet(Senders(X)) /\ Cardinality(Senders(X)) \in Nat
           /\ IsFiniteSet(Releasers(X)) /\ Cardinality(Releasers(X)) \in Nat
           /\ IsFiniteSet(Slots(X)) /\ Cardinality(Slots(X)) \in Nat
<1>1. IsFiniteSet(Handles) /\ IsFiniteSet(Owners \X Modules)
  <2>1. IsFiniteSet(Owners)
    BY ManagerAssumption, FS_Subset, Owners \subseteq Handles DEF Handles
  <2> QED BY <2>1, ManagerAssumption, FS_Product
<1>2. /\ Senders(X) \subseteq Handles /\ Releasers(X) \subseteq Handles
      /\ Slots(X) \subseteq Owners \X Modules
  BY DEF Senders, Releasers, Slots
<1>3. IsFiniteSet(Senders(X)) /\ IsFiniteSet(Releasers(X)) /\ IsFiniteSet(Slots(X))
  BY <1>1, <1>2, FS_Subset
<1> QED BY <1>3, FS_CardinalityType

\* A count is zero exactly when nothing refers to the descriptor.
LEMMA Referencing ==
    ASSUME TypeOK, RefCountExact, NEW X \in Handles
    PROVE  ref_count[X] \in Nat /\ (ref_count[X] = 0 <=> ~Referenced(X))
<1>1. /\ Senders(X) = {} <=> Cardinality(Senders(X)) = 0
      /\ Releasers(X) = {} <=> Cardinality(Releasers(X)) = 0
      /\ Slots(X) = {} <=> Cardinality(Slots(X)) = 0
  BY FiniteReferences, FS_EmptySet
<1>2. ref_count[X] = References(X)
  BY DEF RefCountExact
<1>3. /\ Cardinality(Senders(X)) \in Nat
      /\ Cardinality(Releasers(X)) \in Nat
      /\ Cardinality(Slots(X)) \in Nat
  BY FiniteReferences
<1>4. ref_count[X] = 0 <=> /\ ~HandleOpen(X)
                           /\ Cardinality(Senders(X)) = 0
                           /\ Cardinality(Releasers(X)) = 0
                           /\ Cardinality(Slots(X)) = 0
  BY <1>2, <1>3 DEF References, Opens, HandleOpen
<1>5. ref_count[X] \in Nat
  BY <1>2, <1>3 DEF References, Opens, HandleOpen
<1> QED BY <1>1, <1>4, <1>5 DEF Referenced

\* A thread joins or leaves one of the sets of references.
LEMMA Counts ==
    ASSUME TypeOK, NEW X \in Handles, NEW e
    PROVE  /\ e \notin Senders(X) =>
                Cardinality(Senders(X) \cup {e}) = Cardinality(Senders(X)) + 1
           /\ e \in Senders(X) =>
                Cardinality(Senders(X) \ {e}) = Cardinality(Senders(X)) - 1
           /\ e \notin Releasers(X) =>
                Cardinality(Releasers(X) \cup {e}) = Cardinality(Releasers(X)) + 1
           /\ e \in Releasers(X) =>
                Cardinality(Releasers(X) \ {e}) = Cardinality(Releasers(X)) - 1
           /\ e \notin Slots(X) =>
                Cardinality(Slots(X) \cup {e}) = Cardinality(Slots(X)) + 1
           /\ e \in Slots(X) =>
                Cardinality(Slots(X) \ {e}) = Cardinality(Slots(X)) - 1
BY FiniteReferences, FS_AddElement, FS_RemoveElement

\* What the count of a descriptor adds up, as numbers.
LEMMA Counted ==
    ASSUME IInv, NEW X \in Handles
    PROVE  /\ ref_count[X] = References(X)
           /\ Opens(X) \in Nat /\ Cardinality(Senders(X)) \in Nat
           /\ Cardinality(Releasers(X)) \in Nat /\ Cardinality(Slots(X)) \in Nat
BY FiniteReferences DEF IInv, RefCountExact, Opens

\* A step that moves no reference.
KeepsReferences ==
    /\ ref_count' = ref_count
    /\ target' = target
    /\ connected_modules' = connected_modules
    /\ \A t \in Handles :
         /\ HandleOpen(t)' <=> HandleOpen(t)
         /\ close_pc'[t] = "dec" <=> close_pc[t] = "dec"
         /\ close_pc[t] = "dec" => closing'[t] = closing[t]
         /\ pc'[t] = "replace" <=> pc[t] = "replace"
         /\ pc[t] = "replace" => monitor'[t] = monitor[t] /\ md_cur'[t] = md_cur[t]

\* A step that moves no reference keeps every count exact.
LEMMA SameReferences == RefCountExact /\ KeepsReferences => RefCountExact'
<1> SUFFICES ASSUME RefCountExact, KeepsReferences, NEW X \in Handles
             PROVE  ref_count'[X] = References(X)'
  BY DEF RefCountExact
<1>1. Senders(X)' = Senders(X)
  BY DEF KeepsReferences, Senders
<1>2. Releasers(X)' = Releasers(X)
  BY DEF KeepsReferences, Releasers
<1>3. \A s : HandedOver(s)' <=> HandedOver(s)
  BY DEF KeepsReferences, HandedOver
<1>4. Slots(X)' = Slots(X)
  BY <1>3 DEF KeepsReferences, Slots
<1>5. Opens(X)' = Opens(X)
  BY DEF KeepsReferences, Opens
<1> QED BY <1>1, <1>2, <1>4, <1>5 DEF RefCountExact, KeepsReferences, References

-----------------------------------------------------------------------------
(* What the parts of the invariant say together.                           *)

\* Only the holder of connected_modules_write_lock hands a slot over.
LEMMA Exclusion ==
    ASSUME IInv, NEW m \in Owners, lock[m] # None, NEW md
    PROVE  HandedOver(<<m, md>>) => pc[lock[m]] = "replace" /\ md_cur[lock[m]] = md
BY DEF IInv, TypeOK, Types, LockHolders, Holds, HandedOver

\* Whoever dropped the last reference to a descriptor finds its handle closed
\* and is the only one that can reach it.
LEMMA CloserGone ==
    ASSUME IInv, NEW X \in Handles, NEW t \in Closers(X)
    PROVE  ref_count[X] = 0 /\ desc[X] = "live" /\ ~Referenced(X) /\ pc[X] = "gone"
<1>1. ref_count[X] = 0 /\ desc[X] = "live"
  BY DEF IInv, LastCloser
<1>2. ~Referenced(X)
  BY <1>1, Referencing DEF IInv
<1>3. pc[X] # "none"
  BY DEF IInv, Memories
<1> QED BY <1>1, <1>2, <1>3 DEF Referenced, HandleOpen

\* A close that drops a monitor runs outside the lock and outside a refdown.
LEMMA NoNested == IInv => NoNestedRefdown
<1> SUFFICES ASSUME IInv, NEW t \in Handles,
                    close_pc[t] = "close_", monitor[closing[t]] # None
             PROVE  down_pc[t] = "idle" /\ \A m \in Owners : lock[m] # t
  BY DEF NoNestedRefdown
<1> DEFINE X == closing[t]
<1>1. X \in Handles /\ pc[X] = "gone"
  <2>1. X \in Handles
    BY DEF IInv, TypeOK, Types, NonNull
  <2> QED BY <2>1, CloserGone DEF Closers
<1>2. \A m \in Owners : lock[m] # t
  BY <1>1 DEF IInv, LockedMembers, Member, TypeOK, NonNull
<1>3. down_pc[t] # "eof"
  BY <1>2 DEF IInv, LockHolders, Holds, TypeOK, Types, NonNull
<1> QED BY <1>2, <1>3 DEF IInv, Stack

\* The state in which a close calls co_monitor_refdown.
LEMMA CloseRefdownContext ==
    ASSUME IInv, NEW t \in Handles, CloseRefdown(t)
    PROVE  /\ closing[t] \in Handles
           /\ pc[closing[t]] = "gone"
           /\ \A m \in Owners : lock[m] # t
           /\ pc[t] \in {"user", "gone"}
<1>1. closing[t] \in Handles
  BY DEF IInv, TypeOK, Types, NonNull, CloseRefdown
<1>2. pc[closing[t]] = "gone"
  BY <1>1, CloserGone DEF Closers, CloseRefdown
<1>3. \A m \in Owners : lock[m] # t
  BY NoNested DEF NoNestedRefdown, CloseRefdown
<1>4. pc[t] \notin {"replace", "disconnect"}
  BY <1>3 DEF IInv, TypeOK, Types, NonNull, MonitorInUse, LockHolders, Holds
<1> QED BY <1>1, <1>2, <1>3, <1>4 DEF IInv, Stack, CloseRefdown, TypeOK, Types

\* A refdown holds connected_modules_write_lock for the end messages only.
LEMMA InRefdown ==
    ASSUME IInv, NEW t \in Handles, down_pc[t] # "idle"
    PROVE  /\ down[t] \in Owners
           /\ pc[t] \in {"user", "gone", "ioctl_close"}
           /\ \A m \in Owners : lock[m] = t <=> down_pc[t] = "eof" /\ m = down[t]
<1>1. down[t] \in Owners /\ pc[t] \in {"user", "gone", "ioctl_close"}
  BY DEF IInv, TypeOK, Types, NonNull, Stack
<1> QED BY <1>1 DEF IInv, LockHolders, Holds

\* The end message reaches a descriptor that its slot still keeps alive.
LEMMA EofReference ==
    ASSUME IInv, NEW t \in Handles, NEW md \in Modules, Eof(t, md)
    PROVE  LET X == connected_modules[down[t]][md]
           IN  /\ X \in Daemons /\ ref_count[X] # 0 /\ Closers(X) = {}
               /\ Member(X, down[t]) /\ ~HandedOver(<<down[t], md>>)
<1> DEFINE X == connected_modules[down[t]][md]
           s == <<down[t], md>>
<1>1. down[t] \in Owners /\ lock[down[t]] = t /\ pc[t] # "replace"
  BY InRefdown DEF Eof
<1>2. X \in Daemons /\ X \in Handles
  BY <1>1 DEF IInv, TypeOK, Types, Eof, Handles
<1>3. ~HandedOver(s)
  <2> HIDE DEF Eof
  <2> QED BY <1>1, Exclusion, ManagerAssumption
<1>4. s \in Slots(X)
  BY <1>1, <1>3 DEF Slots
<1>5. ref_count[X] # 0
  BY <1>2, <1>4, Referencing DEF IInv, Referenced
<1>6. Closers(X) = {}
  BY <1>2, <1>5 DEF IInv, LastCloser
<1>7. Member(X, down[t])
  BY <1>1, <1>2, ManagerAssumption DEF IInv, SlotMembers, Handles
<1> QED BY <1>3, <1>2, <1>5, <1>6, <1>7

-----------------------------------------------------------------------------
(* The steps that move a reference to a descriptor.                        *)

\* A new handle is the first reference.
LEMMA RefCountOpen ==
    ASSUME IInv, NEW t \in Handles, Open(t)
    PROVE  RefCountExact'
<1>inv. TypeOK /\ RefCountExact /\ LockHolders /\ Memories /\ Stack
  BY DEF IInv
<1> USE <1>inv, ManagerAssumption DEF TypeOK, Types, NonNull, MonitorInUse, Stack,
        Handles, Open
<1> SUFFICES ASSUME NEW X \in Handles PROVE ref_count'[X] = References(X)'
  BY DEF RefCountExact
<1>send. Cardinality(Senders(X))' = Cardinality(Senders(X))
  <2>1. Senders(X)' = Senders(X)
    BY DEF Senders
  <2> QED BY ONLY <2>1
<1>rel. Cardinality(Releasers(X))' = Cardinality(Releasers(X))
  <2>1. Releasers(X)' = Releasers(X)
    BY DEF Releasers
  <2> QED BY ONLY <2>1
<1>slot. Cardinality(Slots(X))' = Cardinality(Slots(X))
  <2>1. Slots(X)' = Slots(X)
    BY DEF Slots, HandedOver
  <2> QED BY ONLY <2>1
<1>open. Opens(X)' = Opens(X) + (IF X = t THEN 1 ELSE 0)
  BY DEF Opens, HandleOpen
<1>ref. ref_count'[X] = ref_count[X] + (IF X = t THEN 1 ELSE 0)
  BY DEF Memories
<1>now. /\ ref_count[X] = References(X)
        /\ Opens(X) \in Nat /\ Cardinality(Senders(X)) \in Nat
        /\ Cardinality(Releasers(X)) \in Nat /\ Cardinality(Slots(X)) \in Nat
  BY Counted
<1> QED
  BY ONLY <1>send, <1>rel, <1>slot, <1>open, <1>ref, <1>now DEF References

\* A message on its way is one more reference.
LEMMA RefCountIncomingMessage ==
    ASSUME IInv, NEW t \in Handles, NEW md \in Modules, IncomingMessage(t, md)
    PROVE  RefCountExact'
<1>inv. TypeOK /\ RefCountExact /\ LockHolders /\ Memories /\ Stack
  BY DEF IInv
<1> USE <1>inv, ManagerAssumption DEF TypeOK, Types, NonNull, MonitorInUse, Stack,
        Handles, IncomingMessage
<1> SUFFICES ASSUME NEW X \in Handles PROVE ref_count'[X] = References(X)'
  BY DEF RefCountExact
<1>nat. /\ Cardinality(Senders(X)) \in Nat
        /\ Cardinality(Releasers(X)) \in Nat
        /\ Cardinality(Slots(X)) \in Nat
  BY Counted
<1> DEFINE Y == connected_modules[monitor[t]][md]
<1>send. Cardinality(Senders(X))' = Cardinality(Senders(X)) + (IF X = Y THEN 1 ELSE 0)
  <2>1. Senders(X)' = IF X = Y THEN Senders(X) \cup {t} ELSE Senders(X)
    BY DEF Senders
  <2>2. t \notin Senders(X)
    BY  DEF Senders
  <2> HIDE DEF Y
  <2>3. Cardinality(Senders(X) \cup {t}) = Cardinality(Senders(X)) + 1
    BY <2>2, Counts
  <2> QED BY ONLY <2>1, <2>3, <1>nat
<1>rel. Cardinality(Releasers(X))' = Cardinality(Releasers(X))
  <2>1. Releasers(X)' = Releasers(X)
    BY DEF Releasers
  <2> QED BY ONLY <2>1
<1>slot. Cardinality(Slots(X))' = Cardinality(Slots(X))
  <2>1. Slots(X)' = Slots(X)
    BY DEF Slots, HandedOver
  <2> QED BY ONLY <2>1
<1>open. Opens(X)' = Opens(X)
  BY DEF Opens, HandleOpen
<1>ref. ref_count'[X] = ref_count[X] + (IF X = Y THEN 1 ELSE 0)
  OBVIOUS
<1> HIDE DEF Y
<1>now. /\ ref_count[X] = References(X)
        /\ Opens(X) \in Nat /\ Cardinality(Senders(X)) \in Nat
        /\ Cardinality(Releasers(X)) \in Nat /\ Cardinality(Slots(X)) \in Nat
  BY Counted
<1> QED
  BY ONLY <1>send, <1>rel, <1>slot, <1>open, <1>ref, <1>now DEF References

\* A message that was sent turns into a close.
LEMMA RefCountSendDone ==
    ASSUME IInv, NEW t \in Handles, SendDone(t)
    PROVE  RefCountExact'
<1>inv. TypeOK /\ RefCountExact /\ LockHolders /\ Memories /\ Stack
  BY DEF IInv
<1> USE <1>inv, ManagerAssumption DEF TypeOK, Types, NonNull, MonitorInUse, Stack,
        Handles, SendDone
<1> SUFFICES ASSUME NEW X \in Handles PROVE ref_count'[X] = References(X)'
  BY DEF RefCountExact
<1>nat. /\ Cardinality(Senders(X)) \in Nat
        /\ Cardinality(Releasers(X)) \in Nat
        /\ Cardinality(Slots(X)) \in Nat
  BY Counted
<1> DEFINE Y == target[t]
<1>send. Cardinality(Senders(X))' = Cardinality(Senders(X)) - (IF X = Y THEN 1 ELSE 0)
  <2>1. Senders(X)' = IF X = Y THEN Senders(X) \ {t} ELSE Senders(X)
    BY DEF Senders
  <2>2. X = Y => t \in Senders(X)
    BY DEF Senders
  <2> HIDE DEF Y
  <2>3. X = Y => Cardinality(Senders(X) \ {t}) = Cardinality(Senders(X)) - 1
    BY <2>2, Counts
  <2> QED BY ONLY <2>1, <2>3, <1>nat
<1>rel. Cardinality(Releasers(X))' = Cardinality(Releasers(X)) + (IF X = Y THEN 1 ELSE 0)
  <2>1. Releasers(X)' = IF X = Y THEN Releasers(X) \cup {t} ELSE Releasers(X)
    BY DEF Releasers
  <2>2. t \notin Releasers(X)
    BY  DEF Releasers
  <2> HIDE DEF Y
  <2>3. Cardinality(Releasers(X) \cup {t}) = Cardinality(Releasers(X)) + 1
    BY <2>2, Counts
  <2> QED BY ONLY <2>1, <2>3, <1>nat
<1>slot. Cardinality(Slots(X))' = Cardinality(Slots(X))
  <2>1. Slots(X)' = Slots(X)
    BY DEF Slots, HandedOver
  <2> QED BY ONLY <2>1
<1>open. Opens(X)' = Opens(X)
  BY DEF Opens, HandleOpen
<1>ref. ref_count'[X] = ref_count[X]
  OBVIOUS
<1> HIDE DEF Y
<1>now. /\ ref_count[X] = References(X)
        /\ Opens(X) \in Nat /\ Cardinality(Senders(X)) \in Nat
        /\ Cardinality(Releasers(X)) \in Nat /\ Cardinality(Slots(X)) \in Nat
  BY Counted
<1> QED
  BY ONLY <1>send, <1>rel, <1>slot, <1>open, <1>ref, <1>now DEF References

\* The handle turns into a close.
LEMMA RefCountLastClose ==
    ASSUME IInv, NEW t \in Handles, LastClose(t)
    PROVE  RefCountExact'
<1>inv. TypeOK /\ RefCountExact /\ LockHolders /\ Memories /\ Stack
  BY DEF IInv
<1> USE <1>inv, ManagerAssumption DEF TypeOK, Types, NonNull, MonitorInUse, Stack,
        Handles, LastClose
<1> SUFFICES ASSUME NEW X \in Handles PROVE ref_count'[X] = References(X)'
  BY DEF RefCountExact
<1>nat. /\ Cardinality(Senders(X)) \in Nat
        /\ Cardinality(Releasers(X)) \in Nat
        /\ Cardinality(Slots(X)) \in Nat
  BY Counted
<1>send. Cardinality(Senders(X))' = Cardinality(Senders(X))
  <2>1. Senders(X)' = Senders(X)
    BY DEF Senders
  <2> QED BY ONLY <2>1
<1>rel. Cardinality(Releasers(X))' = Cardinality(Releasers(X)) + (IF X = t THEN 1 ELSE 0)
  <2>1. Releasers(X)' = IF X = t THEN Releasers(X) \cup {t} ELSE Releasers(X)
    BY DEF Releasers
  <2>2. t \notin Releasers(X)
    BY  DEF Releasers
  <2>3. Cardinality(Releasers(X) \cup {t}) = Cardinality(Releasers(X)) + 1
    BY <2>2, Counts
  <2> QED BY ONLY <2>1, <2>3, <1>nat
<1>slot. Cardinality(Slots(X))' = Cardinality(Slots(X))
  <2>1. Slots(X)' = Slots(X)
    BY DEF Slots, HandedOver
  <2> QED BY ONLY <2>1
<1>open. Opens(X)' = Opens(X) - (IF X = t THEN 1 ELSE 0)
  BY DEF Opens, HandleOpen
<1>ref. ref_count'[X] = ref_count[X]
  OBVIOUS
<1>now. /\ ref_count[X] = References(X)
        /\ Opens(X) \in Nat /\ Cardinality(Senders(X)) \in Nat
        /\ Cardinality(Releasers(X)) \in Nat /\ Cardinality(Slots(X)) \in Nat
  BY Counted
<1> QED
  BY ONLY <1>send, <1>rel, <1>slot, <1>open, <1>ref, <1>now DEF References

\* A close drops its reference.
LEMMA RefCountCloseDec ==
    ASSUME IInv, NEW t \in Handles, CloseDec(t)
    PROVE  RefCountExact'
<1>inv. TypeOK /\ RefCountExact /\ LockHolders /\ Memories /\ Stack
  BY DEF IInv
<1> USE <1>inv, ManagerAssumption DEF TypeOK, Types, NonNull, MonitorInUse, Stack,
        Handles, CloseDec
<1> SUFFICES ASSUME NEW X \in Handles PROVE ref_count'[X] = References(X)'
  BY DEF RefCountExact
<1>nat. /\ Cardinality(Senders(X)) \in Nat
        /\ Cardinality(Releasers(X)) \in Nat
        /\ Cardinality(Slots(X)) \in Nat
  BY Counted
<1>send. Cardinality(Senders(X))' = Cardinality(Senders(X))
  <2>1. Senders(X)' = Senders(X)
    BY DEF Senders
  <2> QED BY ONLY <2>1
<1> DEFINE Y == closing[t]
<1>rel. Cardinality(Releasers(X))' = Cardinality(Releasers(X)) - (IF X = Y THEN 1 ELSE 0)
  <2>1. Releasers(X)' = IF X = Y THEN Releasers(X) \ {t} ELSE Releasers(X)
    BY DEF Releasers
  <2>2. X = Y => t \in Releasers(X)
    BY DEF Releasers
  <2> HIDE DEF Y
  <2>3. X = Y => Cardinality(Releasers(X) \ {t}) = Cardinality(Releasers(X)) - 1
    BY <2>2, Counts
  <2> QED BY ONLY <2>1, <2>3, <1>nat
<1>slot. Cardinality(Slots(X))' = Cardinality(Slots(X))
  <2>1. Slots(X)' = Slots(X)
    BY DEF Slots, HandedOver
  <2> QED BY ONLY <2>1
<1>open. Opens(X)' = Opens(X)
  BY DEF Opens, HandleOpen
<1>ref. ref_count'[X] = ref_count[X] - (IF X = Y THEN 1 ELSE 0)
  OBVIOUS
<1> HIDE DEF Y
<1>now. /\ ref_count[X] = References(X)
        /\ Opens(X) \in Nat /\ Cardinality(Senders(X)) \in Nat
        /\ Cardinality(Releasers(X)) \in Nat /\ Cardinality(Slots(X)) \in Nat
  BY Counted
<1> QED
  BY ONLY <1>send, <1>rel, <1>slot, <1>open, <1>ref, <1>now DEF References

\* An empty slot becomes a reference.
LEMMA RefCountConnect ==
    ASSUME IInv, NEW t \in Handles, NEW md \in Modules, Connect(t, md)
    PROVE  RefCountExact'
<1>inv. TypeOK /\ RefCountExact /\ LockHolders /\ Memories /\ Stack
  BY DEF IInv
<1> USE <1>inv, ManagerAssumption DEF TypeOK, Types, NonNull, MonitorInUse, Stack,
        Handles, Connect
<1> SUFFICES ASSUME NEW X \in Handles PROVE ref_count'[X] = References(X)'
  BY DEF RefCountExact
<1>nat. /\ Cardinality(Senders(X)) \in Nat
        /\ Cardinality(Releasers(X)) \in Nat
        /\ Cardinality(Slots(X)) \in Nat
  BY Counted
<1>send. Cardinality(Senders(X))' = Cardinality(Senders(X))
  <2>1. Senders(X)' = Senders(X)
    BY DEF Senders
  <2> QED BY ONLY <2>1
<1>rel. Cardinality(Releasers(X))' = Cardinality(Releasers(X))
  <2>1. Releasers(X)' = Releasers(X)
    BY DEF Releasers
  <2> QED BY ONLY <2>1
<1> DEFINE s == <<monitor[t], md>>
<1>lock. monitor[t] \in Owners /\ lock[monitor[t]] = t
  BY DEF LockHolders, Holds
<1>hand. \A r : HandedOver(r)' <=> HandedOver(r)
  BY DEF HandedOver
<1>mine. ~HandedOver(s)
  BY <1>lock, Exclusion
<1>slot. Cardinality(Slots(X))' = Cardinality(Slots(X)) + (IF X = t THEN 1 ELSE 0)
  <2>1. Slots(X)' = IF X = t THEN Slots(X) \cup {s} ELSE Slots(X)
    <3>1. \A r \in Owners \X Modules : r # s => (r \in Slots(X)' <=> r \in Slots(X))
      <4> SUFFICES ASSUME NEW r \in Owners \X Modules, r # s
                   PROVE  r \in Slots(X)' <=> r \in Slots(X)
        OBVIOUS
      <4>1. connected_modules'[r[1]][r[2]] = connected_modules[r[1]][r[2]]
        BY <1>lock
      <4>2. HandedOver(r)' <=> HandedOver(r)
        BY <1>hand
      <4> QED BY <4>1, <4>2 DEF Slots
    <3>2. s \in Owners \X Modules /\ (s \in Slots(X)' <=> X = t)
      BY <1>lock, <1>hand, <1>mine DEF Slots
    <3>3. Slots(X) \subseteq Owners \X Modules /\ Slots(X)' \subseteq Owners \X Modules
      BY DEF Slots
    <3>4. s \notin Slots(X)
      BY <1>lock DEF Slots
    <3> HIDE DEF s
    <3> QED BY ONLY <3>1, <3>2, <3>3, <3>4
  <2>2. s \notin Slots(X)
    BY <1>lock DEF Slots
  <2> HIDE DEF s
  <2>3. Cardinality(Slots(X) \cup {s}) = Cardinality(Slots(X)) + 1
    BY <2>2, Counts
  <2> QED BY ONLY <2>1, <2>3, <1>nat
<1>open. Opens(X)' = Opens(X)
  BY DEF Opens, HandleOpen
<1>ref. ref_count'[X] = ref_count[X] + (IF X = t THEN 1 ELSE 0)
  OBVIOUS
<1> HIDE DEF s
<1>now. /\ ref_count[X] = References(X)
        /\ Opens(X) \in Nat /\ Cardinality(Senders(X)) \in Nat
        /\ Cardinality(Releasers(X)) \in Nat /\ Cardinality(Slots(X)) \in Nat
  BY Counted
<1> QED
  BY ONLY <1>send, <1>rel, <1>slot, <1>open, <1>ref, <1>now DEF References

\* The slot that was handed over becomes a reference.
LEMMA RefCountReplace ==
    ASSUME IInv, NEW t \in Handles, Replace(t)
    PROVE  RefCountExact'
<1>inv. TypeOK /\ RefCountExact /\ LockHolders /\ Memories /\ Stack
  BY DEF IInv
<1> USE <1>inv, ManagerAssumption DEF TypeOK, Types, NonNull, MonitorInUse, Stack,
        Handles, Replace
<1> SUFFICES ASSUME NEW X \in Handles PROVE ref_count'[X] = References(X)'
  BY DEF RefCountExact
<1>nat. /\ Cardinality(Senders(X)) \in Nat
        /\ Cardinality(Releasers(X)) \in Nat
        /\ Cardinality(Slots(X)) \in Nat
  BY Counted
<1>send. Cardinality(Senders(X))' = Cardinality(Senders(X))
  <2>1. Senders(X)' = Senders(X)
    BY DEF Senders
  <2> QED BY ONLY <2>1
<1>rel. Cardinality(Releasers(X))' = Cardinality(Releasers(X))
  <2>1. Releasers(X)' = Releasers(X)
    BY DEF Releasers
  <2> QED BY ONLY <2>1
<1> DEFINE s == <<monitor[t], md_cur[t]>>
<1>lock. monitor[t] \in Owners /\ lock[monitor[t]] = t
  BY DEF LockHolders, Holds
<1>hand. \A r \in Owners \X Modules : HandedOver(r)' <=> HandedOver(r) /\ r # s
  BY <1>lock DEF HandedOver, LockHolders, Holds
<1>mine. HandedOver(s)
  BY <1>lock DEF HandedOver
<1>slot. Cardinality(Slots(X))' = Cardinality(Slots(X)) + (IF X = t THEN 1 ELSE 0)
  <2>1. Slots(X)' = IF X = t THEN Slots(X) \cup {s} ELSE Slots(X)
    <3>1. \A r \in Owners \X Modules : r # s => (r \in Slots(X)' <=> r \in Slots(X))
      <4> SUFFICES ASSUME NEW r \in Owners \X Modules, r # s
                   PROVE  r \in Slots(X)' <=> r \in Slots(X)
        OBVIOUS
      <4>1. connected_modules'[r[1]][r[2]] = connected_modules[r[1]][r[2]]
        BY <1>lock
      <4>2. HandedOver(r)' <=> HandedOver(r)
        BY <1>hand
      <4> QED BY <4>1, <4>2 DEF Slots
    <3>2. s \in Owners \X Modules /\ (s \in Slots(X)' <=> X = t)
      BY <1>lock, <1>hand, <1>mine DEF Slots
    <3>3. Slots(X) \subseteq Owners \X Modules /\ Slots(X)' \subseteq Owners \X Modules
      BY DEF Slots
    <3>4. s \notin Slots(X)
      BY <1>mine DEF Slots
    <3> HIDE DEF s
    <3> QED BY ONLY <3>1, <3>2, <3>3, <3>4
  <2>2. s \notin Slots(X)
    BY <1>mine DEF Slots
  <2> HIDE DEF s
  <2>3. Cardinality(Slots(X) \cup {s}) = Cardinality(Slots(X)) + 1
    BY <2>2, Counts
  <2> QED BY ONLY <2>1, <2>3, <1>nat
<1>open. Opens(X)' = Opens(X)
  BY DEF Opens, HandleOpen
<1>ref. ref_count'[X] = ref_count[X] + (IF X = t THEN 1 ELSE 0)
  OBVIOUS
<1> HIDE DEF s
<1>now. /\ ref_count[X] = References(X)
        /\ Opens(X) \in Nat /\ Cardinality(Senders(X)) \in Nat
        /\ Cardinality(Releasers(X)) \in Nat /\ Cardinality(Slots(X)) \in Nat
  BY Counted
<1> QED
  BY ONLY <1>send, <1>rel, <1>slot, <1>open, <1>ref, <1>now DEF References

\* The slot of the old occupant turns into a close.
LEMMA RefCountReplaceClose ==
    ASSUME IInv, NEW t \in Handles, NEW md \in Modules, ReplaceClose(t, md)
    PROVE  RefCountExact'
<1>inv. TypeOK /\ RefCountExact /\ LockHolders /\ Memories /\ Stack
  BY DEF IInv
<1> USE <1>inv, ManagerAssumption DEF TypeOK, Types, NonNull, MonitorInUse, Stack,
        Handles, ReplaceClose
<1> SUFFICES ASSUME NEW X \in Handles PROVE ref_count'[X] = References(X)'
  BY DEF RefCountExact
<1>nat. /\ Cardinality(Senders(X)) \in Nat
        /\ Cardinality(Releasers(X)) \in Nat
        /\ Cardinality(Slots(X)) \in Nat
  BY Counted
<1>send. Cardinality(Senders(X))' = Cardinality(Senders(X))
  <2>1. Senders(X)' = Senders(X)
    BY DEF Senders
  <2> QED BY ONLY <2>1
<1> DEFINE s == <<monitor[t], md>>
<1>lock. monitor[t] \in Owners /\ lock[monitor[t]] = t
  BY DEF LockHolders, Holds
<1> DEFINE Y == connected_modules[monitor[t]][md]
<1>rel. Cardinality(Releasers(X))' = Cardinality(Releasers(X)) + (IF X = Y THEN 1 ELSE 0)
  <2>1. Releasers(X)' = IF X = Y THEN Releasers(X) \cup {t} ELSE Releasers(X)
    BY DEF Releasers
  <2>2. t \notin Releasers(X)
    BY  DEF Releasers
  <2> HIDE DEF Y
  <2>3. Cardinality(Releasers(X) \cup {t}) = Cardinality(Releasers(X)) + 1
    BY <2>2, Counts
  <2> QED BY ONLY <2>1, <2>3, <1>nat
<1>hand. \A r \in Owners \X Modules : HandedOver(r)' <=> HandedOver(r) \/ r = s
  BY <1>lock DEF HandedOver
<1>mine. ~HandedOver(s)
  BY <1>lock, Exclusion
<1>slot. Cardinality(Slots(X))' = Cardinality(Slots(X)) - (IF X = Y THEN 1 ELSE 0)
  <2>1. Slots(X)' = IF X = Y THEN Slots(X) \ {s} ELSE Slots(X)
    <3>1. \A r \in Owners \X Modules : r # s => (r \in Slots(X)' <=> r \in Slots(X))
      <4> SUFFICES ASSUME NEW r \in Owners \X Modules, r # s
                   PROVE  r \in Slots(X)' <=> r \in Slots(X)
        OBVIOUS
      <4>1. connected_modules'[r[1]][r[2]] = connected_modules[r[1]][r[2]]
        BY <1>lock
      <4>2. HandedOver(r)' <=> HandedOver(r)
        BY <1>hand
      <4> QED BY <4>1, <4>2 DEF Slots
    <3>2. s \in Owners \X Modules /\ (s \in Slots(X)' <=> FALSE)
      BY <1>lock, <1>hand, <1>mine DEF Slots
    <3>3. Slots(X) \subseteq Owners \X Modules /\ Slots(X)' \subseteq Owners \X Modules
      BY DEF Slots
    <3>4. s \in Slots(X) <=> X = Y
      BY <1>lock, <1>mine DEF Slots
    <3> HIDE DEF s, Y
    <3> QED BY ONLY <3>1, <3>2, <3>3, <3>4
  <2>2. X = Y => s \in Slots(X)
    BY <1>lock, <1>mine DEF Slots
  <2> HIDE DEF s, Y
  <2>3. X = Y => Cardinality(Slots(X) \ {s}) = Cardinality(Slots(X)) - 1
    BY <2>2, Counts
  <2> QED BY ONLY <2>1, <2>3, <1>nat
<1>open. Opens(X)' = Opens(X)
  BY DEF Opens, HandleOpen
<1>ref. ref_count'[X] = ref_count[X]
  OBVIOUS
<1> HIDE DEF s, Y
<1>now. /\ ref_count[X] = References(X)
        /\ Opens(X) \in Nat /\ Cardinality(Senders(X)) \in Nat
        /\ Cardinality(Releasers(X)) \in Nat /\ Cardinality(Slots(X)) \in Nat
  BY Counted
<1> QED
  BY ONLY <1>send, <1>rel, <1>slot, <1>open, <1>ref, <1>now DEF References

\* A slot of one's own turns into a close.
LEMMA RefCountDisconnect ==
    ASSUME IInv, NEW t \in Handles, NEW md \in Modules, Disconnect(t, md)
    PROVE  RefCountExact'
<1>inv. TypeOK /\ RefCountExact /\ LockHolders /\ Memories /\ Stack
  BY DEF IInv
<1> USE <1>inv, ManagerAssumption DEF TypeOK, Types, NonNull, MonitorInUse, Stack,
        Handles, Disconnect
<1> SUFFICES ASSUME NEW X \in Handles PROVE ref_count'[X] = References(X)'
  BY DEF RefCountExact
<1>nat. /\ Cardinality(Senders(X)) \in Nat
        /\ Cardinality(Releasers(X)) \in Nat
        /\ Cardinality(Slots(X)) \in Nat
  BY Counted
<1>send. Cardinality(Senders(X))' = Cardinality(Senders(X))
  <2>1. Senders(X)' = Senders(X)
    BY DEF Senders
  <2> QED BY ONLY <2>1
<1> DEFINE s == <<monitor[t], md>>
<1>lock. monitor[t] \in Owners /\ lock[monitor[t]] = t
  BY DEF LockHolders, Holds
<1>rel. Cardinality(Releasers(X))' = Cardinality(Releasers(X)) + (IF X = t THEN 1 ELSE 0)
  <2>1. Releasers(X)' = IF X = t THEN Releasers(X) \cup {t} ELSE Releasers(X)
    BY DEF Releasers
  <2>2. t \notin Releasers(X)
    BY  DEF Releasers
  <2>3. Cardinality(Releasers(X) \cup {t}) = Cardinality(Releasers(X)) + 1
    BY <2>2, Counts
  <2> QED BY ONLY <2>1, <2>3, <1>nat
<1>hand. \A r : HandedOver(r)' <=> HandedOver(r)
  BY DEF HandedOver
<1>mine. ~HandedOver(s)
  BY <1>lock, Exclusion
<1>slot. Cardinality(Slots(X))' = Cardinality(Slots(X)) - (IF X = t THEN 1 ELSE 0)
  <2>1. Slots(X)' = IF X = t THEN Slots(X) \ {s} ELSE Slots(X)
    <3>1. \A r \in Owners \X Modules : r # s => (r \in Slots(X)' <=> r \in Slots(X))
      <4> SUFFICES ASSUME NEW r \in Owners \X Modules, r # s
                   PROVE  r \in Slots(X)' <=> r \in Slots(X)
        OBVIOUS
      <4>1. connected_modules'[r[1]][r[2]] = connected_modules[r[1]][r[2]]
        BY <1>lock
      <4>2. HandedOver(r)' <=> HandedOver(r)
        BY <1>hand
      <4> QED BY <4>1, <4>2 DEF Slots
    <3>2. s \in Owners \X Modules /\ (s \in Slots(X)' <=> FALSE)
      BY <1>lock, <1>hand, <1>mine DEF Slots
    <3>3. Slots(X) \subseteq Owners \X Modules /\ Slots(X)' \subseteq Owners \X Modules
      BY DEF Slots
    <3>4. s \in Slots(X) <=> X = t
      BY <1>lock, <1>mine DEF Slots
    <3> HIDE DEF s
    <3> QED BY ONLY <3>1, <3>2, <3>3, <3>4
  <2>2. X = t => s \in Slots(X)
    BY <1>lock, <1>mine DEF Slots
  <2> HIDE DEF s
  <2>3. X = t => Cardinality(Slots(X) \ {s}) = Cardinality(Slots(X)) - 1
    BY <2>2, Counts
  <2> QED BY ONLY <2>1, <2>3, <1>nat
<1>open. Opens(X)' = Opens(X)
  BY DEF Opens, HandleOpen
<1>ref. ref_count'[X] = ref_count[X]
  OBVIOUS
<1> HIDE DEF s
<1>now. /\ ref_count[X] = References(X)
        /\ Opens(X) \in Nat /\ Cardinality(Senders(X)) \in Nat
        /\ Cardinality(Releasers(X)) \in Nat /\ Cardinality(Slots(X)) \in Nat
  BY Counted
<1> QED
  BY ONLY <1>send, <1>rel, <1>slot, <1>open, <1>ref, <1>now DEF References

\* A slot that is told the end turns into a close.
LEMMA RefCountEof ==
    ASSUME IInv, NEW t \in Handles, NEW md \in Modules, Eof(t, md)
    PROVE  RefCountExact'
<1>mine. ~HandedOver(<<down[t], md>>)
  BY EofReference
<1>inv. TypeOK /\ RefCountExact /\ LockHolders /\ Memories /\ Stack
  BY DEF IInv
<1> USE <1>inv, ManagerAssumption DEF TypeOK, Types, NonNull, MonitorInUse, Stack,
        Handles, Eof
<1> SUFFICES ASSUME NEW X \in Handles PROVE ref_count'[X] = References(X)'
  BY DEF RefCountExact
<1>nat. /\ Cardinality(Senders(X)) \in Nat
        /\ Cardinality(Releasers(X)) \in Nat
        /\ Cardinality(Slots(X)) \in Nat
  BY Counted
<1>send. Cardinality(Senders(X))' = Cardinality(Senders(X))
  <2>1. Senders(X)' = Senders(X)
    BY DEF Senders
  <2> QED BY ONLY <2>1
<1> DEFINE s == <<down[t], md>>
<1>lock. down[t] \in Owners /\ lock[down[t]] = t
  BY DEF LockHolders, Holds
<1> DEFINE Y == connected_modules[down[t]][md]
<1>rel. Cardinality(Releasers(X))' = Cardinality(Releasers(X)) + (IF X = Y THEN 1 ELSE 0)
  <2>1. Releasers(X)' = IF X = Y THEN Releasers(X) \cup {t} ELSE Releasers(X)
    BY DEF Releasers
  <2>2. t \notin Releasers(X)
    BY  DEF Releasers
  <2> HIDE DEF Y
  <2>3. Cardinality(Releasers(X) \cup {t}) = Cardinality(Releasers(X)) + 1
    BY <2>2, Counts
  <2> QED BY ONLY <2>1, <2>3, <1>nat
<1>hand. \A r : HandedOver(r)' <=> HandedOver(r)
  BY DEF HandedOver
<1>slot. Cardinality(Slots(X))' = Cardinality(Slots(X)) - (IF X = Y THEN 1 ELSE 0)
  <2>1. Slots(X)' = IF X = Y THEN Slots(X) \ {s} ELSE Slots(X)
    <3>1. \A r \in Owners \X Modules : r # s => (r \in Slots(X)' <=> r \in Slots(X))
      <4> SUFFICES ASSUME NEW r \in Owners \X Modules, r # s
                   PROVE  r \in Slots(X)' <=> r \in Slots(X)
        OBVIOUS
      <4>1. connected_modules'[r[1]][r[2]] = connected_modules[r[1]][r[2]]
        BY <1>lock
      <4>2. HandedOver(r)' <=> HandedOver(r)
        BY <1>hand
      <4> QED BY <4>1, <4>2 DEF Slots
    <3>2. s \in Owners \X Modules /\ (s \in Slots(X)' <=> FALSE)
      BY <1>lock, <1>hand, <1>mine DEF Slots
    <3>3. Slots(X) \subseteq Owners \X Modules /\ Slots(X)' \subseteq Owners \X Modules
      BY DEF Slots
    <3>4. s \in Slots(X) <=> X = Y
      BY <1>lock, <1>mine DEF Slots
    <3> HIDE DEF s, Y
    <3> QED BY ONLY <3>1, <3>2, <3>3, <3>4
  <2>2. X = Y => s \in Slots(X)
    BY <1>lock, <1>mine DEF Slots
  <2> HIDE DEF s, Y
  <2>3. X = Y => Cardinality(Slots(X) \ {s}) = Cardinality(Slots(X)) - 1
    BY <2>2, Counts
  <2> QED BY ONLY <2>1, <2>3, <1>nat
<1>open. Opens(X)' = Opens(X)
  BY DEF Opens, HandleOpen
<1>ref. ref_count'[X] = ref_count[X]
  OBVIOUS
<1> HIDE DEF s, Y
<1>now. /\ ref_count[X] = References(X)
        /\ Opens(X) \in Nat /\ Cardinality(Senders(X)) \in Nat
        /\ Cardinality(Releasers(X)) \in Nat /\ Cardinality(Slots(X)) \in Nat
  BY Counted
<1> QED
  BY ONLY <1>send, <1>rel, <1>slot, <1>open, <1>ref, <1>now DEF References

-----------------------------------------------------------------------------
(* Each part of the invariant is kept by every step.                       *)

\* The domains.
LEMMA TypesNext ==
    ASSUME IInv, NEW t \in Handles, User(t) \/ SysCall(t)
    PROVE  Types'
<1>inv. TypeOK
  BY DEF IInv
<1>return. ASSUME DownReturn(t)
           PROVE  /\ closing' \in [Handles -> Handles \cup {None}]
                  /\ close_pc' \in [Handles -> ClosePCs]
                  /\ below' \in [Handles -> Handles \cup {None}]
                  /\ down' \in [Handles -> Owners \cup {None}]
                  /\ down_pc' \in [Handles -> DownPCs]
  BY <1>return DEF IInv, TypeOK, Types, ClosePCs, DownPCs
<1>daemon. pc[t] \in {"connect", "replace"} => t \in Daemons
  BY DEF IInv, Stack
<1> USE <1>inv, ManagerAssumption DEF TypeOK, Types, NonNull, Handles,
        MonitorInUse, Memory, PCs, ClosePCs, DownPCs
<1>1. CASE Open(t)
  BY <1>1 DEF Open
<1>2. CASE Create(t)
  BY <1>2 DEF Create
<1>3. ASSUME NEW m \in Owners, Attach(t, m) PROVE Types'
  BY <1>3 DEF Attach
<1>4. ASSUME NEW m \in Owners, AttachLoad(t, m) PROVE Types'
  BY <1>4 DEF AttachLoad
<1>5. ASSUME NEW md \in Modules, IncomingMessage(t, md) PROVE Types'
  BY <1>5 DEF IncomingMessage
<1>6. CASE IoctlClose(t)
  BY <1>6 DEF IoctlClose
<1>7. CASE CloseHandle(t)
  BY <1>7 DEF CloseHandle
<1>8. CASE AttachStore(t)
  BY <1>8 DEF AttachStore
<1>9. CASE AttachLock(t)
  BY <1>9 DEF AttachLock
<1>10. ASSUME NEW md \in Modules, Connect(t, md) PROVE Types'
  <2>1. ref_count' \in [Handles -> Int]
    BY <1>10 DEF Connect
  <2>2. t \in Daemons
    BY <1>10, <1>daemon DEF Connect
  <2>3. connected_modules' \in [Owners -> [Modules -> Daemons \cup {None}]]
    BY <1>10, <2>2 DEF Connect
  <2> QED BY <1>10, <2>1, <2>3 DEF Connect
<1>11. ASSUME NEW md \in Modules, ReplaceClose(t, md) PROVE Types'
  BY <1>11 DEF ReplaceClose
<1>12. CASE Replace(t)
  <2>1. ref_count' \in [Handles -> Int]
    BY <1>12 DEF Replace
  <2>2. t \in Daemons
    BY <1>12, <1>daemon DEF Replace
  <2>3. connected_modules' \in [Owners -> [Modules -> Daemons \cup {None}]]
    BY <1>12, <2>2 DEF Replace
  <2> QED BY <1>12, <2>1, <2>3 DEF Replace
<1>13. CASE AttachUnlock(t)
  BY <1>13 DEF AttachUnlock
<1>14. CASE SendDone(t)
  BY <1>14 DEF SendDone
<1>15. CASE IoctlCloseDone(t)
  BY <1>15 DEF IoctlCloseDone
<1>16. CASE DisconnectLock(t)
  BY <1>16 DEF DisconnectLock
<1>17. ASSUME NEW md \in Modules, Disconnect(t, md) PROVE Types'
  BY <1>17 DEF Disconnect
<1>18. CASE DisconnectUnlock(t)
  BY <1>18 DEF DisconnectUnlock
<1>19. CASE LastClose(t)
  BY <1>19 DEF LastClose
<1>20. CASE CloseDec(t)
  <2>1. ref_count' \in [Handles -> Int]
    BY <1>20 DEF CloseDec
  <2>2. closing' \in [Handles -> Handles \cup {None}]
    BY ONLY <1>inv, <1>20 DEF TypeOK, Types, CloseDec
  <2>3. close_pc' \in [Handles -> ClosePCs]
    BY ONLY <1>inv, <1>20 DEF TypeOK, Types, CloseDec, ClosePCs
  <2> QED BY <1>20, <2>1, <2>2, <2>3 DEF CloseDec
<1>21. CASE CloseRefdown(t)
  BY <1>21 DEF CloseRefdown
<1>22. CASE CloseNoMonitor(t)
  BY <1>22 DEF CloseNoMonitor
<1>23. CASE CloseFree(t)
  BY <1>23 DEF CloseFree
<1>24. CASE DownUnlist(t)
  BY <1>24 DEF DownUnlist
<1>25. CASE DownRefused(t)
  <2>1. /\ closing' \in [Handles -> Handles \cup {None}]
        /\ close_pc' \in [Handles -> ClosePCs]
        /\ below' \in [Handles -> Handles \cup {None}]
        /\ down' \in [Handles -> Owners \cup {None}]
        /\ down_pc' \in [Handles -> DownPCs]
    BY <1>25, <1>return DEF DownRefused
  <2> QED BY <1>25, <2>1 DEF DownRefused
<1>26. CASE EofLock(t)
  BY <1>26 DEF EofLock
<1>27. ASSUME NEW md \in Modules, Eof(t, md) PROVE Types'
  BY <1>27 DEF Eof
<1>28. CASE EofUnlock(t)
  BY <1>28 DEF EofUnlock
<1>29. CASE DownDec(t)
  <2>1. /\ closing' \in [Handles -> Handles \cup {None}]
        /\ close_pc' \in [Handles -> ClosePCs]
        /\ below' \in [Handles -> Handles \cup {None}]
        /\ down' \in [Handles -> Owners \cup {None}]
        /\ down_pc' \in [Handles -> DownPCs]
    BY <1>29, <1>return DEF DownDec
  <2>2. refcount' \in [Owners -> Int] /\ mon' \in [Owners -> Memory]
    BY <1>29 DEF DownDec
  <2> QED BY <1>29, <2>1, <2>2 DEF DownDec
<1>30. CASE DownLoad(t)
  BY <1>30 DEF DownLoad
<1>31. CASE DownStore(t)
  <2>1. /\ closing' \in [Handles -> Handles \cup {None}]
        /\ close_pc' \in [Handles -> ClosePCs]
        /\ below' \in [Handles -> Handles \cup {None}]
        /\ down' \in [Handles -> Owners \cup {None}]
        /\ down_pc' \in [Handles -> DownPCs]
    BY <1>31, <1>return DEF DownStore
  <2>2. refcount' \in [Owners -> Int] /\ mon' \in [Owners -> Memory]
    BY <1>31 DEF DownStore
  <2>3. loaded' \in [Handles -> Int]
    BY <1>31 DEF DownStore
  <2> QED BY <1>31, <2>1, <2>2, <2>3 DEF DownStore
<1> QED
  BY ONLY User(t) \/ SysCall(t), <1>1, <1>2, <1>3, <1>4, <1>5, <1>6, <1>7, <1>8,
          <1>9, <1>10, <1>11, <1>12, <1>13, <1>14, <1>15, <1>16, <1>17, <1>18, <1>19,
          <1>20, <1>21, <1>22, <1>23, <1>24, <1>25, <1>26, <1>27, <1>28, <1>29, <1>30,
          <1>31 DEF User, SysCall

\* The pointers a call uses: opened->monitor is only cleared by the thread of the
\* handle, or when the handle is closed.
LEMMA NonNullNext ==
    ASSUME IInv, NEW t \in Handles, User(t) \/ SysCall(t)
    PROVE  NonNull'
<1>gone. CloseRefdown(t) => closing[t] \in Handles /\ pc[closing[t]] = "gone"
  BY CloseRefdownContext
<1>inv. TypeOK /\ Stack
  BY DEF IInv
<1> USE <1>inv, ManagerAssumption DEF TypeOK, Types, NonNull, Handles,
        MonitorInUse, Stack
<1>1. CASE Open(t)
  BY <1>1 DEF Open
<1>2. CASE Create(t)
  BY <1>2 DEF Create
<1>3. ASSUME NEW m \in Owners, Attach(t, m) PROVE NonNull'
  BY <1>3 DEF Attach
<1>4. ASSUME NEW m \in Owners, AttachLoad(t, m) PROVE NonNull'
  BY <1>4 DEF AttachLoad
<1>5. ASSUME NEW md \in Modules, IncomingMessage(t, md) PROVE NonNull'
  BY <1>5 DEF IncomingMessage
<1>6. CASE IoctlClose(t)
  BY <1>6 DEF IoctlClose
<1>7. CASE CloseHandle(t)
  BY <1>7 DEF CloseHandle
<1>8. CASE AttachStore(t)
  BY <1>8 DEF AttachStore
<1>9. CASE AttachLock(t)
  BY <1>9 DEF AttachLock
<1>10. ASSUME NEW md \in Modules, Connect(t, md) PROVE NonNull'
  BY <1>10 DEF Connect
<1>11. ASSUME NEW md \in Modules, ReplaceClose(t, md) PROVE NonNull'
  BY <1>11 DEF ReplaceClose
<1>12. CASE Replace(t)
  BY <1>12 DEF Replace
<1>13. CASE AttachUnlock(t)
  BY <1>13 DEF AttachUnlock
<1>14. CASE SendDone(t)
  BY <1>14 DEF SendDone
<1>15. CASE IoctlCloseDone(t)
  BY <1>15 DEF IoctlCloseDone
<1>16. CASE DisconnectLock(t)
  BY <1>16 DEF DisconnectLock
<1>17. ASSUME NEW md \in Modules, Disconnect(t, md) PROVE NonNull'
  BY <1>17 DEF Disconnect
<1>18. CASE DisconnectUnlock(t)
  BY <1>18 DEF DisconnectUnlock
<1>19. CASE LastClose(t)
  BY <1>19 DEF LastClose
<1>20. CASE CloseDec(t)
  BY <1>20 DEF CloseDec
<1>21. CASE CloseRefdown(t)
  <2>1. \A u \in Handles : monitor'[u] = monitor[u] \/ pc[u] = "gone"
    BY <1>21, <1>gone DEF CloseRefdown
  <2>2. closing' = [closing EXCEPT ![t] = None] /\ close_pc' = [close_pc EXCEPT ![t] = "idle"]
    BY <1>21 DEF CloseRefdown
  <2>3. monitor[closing[t]] \in Owners
    BY <1>21, <1>gone DEF CloseRefdown
  <2>4. /\ down' = [down EXCEPT ![t] = monitor[closing[t]]]
        /\ down_pc' = [down_pc EXCEPT ![t] = "entry"]
        /\ UNCHANGED <<pc, target, md_cur>>
    BY <1>21 DEF CloseRefdown
  <2> HIDE DEF CloseRefdown
  <2>5. \A u \in Handles :
          /\ pc'[u] \in MonitorInUse => monitor'[u] # None
          /\ pc'[u] = "send" <=> target'[u] # None
          /\ pc'[u] = "replace" <=> md_cur'[u] # None
    BY <2>1, <2>4
  <2>6. \A u \in Handles : close_pc'[u] # "idle" <=> closing'[u] # None
    BY <2>2
  <2>7. \A u \in Handles : down_pc'[u] # "idle" <=> down'[u] # None
    BY <2>3, <2>4
  <2> QED BY <2>5, <2>6, <2>7
<1>22. CASE CloseNoMonitor(t)
  BY <1>22 DEF CloseNoMonitor
<1>23. CASE CloseFree(t)
  BY <1>23 DEF CloseFree
<1>24. CASE DownUnlist(t)
  BY <1>24 DEF DownUnlist
<1>25. CASE DownRefused(t)
  <2>1. close_pc[t] = "idle" /\ closing[t] = None
    BY <1>25 DEF DownRefused
  <2>2. below[t] # None => below[t] \in Handles
    OBVIOUS
  <2> QED BY <1>25, <2>1, <2>2 DEF DownRefused
<1>26. CASE EofLock(t)
  BY <1>26 DEF EofLock
<1>27. ASSUME NEW md \in Modules, Eof(t, md) PROVE NonNull'
  BY <1>27 DEF Eof
<1>28. CASE EofUnlock(t)
  BY <1>28 DEF EofUnlock
<1>29. CASE DownDec(t)
  <2>1. close_pc[t] = "idle" /\ closing[t] = None
    BY <1>29 DEF DownDec
  <2>2. below[t] # None => below[t] \in Handles
    OBVIOUS
  <2> QED BY <1>29, <2>1, <2>2 DEF DownDec
<1>30. CASE DownLoad(t)
  BY <1>30 DEF DownLoad
<1>31. CASE DownStore(t)
  <2>1. close_pc[t] = "idle" /\ closing[t] = None
    BY <1>31 DEF DownStore
  <2>2. below[t] # None => below[t] \in Handles
    OBVIOUS
  <2> QED BY <1>31, <2>1, <2>2 DEF DownStore
<1> QED
  BY ONLY User(t) \/ SysCall(t), <1>1, <1>2, <1>3, <1>4, <1>5, <1>6, <1>7, <1>8,
          <1>9, <1>10, <1>11, <1>12, <1>13, <1>14, <1>15, <1>16, <1>17, <1>18, <1>19,
          <1>20, <1>21, <1>22, <1>23, <1>24, <1>25, <1>26, <1>27, <1>28, <1>29, <1>30,
          <1>31 DEF User, SysCall

\* The holder of connected_modules_write_lock.
LEMMA LockHoldersNext ==
    ASSUME IInv, NEW t \in Handles, User(t) \/ SysCall(t)
    PROVE  LockHolders'
<1>inv. TypeOK /\ LockHolders /\ Stack
  BY DEF IInv
<1>down. CloseRefdown(t) => /\ closing[t] \in Handles /\ pc[closing[t]] = "gone"
                            /\ monitor' = [monitor EXCEPT ![closing[t]] = None]
                            /\ pc' = pc
  BY CloseRefdownContext DEF CloseRefdown
<1> USE <1>inv, ManagerAssumption DEF TypeOK, Types, NonNull, Handles,
        MonitorInUse, Stack, LockHolders, Holds
<1>1. CASE Open(t)
  BY <1>1 DEF Open
<1>2. CASE Create(t)
  BY <1>2 DEF Create
<1>3. ASSUME NEW m \in Owners, Attach(t, m) PROVE LockHolders'
  BY <1>3 DEF Attach
<1>4. ASSUME NEW m \in Owners, AttachLoad(t, m) PROVE LockHolders'
  BY <1>4 DEF AttachLoad
<1>5. ASSUME NEW md \in Modules, IncomingMessage(t, md) PROVE LockHolders'
  BY <1>5 DEF IncomingMessage
<1>6. CASE IoctlClose(t)
  BY <1>6 DEF IoctlClose
<1>7. CASE CloseHandle(t)
  BY <1>7 DEF CloseHandle
<1>8. CASE AttachStore(t)
  BY <1>8 DEF AttachStore
<1>9. CASE AttachLock(t)
  BY <1>9 DEF AttachLock
<1>10. ASSUME NEW md \in Modules, Connect(t, md) PROVE LockHolders'
  BY <1>10 DEF Connect
<1>11. ASSUME NEW md \in Modules, ReplaceClose(t, md) PROVE LockHolders'
  BY <1>11 DEF ReplaceClose
<1>12. CASE Replace(t)
  BY <1>12 DEF Replace
<1>13. CASE AttachUnlock(t)
  BY <1>13 DEF AttachUnlock
<1>14. CASE SendDone(t)
  BY <1>14 DEF SendDone
<1>15. CASE IoctlCloseDone(t)
  BY <1>15 DEF IoctlCloseDone
<1>16. CASE DisconnectLock(t)
  BY <1>16 DEF DisconnectLock
<1>17. ASSUME NEW md \in Modules, Disconnect(t, md) PROVE LockHolders'
  BY <1>17 DEF Disconnect
<1>18. CASE DisconnectUnlock(t)
  BY <1>18 DEF DisconnectUnlock
<1>19. CASE LastClose(t)
  BY <1>19 DEF LastClose
<1>20. CASE CloseDec(t)
  BY <1>20 DEF CloseDec
<1>21. CASE CloseRefdown(t)
  <2>1. \A u \in Handles : monitor'[u] # monitor[u] => pc[u] = "gone"
    BY <1>21, <1>down DEF CloseRefdown
  <2>2. \A u \in Handles : /\ down_pc'[u] = "eof" <=> down_pc[u] = "eof"
                           /\ down_pc[u] = "eof" => down'[u] = down[u]
    BY <1>21 DEF CloseRefdown
  <2>3. \A u \in Handles, m \in Owners : Holds(u, m)' <=> Holds(u, m)
    BY <1>21, <2>1, <2>2 DEF CloseRefdown, Holds
  <2> QED BY <1>21, <2>3 DEF CloseRefdown, LockHolders
<1>22. CASE CloseNoMonitor(t)
  BY <1>22 DEF CloseNoMonitor
<1>23. CASE CloseFree(t)
  BY <1>23 DEF CloseFree
<1>24. CASE DownUnlist(t)
  BY <1>24 DEF DownUnlist
<1>25. CASE DownRefused(t)
  BY <1>25 DEF DownRefused
<1>26. CASE EofLock(t)
  BY <1>26 DEF EofLock
<1>27. ASSUME NEW md \in Modules, Eof(t, md) PROVE LockHolders'
  BY <1>27 DEF Eof
<1>28. CASE EofUnlock(t)
  <2>2. \A u \in Handles, m \in Owners : Holds(u, m)' <=> Holds(u, m) /\ u # t
    BY <1>28, InRefdown DEF EofUnlock, Holds
  <2>3. \A m \in Owners : lock[m] = t <=> m = down[t]
    BY <1>28, InRefdown DEF EofUnlock
  <2> QED BY <1>28, <2>2, <2>3 DEF EofUnlock, LockHolders
<1>29. CASE DownDec(t)
  BY <1>29 DEF DownDec
<1>30. CASE DownLoad(t)
  BY <1>30 DEF DownLoad
<1>31. CASE DownStore(t)
  BY <1>31 DEF DownStore
<1> QED
  BY ONLY User(t) \/ SysCall(t), <1>1, <1>2, <1>3, <1>4, <1>5, <1>6, <1>7, <1>8,
          <1>9, <1>10, <1>11, <1>12, <1>13, <1>14, <1>15, <1>16, <1>17, <1>18, <1>19,
          <1>20, <1>21, <1>22, <1>23, <1>24, <1>25, <1>26, <1>27, <1>28, <1>29, <1>30,
          <1>31 DEF User, SysCall

\* The nesting of closes and refdowns.
LEMMA StackNext ==
    ASSUME IInv, NEW t \in Handles, User(t) \/ SysCall(t)
    PROVE  Stack'
<1>eof. \A md \in Modules : Eof(t, md) => below[t] # connected_modules[down[t]][md]
  BY EofReference DEF Closers
<1>inv. TypeOK /\ Stack
  BY DEF IInv
<1> USE <1>inv, ManagerAssumption DEF TypeOK, Types, NonNull, Handles,
        MonitorInUse, Stack
<1>1. CASE Open(t)
  BY <1>1 DEF Open
<1>2. CASE Create(t)
  BY <1>2 DEF Create
<1>3. ASSUME NEW m \in Owners, Attach(t, m) PROVE Stack'
  BY <1>3 DEF Attach
<1>4. ASSUME NEW m \in Owners, AttachLoad(t, m) PROVE Stack'
  BY <1>4 DEF AttachLoad
<1>5. ASSUME NEW md \in Modules, IncomingMessage(t, md) PROVE Stack'
  BY <1>5 DEF IncomingMessage
<1>6. CASE IoctlClose(t)
  BY <1>6 DEF IoctlClose
<1>7. CASE CloseHandle(t)
  BY <1>7 DEF CloseHandle
<1>8. CASE AttachStore(t)
  BY <1>8 DEF AttachStore
<1>9. CASE AttachLock(t)
  BY <1>9 DEF AttachLock
<1>10. ASSUME NEW md \in Modules, Connect(t, md) PROVE Stack'
  BY <1>10 DEF Connect
<1>11. ASSUME NEW md \in Modules, ReplaceClose(t, md) PROVE Stack'
  BY <1>11 DEF ReplaceClose
<1>12. CASE Replace(t)
  BY <1>12 DEF Replace
<1>13. CASE AttachUnlock(t)
  BY <1>13 DEF AttachUnlock
<1>14. CASE SendDone(t)
  BY <1>14 DEF SendDone
<1>15. CASE IoctlCloseDone(t)
  BY <1>15 DEF IoctlCloseDone
<1>16. CASE DisconnectLock(t)
  BY <1>16 DEF DisconnectLock
<1>17. ASSUME NEW md \in Modules, Disconnect(t, md) PROVE Stack'
  BY <1>17 DEF Disconnect
<1>18. CASE DisconnectUnlock(t)
  BY <1>18 DEF DisconnectUnlock
<1>19. CASE LastClose(t)
  BY <1>19 DEF LastClose
<1>20. CASE CloseDec(t)
  BY <1>20 DEF CloseDec
<1>21. CASE CloseRefdown(t)
  BY <1>21, CloseRefdownContext DEF CloseRefdown
<1>22. CASE CloseNoMonitor(t)
  BY <1>22 DEF CloseNoMonitor
<1>23. CASE CloseFree(t)
  BY <1>23 DEF CloseFree
<1>24. CASE DownUnlist(t)
  BY <1>24 DEF DownUnlist
<1>25. CASE DownRefused(t)
  BY <1>25 DEF DownRefused
<1>26. CASE EofLock(t)
  BY <1>26 DEF EofLock
<1>27. ASSUME NEW md \in Modules, Eof(t, md) PROVE Stack'
  BY <1>27, <1>eof DEF Eof
<1>28. CASE EofUnlock(t)
  BY <1>28 DEF EofUnlock
<1>29. CASE DownDec(t)
  BY <1>29 DEF DownDec
<1>30. CASE DownLoad(t)
  BY <1>30 DEF DownLoad
<1>31. CASE DownStore(t)
  BY <1>31 DEF DownStore
<1> QED
  BY ONLY User(t) \/ SysCall(t), <1>1, <1>2, <1>3, <1>4, <1>5, <1>6, <1>7, <1>8,
          <1>9, <1>10, <1>11, <1>12, <1>13, <1>14, <1>15, <1>16, <1>17, <1>18, <1>19,
          <1>20, <1>21, <1>22, <1>23, <1>24, <1>25, <1>26, <1>27, <1>28, <1>29, <1>30,
          <1>31 DEF User, SysCall

\* The occupants of the slots.
LEMMA SlotMembersNext ==
    ASSUME IInv, NEW t \in Handles, User(t) \/ SysCall(t)
    PROVE  SlotMembers'
<1>inv. TypeOK /\ LockHolders /\ Stack /\ SlotMembers
  BY DEF IInv
<1>down. CloseRefdown(t) => /\ closing[t] \in Handles /\ pc[closing[t]] = "gone"
                            /\ monitor' = [monitor EXCEPT ![closing[t]] = None]
                            /\ pc' = pc
  BY CloseRefdownContext DEF CloseRefdown
<1>mem. ASSUME CloseRefdown(t), NEW u \in Handles, NEW m \in Owners, Member(u, m)
        PROVE  Member(u, m)'
  <2>1. monitor \in [Handles -> Owners \cup {None}]
    BY DEF IInv, TypeOK, Types
  <2> QED BY ONLY <1>mem, <1>down, <2>1 DEF Member
<1> USE <1>inv, ManagerAssumption DEF TypeOK, Types, NonNull, Handles,
        MonitorInUse, Stack, LockHolders, Holds, SlotMembers, Member
<1>1. CASE Open(t)
  BY <1>1 DEF Open
<1>2. CASE Create(t)
  BY <1>2 DEF Create
<1>3. ASSUME NEW m \in Owners, Attach(t, m) PROVE SlotMembers'
  BY <1>3 DEF Attach
<1>4. ASSUME NEW m \in Owners, AttachLoad(t, m) PROVE SlotMembers'
  BY <1>4 DEF AttachLoad
<1>5. ASSUME NEW md \in Modules, IncomingMessage(t, md) PROVE SlotMembers'
  BY <1>5 DEF IncomingMessage
<1>6. CASE IoctlClose(t)
  BY <1>6 DEF IoctlClose
<1>7. CASE CloseHandle(t)
  BY <1>7 DEF CloseHandle
<1>8. CASE AttachStore(t)
  BY <1>8 DEF AttachStore
<1>9. CASE AttachLock(t)
  BY <1>9 DEF AttachLock
<1>10. ASSUME NEW md \in Modules, Connect(t, md) PROVE SlotMembers'
  BY <1>10 DEF Connect
<1>11. ASSUME NEW md \in Modules, ReplaceClose(t, md) PROVE SlotMembers'
  BY <1>11 DEF ReplaceClose
<1>12. CASE Replace(t)
  BY <1>12 DEF Replace
<1>13. CASE AttachUnlock(t)
  BY <1>13 DEF AttachUnlock
<1>14. CASE SendDone(t)
  BY <1>14 DEF SendDone
<1>15. CASE IoctlCloseDone(t)
  BY <1>15 DEF IoctlCloseDone
<1>16. CASE DisconnectLock(t)
  BY <1>16 DEF DisconnectLock
<1>17. ASSUME NEW md \in Modules, Disconnect(t, md) PROVE SlotMembers'
  BY <1>17 DEF Disconnect
<1>18. CASE DisconnectUnlock(t)
  BY <1>18 DEF DisconnectUnlock, SlotsOf
<1>19. CASE LastClose(t)
  BY <1>19 DEF LastClose
<1>20. CASE CloseDec(t)
  BY <1>20 DEF CloseDec
<1>21. CASE CloseRefdown(t)
  <2> HIDE DEF Member
  <2> QED BY <1>21, <1>mem DEF CloseRefdown, SlotMembers
<1>22. CASE CloseNoMonitor(t)
  BY <1>22 DEF CloseNoMonitor
<1>23. CASE CloseFree(t)
  BY <1>23 DEF CloseFree
<1>24. CASE DownUnlist(t)
  BY <1>24 DEF DownUnlist
<1>25. CASE DownRefused(t)
  BY <1>25 DEF DownRefused
<1>26. CASE EofLock(t)
  BY <1>26 DEF EofLock
<1>27. ASSUME NEW md \in Modules, Eof(t, md) PROVE SlotMembers'
  BY <1>27 DEF Eof
<1>28. CASE EofUnlock(t)
  BY <1>28 DEF EofUnlock
<1>29. CASE DownDec(t)
  BY <1>29 DEF DownDec
<1>30. CASE DownLoad(t)
  BY <1>30 DEF DownLoad
<1>31. CASE DownStore(t)
  BY <1>31 DEF DownStore
<1> QED
  BY ONLY User(t) \/ SysCall(t), <1>1, <1>2, <1>3, <1>4, <1>5, <1>6, <1>7, <1>8,
          <1>9, <1>10, <1>11, <1>12, <1>13, <1>14, <1>15, <1>16, <1>17, <1>18, <1>19,
          <1>20, <1>21, <1>22, <1>23, <1>24, <1>25, <1>26, <1>27, <1>28, <1>29, <1>30,
          <1>31 DEF User, SysCall

\* The descriptors closed under the lock.
LEMMA LockedMembersNext ==
    ASSUME IInv, NEW t \in Handles, User(t) \/ SysCall(t)
    PROVE  LockedMembers'
<1>inv. TypeOK /\ LockHolders /\ Stack /\ SlotMembers /\ LockedMembers
  BY DEF IInv
<1>down. CloseRefdown(t) => /\ closing[t] \in Handles /\ pc[closing[t]] = "gone"
                            /\ monitor' = [monitor EXCEPT ![closing[t]] = None]
                            /\ pc' = pc
  BY CloseRefdownContext DEF CloseRefdown
<1>mem. ASSUME CloseRefdown(t), NEW u \in Handles, NEW m \in Owners, Member(u, m)
        PROVE  Member(u, m)'
  <2>1. monitor \in [Handles -> Owners \cup {None}]
    BY DEF IInv, TypeOK, Types
  <2> QED BY ONLY <1>mem, <1>down, <2>1 DEF Member
<1>apart. ASSUME monitor[t] = None, pc[t] = "user",
                 NEW u \in Handles, NEW n \in Owners, lock[n] = u
          PROVE  closing[u] # t
  BY <1>apart, ManagerAssumption DEF IInv, LockedMembers, Member, Handles
<1> USE <1>inv, ManagerAssumption DEF TypeOK, Types, NonNull, Handles,
        MonitorInUse, Stack, LockHolders, Holds, SlotMembers, LockedMembers, Member
<1>1. CASE Open(t)
  BY <1>1 DEF Open
<1>2. CASE Create(t)
  BY <1>2 DEF Create
<1>3. ASSUME NEW m \in Owners, Attach(t, m) PROVE LockedMembers'
  BY <1>3 DEF Attach
<1>4. ASSUME NEW m \in Owners, AttachLoad(t, m) PROVE LockedMembers'
  <2>1. \A u \in Handles, n \in Owners : lock[n] = u => closing[u] # t
    BY <1>4, <1>apart DEF AttachLoad
  <2>2. ASSUME NEW u \in Handles, u # t, NEW n \in Owners, Member(u, n) PROVE Member(u, n)'
    BY <1>4, <2>2 DEF AttachLoad
  <2>3. lock' = lock /\ closing' = closing
    BY <1>4 DEF AttachLoad
  <2> HIDE DEF Member
  <2> QED BY <2>1, <2>2, <2>3
<1>5. ASSUME NEW md \in Modules, IncomingMessage(t, md) PROVE LockedMembers'
  BY <1>5 DEF IncomingMessage
<1>6. CASE IoctlClose(t)
  BY <1>6 DEF IoctlClose
<1>7. CASE CloseHandle(t)
  BY <1>7 DEF CloseHandle
<1>8. CASE AttachStore(t)
  BY <1>8 DEF AttachStore
<1>9. CASE AttachLock(t)
  BY <1>9 DEF AttachLock
<1>10. ASSUME NEW md \in Modules, Connect(t, md) PROVE LockedMembers'
  BY <1>10 DEF Connect
<1>11. ASSUME NEW md \in Modules, ReplaceClose(t, md) PROVE LockedMembers'
  BY <1>11 DEF ReplaceClose
<1>12. CASE Replace(t)
  BY <1>12 DEF Replace
<1>13. CASE AttachUnlock(t)
  BY <1>13 DEF AttachUnlock
<1>14. CASE SendDone(t)
  <2>1. \A m \in Owners : lock[m] # t
    BY <1>14 DEF SendDone, LockHolders, Holds
  <2> QED BY <1>14, <2>1 DEF SendDone, LockedMembers, Member
<1>15. CASE IoctlCloseDone(t)
  BY <1>15 DEF IoctlCloseDone
<1>16. CASE DisconnectLock(t)
  BY <1>16 DEF DisconnectLock
<1>17. ASSUME NEW md \in Modules, Disconnect(t, md) PROVE LockedMembers'
  BY <1>17 DEF Disconnect
<1>18. CASE DisconnectUnlock(t)
  BY <1>18 DEF DisconnectUnlock
<1>19. CASE LastClose(t)
  BY <1>19 DEF LastClose
<1>20. CASE CloseDec(t)
  BY <1>20 DEF CloseDec
<1>21. CASE CloseRefdown(t)
  <2> HIDE DEF Member
  <2> QED BY <1>21, <1>mem DEF CloseRefdown, LockedMembers
<1>22. CASE CloseNoMonitor(t)
  BY <1>22 DEF CloseNoMonitor
<1>23. CASE CloseFree(t)
  BY <1>23 DEF CloseFree
<1>24. CASE DownUnlist(t)
  BY <1>24 DEF DownUnlist
<1>25. CASE DownRefused(t)
  <2>1. \A m \in Owners : lock[m] # t
    BY <1>25, InRefdown DEF DownRefused
  <2> QED BY <1>25, <2>1 DEF DownRefused, LockedMembers, Member
<1>26. CASE EofLock(t)
  BY <1>26 DEF EofLock
<1>27. ASSUME NEW md \in Modules, Eof(t, md) PROVE LockedMembers'
  <2>1. \A m \in Owners : lock[m] = t => m = down[t]
    BY <1>27, InRefdown DEF Eof
  <2>2. Member(connected_modules[down[t]][md], down[t])
    BY <1>27, EofReference
  <2>3. closing' = [closing EXCEPT ![t] = connected_modules[down[t]][md]]
    BY <1>27 DEF Eof
  <2>4. UNCHANGED <<lock, monitor, pc>>
    BY <1>27 DEF Eof
  <2> QED BY ONLY <2>1, <2>2, <2>3, <2>4, <1>inv DEF TypeOK, Types, LockedMembers, Member
<1>28. CASE EofUnlock(t)
  BY <1>28 DEF EofUnlock
<1>29. CASE DownDec(t)
  <2>1. \A m \in Owners : lock[m] # t
    BY SMTT(30), <1>29, InRefdown DEF DownDec
  <2> QED BY <1>29, <2>1 DEF DownDec, LockedMembers, Member
<1>30. CASE DownLoad(t)
  BY <1>30 DEF DownLoad
<1>31. CASE DownStore(t)
  <2>1. \A m \in Owners : lock[m] # t
    BY <1>31, InRefdown DEF DownStore
  <2> QED BY <1>31, <2>1 DEF DownStore, LockedMembers, Member
<1> QED
  BY ONLY User(t) \/ SysCall(t), <1>1, <1>2, <1>3, <1>4, <1>5, <1>6, <1>7, <1>8,
          <1>9, <1>10, <1>11, <1>12, <1>13, <1>14, <1>15, <1>16, <1>17, <1>18, <1>19,
          <1>20, <1>21, <1>22, <1>23, <1>24, <1>25, <1>26, <1>27, <1>28, <1>29, <1>30,
          <1>31 DEF User, SysCall

\* A close drops a reference that the count still includes.
LEMMA CloseDecReference ==
    ASSUME IInv, NEW t \in Handles, CloseDec(t)
    PROVE  closing[t] \in Handles /\ ref_count[closing[t]] \in Nat \ {0}
<1>1. closing[t] \in Handles /\ t \in Releasers(closing[t])
  BY DEF CloseDec, Releasers, IInv, TypeOK, Types, NonNull
<1> QED BY <1>1, Referencing DEF IInv, Referenced

\* The memory of a descriptor.
LEMMA MemoriesNext ==
    ASSUME IInv, NEW t \in Handles, User(t) \/ SysCall(t)
    PROVE  Memories'
<1>inv. TypeOK /\ Memories /\ LastCloser /\ Stack
  BY DEF IInv
<1>count. \A X \in Handles : /\ ref_count[X] \in Nat
                             /\ HandleOpen(X) => ref_count[X] > 0
  BY Referencing DEF IInv, Referenced
<1>dec. CloseDec(t) => closing[t] \in Handles /\ ref_count[closing[t]] \in Nat \ {0}
  BY CloseDecReference
<1> USE <1>inv, ManagerAssumption DEF TypeOK, Types, NonNull, Handles,
        MonitorInUse, Stack, Memories, LastCloser, Closers
<1>1. CASE Open(t)
  BY <1>1 DEF Open
<1>2. CASE Create(t)
  BY <1>2 DEF Create
<1>3. ASSUME NEW m \in Owners, Attach(t, m) PROVE Memories'
  BY <1>3 DEF Attach
<1>4. ASSUME NEW m \in Owners, AttachLoad(t, m) PROVE Memories'
  BY <1>4 DEF AttachLoad
<1>5. ASSUME NEW md \in Modules, IncomingMessage(t, md) PROVE Memories'
  <2>1. \A X \in Handles : ref_count[X] \in Nat
    BY <1>count
  <2> QED BY <1>5, <2>1 DEF IncomingMessage
<1>6. CASE IoctlClose(t)
  BY <1>6 DEF IoctlClose
<1>7. CASE CloseHandle(t)
  BY <1>7 DEF CloseHandle
<1>8. CASE AttachStore(t)
  BY <1>8 DEF AttachStore
<1>9. CASE AttachLock(t)
  BY <1>9 DEF AttachLock
<1>10. ASSUME NEW md \in Modules, Connect(t, md) PROVE Memories'
  <2>1. ref_count[t] > 0
    BY <1>10, <1>count DEF Connect, HandleOpen
  <2> QED BY <1>10, <2>1 DEF Connect
<1>11. ASSUME NEW md \in Modules, ReplaceClose(t, md) PROVE Memories'
  BY <1>11 DEF ReplaceClose
<1>12. CASE Replace(t)
  <2>1. ref_count[t] > 0
    BY <1>12, <1>count DEF Replace, HandleOpen
  <2> QED BY <1>12, <2>1 DEF Replace
<1>13. CASE AttachUnlock(t)
  BY <1>13 DEF AttachUnlock
<1>14. CASE SendDone(t)
  BY <1>14 DEF SendDone
<1>15. CASE IoctlCloseDone(t)
  BY <1>15 DEF IoctlCloseDone
<1>16. CASE DisconnectLock(t)
  BY <1>16 DEF DisconnectLock
<1>17. ASSUME NEW md \in Modules, Disconnect(t, md) PROVE Memories'
  BY <1>17 DEF Disconnect
<1>18. CASE DisconnectUnlock(t)
  BY <1>18 DEF DisconnectUnlock
<1>19. CASE LastClose(t)
  BY <1>19 DEF LastClose
<1>20. CASE CloseDec(t)
  <2>1. /\ closing[t] \in Handles /\ ref_count[closing[t]] \in Nat \ {0}
        /\ pc[closing[t]] # "none"
    BY <1>20, <1>dec
  <2>2. \A X \in Handles : X # closing[t] => Closers(X)' = Closers(X)
    BY <1>20 DEF CloseDec
  <2> HIDE DEF Closers
  <2> QED BY <1>20, <2>1, <2>2 DEF CloseDec
<1>21. CASE CloseRefdown(t)
  BY <1>21 DEF CloseRefdown
<1>22. CASE CloseNoMonitor(t)
  BY <1>22 DEF CloseNoMonitor
<1>23. CASE CloseFree(t)
  <2>1. /\ closing[t] \in Handles
        /\ ref_count[closing[t]] = 0 /\ pc[closing[t]] = "gone"
    BY <1>23, CloserGone DEF CloseFree, Closers
  <2> QED BY <1>23, <2>1 DEF CloseFree
<1>24. CASE DownUnlist(t)
  BY <1>24 DEF DownUnlist
<1>25. CASE DownRefused(t)
  BY <1>25 DEF DownRefused
<1>26. CASE EofLock(t)
  BY <1>26 DEF EofLock
<1>27. ASSUME NEW md \in Modules, Eof(t, md) PROVE Memories'
  BY <1>27 DEF Eof
<1>28. CASE EofUnlock(t)
  BY <1>28 DEF EofUnlock
<1>29. CASE DownDec(t)
  BY <1>29 DEF DownDec
<1>30. CASE DownLoad(t)
  BY <1>30 DEF DownLoad
<1>31. CASE DownStore(t)
  BY <1>31 DEF DownStore
<1> QED
  BY ONLY User(t) \/ SysCall(t), <1>1, <1>2, <1>3, <1>4, <1>5, <1>6, <1>7, <1>8,
          <1>9, <1>10, <1>11, <1>12, <1>13, <1>14, <1>15, <1>16, <1>17, <1>18, <1>19,
          <1>20, <1>21, <1>22, <1>23, <1>24, <1>25, <1>26, <1>27, <1>28, <1>29, <1>30,
          <1>31 DEF User, SysCall

\* The close of a last reference.
LEMMA LastCloserNext ==
    ASSUME IInv, NEW t \in Handles, User(t) \/ SysCall(t)
    PROVE  LastCloser'
<1>inv. TypeOK /\ LastCloser /\ Stack
  BY DEF IInv
<1>count. \A X \in Handles : /\ ref_count[X] \in Nat
                             /\ HandleOpen(X) => ref_count[X] > 0
  BY Referencing DEF IInv, Referenced
<1>dec. CloseDec(t) => closing[t] \in Handles /\ ref_count[closing[t]] \in Nat \ {0}
  BY CloseDecReference
<1>none. \A X \in Handles : /\ pc[X] = "none" => Closers(X) = {}
                            /\ ref_count[X] > 0 => desc[X] = "live"
  BY DEF IInv, Memories
<1> USE <1>inv, ManagerAssumption DEF TypeOK, Types, NonNull, Handles,
        MonitorInUse, Stack, LastCloser, Closers
<1>1. CASE Open(t)
  BY <1>1, <1>none DEF Open
<1>2. CASE Create(t)
  BY <1>2 DEF Create
<1>3. ASSUME NEW m \in Owners, Attach(t, m) PROVE LastCloser'
  BY <1>3 DEF Attach
<1>4. ASSUME NEW m \in Owners, AttachLoad(t, m) PROVE LastCloser'
  BY <1>4 DEF AttachLoad
<1>5. ASSUME NEW md \in Modules, IncomingMessage(t, md) PROVE LastCloser'
  BY <1>5 DEF IncomingMessage
<1>6. CASE IoctlClose(t)
  BY <1>6 DEF IoctlClose
<1>7. CASE CloseHandle(t)
  BY <1>7 DEF CloseHandle
<1>8. CASE AttachStore(t)
  BY <1>8 DEF AttachStore
<1>9. CASE AttachLock(t)
  BY <1>9 DEF AttachLock
<1>10. ASSUME NEW md \in Modules, Connect(t, md) PROVE LastCloser'
  <2>1. ref_count[t] > 0
    BY <1>10, <1>count DEF Connect, HandleOpen
  <2> QED BY <1>10, <2>1 DEF Connect
<1>11. ASSUME NEW md \in Modules, ReplaceClose(t, md) PROVE LastCloser'
  BY <1>11 DEF ReplaceClose
<1>12. CASE Replace(t)
  <2>1. ref_count[t] > 0
    BY <1>12, <1>count DEF Replace, HandleOpen
  <2> QED BY <1>12, <2>1 DEF Replace
<1>13. CASE AttachUnlock(t)
  BY <1>13 DEF AttachUnlock
<1>14. CASE SendDone(t)
  BY <1>14 DEF SendDone
<1>15. CASE IoctlCloseDone(t)
  BY <1>15 DEF IoctlCloseDone
<1>16. CASE DisconnectLock(t)
  BY <1>16 DEF DisconnectLock
<1>17. ASSUME NEW md \in Modules, Disconnect(t, md) PROVE LastCloser'
  BY <1>17 DEF Disconnect
<1>18. CASE DisconnectUnlock(t)
  BY <1>18 DEF DisconnectUnlock
<1>19. CASE LastClose(t)
  BY <1>19 DEF LastClose
<1>20. CASE CloseDec(t)
  <2> SUFFICES ASSUME NEW X \in Handles, X = closing[t]
               PROVE  LastCloser'
    BY <1>20, <1>dec
  <2>1. Closers(X) = {} /\ desc[X] = "live"
    BY <1>20, <1>dec, <1>none
  <2>2. \A Y \in Handles : Y # X => Closers(Y)' = Closers(Y) /\ ref_count'[Y] = ref_count[Y]
    BY <1>20 DEF CloseDec
  <2>3. Closers(X)' \subseteq {t}
    BY <1>20, <2>1 DEF CloseDec
  <2>4. ASSUME ref_count'[X] # 0 PROVE Closers(X)' = {}
    <3>1. /\ closing' = [closing EXCEPT ![t] = None]
          /\ close_pc' = [close_pc EXCEPT ![t] = "idle"]
      BY <1>20, <2>4 DEF CloseDec
    <3> QED BY <1>20, <2>1, <3>1 DEF CloseDec
  <2>5. UNCHANGED desc
    BY <1>20 DEF CloseDec
  <2> SUFFICES ASSUME NEW Y \in Handles
               PROVE  /\ Closers(Y)' # {} => ref_count'[Y] = 0 /\ desc'[Y] = "live"
                      /\ \A u, v \in Closers(Y)' : u = v
    BY DEF LastCloser
  <2>6. CASE Y = X
    BY <2>1, <2>3, <2>4, <2>5, <2>6
  <2>7. CASE Y # X
    BY <2>2, <2>5, <2>7
  <2> QED BY <2>6, <2>7
<1>21. CASE CloseRefdown(t)
  BY <1>21 DEF CloseRefdown
<1>22. CASE CloseNoMonitor(t)
  BY <1>22 DEF CloseNoMonitor
<1>23. CASE CloseFree(t)
  BY <1>23 DEF CloseFree
<1>24. CASE DownUnlist(t)
  BY <1>24 DEF DownUnlist
<1>25. CASE DownRefused(t)
  BY <1>25 DEF DownRefused
<1>26. CASE EofLock(t)
  BY <1>26 DEF EofLock
<1>27. ASSUME NEW md \in Modules, Eof(t, md) PROVE LastCloser'
  BY <1>27 DEF Eof
<1>28. CASE EofUnlock(t)
  BY <1>28 DEF EofUnlock
<1>29. CASE DownDec(t)
  BY <1>29 DEF DownDec
<1>30. CASE DownLoad(t)
  BY <1>30 DEF DownLoad
<1>31. CASE DownStore(t)
  BY <1>31 DEF DownStore
<1> QED
  BY ONLY User(t) \/ SysCall(t), <1>1, <1>2, <1>3, <1>4, <1>5, <1>6, <1>7, <1>8,
          <1>9, <1>10, <1>11, <1>12, <1>13, <1>14, <1>15, <1>16, <1>17, <1>18, <1>19,
          <1>20, <1>21, <1>22, <1>23, <1>24, <1>25, <1>26, <1>27, <1>28, <1>29, <1>30,
          <1>31 DEF User, SysCall

\* The count of a descriptor.
LEMMA RefCountExactNext ==
    ASSUME IInv, NEW t \in Handles, User(t) \/ SysCall(t)
    PROVE  RefCountExact'
<1>inv. TypeOK /\ RefCountExact /\ Stack
  BY DEF IInv
<1> USE <1>inv, ManagerAssumption DEF Handles
<1>1. CASE Open(t)
  BY <1>1, RefCountOpen
<1>2. CASE Create(t)
  <2>1. KeepsReferences
    BY <1>2 DEF Create, KeepsReferences, HandleOpen, TypeOK, Types, NonNull, Stack
  <2> QED BY <2>1, SameReferences
<1>3. ASSUME NEW m \in Owners, Attach(t, m) PROVE RefCountExact'
  <2>1. KeepsReferences
    BY <1>3 DEF Attach, KeepsReferences, HandleOpen, TypeOK, Types, NonNull, Stack
  <2> QED BY <2>1, SameReferences
<1>4. ASSUME NEW m \in Owners, AttachLoad(t, m) PROVE RefCountExact'
  <2>1. KeepsReferences
    BY <1>4 DEF AttachLoad, KeepsReferences, HandleOpen, TypeOK, Types, NonNull, Stack
  <2> QED BY <2>1, SameReferences
<1>5. ASSUME NEW md \in Modules, IncomingMessage(t, md) PROVE RefCountExact'
  BY <1>5, RefCountIncomingMessage
<1>6. CASE IoctlClose(t)
  <2>1. KeepsReferences
    BY <1>6 DEF IoctlClose, KeepsReferences, HandleOpen, TypeOK, Types, NonNull, Stack
  <2> QED BY <2>1, SameReferences
<1>7. CASE CloseHandle(t)
  <2>1. KeepsReferences
    BY <1>7 DEF CloseHandle, KeepsReferences, HandleOpen, TypeOK, Types, NonNull, Stack
  <2> QED BY <2>1, SameReferences
<1>8. CASE AttachStore(t)
  <2>1. KeepsReferences
    BY <1>8 DEF AttachStore, KeepsReferences, HandleOpen, TypeOK, Types, NonNull, Stack
  <2> QED BY <2>1, SameReferences
<1>9. CASE AttachLock(t)
  <2>1. KeepsReferences
    BY <1>9 DEF AttachLock, KeepsReferences, HandleOpen, TypeOK, Types, NonNull, Stack
  <2> QED BY <2>1, SameReferences
<1>10. ASSUME NEW md \in Modules, Connect(t, md) PROVE RefCountExact'
  BY <1>10, RefCountConnect
<1>11. ASSUME NEW md \in Modules, ReplaceClose(t, md) PROVE RefCountExact'
  BY <1>11, RefCountReplaceClose
<1>12. CASE Replace(t)
  BY <1>12, RefCountReplace
<1>13. CASE AttachUnlock(t)
  <2>1. KeepsReferences
    BY <1>13 DEF AttachUnlock, KeepsReferences, HandleOpen, TypeOK, Types, NonNull, Stack
  <2> QED BY <2>1, SameReferences
<1>14. CASE SendDone(t)
  BY <1>14, RefCountSendDone
<1>15. CASE IoctlCloseDone(t)
  <2>1. KeepsReferences
    BY <1>15 DEF IoctlCloseDone, KeepsReferences, HandleOpen, TypeOK, Types, NonNull, Stack
  <2> QED BY <2>1, SameReferences
<1>16. CASE DisconnectLock(t)
  <2>1. KeepsReferences
    BY <1>16 DEF DisconnectLock, KeepsReferences, HandleOpen, TypeOK, Types, NonNull, Stack
  <2> QED BY <2>1, SameReferences
<1>17. ASSUME NEW md \in Modules, Disconnect(t, md) PROVE RefCountExact'
  BY <1>17, RefCountDisconnect
<1>18. CASE DisconnectUnlock(t)
  <2>1. KeepsReferences
    BY <1>18 DEF DisconnectUnlock, KeepsReferences, HandleOpen, TypeOK, Types, NonNull, Stack
  <2> QED BY <2>1, SameReferences
<1>19. CASE LastClose(t)
  BY <1>19, RefCountLastClose
<1>20. CASE CloseDec(t)
  BY <1>20, RefCountCloseDec
<1>21. CASE CloseRefdown(t)
  <2>1. KeepsReferences
    BY <1>21, CloseRefdownContext
       DEF CloseRefdown, KeepsReferences, HandleOpen, TypeOK, Types, NonNull, Stack
  <2> QED BY <2>1, SameReferences
<1>22. CASE CloseNoMonitor(t)
  <2>1. KeepsReferences
    BY <1>22 DEF CloseNoMonitor, KeepsReferences, HandleOpen, TypeOK, Types, NonNull, Stack
  <2> QED BY <2>1, SameReferences
<1>23. CASE CloseFree(t)
  <2>1. KeepsReferences
    BY <1>23 DEF CloseFree, KeepsReferences, HandleOpen, TypeOK, Types, NonNull, Stack
  <2> QED BY <2>1, SameReferences
<1>24. CASE DownUnlist(t)
  <2>1. KeepsReferences
    BY <1>24 DEF DownUnlist, KeepsReferences, HandleOpen, TypeOK, Types, NonNull, Stack
  <2> QED BY <2>1, SameReferences
<1>25. CASE DownRefused(t)
  <2>1. KeepsReferences
    BY <1>25 DEF DownRefused, KeepsReferences, HandleOpen, TypeOK, Types, NonNull, Stack
  <2> QED BY <2>1, SameReferences
<1>26. CASE EofLock(t)
  <2>1. KeepsReferences
    BY <1>26 DEF EofLock, KeepsReferences, HandleOpen, TypeOK, Types, NonNull, Stack
  <2> QED BY <2>1, SameReferences
<1>27. ASSUME NEW md \in Modules, Eof(t, md) PROVE RefCountExact'
  BY <1>27, RefCountEof
<1>28. CASE EofUnlock(t)
  <2>1. KeepsReferences
    BY <1>28 DEF EofUnlock, KeepsReferences, HandleOpen, TypeOK, Types, NonNull, Stack
  <2> QED BY <2>1, SameReferences
<1>29. CASE DownDec(t)
  <2>1. KeepsReferences
    BY <1>29 DEF DownDec, KeepsReferences, HandleOpen, TypeOK, Types, NonNull, Stack
  <2> QED BY <2>1, SameReferences
<1>30. CASE DownLoad(t)
  <2>1. KeepsReferences
    BY <1>30 DEF DownLoad, KeepsReferences, HandleOpen, TypeOK, Types, NonNull, Stack
  <2> QED BY <2>1, SameReferences
<1>31. CASE DownStore(t)
  <2>1. KeepsReferences
    BY <1>31 DEF DownStore, KeepsReferences, HandleOpen, TypeOK, Types, NonNull, Stack
  <2> QED BY <2>1, SameReferences
<1> QED
  BY ONLY User(t) \/ SysCall(t), <1>1, <1>2, <1>3, <1>4, <1>5, <1>6, <1>7, <1>8,
          <1>9, <1>10, <1>11, <1>12, <1>13, <1>14, <1>15, <1>16, <1>17, <1>18, <1>19,
          <1>20, <1>21, <1>22, <1>23, <1>24, <1>25, <1>26, <1>27, <1>28, <1>29, <1>30,
          <1>31 DEF User, SysCall

-----------------------------------------------------------------------------
(* The theorems.                                                           *)

\* The initial states.
LEMMA IInvInit == Init => IInv
<1> SUFFICES ASSUME Init PROVE IInv
  OBVIOUS
<1> USE ManagerAssumption DEF Init, Handles
<1>1. TypeOK
  BY DEF TypeOK, Types, NonNull, MonitorInUse, Memory, PCs, ClosePCs, DownPCs
<1>2. RefCountExact
  <2> SUFFICES ASSUME NEW X \in Handles PROVE ref_count[X] = References(X)
    BY DEF RefCountExact
  <2>1. Senders(X) = {} /\ Releasers(X) = {} /\ Slots(X) = {} /\ ~HandleOpen(X)
    BY DEF Senders, Releasers, Slots, HandleOpen
  <2>2. Cardinality({}) = 0
    BY FS_EmptySet
  <2>3. ref_count[X] = 0
    OBVIOUS
  <2> QED BY <2>1, <2>2, <2>3 DEF References, Opens
<1>3. LockHolders /\ Stack
  BY DEF LockHolders, Holds, Stack
<1>4. Memories /\ LastCloser
  BY DEF Memories, LastCloser, Closers
<1>5. SlotMembers /\ LockedMembers
  BY DEF SlotMembers, LockedMembers
<1> QED BY <1>1, <1>2, <1>3, <1>4, <1>5 DEF IInv

\* The invariant is inductive.
LEMMA IInvNext == IInv /\ [Next]_vars => IInv'
<1> SUFFICES ASSUME IInv, [Next]_vars PROVE IInv'
  OBVIOUS
<1>1. ASSUME NEW t \in Handles, User(t) \/ SysCall(t) PROVE IInv'
  BY ONLY IInv, <1>1, TypesNext, NonNullNext, RefCountExactNext, LockHoldersNext,
          MemoriesNext, LastCloserNext, StackNext, SlotMembersNext, LockedMembersNext
     DEF IInv, TypeOK
<1>2. ASSUME UNCHANGED vars PROVE IInv'
  <2> USE <1>2 DEF vars
  <2>1. TypeOK'
    BY DEF IInv, TypeOK, Types, NonNull
  <2>2. KeepsReferences
    BY DEF KeepsReferences, HandleOpen
  <2>3. RefCountExact'
    BY <2>2, SameReferences DEF IInv
  <2>4. LockHolders' /\ Stack'
    BY DEF IInv, LockHolders, Holds, Stack
  <2>5. Memories' /\ LastCloser'
    BY DEF IInv, Memories, LastCloser, Closers
  <2>6. SlotMembers' /\ LockedMembers'
    BY DEF IInv, SlotMembers, LockedMembers, Member
  <2> QED BY ONLY <2>1, <2>3, <2>4, <2>5, <2>6 DEF IInv
<1> QED BY <1>1, <1>2 DEF Next, Stop

\* The invariant holds in every reachable state.
THEOREM Invariance == Spec => []IInv
BY IInvInit, IInvNext, PTL DEF Spec

\* The types, and that no call follows a pointer which another thread cleared.
THEOREM TypeCorrect == Spec => []TypeOK
<1>1. IInv => TypeOK
  BY DEF IInv
<1> QED BY <1>1, Invariance, PTL

\* The count of every descriptor is the number of references to it.
THEOREM RefCountCorrect == Spec => []RefCountExact
<1>1. IInv => RefCountExact
  BY DEF IInv
<1> QED BY <1>1, Invariance, PTL

\* No reference is to a descriptor that was given back, and no two threads give
\* the same one back.
THEOREM DescriptorsSafe == Spec => []NoDanglingDescriptor
<1>1. IInv => NoDanglingDescriptor
  <2> SUFFICES ASSUME IInv, NEW X \in Handles
               PROVE  /\ Referenced(X) \/ Closers(X) # {} => desc[X] = "live"
                      /\ \A t, u \in Closers(X) : t = u
    BY DEF NoDanglingDescriptor
  <2>1. ASSUME Referenced(X) PROVE desc[X] = "live"
    <3>1. ref_count[X] \in Nat /\ ref_count[X] # 0
      BY <2>1, Referencing DEF IInv
    <3> QED BY <3>1 DEF IInv, Memories
  <2> QED BY <2>1 DEF IInv, LastCloser
<1> QED BY <1>1, Invariance, PTL

\* A close that drops a monitor never runs inside a refdown or under the lock
\* which that refdown takes: co_monitor_refdown does not deadlock with itself.
THEOREM RefdownNotNested == Spec => []NoNestedRefdown
BY NoNested, Invariance, PTL

\* A descriptor is closed for good once, when nothing refers to it, and outside the
\* locks that its close may take.
THEOREM ClosesStaySafe == Spec => []ClosesSafe
<1>1. NoDanglingDescriptor /\ NoNestedRefdown => ClosesSafe
  BY DEF ClosesSafe
<1> QED BY <1>1, DescriptorsSafe, RefdownNotNested, PTL

-----------------------------------------------------------------------------
(* The lifetime of a monitor, when its count is changed in one instruction. *)

\* The owner of a monitor in the list holds it, or is about to take it off the list.
OwnerHolds(m) ==
    \/ m \in Attached(m)
    \/ \E t \in Refdowns(m) : down_pc[t] = "entry" /\ ByOwner(t)

\* A count is never between its load and its store, an owner has no monitor but its own, a
\* monitor that is counted is live, and one in the list is held by its owner.
MonitorInv ==
    /\ \A t \in Handles : pc[t] # "attach_store" /\ down_pc[t] # "store"
    /\ \A o \in Owners : monitor[o] \in {None, o}
    /\ \A m \in Owners : refcount[m] # 0 => mon[m] = "live"
    /\ \A m \in listed : OwnerHolds(m)
    /\ MonitorCountExact

\* The handles and calls that hold a monitor are finitely many.
LEMMA FiniteHolders ==
    ASSUME NEW m \in Owners
    PROVE  /\ IsFiniteSet(Attached(m)) /\ Cardinality(Attached(m)) \in Nat
           /\ IsFiniteSet(Refdowns(m)) /\ Cardinality(Refdowns(m)) \in Nat
<1>1. IsFiniteSet(Attached(m)) /\ IsFiniteSet(Refdowns(m))
  BY ManagerAssumption, FS_Subset DEF Attached, Refdowns
<1> QED BY <1>1, FS_CardinalityType

\* A monitor that a handle or a call holds has a count.
LEMMA HeldCounted ==
    ASSUME TypeOK, MonitorCountExact, NEW m \in Owners
    PROVE  /\ refcount[m] \in Nat
           /\ Attached(m) # {} \/ Refdowns(m) # {} => refcount[m] > 0
           /\ refcount[m] = 0 => Attached(m) = {} /\ Refdowns(m) = {}
<1>1. refcount[m] = Cardinality(Attached(m)) + Cardinality(Refdowns(m))
  BY DEF MonitorCountExact
<1>2. /\ Attached(m) = {} <=> Cardinality(Attached(m)) = 0
      /\ Refdowns(m) = {} <=> Cardinality(Refdowns(m)) = 0
  BY FiniteHolders, FS_EmptySet
<1> QED BY <1>1, <1>2, FiniteHolders

\* Steps that change nobody's hold of a monitor.
KeepsHolders ==
    /\ UNCHANGED <<monitor, mon, refcount, listed, down>>
    /\ \A h \in Handles :
         /\ pc'[h] # "attach_store" /\ down_pc'[h] # "store"
         /\ pc'[h] = "ioctl_close" <=> pc[h] = "ioctl_close"
         /\ down_pc[h] = "entry" => down_pc'[h] = "entry" /\ below'[h] = below[h]

LEMMA SameHolders == MonitorInv /\ KeepsHolders => MonitorInv'
<1> SUFFICES ASSUME MonitorInv, KeepsHolders PROVE MonitorInv'
  OBVIOUS
<1>1. \A m \in Owners : Attached(m)' = Attached(m) /\ Refdowns(m)' = Refdowns(m)
  BY DEF MonitorInv, KeepsHolders, Attached, Refdowns
<1>2. \A m \in listed : OwnerHolds(m)'
  <2> SUFFICES ASSUME NEW m \in listed, m \in Owners \/ m \notin Owners PROVE OwnerHolds(m)'
    OBVIOUS
  <2>1. CASE m \in Attached(m)
    BY <2>1 DEF MonitorInv, KeepsHolders, OwnerHolds, Attached
  <2>2. ASSUME NEW t \in Refdowns(m), down_pc[t] = "entry", ByOwner(t) PROVE OwnerHolds(m)'
    BY <2>2 DEF MonitorInv, KeepsHolders, OwnerHolds, Refdowns, ByOwner
  <2> QED BY <2>1, <2>2 DEF MonitorInv, OwnerHolds
<1> QED BY <1>1, <1>2 DEF MonitorInv, KeepsHolders, MonitorCountExact

\* One handle or call begins, or ends, to hold a monitor.
LEMMA HolderCounts ==
    ASSUME NEW m \in Owners, NEW e
    PROVE  /\ e \notin Attached(m) =>
                Cardinality(Attached(m) \cup {e}) = Cardinality(Attached(m)) + 1
           /\ e \in Attached(m) =>
                Cardinality(Attached(m) \ {e}) = Cardinality(Attached(m)) - 1
           /\ e \notin Refdowns(m) =>
                Cardinality(Refdowns(m) \cup {e}) = Cardinality(Refdowns(m)) + 1
           /\ e \in Refdowns(m) =>
                Cardinality(Refdowns(m) \ {e}) = Cardinality(Refdowns(m)) - 1
BY FiniteHolders, FS_AddElement, FS_RemoveElement

\* A refdown begins, of a handle or a close that gives up its monitor: the holders stay
\* as many as they were.
LEMMA RefdownBegins ==
    ASSUME IInv, MonitorInv, NEW t \in Handles, NEW X \in Handles,
           down_pc[t] = "idle", monitor[X] # None, X \in Attached(monitor[X]),
           CallRefdown(t, monitor[X]),
           \A m \in Owners : Attached(m)' = Attached(m) \ {X},
           UNCHANGED <<refcount, listed, mon>>,
           X \in Owners => ByOwner(t)',
           \A h \in Handles \ {t} : below'[h] = below[h],
           \A o \in Owners : monitor'[o] \in {None, o},
           \A h \in Handles : pc'[h] # "attach_store"
    PROVE  MonitorInv'
<1> DEFINE n == monitor[X]
<1>0. n \in Owners /\ down[t] = None /\ t \notin Refdowns(n)
  BY ManagerAssumption DEF IInv, TypeOK, Types, NonNull, Refdowns, Handles
<1>1. \A m \in Owners : Refdowns(m)' = IF m = n THEN Refdowns(m) \cup {t} ELSE Refdowns(m)
  BY <1>0, ManagerAssumption DEF IInv, TypeOK, Types, Refdowns, Handles
<1>2. \A m \in Owners : m # n => Attached(m)' = Attached(m)
  <2> SUFFICES ASSUME NEW m \in Owners, m # n PROVE X \notin Attached(m)
    OBVIOUS
  <2> QED BY DEF Attached
<1>3. MonitorCountExact'
  <2> SUFFICES ASSUME NEW m \in Owners
               PROVE  refcount'[m] = Cardinality(Attached(m)') + Cardinality(Refdowns(m)')
    BY DEF MonitorCountExact
  <2>1. refcount'[m] = Cardinality(Attached(m)) + Cardinality(Refdowns(m))
    BY DEF MonitorInv, MonitorCountExact
  <2>2. CASE m # n
    BY <1>1, <1>2, <2>1, <2>2
  <2>3. CASE m = n
    <3>1. /\ Cardinality(Attached(m)') = Cardinality(Attached(m)) - 1
          /\ Cardinality(Refdowns(m)') = Cardinality(Refdowns(m)) + 1
      BY <1>0, <1>1, <2>3, HolderCounts
    <3> QED BY <2>1, <3>1, FiniteHolders
  <2> QED BY <2>2, <2>3
<1>4. \A m \in listed' : OwnerHolds(m)'
  <2> SUFFICES ASSUME NEW m \in listed PROVE OwnerHolds(m)'
    OBVIOUS
  <2>0. m \in Owners /\ OwnerHolds(m)
    BY DEF IInv, TypeOK, Types, MonitorInv
  <2>1. ASSUME m \in Attached(m), m # X PROVE OwnerHolds(m)'
    BY <2>0, <2>1 DEF OwnerHolds
  <2>2. ASSUME m \in Attached(m), m = X PROVE OwnerHolds(m)'
    <3>1. t \in Refdowns(m)' /\ down_pc'[t] = "entry" /\ ByOwner(t)'
      <4>1. m = n
        BY <2>2 DEF Attached
      <4> QED BY <1>1, <2>0, <2>2, <4>1 DEF IInv, TypeOK, Types
    <3> QED BY <3>1 DEF OwnerHolds
  <2>3. ASSUME NEW u \in Refdowns(m), down_pc[u] = "entry", ByOwner(u) PROVE OwnerHolds(m)'
    <3>1. u \in Handles \ {t}
      BY <2>3 DEF Refdowns
    <3>2. u \in Refdowns(m)' /\ down_pc'[u] = "entry" /\ ByOwner(u)'
      BY <1>1, <2>0, <2>3, <3>1 DEF ByOwner, IInv, TypeOK, Types
    <3> QED BY <3>2 DEF OwnerHolds
  <2> QED BY <2>0, <2>1, <2>2, <2>3 DEF OwnerHolds
<1>5. \A h \in Handles : down_pc'[h] # "store"
  BY DEF MonitorInv, IInv, TypeOK, Types
<1> QED BY <1>3, <1>4, <1>5 DEF MonitorInv

LEMMA MonitorsCreate ==
    ASSUME IInv, MonitorInv, NEW t \in Handles, Create(t)
    PROVE  MonitorInv'
<1>0. /\ t \in Owners /\ monitor[t] = None /\ mon[t] = "unused" /\ pc[t] = "user"
      /\ monitor' = [monitor EXCEPT ![t] = t]
      /\ refcount' = [refcount EXCEPT ![t] = 1]
      /\ mon' = [mon EXCEPT ![t] = "live"]
      /\ listed' = listed \cup {t}
      /\ UNCHANGED <<pc, down, down_pc, below>>
  BY DEF Create
<1>1. Attached(t) = {} /\ Refdowns(t) = {}
  BY <1>0, HeldCounted DEF IInv, MonitorInv
<1>2. \A m \in Owners : Refdowns(m)' = Refdowns(m)
  BY <1>0 DEF Refdowns
<1>3. Attached(t)' = {t} /\ \A m \in Owners : m # t => Attached(m)' = Attached(m)
  BY <1>0, <1>1, ManagerAssumption DEF Attached, IInv, TypeOK, Types, Handles
<1>4. MonitorCountExact'
  <2>1. Cardinality({t}) = 1 /\ Cardinality({}) = 0
    BY FS_Singleton, FS_EmptySet
  <2>2. refcount'[t] = Cardinality(Attached(t)') + Cardinality(Refdowns(t)')
    <3>1. Attached(t)' = {t} /\ Refdowns(t)' = {}
      BY <1>0, <1>1, <1>2, <1>3
    <3>2. refcount'[t] = 1
      BY <1>0 DEF IInv, TypeOK, Types
    <3> QED BY <2>1, <3>1, <3>2
  <2>3. \A m \in Owners \ {t} :
            refcount'[m] = Cardinality(Attached(m)') + Cardinality(Refdowns(m)')
    BY <1>0, <1>2, <1>3 DEF MonitorInv, MonitorCountExact, IInv, TypeOK, Types
  <2> QED BY <2>2, <2>3 DEF MonitorCountExact
<1>5. \A m \in listed' : OwnerHolds(m)'
  <2>1. OwnerHolds(t)'
    BY <1>3 DEF OwnerHolds
  <2>2. ASSUME NEW m \in listed, m # t PROVE OwnerHolds(m)'
    BY <1>0, <1>2, <1>3, <2>2 DEF OwnerHolds, MonitorInv, ByOwner, IInv, TypeOK, Types
  <2> QED BY <1>0, <2>1, <2>2
<1>6. \A m \in Owners : refcount'[m] # 0 => mon'[m] = "live"
  BY <1>0 DEF MonitorInv, IInv, TypeOK, Types
<1> QED BY <1>0, <1>4, <1>5, <1>6 DEF MonitorInv, IInv, TypeOK, Types

LEMMA MonitorsAttach ==
    ASSUME IInv, MonitorInv, NEW t \in Handles, NEW n \in Owners, Attach(t, n)
    PROVE  MonitorInv'
<1>0. /\ t \in Daemons /\ monitor[t] = None /\ pc[t] = "user" /\ n \in listed
      /\ monitor' = [monitor EXCEPT ![t] = n]
      /\ refcount' = [refcount EXCEPT ![n] = @ + 1]
      /\ pc' = [pc EXCEPT ![t] = "attach"]
      /\ UNCHANGED <<mon, listed, down, down_pc, below>>
  BY DEF Attach
<1>1. \A m \in Owners : Refdowns(m)' = Refdowns(m)
  BY <1>0 DEF Refdowns
<1>2. /\ Attached(n)' = Attached(n) \cup {t} /\ t \notin Attached(n)
      /\ \A m \in Owners : m # n => Attached(m)' = Attached(m)
  BY <1>0, ManagerAssumption DEF Attached, IInv, TypeOK, Types, Handles
<1>3. MonitorCountExact'
  <2>1. refcount'[n] = Cardinality(Attached(n)') + Cardinality(Refdowns(n)')
    <3>1. refcount[n] = Cardinality(Attached(n)) + Cardinality(Refdowns(n))
      BY DEF MonitorInv, MonitorCountExact
    <3>2. Cardinality(Attached(n)') = Cardinality(Attached(n)) + 1
      BY <1>2, HolderCounts
    <3>3. refcount'[n] = refcount[n] + 1
      BY <1>0 DEF IInv, TypeOK, Types
    <3> QED BY <1>1, <3>1, <3>2, <3>3, FiniteHolders
  <2>2. \A m \in Owners \ {n} :
            refcount'[m] = Cardinality(Attached(m)') + Cardinality(Refdowns(m)')
    BY <1>0, <1>1, <1>2 DEF MonitorInv, MonitorCountExact, IInv, TypeOK, Types
  <2> QED BY <2>1, <2>2 DEF MonitorCountExact
<1>4. mon[n] = "live"
  <2>1. refcount[n] > 0
    BY <1>0, HeldCounted DEF IInv, MonitorInv, OwnerHolds
  <2> QED BY <2>1 DEF MonitorInv
<1>5. \A m \in listed' : OwnerHolds(m)'
  <2> SUFFICES ASSUME NEW m \in listed PROVE OwnerHolds(m)'
    BY <1>0
  <2>0. m \in Owners /\ OwnerHolds(m)
    BY DEF MonitorInv, IInv, TypeOK, Types
  <2>1. CASE m \in Attached(m)
    BY <1>2, <2>0, <2>1 DEF OwnerHolds
  <2>2. ASSUME NEW u \in Refdowns(m), down_pc[u] = "entry", ByOwner(u) PROVE OwnerHolds(m)'
    BY <1>0, <1>1, <2>0, <2>2 DEF OwnerHolds, ByOwner
  <2> QED BY <2>0, <2>1, <2>2 DEF OwnerHolds
<1>6. \A m \in Owners : refcount'[m] # 0 => mon'[m] = "live"
  BY <1>0, <1>4 DEF MonitorInv, IInv, TypeOK, Types
<1>7. \A o \in Owners : monitor'[o] = monitor[o]
  BY <1>0, ManagerAssumption DEF IInv, TypeOK, Types
<1> QED BY <1>0, <1>3, <1>5, <1>6, <1>7 DEF MonitorInv, IInv, TypeOK, Types

LEMMA MonitorsIoctlClose ==
    ASSUME IInv, MonitorInv, NEW t \in Handles, IoctlClose(t)
    PROVE  MonitorInv'
<1>0. /\ pc[t] = "user" /\ monitor[t] # None /\ down_pc[t] = "idle"
      /\ CallRefdown(t, monitor[t])
      /\ pc' = [pc EXCEPT ![t] = "ioctl_close"]
      /\ UNCHANGED <<monitor, mon, refcount, listed, below>>
  BY DEF IoctlClose
<1>1. t \in Attached(monitor[t])
  BY <1>0 DEF Attached
<1>2. \A m \in Owners : Attached(m)' = Attached(m) \ {t}
  BY <1>0 DEF Attached, IInv, TypeOK, Types
<1>3. t \in Owners => ByOwner(t)'
  BY <1>0 DEF ByOwner, IInv, Stack
<1>4. \A h \in Handles : pc'[h] # "attach_store"
  BY <1>0 DEF MonitorInv, IInv, TypeOK, Types
<1>5. \A o \in Owners : monitor'[o] \in {None, o}
  BY <1>0 DEF MonitorInv
<1> QED BY <1>0, <1>1, <1>2, <1>3, <1>4, <1>5, RefdownBegins

LEMMA MonitorsIoctlCloseDone ==
    ASSUME IInv, MonitorInv, NEW t \in Handles, IoctlCloseDone(t)
    PROVE  MonitorInv'
<1>0. /\ pc[t] = "ioctl_close"
      /\ monitor' = [monitor EXCEPT ![t] = None]
      /\ pc' = [pc EXCEPT ![t] = "closed"]
      /\ UNCHANGED <<mon, refcount, listed, down, down_pc, below>>
  BY DEF IoctlCloseDone
<1>1. \A m \in Owners : Attached(m)' = Attached(m) /\ Refdowns(m)' = Refdowns(m)
  BY <1>0, ManagerAssumption DEF Attached, Refdowns, IInv, TypeOK, Types, Handles
<1>2. \A m \in listed' : OwnerHolds(m)'
  BY <1>0, <1>1 DEF OwnerHolds, MonitorInv, ByOwner, IInv, TypeOK, Types
<1>3. \A o \in Owners : monitor'[o] \in {None, o}
  BY <1>0 DEF MonitorInv, IInv, TypeOK, Types
<1>4. \A h \in Handles : pc'[h] # "attach_store"
  BY <1>0 DEF MonitorInv, IInv, TypeOK, Types
<1> QED BY <1>0, <1>1, <1>2, <1>3, <1>4 DEF MonitorInv, MonitorCountExact

LEMMA MonitorsCloseRefdown ==
    ASSUME IInv, MonitorInv, NEW t \in Handles, CloseRefdown(t)
    PROVE  MonitorInv'
<1> DEFINE X == closing[t]
<1>0. /\ X \in Handles /\ monitor[X] # None /\ down_pc[t] = "idle"
      /\ CallRefdown(t, monitor[X])
      /\ monitor' = [monitor EXCEPT ![X] = None]
      /\ below' = [below EXCEPT ![t] = X]
      /\ UNCHANGED <<pc, mon, refcount, listed>>
  BY ManagerAssumption DEF CloseRefdown, IInv, TypeOK, Types, NonNull
<1>1. pc[X] \in {"none", "gone"}
  <2>1. Closers(X) # {}
    BY DEF CloseRefdown, Closers
  <2>2. ref_count[X] = 0
    BY <1>0, <2>1 DEF IInv, LastCloser
  <2> QED BY <1>0, <2>2, Referencing DEF IInv, Referenced, HandleOpen
<1>2. X \in Attached(monitor[X])
  BY <1>0, <1>1 DEF Attached
<1>3. \A m \in Owners : Attached(m)' = Attached(m) \ {X}
  BY <1>0, <1>1, ManagerAssumption DEF Attached, IInv, TypeOK, Types, Handles
<1>4. X \in Owners => ByOwner(t)'
  BY <1>0, ManagerAssumption DEF ByOwner, IInv, TypeOK, Types, Handles
<1>5. \A o \in Owners : monitor'[o] \in {None, o}
  BY <1>0 DEF MonitorInv, IInv, TypeOK, Types
<1>6. \A h \in Handles \ {t} : below'[h] = below[h]
  BY <1>0 DEF IInv, TypeOK, Types
<1>7. \A h \in Handles : pc'[h] # "attach_store"
  BY <1>0 DEF MonitorInv
<1> QED BY <1>0, <1>2, <1>3, <1>4, <1>5, <1>6, <1>7, RefdownBegins

LEMMA MonitorsDownUnlist ==
    ASSUME IInv, MonitorInv, NEW t \in Handles, DownUnlist(t)
    PROVE  MonitorInv'
<1>0. /\ down_pc[t] = "entry"
      /\ listed' = IF ByOwner(t) THEN listed \ {down[t]} ELSE listed
      /\ down_pc' = [down_pc EXCEPT ![t] = IF ByOwner(t) THEN "eof_lock" ELSE "dec"]
      /\ UNCHANGED <<monitor, mon, refcount, pc, down, below>>
  BY DEF DownUnlist
<1>1. \A m \in Owners : Attached(m)' = Attached(m) /\ Refdowns(m)' = Refdowns(m)
  BY <1>0 DEF Attached, Refdowns
<1>2. \A m \in listed' : OwnerHolds(m)'
  <2> SUFFICES ASSUME NEW m \in listed' PROVE OwnerHolds(m)'
    OBVIOUS
  <2>0. m \in listed /\ m \in Owners /\ OwnerHolds(m)
    BY <1>0 DEF MonitorInv, IInv, TypeOK, Types
  <2>1. CASE m \in Attached(m)
    BY <1>1, <2>0, <2>1 DEF OwnerHolds
  <2>2. ASSUME NEW u \in Refdowns(m), down_pc[u] = "entry", ByOwner(u) PROVE OwnerHolds(m)'
    <3>1. u # t
      BY <1>0, <2>2 DEF Refdowns
    <3>2. u \in Refdowns(m)' /\ down_pc'[u] = "entry" /\ ByOwner(u)'
      BY <1>0, <1>1, <2>0, <2>2, <3>1 DEF ByOwner, IInv, TypeOK, Types
    <3> QED BY <3>2 DEF OwnerHolds
  <2> QED BY <2>0, <2>1, <2>2 DEF OwnerHolds
<1>3. \A h \in Handles : down_pc'[h] # "store"
  BY <1>0 DEF MonitorInv, IInv, TypeOK, Types
<1> QED BY <1>0, <1>1, <1>2, <1>3 DEF MonitorInv, MonitorCountExact

\* A refdown finds the count of its monitor above zero, and the check in it never fails.
LEMMA NeverRefused ==
    ASSUME IInv, MonitorInv, NEW t \in Handles, down_pc[t] # "idle"
    PROVE  down[t] \in Owners /\ t \in Refdowns(down[t]) /\ refcount[down[t]] > 0
<1>1. down[t] \in Owners
  BY DEF IInv, TypeOK, Types, NonNull
<1>2. t \in Refdowns(down[t])
  BY DEF Refdowns
<1> QED BY <1>1, <1>2, HeldCounted DEF IInv, MonitorInv

LEMMA MonitorsDownDec ==
    ASSUME IInv, MonitorInv, NEW t \in Handles, DownDec(t)
    PROVE  MonitorInv'
<1> PICK n \in Owners : n = down[t]
  BY NeverRefused DEF DownDec
<1>0. /\ down_pc[t] = "dec"
      /\ refcount' = [refcount EXCEPT ![n] = refcount[n] - 1]
      /\ mon' = IF refcount[n] - 1 = 0 THEN [mon EXCEPT ![n] = "freed"] ELSE mon
      /\ down' = [down EXCEPT ![t] = None]
      /\ down_pc' = [down_pc EXCEPT ![t] = "idle"]
      /\ below' = [below EXCEPT ![t] = None]
      /\ UNCHANGED <<monitor, listed, pc>>
  BY DEF DownDec
<1>1. t \in Refdowns(n) /\ refcount[n] > 0
  BY <1>0, NeverRefused
<1>2. /\ \A m \in Owners : Attached(m)' = Attached(m)
      /\ Refdowns(n)' = Refdowns(n) \ {t}
      /\ \A m \in Owners : m # n => Refdowns(m)' = Refdowns(m)
  BY <1>0, <1>1, ManagerAssumption DEF Attached, Refdowns, IInv, TypeOK, Types, Handles
<1>3. refcount'[n] = refcount[n] - 1 /\ \A m \in Owners : m # n => refcount'[m] = refcount[m]
  BY <1>0, <1>1 DEF IInv, TypeOK, Types
<1>4. MonitorCountExact'
  <2>1. refcount'[n] = Cardinality(Attached(n)') + Cardinality(Refdowns(n)')
    <3>1. refcount[n] = Cardinality(Attached(n)) + Cardinality(Refdowns(n))
      BY <1>1 DEF MonitorInv, MonitorCountExact
    <3>2. Cardinality(Refdowns(n)') = Cardinality(Refdowns(n)) - 1
      BY <1>1, <1>2, HolderCounts
    <3> QED BY <1>1, <1>2, <1>3, <3>1, <3>2, FiniteHolders
  <2>2. \A m \in Owners \ {n} :
            refcount'[m] = Cardinality(Attached(m)') + Cardinality(Refdowns(m)')
    BY <1>2, <1>3 DEF MonitorInv, MonitorCountExact
  <2> QED BY <2>1, <2>2 DEF MonitorCountExact
<1>5. \A m \in listed' : OwnerHolds(m)'
  <2> SUFFICES ASSUME NEW m \in listed PROVE OwnerHolds(m)'
    BY <1>0
  <2>0. m \in Owners /\ OwnerHolds(m)
    BY DEF MonitorInv, IInv, TypeOK, Types
  <2>1. CASE m \in Attached(m)
    BY <1>2, <2>0, <2>1 DEF OwnerHolds
  <2>2. ASSUME NEW u \in Refdowns(m), down_pc[u] = "entry", ByOwner(u) PROVE OwnerHolds(m)'
    <3>1. u # t
      BY <1>0, <2>2
    <3>2. u \in Refdowns(m)'
      BY <1>2, <2>0, <3>1
    <3>3. down_pc'[u] = "entry" /\ ByOwner(u)'
      BY <1>0, <2>2, <3>1 DEF Refdowns, ByOwner, IInv, TypeOK, Types
    <3> QED BY <3>2, <3>3 DEF OwnerHolds
  <2> QED BY <2>0, <2>1, <2>2 DEF OwnerHolds
<1>6. \A m \in Owners : refcount'[m] # 0 => mon'[m] = "live"
  <2>1. refcount'[n] # 0 => mon' = mon
    BY <1>0, <1>3
  <2>2. \A m \in Owners : m # n => mon'[m] = mon[m]
    BY <1>0, <1>1 DEF IInv, TypeOK, Types
  <2>3. mon[n] = "live"
    BY <1>1 DEF MonitorInv
  <2> QED BY <1>3, <2>1, <2>2, <2>3 DEF MonitorInv
<1>7. \A h \in Handles : down_pc'[h] # "store"
  BY <1>0 DEF MonitorInv, IInv, TypeOK, Types
<1> QED BY <1>0, <1>4, <1>5, <1>6, <1>7 DEF MonitorInv

\* No step of a thread breaks the invariant of the monitors.
LEMMA MonitorsStep ==
    ASSUME AtomicCount, IInv, MonitorInv, NEW t \in Handles, User(t) \/ SysCall(t)
    PROVE  MonitorInv'
<1>1. ASSUME \/ Open(t) \/ CloseHandle(t) \/ AttachLock(t) \/ AttachUnlock(t)
             \/ SendDone(t) \/ DisconnectLock(t) \/ DisconnectUnlock(t) \/ LastClose(t)
             \/ Replace(t)
      PROVE  KeepsHolders
  BY <1>1 DEF KeepsHolders, MonitorInv, IInv, TypeOK, Types, Open, CloseHandle, AttachLock,
     AttachUnlock, SendDone, DisconnectLock, DisconnectUnlock, LastClose, Replace
<1>2. ASSUME NEW md \in Modules,
             \/ IncomingMessage(t, md) \/ Connect(t, md) \/ ReplaceClose(t, md)
             \/ Disconnect(t, md) \/ Eof(t, md)
      PROVE  KeepsHolders
  BY <1>2 DEF KeepsHolders, MonitorInv, IInv, TypeOK, Types, IncomingMessage, Connect,
     ReplaceClose, Disconnect, Eof
<1>3. ASSUME CloseDec(t) \/ CloseNoMonitor(t) \/ CloseFree(t) PROVE KeepsHolders
  BY <1>3 DEF KeepsHolders, MonitorInv, CloseDec, CloseNoMonitor, CloseFree
<1>4. ASSUME EofLock(t) \/ EofUnlock(t) PROVE KeepsHolders
  BY <1>4 DEF KeepsHolders, MonitorInv, IInv, TypeOK, Types, EofLock, EofUnlock
<1>5. ASSUME NEW m \in Owners PROVE ~AttachLoad(t, m)
  BY AtomicCount DEF AttachLoad
<1>6. ~AttachStore(t) /\ ~DownLoad(t) /\ ~DownStore(t)
  BY AtomicCount DEF AttachStore, DownLoad, DownStore, MonitorInv
<1>7. ~DownRefused(t)
  <2> SUFFICES ASSUME DownRefused(t) PROVE FALSE
    OBVIOUS
  <2>1. refcount[down[t]] > 0 /\ refcount[down[t]] <= 0 /\ down[t] \in Owners
    BY NeverRefused DEF DownRefused
  <2> QED BY <2>1 DEF IInv, TypeOK, Types
<1> QED
  BY ONLY IInv, MonitorInv, User(t) \/ SysCall(t), <1>1, <1>2, <1>3, <1>4, <1>5, <1>6, <1>7,
          SameHolders, MonitorsCreate, MonitorsAttach, MonitorsIoctlClose,
          MonitorsIoctlCloseDone, MonitorsCloseRefdown, MonitorsDownUnlist, MonitorsDownDec
     DEF User, SysCall

LEMMA MonitorsInit == Init => MonitorInv
<1> SUFFICES ASSUME Init PROVE MonitorInv
  OBVIOUS
<1>1. \A m \in Owners : Attached(m) = {} /\ Refdowns(m) = {}
  BY ManagerAssumption DEF Init, Attached, Refdowns, Handles
<1>2. MonitorCountExact
  <2>1. \A m \in Owners : Cardinality(Attached(m)) = 0 /\ Cardinality(Refdowns(m)) = 0
    BY <1>1, FS_EmptySet
  <2> QED BY <2>1 DEF Init, MonitorCountExact
<1>3. \A t \in Handles : pc[t] # "attach_store" /\ down_pc[t] # "store"
  BY DEF Init
<1>4. /\ \A o \in Owners : monitor[o] = None /\ refcount[o] = 0
      /\ listed = {}
  BY DEF Init, Handles
<1> QED BY <1>2, <1>3, <1>4 DEF MonitorInv

LEMMA MonitorsNext ==
    IInv /\ (AtomicCount => MonitorInv) /\ [Next]_vars => (AtomicCount => MonitorInv)'
<1> SUFFICES ASSUME AtomicCount, IInv, MonitorInv, [Next]_vars PROVE MonitorInv'
  OBVIOUS
<1>1. CASE \E t \in Handles : User(t) \/ SysCall(t)
  BY <1>1, MonitorsStep
<1>2. CASE UNCHANGED vars
  <2>1. KeepsHolders
    BY <1>2 DEF vars, KeepsHolders, MonitorInv
  <2> QED BY <2>1, SameHolders
<1> QED BY <1>1, <1>2 DEF Next, Stop

\* If a count is changed in one instruction, the count of a monitor is exact and no handle,
\* no call and no entry of manager->monitors is left to a monitor that was destroyed.
THEOREM MonitorsStaySafe == Spec => [](AtomicCount => MonitorSafe)
<1>1. IInv /\ (AtomicCount => MonitorInv) => (AtomicCount => MonitorSafe)
  <2> SUFFICES ASSUME IInv, MonitorInv PROVE MonitorSafe
    OBVIOUS
  <2>1. MonitorCountExact
    BY DEF MonitorInv
  <2>2. NoDanglingMonitor
    <3> SUFFICES ASSUME NEW m \in Owners, Attached(m) # {} \/ Refdowns(m) # {} \/ m \in listed
                 PROVE  mon[m] = "live"
      BY DEF NoDanglingMonitor
    <3>1. Attached(m) # {} \/ Refdowns(m) # {}
      BY DEF MonitorInv, OwnerHolds
    <3>2. refcount[m] > 0
      BY <3>1, HeldCounted DEF IInv, MonitorInv
    <3> QED BY <3>2 DEF MonitorInv
  <2> QED BY <2>1, <2>2 DEF MonitorSafe
<1>2. Init => (AtomicCount => MonitorInv)
  BY MonitorsInit
<1> QED BY <1>1, <1>2, MonitorsNext, Invariance, PTL DEF Spec

-----------------------------------------------------------------------------
(* Connections.                                                            *)

\* A descriptor that is attaching, or may still attach, is active, one that is being
\* closed is not, and a slot is taken over by a daemon that claims it.
Activity ==
    \A t \in Handles :
        /\ pc[t] \in {"attach_store", "attach", "connect", "replace"} => active[t]
        /\ pc[t] = "user" /\ monitor[t] = None => active[t]
        /\ pc[t] \in {"deactive", "disconnect"} => ~active[t]
        /\ pc[t] = "replace" => md_cur[t] \in Claims[t]

\* The end of a monitor finds none of its occupants in the middle of an attach.
LEMMA EofOccupant ==
    ASSUME IInv, NEW t \in Handles, NEW md \in Modules, Eof(t, md)
    PROVE  \E X \in Handles :
             /\ X = connected_modules[down[t]][md]
             /\ pc[X] \notin {"attach_store", "attach", "connect", "replace"}
             /\ ~(pc[X] = "user" /\ monitor[X] = None)
<1> DEFINE X == connected_modules[down[t]][md]
<1>1. down[t] \in Owners /\ X # None /\ X \in Handles
  BY DEF Eof, IInv, TypeOK, Types, NonNull, Handles
<1>2. Member(X, down[t])
  BY <1>1 DEF IInv, SlotMembers
<1>3. lock[down[t]] = t
  BY <1>1 DEF Eof, IInv, LockHolders, Holds
<1>4. pc[X] \in {"connect", "replace"} => X = t
  BY <1>1, <1>2, <1>3, ManagerAssumption DEF IInv, LockHolders, Holds, Member, Handles
<1>5. pc[t] \notin {"connect", "replace"}
  BY DEF Eof, IInv, Stack
<1>6. /\ pc[X] \notin {"attach_store", "attach", "connect", "replace"}
      /\ ~(pc[X] = "user" /\ monitor[X] = None)
  BY <1>1, <1>2, <1>4, <1>5, ManagerAssumption DEF Member, Handles
<1> QED BY <1>1, <1>6

LEMMA ActivityNext ==
    ASSUME IInv, Activity, NEW t \in Handles, User(t) \/ SysCall(t)
    PROVE  Activity'
<1> USE DEF Activity, IInv, TypeOK, Types
<1>1. CASE Open(t)
  BY <1>1 DEF Open
<1>2. CASE Create(t)
  BY <1>2, ManagerAssumption DEF Create, Handles
<1>3. ASSUME NEW m \in Owners, Attach(t, m) \/ AttachLoad(t, m) PROVE Activity'
  BY <1>3 DEF Attach, AttachLoad
<1>4. CASE AttachStore(t) \/ AttachLock(t)
  BY <1>4 DEF AttachStore, AttachLock
<1>5. ASSUME NEW md \in Modules, ReplaceClose(t, md) PROVE Activity'
  BY <1>5 DEF ReplaceClose
<1>6. CASE Replace(t)
  BY <1>6 DEF Replace
<1>7. CASE AttachUnlock(t) \/ SendDone(t)
  BY <1>7, ManagerAssumption DEF AttachUnlock, SendDone, NonNull, MonitorInUse
<1>8. ASSUME NEW md \in Modules,
             IncomingMessage(t, md) \/ Connect(t, md) \/ Disconnect(t, md)
      PROVE  Activity'
  BY <1>8 DEF IncomingMessage, Connect, Disconnect
<1>9. CASE IoctlClose(t) \/ IoctlCloseDone(t)
  BY <1>9 DEF IoctlClose, IoctlCloseDone
<1>10. CASE CloseHandle(t)
  BY <1>10 DEF CloseHandle
<1>11. CASE DisconnectLock(t) \/ DisconnectUnlock(t) \/ LastClose(t)
  BY <1>11 DEF DisconnectLock, DisconnectUnlock, LastClose
<1>12. CASE CloseRefdown(t)
  <2>1. closing[t] \in Handles /\ pc[closing[t]] \in {"none", "gone"}
    <3>1. closing[t] \in Handles
      BY <1>12 DEF CloseRefdown, NonNull
    <3>2. Closers(closing[t]) # {}
      BY <1>12 DEF CloseRefdown, Closers
    <3>3. ref_count[closing[t]] = 0
      BY <3>1, <3>2 DEF LastCloser
    <3> QED BY <3>1, <3>3, Referencing DEF Referenced, HandleOpen
  <2> QED BY <1>12, <2>1 DEF CloseRefdown
<1>13. CASE CloseDec(t) \/ CloseNoMonitor(t) \/ CloseFree(t)
  BY <1>13 DEF CloseDec, CloseNoMonitor, CloseFree
<1>14. CASE DownUnlist(t) \/ DownRefused(t) \/ DownDec(t) \/ DownLoad(t) \/ DownStore(t)
  BY <1>14 DEF DownUnlist, DownRefused, DownDec, DownLoad, DownStore
<1>15. CASE EofLock(t) \/ EofUnlock(t)
  BY <1>15 DEF EofLock, EofUnlock
<1>16. ASSUME NEW md \in Modules, Eof(t, md) PROVE Activity'
  <2>1. UNCHANGED <<pc, monitor, md_cur>>
    BY <1>16 DEF Eof
  <2>2. PICK X \in Handles :
            /\ active' = [active EXCEPT ![X] = FALSE]
            /\ pc[X] \notin {"attach_store", "attach", "connect", "replace"}
            /\ ~(pc[X] = "user" /\ monitor[X] = None)
    BY ZenonT(40), <1>16, EofOccupant DEF Eof
  <2> QED BY <2>1, <2>2
<1> QED
  BY ONLY User(t) \/ SysCall(t), <1>1, <1>2, <1>3, <1>4, <1>5, <1>6, <1>7, <1>8, <1>9,
          <1>10, <1>11, <1>12, <1>13, <1>14, <1>15, <1>16 DEF User, SysCall

\* What happens to one slot in a step.
NotSilent ==
    \A m \in Owners, md \in Modules :
        LET old == connected_modules[m][md]
            new == connected_modules'[m][md]
        IN  old \notin {None, new} =>
               \/ ~active'[old]
               \/ new \in Daemons /\ md \in Claims[new] /\ active'[new]

LEMMA SlotsStep ==
    ASSUME IInv, Activity, NEW t \in Handles, User(t) \/ SysCall(t)
    PROVE  NotSilent
<1> USE DEF IInv, TypeOK, Types
<1>1. ASSUME connected_modules' = connected_modules PROVE NotSilent
  BY <1>1 DEF NotSilent
<1>2. ASSUME NEW md \in Modules, Connect(t, md) PROVE NotSilent
  BY <1>2 DEF Connect, NotSilent
<1>3. CASE Replace(t)
  <2>1. monitor[t] \in Owners /\ t \in Daemons
    BY <1>3 DEF Replace, NonNull, MonitorInUse, Stack
  <2>2. md_cur[t] \in Claims[t] /\ active[t] /\ md_cur[t] \in Modules
    BY <1>3, <2>1, ManagerAssumption DEF Replace, Activity
  <2>3. /\ connected_modules' = [connected_modules EXCEPT ![monitor[t]][md_cur[t]] = t]
        /\ active' = active
    BY <1>3 DEF Replace
  <2> QED BY <2>1, <2>2, <2>3 DEF NotSilent
<1>4. ASSUME NEW md \in Modules, Disconnect(t, md) PROVE NotSilent
  <2>1. ~active[t]
    BY <1>4 DEF Disconnect, Activity
  <2> QED BY <1>4, <2>1 DEF Disconnect, NotSilent
<1>5. ASSUME NEW md \in Modules, Eof(t, md) PROVE NotSilent
  <2>1. down[t] \in Owners
    BY <1>5 DEF Eof, NonNull
  <2>2. ~active'[connected_modules[down[t]][md]]
    <3>1. connected_modules[down[t]][md] \in Handles
      BY <1>5, EofOccupant
    <3> QED BY <1>5, <3>1 DEF Eof
  <2> QED BY <1>5, <2>1, <2>2 DEF Eof, NotSilent
<1>6. ASSUME User(t) PROVE connected_modules' = connected_modules
  BY <1>6 DEF User, Open, Create, Attach, AttachLoad, IncomingMessage, IoctlClose, CloseHandle
<1>7. ASSUME NEW md \in Modules, ReplaceClose(t, md)
      PROVE  connected_modules' = connected_modules
  BY <1>7 DEF ReplaceClose
<1>8. ASSUME \/ AttachStore(t) \/ AttachLock(t) \/ AttachUnlock(t) \/ SendDone(t)
             \/ IoctlCloseDone(t) \/ DisconnectLock(t) \/ DisconnectUnlock(t) \/ LastClose(t)
             \/ CloseDec(t) \/ CloseRefdown(t) \/ CloseNoMonitor(t) \/ CloseFree(t)
      PROVE  connected_modules' = connected_modules
  BY <1>8 DEF AttachStore, AttachLock, AttachUnlock, SendDone, IoctlCloseDone, DisconnectLock,
     DisconnectUnlock, LastClose, CloseDec, CloseRefdown, CloseNoMonitor, CloseFree
<1>9. ASSUME \/ DownUnlist(t) \/ DownRefused(t) \/ EofLock(t) \/ EofUnlock(t)
             \/ DownDec(t) \/ DownLoad(t) \/ DownStore(t)
      PROVE  connected_modules' = connected_modules
  BY <1>9 DEF DownUnlist, DownRefused, EofLock, EofUnlock, DownDec, DownLoad, DownStore
<1> QED
  BY ONLY User(t) \/ SysCall(t), <1>1, <1>2, <1>3, <1>4, <1>5, <1>6, <1>7, <1>8, <1>9
     DEF User, SysCall

\* A connection ends only when a daemon that claims the slot takes it over, or when its
\* occupant can read that it ended.
THEOREM NoneSilentlyDisconnected == Spec => NoSilentDisconnect
<1>1. Init => Activity
  BY DEF Init, Activity
<1>2. IInv /\ Activity /\ [Next]_vars => Activity'
  <2> SUFFICES ASSUME IInv, Activity, [Next]_vars PROVE Activity'
    OBVIOUS
  <2>1. CASE UNCHANGED vars
    BY <2>1 DEF vars, Activity
  <2> QED BY <2>1, ActivityNext DEF Next, Stop
<1>3. IInv /\ Activity /\ [Next]_vars => [NotSilent]_vars
  BY SlotsStep DEF Next, Stop
<1>4. [][NotSilent]_vars => NoSilentDisconnect
  BY DEF NotSilent, NoSilentDisconnect
<1> QED BY <1>1, <1>2, <1>3, <1>4, Invariance, PTL DEF Spec
=============================================================================
