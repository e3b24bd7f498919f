---------------------------- MODULE VmRunProofs ----------------------------
(***************************************************************************)
(* Proofs about module VmRun, for any set of senders, any number of        *)
(* messages and of boots, any room in the IO area, any malformed messages  *)
(* and both kinds of host.                                                 *)
(*                                                                         *)
(* The messages of one boot are in order because each that leaves the      *)
(* queue is either at the end of those before it in the IO area, or has no *)
(* valid header; and the IO area is not overwritten because of where the   *)
(* guest can be when it is not empty.                                      *)
(***************************************************************************)
EXTENDS VmRun, SequenceTheorems, WellFoundedInduction, TLAPS

-----------------------------------------------------------------------------
(* The messages that fit.                                                  *)

\* A set of numbers that is not empty has a least one.
LEMMA Least ==
    ASSUME NEW T, T \subseteq Nat, T # {}
    PROVE  \E x \in T : \A y \in T : x <= y
<1> DEFINE R == OpToRel(<, Nat)
<1>1. IsWellFoundedOn(R, Nat)
  BY NatLessThanWellFounded
<1>2. \A x, y \in T : <<y, x>> \in R <=> y < x
  BY DEF OpToRel
<1> HIDE DEF R
<1>3. PICK x \in T : \A y \in T : ~(<<y, x>> \in R)
  BY <1>1, WFMin
<1>4. \A y \in T : ~(y < x)
  BY <1>2, <1>3, Zenon
<1>5. \A y \in T : x <= y
  BY <1>4
<1> QED BY <1>5

\* The choice of Good has exactly what the copy stops at.
LEMMA GoodIs ==
    ASSUME NEW q, Len(q) \in Nat
    PROVE  /\ Good(q) \in 0..Len(q)
           /\ Good(q) <= Room
           /\ \A i \in 1..Good(q) : ~Bad(q[i])
           /\ Good(q) = Room \/ Good(q) = Len(q) \/ Bad(q[Good(q) + 1])
<1> DEFINE Ends_(n) == n = Room \/ n = Len(q) \/ (n < Len(q) /\ Bad(q[n + 1]))
           T == {n \in Nat : Ends_(n)}
<1>1. Room \in T /\ T \subseteq Nat /\ Len(q) \in T
  BY VmRunAssumption
<1>2. PICK x \in T : \A y \in T : x <= y
  <2> HIDE DEF T
  <2> QED BY <1>1, Least
<1>3. x \in 0..Len(q) /\ x <= Room
  BY <1>1, <1>2, VmRunAssumption
<1>4. \A i \in 1..x : ~Bad(q[i])
  <2> SUFFICES ASSUME NEW i \in 1..x, Bad(q[i]) PROVE FALSE
    OBVIOUS
  <2>1. i - 1 \in Nat /\ i - 1 < Len(q) /\ (i - 1) + 1 = i /\ ~(x <= i - 1)
    BY <1>3
  <2>2. i - 1 \in T
    BY <2>1
  <2> QED BY <1>2, <2>1, <2>2
<1>5. x = Room \/ x = Len(q) \/ Bad(q[x + 1])
  OBVIOUS
<1>6. \E n \in 0..Len(q) :
          /\ n <= Room
          /\ \A i \in 1..n : ~Bad(q[i])
          /\ n = Room \/ n = Len(q) \/ Bad(q[n + 1])
  BY <1>3, <1>4, <1>5
<1> QED BY <1>6 DEF Good

\* What the copy takes from the queue: the messages that go to the IO area and, if the next one
\* has a bad header and there is room, that one.
LEMMA PoppedIs ==
    ASSUME NEW q, Len(q) \in Nat
    PROVE  /\ Popped(q) \in {Good(q), Good(q) + 1}
           /\ Popped(q) \in 0..Len(q)
           /\ Popped(q) # Good(q) => Good(q) < Len(q) /\ Bad(q[Good(q) + 1])
BY GoodIs, VmRunAssumption DEF Popped

-----------------------------------------------------------------------------
(* Sequences of messages in order.                                         *)

\* The numbers in s rise to top, and those left out are in B.
Rising(s, top, B) ==
    /\ \A i \in 1..Len(s) - 1 : /\ s[i] < s[i + 1]
                                /\ \A n \in s[i] + 1 .. s[i + 1] - 1 : n \in B
    /\ s # <<>> => \A n \in s[Len(s)] + 1 .. top : n \in B

\* The elements of two sequences, one after the other.
LEMMA Joined ==
    ASSUME NEW p \in Seq(Nat), NEW q \in Seq(Nat)
    PROVE  /\ p \o q \in Seq(Nat) /\ Len(p \o q) = Len(p) + Len(q)
           /\ \A i \in 1..Len(p) : (p \o q)[i] = p[i]
           /\ \A i \in 1..Len(q) : (p \o q)[Len(p) + i] = q[i]
BY ConcatProperties

\* What comes after p is in order by itself.
LEMMA RisingTail ==
    ASSUME NEW p \in Seq(Nat), NEW q \in Seq(Nat), NEW top \in Nat, NEW B,
           Rising(p \o q, top, B)
    PROVE  Rising(q, top, B)
<1>1. ASSUME NEW i \in 1..Len(q) - 1
      PROVE  q[i] < q[i + 1] /\ \A n \in q[i] + 1 .. q[i + 1] - 1 : n \in B
  <2>1. Len(p) + i \in 1..Len(p \o q) - 1
    BY Joined, LenProperties
  <2>2. Len(p) \in Nat /\ i \in 1..Len(q) /\ i + 1 \in 1..Len(q)
        /\ (Len(p) + i) + 1 = Len(p) + (i + 1)
    BY LenProperties
  <2>3. \A k \in 1..Len(q) : (p \o q)[Len(p) + k] = q[k]
    BY Joined
  <2>4. (p \o q)[Len(p) + i] = q[i] /\ (p \o q)[(Len(p) + i) + 1] = q[i + 1]
    BY <2>2, <2>3
  <2> QED BY <2>1, <2>4 DEF Rising
<1>2. ASSUME q # <<>> PROVE \A n \in q[Len(q)] + 1 .. top : n \in B
  <2>1. Len(q) \in 1..Len(q) /\ Len(p) \in Nat
    BY <1>2, EmptySeq, LenProperties
  <2>2. (p \o q)[Len(p \o q)] = q[Len(q)] /\ p \o q # <<>>
    BY <2>1, Joined, EmptySeq
  <2> QED BY <2>2 DEF Rising
<1> QED BY <1>1, <1>2 DEF Rising

\* A number in B may be taken out.
LEMMA RisingWithout ==
    ASSUME NEW a \in Seq(Nat), NEW r \in Seq(Nat), NEW top \in Nat, NEW B,
           NEW k \in 1..Len(a), a[k] \in B, Rising(a, top, B),
           Len(r) = Len(a) - 1,
           \A i \in 1..k - 1 : r[i] = a[i],
           \A i \in k..Len(r) : r[i] = a[i + 1]
    PROVE  Rising(r, top, B)
<1>0. Len(a) \in Nat /\ \A i \in 1..Len(a) : a[i] \in Nat
  BY LenProperties, ElementOfSeq
<1>1. ASSUME NEW i \in 1..Len(r) - 1
      PROVE  r[i] < r[i + 1] /\ \A n \in r[i] + 1 .. r[i + 1] - 1 : n \in B
  <2>1. CASE i < k - 1
    <3>0. i \in 1..Len(a) - 1 /\ i \in 1..k - 1 /\ i + 1 \in 1..k - 1
      BY <1>0, <2>1
    <3>1. r[i] = a[i] /\ r[i + 1] = a[i + 1]
      BY <3>0
    <3> QED BY <3>0, <3>1 DEF Rising
  <2>2. CASE i = k - 1
    <3>0. /\ i \in 1..Len(a) - 1 /\ k \in 1..Len(a) - 1
          /\ i \in 1..k - 1 /\ i + 1 = k /\ k \in k..Len(r)
      BY <1>0, <2>2
    <3>1. /\ i \in 1..Len(a) - 1 /\ k \in 1..Len(a) - 1
          /\ r[i] = a[i] /\ a[i + 1] = a[k] /\ r[i + 1] = a[k + 1]
      BY <3>0
    <3>2. /\ a[i] < a[k] /\ \A n \in a[i] + 1 .. a[k] - 1 : n \in B
          /\ a[k] < a[k + 1] /\ \A n \in a[k] + 1 .. a[k + 1] - 1 : n \in B
      BY <3>1 DEF Rising
    <3>3. i \in 1..Len(a) /\ k + 1 \in 1..Len(a)
      BY <1>0, <3>1
    <3>4. a[i] \in Nat /\ a[k] \in Nat /\ a[k + 1] \in Nat
      BY <1>0, <3>3
    <3>5. PICK x \in Nat, y \in Nat, z \in Nat : x = a[i] /\ y = a[k] /\ z = a[k + 1]
      BY <3>4
    <3>6. x < y /\ y < z /\ y \in B
          /\ (\A n \in x + 1 .. y - 1 : n \in B) /\ (\A n \in y + 1 .. z - 1 : n \in B)
      BY <3>2, <3>5
    <3>7. x < z /\ \A n \in x + 1 .. z - 1 : n \in B
      BY <3>6
    <3>8. a[i] < a[k + 1] /\ \A n \in a[i] + 1 .. a[k + 1] - 1 : n \in B
      BY <3>5, <3>7
    <3> QED BY <3>1, <3>8
  <2>3. CASE i >= k
    <3>1. i + 1 \in 1..Len(a) - 1 /\ i \in k..Len(r) /\ i + 1 \in k..Len(r)
      BY <1>0, <2>3
    <3>2. r[i] = a[i + 1] /\ r[i + 1] = a[(i + 1) + 1]
      BY <3>1
    <3> QED BY <3>1, <3>2 DEF Rising
  <2> QED BY <1>0, <2>1, <2>2, <2>3
<1>2. ASSUME r # <<>> PROVE \A n \in r[Len(r)] + 1 .. top : n \in B
  <2>0. Len(r) \in 1..Len(a) - 1 /\ a # <<>>
    BY <1>0, <1>2, EmptySeq, LenProperties
  <2>1. \A n \in a[Len(a)] + 1 .. top : n \in B
    BY <2>0 DEF Rising
  <2>2. CASE k = Len(a)
    <3>1. r[Len(r)] = a[Len(r)] /\ Len(r) + 1 = k
      BY <1>0, <2>0, <2>2
    <3>2. \A n \in a[Len(r)] + 1 .. a[k] - 1 : n \in B
      BY <2>0, <3>1 DEF Rising
    <3>3. a[Len(r)] \in Nat /\ a[k] \in Nat
      BY <1>0, <2>0
    <3> QED BY <2>1, <2>2, <3>1, <3>2, <3>3
  <2>3. CASE k # Len(a)
    <3>0. Len(r) \in k..Len(r) /\ Len(r) + 1 = Len(a)
      BY <1>0, <2>0, <2>3
    <3>1. r[Len(r)] = a[Len(a)]
      BY <3>0
    <3> QED BY <2>1, <3>1
  <2> QED BY <2>2, <2>3
<1> QED BY <1>1, <1>2 DEF Rising

\* The next number may be added.
LEMMA RisingAppend ==
    ASSUME NEW p \in Seq(Nat), NEW q \in Seq(Nat), NEW top \in Nat, NEW B, NEW C,
           Rising(p \o q, top, B),
           \A i \in 1..Len(p) : p[i] \in 1..top,
           \A i \in 1..Len(q) : q[i] \in 1..top,
           \A n \in 1..top : n \in B => n \in C
    PROVE  Rising(p \o Append(q, top + 1), top + 1, C)
<1> DEFINE a == p \o q
           r == p \o Append(q, top + 1)
<1>0. Len(p) \in Nat /\ Len(q) \in Nat
  BY LenProperties
<1>1. /\ Append(q, top + 1) \in Seq(Nat) /\ Len(Append(q, top + 1)) = Len(q) + 1
      /\ \A i \in 1..Len(q) : Append(q, top + 1)[i] = q[i]
      /\ Append(q, top + 1)[Len(q) + 1] = top + 1
  BY AppendProperties
<1>2. /\ a \in Seq(Nat) /\ Len(a) = Len(p) + Len(q)
      /\ \A i \in 1..Len(p) : a[i] = p[i]
      /\ \A i \in 1..Len(q) : a[Len(p) + i] = q[i]
  BY Joined
<1>3. /\ r \in Seq(Nat) /\ Len(r) = Len(a) + 1
      /\ \A i \in 1..Len(p) : r[i] = p[i]
      /\ \A i \in 1..Len(q) + 1 : r[Len(p) + i] = Append(q, top + 1)[i]
  BY <1>0, <1>1, <1>2, Joined
<1>4. r[Len(a) + 1] = top + 1
  BY <1>0, <1>1, <1>2, <1>3
<1>5. \A i \in 1..Len(a) : r[i] = a[i] /\ a[i] \in 1..top
  <2> SUFFICES ASSUME NEW i \in 1..Len(a) PROVE r[i] = a[i] /\ a[i] \in 1..top
    OBVIOUS
  <2>1. CASE i <= Len(p)
    BY <1>0, <1>2, <1>3, <2>1
  <2>2. CASE i > Len(p)
    <3>1. i - Len(p) \in 1..Len(q) /\ Len(p) + (i - Len(p)) = i
      BY <1>0, <1>2, <2>2
    <3>2. a[i] = q[i - Len(p)] /\ r[i] = q[i - Len(p)]
      BY <1>1, <1>2, <1>3, <3>1
    <3> QED BY <3>1, <3>2
  <2> QED BY <1>0, <1>2, <2>1, <2>2
<1>6. Rising(a, top, B)
  OBVIOUS
<1> HIDE DEF a, r
<1>7. ASSUME NEW i \in 1..Len(r) - 1
      PROVE  r[i] < r[i + 1] /\ \A n \in r[i] + 1 .. r[i + 1] - 1 : n \in C
  <2>1. CASE i = Len(a)
    <3>0. Len(a) \in 1..Len(a) /\ a # <<>>
      BY <1>0, <1>2, <2>1, EmptySeq
    <3>1. r[i] = a[Len(a)] /\ r[i] \in 1..top /\ r[i + 1] = top + 1
      BY <1>4, <1>5, <2>1, <3>0
    <3>2. \A n \in a[Len(a)] + 1 .. top : n \in B
      BY <1>6, <3>0 DEF Rising
    <3>3. \A n \in r[i] + 1 .. (top + 1) - 1 : n \in 1..top /\ n \in B
      BY <3>1, <3>2
    <3> QED BY <3>1, <3>3
  <2>2. CASE i # Len(a)
    <3>1. i \in 1..Len(a) - 1 /\ i + 1 \in 1..Len(a)
      BY <1>0, <1>2, <1>3, <2>2
    <3>2. r[i] = a[i] /\ r[i + 1] = a[i + 1] /\ a[i] \in 1..top /\ a[i + 1] \in 1..top
      BY <1>5, <3>1
    <3>3. a[i] < a[i + 1] /\ \A n \in a[i] + 1 .. a[i + 1] - 1 : n \in B
      BY <1>6, <3>1 DEF Rising
    <3> QED BY <3>2, <3>3
  <2> QED BY <2>1, <2>2
<1>8. \A n \in r[Len(r)] + 1 .. top + 1 : n \in C
  BY <1>3, <1>4
<1>9. Rising(r, top + 1, C)
  BY <1>7, <1>8 DEF Rising
<1> QED BY <1>9 DEF r

\* The first g messages of the queue follow the others to the guest.
LEMMA RisingMoved ==
    ASSUME NEW p \in Seq(Nat), NEW q \in Seq(Nat), NEW top \in Nat, NEW B,
           NEW g \in 0..Len(q), NEW d \in {g, g + 1}, d <= Len(q), d = g + 1 => q[g + 1] \in B,
           Rising(p \o q, top, B)
    PROVE  Rising((p \o SubSeq(q, 1, g)) \o SubSeq(q, d + 1, Len(q)), top, B)
<1> DEFINE a == p \o q
           s == SubSeq(q, 1, g)
           u == SubSeq(q, d + 1, Len(q))
           r == (p \o s) \o u
<1>0. Len(p) \in Nat /\ Len(q) \in Nat /\ \A i \in 1..Len(q) : q[i] \in Nat
  BY LenProperties, ElementOfSeq
<1>1. /\ a \in Seq(Nat) /\ Len(a) = Len(p) + Len(q)
      /\ \A i \in 1..Len(p) : a[i] = p[i]
      /\ \A i \in 1..Len(q) : a[Len(p) + i] = q[i]
  BY Joined
<1>2. s \in Seq(Nat) /\ Len(s) = g /\ \A i \in 1..g : s[i] = q[i]
  BY <1>0, SubSeqProperties
<1>3. u \in Seq(Nat) /\ Len(u) = Len(q) - d /\ \A i \in 1..Len(q) - d : u[i] = q[d + i]
  BY <1>0, SubSeqProperties
<1> HIDE DEF s, u
<1>4. /\ p \o s \in Seq(Nat) /\ Len(p \o s) = Len(p) + g
      /\ \A i \in 1..Len(p) : (p \o s)[i] = p[i]
      /\ \A i \in 1..g : (p \o s)[Len(p) + i] = s[i]
  BY <1>2, Joined
<1>5. /\ r \in Seq(Nat) /\ Len(r) = (Len(p) + g) + (Len(q) - d)
      /\ \A i \in 1..Len(p) + g : r[i] = (p \o s)[i]
      /\ \A i \in 1..Len(q) - d : r[(Len(p) + g) + i] = u[i]
  <2> DEFINE w == p \o s
  <2>1. w \in Seq(Nat) /\ Len(w) = Len(p) + g
    BY <1>4
  <2> HIDE DEF w
  <2>2. /\ w \o u \in Seq(Nat) /\ Len(w \o u) = Len(w) + Len(u)
        /\ \A i \in 1..Len(w) : (w \o u)[i] = w[i]
        /\ \A i \in 1..Len(u) : (w \o u)[Len(w) + i] = u[i]
    BY <1>3, <2>1, Joined
  <2>3. /\ w \o u \in Seq(Nat) /\ Len(w \o u) = (Len(p) + g) + (Len(q) - d)
        /\ \A i \in 1..Len(p) + g : (w \o u)[i] = w[i]
        /\ \A i \in 1..Len(q) - d : (w \o u)[(Len(p) + g) + i] = u[i]
    BY <1>3, <2>1, <2>2
  <2> QED BY <2>3 DEF w
<1> HIDE DEF a, r
<1>6. \A i \in 1..Len(p) + g : r[i] = a[i]
  <2> SUFFICES ASSUME NEW i \in 1..Len(p) + g PROVE r[i] = a[i]
    OBVIOUS
  <2>1. CASE i <= Len(p)
    BY <1>0, <1>1, <1>4, <1>5, <2>1
  <2>2. CASE i > Len(p)
    <3>1. i - Len(p) \in 1..g /\ Len(p) + (i - Len(p)) = i
      BY <1>0, <2>2
    <3>2. i - Len(p) \in 1..Len(q)
      BY <1>0, <3>1
    <3>3. r[i] = s[i - Len(p)] /\ s[i - Len(p)] = q[i - Len(p)]
      BY <1>2, <1>4, <1>5, <3>1
    <3>4. a[i] = q[i - Len(p)]
      BY <1>1, <3>1, <3>2
    <3> QED BY <3>3, <3>4
  <2> QED BY <1>0, <2>1, <2>2
<1>7. \A i \in (Len(p) + g) + 1 .. Len(r) : r[i] = a[i + (d - g)]
  <2> SUFFICES ASSUME NEW i \in (Len(p) + g) + 1 .. Len(r) PROVE r[i] = a[i + (d - g)]
    OBVIOUS
  <2> DEFINE j == i - (Len(p) + g)
  <2>a. g \in Nat /\ d \in Nat
    BY <1>0
  <2>b. Len(r) = (Len(p) + g) + (Len(q) - d)
    BY <1>5
  <2>0. i \in Nat /\ (Len(p) + g) + 1 <= i /\ i <= (Len(p) + g) + (Len(q) - d)
    BY <1>0, <2>a, <2>b
  <2>1. j \in 1..Len(q) - d /\ (Len(p) + g) + j = i /\ d + j \in 1..Len(q)
        /\ Len(p) + (d + j) = i + (d - g)
    BY <1>0, <2>a, <2>0
  <2>2. r[i] = u[j] /\ u[j] = q[d + j] /\ a[Len(p) + (d + j)] = q[d + j]
    BY <1>1, <1>3, <1>5, <2>1
  <2> QED BY <2>1, <2>2
<1>8. Rising(a, top, B)
  BY DEF a
<1>9. CASE d = g
  <2>1. Len(r) = Len(a) /\ \A i \in 1..Len(a) : r[i] = a[i]
    <3>1. Len(r) = Len(a) /\ Len(a) \in Nat
      BY <1>0, <1>1, <1>5, <1>9
    <3>2. ASSUME NEW i \in 1..Len(a) PROVE r[i] = a[i]
      <4>1. CASE i \in 1..Len(p) + g
        BY <1>6, <4>1
      <4>2. CASE i \in (Len(p) + g) + 1 .. Len(r)
        <5>1. i + (d - g) = i
          BY <1>0, <1>9, <3>1
        <5> QED BY <1>7, <4>2, <5>1
      <4> QED BY <1>0, <3>1, <4>1, <4>2
    <3> QED BY <3>1, <3>2
  <2>2. r = a
    BY <1>1, <1>5, <2>1, SeqEqual
  <2> QED BY <1>8, <2>2 DEF r, s, u
<1>10. CASE d = g + 1
  <2> DEFINE k == (Len(p) + g) + 1
  <2>1. k \in 1..Len(a) /\ Len(r) = Len(a) - 1 /\ k = Len(p) + (g + 1)
    BY <1>0, <1>1, <1>5, <1>10
  <2>2. a[k] \in B
    BY <1>0, <1>1, <1>10, <2>1
  <2>3. \A i \in 1..k - 1 : r[i] = a[i]
    BY <1>0, <1>6
  <2>4. \A i \in k..Len(r) : r[i] = a[i + 1]
    BY <1>0, <1>7, <1>10
  <2> HIDE DEF k
  <2>5. Rising(r, top, B)
    BY <1>1, <1>5, <1>8, <2>1, <2>2, <2>3, <2>4, RisingWithout
  <2> QED BY <2>5 DEF r, s, u
<1> QED BY <1>9, <1>10

-----------------------------------------------------------------------------
(* The inductive invariant.                                                *)

\* What the monitor is where the thread of the VM is.
Places ==
    /\ pc = "create" => state = "none"
    /\ pc \in {"load", "launch", "start", "reload"} => state = "INITIALIZED"
    /\ pc = "run" => state \in {"STARTED", "RUNNING", "TERMINATED"}
    /\ pc \in {"check", "reset"} => state = "TERMINATED"
    /\ pc \in {"realloc", "reconfigure"} => state = "EMPTY"
    /\ pc = "reconfigure" => memory
    /\ pc = "leave" => state \in {"INITIALIZED", "TERMINATED", "EMPTY"}
    /\ pc = "ended" => state \in {"none", "destroyed"}
    /\ state = "none" => pc \in {"create", "ended"} /\ queue = <<>> /\ stop = "no"
    /\ state = "none" => ~memory /\ ~devices
    /\ state = "destroyed" => pc = "ended" /\ stop # "queued"

\* Who has the IO area: what waits in it is on its way to the guest, or the message of the guest
\* to the driver, or was left when the processor was found in VMX mode, after which the guest is
\* not entered any more.
Area ==
    /\ waiting # 0 => \/ pc = "callback"
                      \/ pc = "switched" /\ op \in {"SEND", "VMXE"}
                      \/ op = "VMXE"
    /\ op = "VMXE" => pc \in {"switched", "run", "check", "leave", "ended"}
    /\ op = "VMXE" /\ pc \in {"run", "check"} => state = "TERMINATED" /\ reason = "VMXE"
    /\ ~active => got = <<>>

\* Only numbers that were given are on the way or with the guest.
Numbered == queue \in Seq(1..sent) /\ io \in Seq(1..sent) /\ got \in Seq(1..sent)

\* A shutdown that is asked for is remembered by the daemon from then on, and a guest that was
\* told is in its last run.
StopFlag ==
    /\ stop # "no" => next_reboot_will_shutdown /\ pc # "launch"
    /\ told => /\ next_reboot_will_shutdown
               /\ pc \in {"run", "check", "leave", "ended"} \cup DriverPCs \cup GuestPCs

StopInv ==
    /\ stop \in {"no", "flagged"} => power = 0
    /\ power <= sent
    /\ pc \in {"create", "load"} => stop = "no"
    /\ ~EarlyStop => StopFlag

Kept == TypeOK /\ ResourcesMatchState /\ Places
IInv == Kept /\ IoAreaKept /\ Area /\ Numbered /\ MessagesInOrder /\ StopInv

-----------------------------------------------------------------------------
(* Types.                                                                  *)

LEMMA Elements ==
    ASSUME NEW S, NEW q \in Seq(S)
    PROVE  Len(q) \in Nat /\ q \in [1..Len(q) -> S]
BY LenProperties

\* The numbers given so far are numbers that will have been given.
LEMMA Wider ==
    ASSUME NEW n \in Nat, NEW q \in Seq(1..n)
    PROVE  q \in Seq(1..n + 1) /\ q \in Seq(Nat)
<1>1. 1..n \subseteq 1..n + 1 /\ 1..n \subseteq Nat
  OBVIOUS
<1>2. Len(q) \in Nat /\ q \in [1..Len(q) -> 1..n]
  BY Elements
<1> QED BY <1>1, <1>2, SeqDef

\* What callback_return does to the queue and to the IO area.
LEMMA Copied ==
    ASSUME NEW S, queue \in Seq(S), io \in Seq(S), waiting \in Nat, CallbackReturn
    PROVE  /\ queue' \in Seq(S) /\ io' \in Seq(S) /\ waiting' \in Nat /\ size' \in Nat
           /\ waiting = 0 => Len(io') = Good(queue) /\ waiting' = Len(io') /\ size' = Len(io')
<1>1. Len(queue) \in Nat
  BY LenProperties
<1>2. Good(queue) \in 0..Len(queue) /\ Popped(queue) \in 0..Len(queue)
  BY <1>1, GoodIs, PoppedIs
<1>3. \A i \in 1..Len(queue) : queue[i] \in S
  BY ElementOfSeq
<1>4. SubSeq(queue, 1, Good(queue)) \in Seq(S)
      /\ Len(SubSeq(queue, 1, Good(queue))) = Good(queue)
  BY <1>1, <1>2, <1>3, SubSeqProperties
<1>5. SubSeq(queue, Popped(queue) + 1, Len(queue)) \in Seq(S)
  BY <1>1, <1>2, <1>3, SubSeqProperties
<1>6. CASE waiting = 0
  <2>1. /\ io' = SubSeq(queue, 1, Good(queue))
        /\ queue' = SubSeq(queue, Popped(queue) + 1, Len(queue))
        /\ waiting' = Good(queue) /\ size' = Good(queue)
    BY <1>6 DEF CallbackReturn
  <2> QED BY <1>1, <1>2, <1>4, <1>5, <2>1
<1>7. CASE waiting # 0
  BY <1>7 DEF CallbackReturn
<1> QED BY <1>6, <1>7

\* The guest's end of the area.
LEMMA Taken ==
    ASSUME NEW S, got \in Seq(S), io \in Seq(S), size = Len(io), Callback
    PROVE  got' \in Seq(S) /\ got' = IF active THEN got \o io ELSE got
<1>1. Len(io) \in Nat /\ \A i \in 1..Len(io) : io[i] \in S
  BY LenProperties, ElementOfSeq
<1>2. SubSeq(io, 1, Len(io)) \in Seq(S) /\ Len(SubSeq(io, 1, Len(io))) = Len(io)
      /\ \A i \in 1..Len(io) : SubSeq(io, 1, Len(io))[i] = io[i]
  BY <1>1, SubSeqProperties
<1>3. SubSeq(io, 1, size) = io
  BY <1>2, SeqEqual
<1>4. got \o io \in Seq(S)
  BY ConcatProperties
<1> QED BY <1>3, <1>4 DEF Callback

LEMMA TypesNext ==
    ASSUME IInv, [Next]_vars
    PROVE  TypeOK'
<1>0. TypeOK /\ IoAreaKept /\ [Next]_vars
  BY DEF IInv, Kept
<1>e. <<>> \in Seq(Nat)
  BY EmptySeq
<1> USE DEF TypeOK, States, Ends, Served, Operations, DaemonPCs, DriverPCs, GuestPCs, monVars,
  msgVars, runVars, guestVars, stopVars, sendVars, vars
<1>1. ASSUME Create PROVE TypeOK'
  BY <1>0, <1>e, <1>1 DEF Create
<1>2. ASSUME CreateFails PROVE TypeOK'
  BY <1>0, <1>e, <1>2 DEF CreateFails
<1>3. ASSUME Launch PROVE TypeOK'
  <2>1. next_reboot_will_shutdown' \in BOOLEAN
    BY <1>0, <1>3, Zenon DEF Launch
  <2> QED BY <1>0, <1>e, <1>3, <2>1 DEF Launch
<1>4. ASSUME Start PROVE TypeOK'
  <2>1. active' \in BOOLEAN /\ told' \in BOOLEAN
    BY <1>0, <1>4, Zenon DEF Start
  <2> QED BY <1>0, <1>e, <1>4, <2>1 DEF Start
<1>5. ASSUME StartFails PROVE TypeOK'
  BY <1>0, <1>e, <1>5 DEF StartFails
<1>6. ASSUME Run PROVE TypeOK'
  BY <1>0, <1>e, <1>6 DEF Run
<1>7. ASSUME RunTerminated PROVE TypeOK'
  BY <1>0, <1>e, <1>7 DEF RunTerminated
<1>8. ASSUME Check PROVE TypeOK'
  BY <1>0, <1>e, <1>8 DEF Check
<1>9. ASSUME Flush PROVE TypeOK'
  BY <1>0, <1>e, <1>9 DEF Flush
<1>10. ASSUME Reconfigure PROVE TypeOK'
  BY <1>0, <1>e, <1>10 DEF Reconfigure
<1>11. ASSUME ReconfigureFails PROVE TypeOK'
  <2>1. memory' \in BOOLEAN /\ devices' \in BOOLEAN
    BY <1>0, <1>11, Zenon DEF ReconfigureFails
  <2> QED BY <1>0, <1>e, <1>11, <2>1 DEF ReconfigureFails
<1>12. ASSUME Destroy PROVE TypeOK'
  <2>1. memory' \in BOOLEAN /\ devices' \in BOOLEAN /\ armed' \in BOOLEAN
    BY <1>0, <1>12, Zenon DEF Destroy
  <2>2. /\ queue' = <<>> /\ state' = "destroyed" /\ pc' = "ended"
        /\ UNCHANGED <<reason, timer_interrupt, io, waiting, size, op, again, wake,
                       guestVars, stopVars, sendVars, boots>>
    BY <1>12 DEF Destroy
  <2> QED BY <1>0, <1>e, <2>1, <2>2
<1>13. ASSUME NEW ok \in BOOLEAN, Load(ok) PROVE TypeOK'
  BY <1>0, <1>e, <1>13 DEF Load
<1>14. ASSUME NEW ok \in BOOLEAN, Realloc(ok) PROVE TypeOK'
  BY <1>0, <1>e, <1>14 DEF Realloc
<1>15. ASSUME NEW ok \in BOOLEAN, Reload(ok) PROVE TypeOK'
  BY <1>0, <1>e, <1>15 DEF Reload
<1>16. ASSUME Iterate PROVE TypeOK'
  <2>1. queue' \in Seq(Nat) /\ io' \in Seq(Nat) /\ waiting' \in Nat /\ size' \in Nat
    BY <1>0, <1>16, Copied DEF Iterate
  <2> QED BY <1>0, <1>16, <2>1
      DEF Iterate
<1>17. ASSUME OtherVirtualization PROVE TypeOK'
  <2>1. queue' \in Seq(Nat) /\ io' \in Seq(Nat) /\ waiting' \in Nat /\ size' \in Nat
    BY <1>0, <1>17, Copied DEF OtherVirtualization
  <2> QED BY <1>0, <1>17, <2>1
      DEF OtherVirtualization
<1>18. ASSUME Callback PROVE TypeOK'
  <2>1. got' \in Seq(Nat)
    BY <1>0, <1>18, Taken DEF Callback, IoAreaKept
  <2> QED BY <1>0, <1>18, <2>1
      DEF Callback
<1>19. ASSUME Activate PROVE TypeOK'
  BY <1>0, <1>e, <1>19 DEF Activate
<1>20. ASSUME Interrupted PROVE TypeOK'
  <2>1. timer_interrupt' \in BOOLEAN
    BY <1>0, <1>20, Zenon DEF Interrupted
  <2> QED BY <1>0, <1>e, <1>20, <2>1 DEF Interrupted, Return
<1>21. ASSUME Terminate PROVE TypeOK'
  <2>1. armed' \in BOOLEAN
    BY <1>0, <1>21, Zenon DEF Terminate
  <2> QED BY <1>0, <1>e, <1>21, <2>1 DEF Terminate, Return
<1>22. ASSUME Serve PROVE TypeOK'
  BY <1>0, <1>e, <1>22 DEF Serve, Return
<1>23. ASSUME FromGuest PROVE TypeOK'
  BY <1>0, <1>e, <1>23 DEF FromGuest, Return
<1>24. ASSUME Idle PROVE TypeOK'
  BY <1>0, <1>e, <1>24 DEF Idle
<1>25. ASSUME Awake PROVE TypeOK'
  <2>1. wake' \in BOOLEAN
    BY <1>0, <1>25, Zenon DEF Awake
  <2> QED BY <1>0, <1>e, <1>25, <2>1 DEF Awake, Return
<1>26. ASSUME GuestSends PROVE TypeOK'
  BY <1>0, <1>e, <1>26 DEF GuestSends, Leave
<1>27. ASSUME NEW o \in {"INTERRUPT", "IDLE", "UNKNOWN"} \cup Served, GuestCalls(o) PROVE TypeOK'
  BY <1>0, <1>e, <1>27 DEF GuestCalls, Leave
<1>28. ASSUME NEW r \in {"REBOOT", "POWEROFF"}, GuestEnds(r) PROVE TypeOK'
  BY <1>0, <1>e, <1>28 DEF GuestEnds, Leave
<1>29. ASSUME Timer PROVE TypeOK'
  BY <1>0, <1>e, <1>29 DEF Timer, WakeUp
<1>30. ASSUME NEW s \in Senders, Send(s) PROVE TypeOK'
  BY <1>0, <1>e, <1>30 DEF Send, Enqueue
<1>31. ASSUME NEW s \in Senders, SendWakes(s) PROVE TypeOK'
  BY <1>0, <1>e, <1>31 DEF SendWakes, WakeUp
<1>32. ASSUME Stop PROVE TypeOK'
  BY <1>0, <1>e, <1>32 DEF Stop
<1>33. ASSUME StopSends PROVE TypeOK'
  BY <1>0, <1>e, <1>33 DEF StopSends, Enqueue
<1>34. ASSUME StopLate PROVE TypeOK'
  BY <1>0, <1>e, <1>34 DEF StopLate
<1>35. ASSUME StopWakes PROVE TypeOK'
  BY <1>0, <1>e, <1>35 DEF StopWakes, WakeUp
<1>36. ASSUME UNCHANGED vars PROVE TypeOK'
  BY <1>0, <1>e, <1>36
<1> QED BY <1>0, <1>1, <1>2, <1>3, <1>4, <1>5, <1>6, <1>7, <1>8, <1>9, <1>10, <1>11, <1>12, <1>13,
  <1>14, <1>15, <1>16, <1>17, <1>18, <1>19, <1>20, <1>21, <1>22, <1>23, <1>24, <1>25, <1>26, <1>27,
  <1>28, <1>29, <1>30, <1>31, <1>32, <1>33, <1>34, <1>35, <1>36 DEF Next, Daemon, Driver, Guest

-----------------------------------------------------------------------------
(* The resources of the monitor.                                           *)

LEMMA PlacesNext ==
    ASSUME IInv, [Next]_vars
    PROVE  ResourcesMatchState' /\ Places'
<1>0. /\ TypeOK /\ ResourcesMatchState /\ Places /\ [Next]_vars
      /\ pc \in {"create", "load"} => stop = "no"
  BY DEF IInv, Kept, StopInv
<1> USE DEF TypeOK, ResourcesMatchState, Places, States, Ends, Served, Operations, DaemonPCs,
  DriverPCs, GuestPCs, monVars, msgVars, runVars, guestVars, stopVars, sendVars, vars
<1>1. ASSUME Create \/ CreateFails \/ Launch \/ StartFails PROVE ResourcesMatchState' /\ Places'
  BY <1>0, <1>1 DEF Create, CreateFails, Launch, StartFails
<1>2. ASSUME Start \/ Run \/ RunTerminated \/ Check PROVE ResourcesMatchState' /\ Places'
  BY <1>0, <1>2 DEF Start, Run, RunTerminated, Check
<1>3. ASSUME Flush \/ Reconfigure \/ ReconfigureFails PROVE ResourcesMatchState' /\ Places'
  BY <1>0, <1>3 DEF Flush, Reconfigure, ReconfigureFails
<1>4. ASSUME Destroy PROVE ResourcesMatchState' /\ Places'
  BY <1>0, <1>4 DEF Destroy
<1>5. ASSUME NEW ok \in BOOLEAN, Load(ok) PROVE ResourcesMatchState' /\ Places'
  BY <1>0, <1>5 DEF Load
<1>6. ASSUME NEW ok \in BOOLEAN, Realloc(ok) PROVE ResourcesMatchState' /\ Places'
  BY <1>0, <1>6 DEF Realloc
<1>7. ASSUME NEW ok \in BOOLEAN, Reload(ok) PROVE ResourcesMatchState' /\ Places'
  BY <1>0, <1>7 DEF Reload
<1>8. ASSUME Iterate PROVE ResourcesMatchState' /\ Places'
  BY <1>0, <1>8 DEF Iterate
<1>9. ASSUME OtherVirtualization PROVE ResourcesMatchState' /\ Places'
  BY <1>0, <1>9 DEF OtherVirtualization
<1>10. ASSUME Idle \/ Serve \/ Activate \/ Callback \/ GuestSends PROVE ResourcesMatchState' /\
  Places'
  BY <1>0, <1>10 DEF Idle, Serve, Return, Activate, Callback, GuestSends, Leave
<1>11. ASSUME Interrupted \/ Terminate \/ Awake \/ FromGuest PROVE ResourcesMatchState' /\ Places'
  BY <1>0, <1>11 DEF Interrupted, Return, Terminate, Awake, FromGuest
<1>12. ASSUME NEW o \in {"INTERRUPT", "IDLE", "UNKNOWN"} \cup Served, GuestCalls(o) PROVE
  ResourcesMatchState' /\ Places'
  BY <1>0, <1>12 DEF GuestCalls, Leave
<1>13. ASSUME NEW r \in {"REBOOT", "POWEROFF"}, GuestEnds(r) PROVE ResourcesMatchState' /\ Places'
  BY <1>0, <1>13 DEF GuestEnds, Leave
<1>14. ASSUME Timer \/ Stop \/ StopLate \/ StopWakes \/ (UNCHANGED vars) PROVE ResourcesMatchState'
  /\ Places'
  BY <1>0, <1>14 DEF Timer, WakeUp, Stop, StopLate, StopWakes
<1>15. ASSUME NEW s \in Senders, Send(s) PROVE ResourcesMatchState' /\ Places'
  BY <1>0, <1>15 DEF Send, Enqueue
<1>16. ASSUME NEW s \in Senders, SendWakes(s) PROVE ResourcesMatchState' /\ Places'
  BY <1>0, <1>16 DEF SendWakes, WakeUp
<1>17. ASSUME StopSends PROVE ResourcesMatchState' /\ Places'
  BY <1>0, <1>17 DEF StopSends, Enqueue
<1> QED BY <1>0, <1>1, <1>2, <1>3, <1>4, <1>5, <1>6, <1>7, <1>8, <1>9, <1>10, <1>11, <1>12, <1>13,
  <1>14, <1>15, <1>16, <1>17 DEF Next, Daemon, Driver, Guest

-----------------------------------------------------------------------------
(* The IO area and the numbers.                                            *)

LEMMA AreaNext ==
    ASSUME IInv, [Next]_vars
    PROVE  IoAreaKept' /\ Area'
<1>0. Kept /\ IoAreaKept /\ Area /\ [Next]_vars
  BY DEF IInv
<1> USE DEF Kept, TypeOK, ResourcesMatchState, Places, IoAreaKept, Area, RebootsAgain, States, Ends,
  Served, Operations, DaemonPCs, DriverPCs, GuestPCs, monVars, msgVars, runVars, guestVars,
  stopVars, sendVars, vars
<1>1. ASSUME Create \/ CreateFails \/ Launch \/ StartFails PROVE IoAreaKept' /\ Area'
  BY <1>0, <1>1 DEF Create, CreateFails, Launch, StartFails
<1>2. ASSUME Start \/ Run \/ RunTerminated \/ Check PROVE IoAreaKept' /\ Area'
  BY <1>0, <1>2 DEF Start, Run, RunTerminated, Check
<1>3. ASSUME Flush \/ Reconfigure \/ ReconfigureFails PROVE IoAreaKept' /\ Area'
  BY <1>0, <1>3 DEF Flush, Reconfigure, ReconfigureFails
<1>4. ASSUME Destroy PROVE IoAreaKept' /\ Area'
  BY <1>0, <1>4 DEF Destroy
<1>5. ASSUME NEW ok \in BOOLEAN, Load(ok) PROVE IoAreaKept' /\ Area'
  BY <1>0, <1>5 DEF Load
<1>6. ASSUME NEW ok \in BOOLEAN, Realloc(ok) PROVE IoAreaKept' /\ Area'
  BY <1>0, <1>6 DEF Realloc
<1>7. ASSUME NEW ok \in BOOLEAN, Reload(ok) PROVE IoAreaKept' /\ Area'
  BY <1>0, <1>7 DEF Reload
<1>8. ASSUME Iterate PROVE IoAreaKept' /\ Area'
  <2>1. CallbackReturn /\ waiting = 0 => waiting' = Len(io') /\ size' = Len(io')
    BY <1>0, Copied
  <2> QED BY <1>0, <1>8, <2>1
      DEF Iterate
<1>9. ASSUME OtherVirtualization PROVE IoAreaKept' /\ Area'
  <2>1. CallbackReturn /\ waiting = 0 => waiting' = Len(io') /\ size' = Len(io')
    BY <1>0, Copied
  <2> QED BY <1>0, <1>9, <2>1
      DEF OtherVirtualization
<1>10. ASSUME Idle \/ Serve \/ Activate \/ Callback \/ GuestSends PROVE IoAreaKept' /\ Area'
  BY <1>0, <1>10 DEF Idle, Serve, Return, Activate, Callback, GuestSends, Leave
<1>11. ASSUME Interrupted \/ Terminate \/ Awake \/ FromGuest PROVE IoAreaKept' /\ Area'
  BY <1>0, <1>11 DEF Interrupted, Return, Terminate, Awake, FromGuest
<1>12. ASSUME NEW o \in {"INTERRUPT", "IDLE", "UNKNOWN"} \cup Served, GuestCalls(o) PROVE
  IoAreaKept' /\ Area'
  BY <1>0, <1>12 DEF GuestCalls, Leave
<1>13. ASSUME NEW r \in {"REBOOT", "POWEROFF"}, GuestEnds(r) PROVE IoAreaKept' /\ Area'
  BY <1>0, <1>13 DEF GuestEnds, Leave
<1>14. ASSUME Timer \/ Stop \/ StopLate \/ StopWakes \/ (UNCHANGED vars) PROVE IoAreaKept' /\ Area'
  BY <1>0, <1>14 DEF Timer, WakeUp, Stop, StopLate, StopWakes
<1>15. ASSUME NEW s \in Senders, Send(s) PROVE IoAreaKept' /\ Area'
  BY <1>0, <1>15 DEF Send, Enqueue
<1>16. ASSUME NEW s \in Senders, SendWakes(s) PROVE IoAreaKept' /\ Area'
  BY <1>0, <1>16 DEF SendWakes, WakeUp
<1>17. ASSUME StopSends PROVE IoAreaKept' /\ Area'
  BY <1>0, <1>17 DEF StopSends, Enqueue
<1> QED BY <1>0, <1>1, <1>2, <1>3, <1>4, <1>5, <1>6, <1>7, <1>8, <1>9, <1>10, <1>11, <1>12, <1>13,
  <1>14, <1>15, <1>16, <1>17 DEF Next, Daemon, Driver, Guest

LEMMA NumberedNext ==
    ASSUME IInv, [Next]_vars
    PROVE  Numbered'
<1>0. TypeOK /\ IoAreaKept /\ Numbered /\ [Next]_vars
  BY DEF IInv, Kept
<1>e. <<>> \in Seq(1..sent)
  BY EmptySeq
<1> USE DEF Numbered, monVars, msgVars, runVars, guestVars, stopVars, sendVars, vars
<1>1. ASSUME Create \/ CreateFails \/ Launch \/ StartFails PROVE Numbered'
  BY <1>0, <1>e, <1>1 DEF Create, CreateFails, Launch, StartFails
<1>2. ASSUME Start \/ Flush \/ Reconfigure \/ GuestSends \/ Destroy PROVE Numbered'
  BY <1>0, <1>e, <1>2 DEF Start, Flush, Reconfigure, GuestSends, Leave, Destroy
<1>3. ASSUME Run \/ RunTerminated \/ Check \/ ReconfigureFails PROVE Numbered'
  BY <1>0, <1>e, <1>3 DEF Run, RunTerminated, Check, ReconfigureFails
<1>4. ASSUME NEW ok \in BOOLEAN, Load(ok) PROVE Numbered'
  BY <1>0, <1>e, <1>4 DEF Load
<1>5. ASSUME NEW ok \in BOOLEAN, Realloc(ok) PROVE Numbered'
  BY <1>0, <1>e, <1>5 DEF Realloc
<1>6. ASSUME NEW ok \in BOOLEAN, Reload(ok) PROVE Numbered'
  BY <1>0, <1>e, <1>6 DEF Reload
<1>7. ASSUME Iterate PROVE Numbered'
  <2>1. queue' \in Seq(1..sent) /\ io' \in Seq(1..sent)
    BY <1>0, <1>7, Copied DEF Iterate, TypeOK
  <2> QED BY <1>0, <1>7, <2>1 DEF Iterate
<1>8. ASSUME OtherVirtualization PROVE Numbered'
  <2>1. queue' \in Seq(1..sent) /\ io' \in Seq(1..sent)
    BY <1>0, <1>8, Copied DEF OtherVirtualization, TypeOK
  <2> QED BY <1>0, <1>8, <2>1 DEF OtherVirtualization
<1>9. ASSUME Callback PROVE Numbered'
  <2>1. got' \in Seq(1..sent)
    BY <1>0, <1>9, Taken DEF Callback, IoAreaKept
  <2> QED BY <1>0, <1>9, <2>1 DEF Callback
<1>10. ASSUME Idle \/ Serve \/ Activate PROVE Numbered'
  BY <1>0, <1>e, <1>10 DEF Idle, Serve, Return, Activate
<1>11. ASSUME Interrupted \/ Terminate \/ Awake \/ FromGuest PROVE Numbered'
  BY <1>0, <1>e, <1>11 DEF Interrupted, Return, Terminate, Awake, FromGuest
<1>12. ASSUME NEW o \in {"INTERRUPT", "IDLE", "UNKNOWN"} \cup Served, GuestCalls(o) PROVE Numbered'
  BY <1>0, <1>e, <1>12 DEF GuestCalls, Leave
<1>13. ASSUME NEW r \in {"REBOOT", "POWEROFF"}, GuestEnds(r) PROVE Numbered'
  BY <1>0, <1>e, <1>13 DEF GuestEnds, Leave
<1>14. ASSUME Timer \/ Stop \/ StopLate \/ StopWakes \/ (UNCHANGED vars) PROVE Numbered'
  BY <1>0, <1>e, <1>14 DEF Timer, WakeUp, Stop, StopLate, StopWakes
<1>15. ASSUME NEW s \in Senders, Send(s) PROVE Numbered'
  <2>1. sent \in Nat /\ sent' = sent + 1 /\ queue' = Append(queue, sent + 1) /\ io' = io /\ got' =
    got
    BY <1>0, <1>15 DEF Send, Enqueue, TypeOK
  <2>2. queue \in Seq(1..sent + 1) /\ io \in Seq(1..sent + 1) /\ got \in Seq(1..sent + 1)
    BY <1>0, <2>1, Wider
  <2>3. sent + 1 \in 1..sent + 1
    BY <2>1
  <2>4. Append(queue, sent + 1) \in Seq(1..sent + 1)
    BY <2>2, <2>3, AppendProperties
  <2> QED BY <2>1, <2>2, <2>4
<1>16. ASSUME NEW s \in Senders, SendWakes(s) PROVE Numbered'
  BY <1>0, <1>e, <1>16 DEF SendWakes, WakeUp
<1>17. ASSUME StopSends PROVE Numbered'
  <2>1. sent \in Nat /\ sent' = sent + 1 /\ queue' = Append(queue, sent + 1) /\ io' = io /\ got' =
    got
    BY <1>0, <1>17 DEF StopSends, Enqueue, TypeOK
  <2>2. queue \in Seq(1..sent + 1) /\ io \in Seq(1..sent + 1) /\ got \in Seq(1..sent + 1)
    BY <1>0, <2>1, Wider
  <2>3. sent + 1 \in 1..sent + 1
    BY <2>1
  <2>4. Append(queue, sent + 1) \in Seq(1..sent + 1)
    BY <2>2, <2>3, AppendProperties
  <2> QED BY <2>1, <2>2, <2>4
<1> QED BY <1>0, <1>1, <1>2, <1>3, <1>4, <1>5, <1>6, <1>7, <1>8, <1>9, <1>10, <1>11, <1>12, <1>13,
  <1>14, <1>15, <1>16, <1>17 DEF Next, Daemon, Driver, Guest

-----------------------------------------------------------------------------
(* The shutdown.                                                           *)

LEMMA StopNext ==
    ASSUME IInv, [Next]_vars
    PROVE  StopInv'
<1>0. Kept /\ IoAreaKept /\ Area /\ StopInv /\ [Next]_vars /\ sent \in Nat /\ power \in Nat
  BY DEF IInv, Kept, TypeOK
<1> USE DEF StopInv, StopFlag, RebootsAgain, Kept, Places, ResourcesMatchState, DaemonPCs,
  DriverPCs, GuestPCs, Ends, Served, monVars, msgVars, runVars, guestVars, stopVars, sendVars, vars
<1>1. ASSUME Create \/ CreateFails \/ Launch \/ StartFails PROVE StopInv'
  BY <1>0, <1>1 DEF Create, CreateFails, Launch, StartFails
<1>2. ASSUME Start PROVE StopInv'
  <2>1. ~told'
    BY <1>2, Zenon DEF Start
  <2> QED BY <1>0, <1>2, <2>1
      DEF Start
<1>3. ASSUME Run \/ RunTerminated \/ Check \/ ReconfigureFails PROVE StopInv'
  BY <1>0, <1>3 DEF Run, RunTerminated, Check, ReconfigureFails
<1>4. ASSUME Flush \/ Reconfigure PROVE StopInv'
  BY <1>0, <1>4 DEF Flush, Reconfigure
<1>5. ASSUME Destroy PROVE StopInv'
  BY <1>0, <1>5 DEF Destroy
<1>6. ASSUME NEW ok \in BOOLEAN, Load(ok) PROVE StopInv'
  BY <1>0, <1>6 DEF Load
<1>7. ASSUME NEW ok \in BOOLEAN, Realloc(ok) PROVE StopInv'
  BY <1>0, <1>7 DEF Realloc
<1>8. ASSUME NEW ok \in BOOLEAN, Reload(ok) PROVE StopInv'
  BY <1>0, <1>8 DEF Reload
<1>9. ASSUME Iterate PROVE StopInv'
  BY <1>0, <1>9 DEF Iterate
<1>10. ASSUME OtherVirtualization PROVE StopInv'
  BY <1>0, <1>10 DEF OtherVirtualization
<1>11. ASSUME Callback PROVE StopInv'
  <2>1. ASSUME NEW i \in 1..size, io[i] = power PROVE power > 0 /\ stop # "no"
    <3>1. i \in 1..Len(io) /\ io \in Seq(1..sent)
      BY <1>0, <1>11 DEF Callback, IoAreaKept, IInv, Numbered
    <3>2. io[i] \in 1..sent
      BY <3>1, ElementOfSeq
    <3> QED BY <1>0, <2>1, <3>2
  <2> QED BY <1>0, <1>11, <2>1
      DEF Callback
<1>12. ASSUME Idle \/ Serve \/ Activate PROVE StopInv'
  BY <1>0, <1>12 DEF Idle, Serve, Return, Activate
<1>13. ASSUME Interrupted \/ Terminate \/ Awake \/ FromGuest PROVE StopInv'
  BY <1>0, <1>13 DEF Interrupted, Return, Terminate, Awake, FromGuest
<1>14. ASSUME GuestSends PROVE StopInv'
  BY <1>0, <1>14 DEF GuestSends, Leave
<1>15. ASSUME NEW o \in {"INTERRUPT", "IDLE", "UNKNOWN"} \cup Served, GuestCalls(o) PROVE StopInv'
  BY <1>0, <1>15 DEF GuestCalls, Leave
<1>16. ASSUME NEW r \in {"REBOOT", "POWEROFF"}, GuestEnds(r) PROVE StopInv'
  BY <1>0, <1>16 DEF GuestEnds, Leave
<1>17. ASSUME Timer \/ Stop \/ StopLate \/ StopWakes \/ (UNCHANGED vars) PROVE StopInv'
  BY <1>0, <1>17 DEF Timer, WakeUp, Stop, StopLate, StopWakes
<1>18. ASSUME NEW s \in Senders, Send(s) PROVE StopInv'
  BY <1>0, <1>18 DEF Send, Enqueue
<1>19. ASSUME NEW s \in Senders, SendWakes(s) PROVE StopInv'
  BY <1>0, <1>19 DEF SendWakes, WakeUp
<1>20. ASSUME StopSends PROVE StopInv'
  BY <1>0, <1>20 DEF StopSends, Enqueue
<1> QED BY <1>0, <1>1, <1>2, <1>3, <1>4, <1>5, <1>6, <1>7, <1>8, <1>9, <1>10, <1>11, <1>12, <1>13,
  <1>14, <1>15, <1>16, <1>17, <1>18, <1>19, <1>20 DEF Next, Daemon, Driver, Guest

-----------------------------------------------------------------------------
(* The order of the messages.                                              *)

\* What the guest of this boot got, or is about to.
Boot == IF state \in {"STARTED", "RUNNING", "TERMINATED"} THEN got \o InTransit ELSE <<>>

Dropped == {n \in Nat : Bad(n)}

\* What the order speaks of stays as it is.
Same == Boot' = Boot /\ queue' = queue /\ sent' = sent /\ power' = power

LEMMA OrderIs ==
    ASSUME TypeOK
    PROVE  /\ Boot \in Seq(Nat)
           /\ MessagesInOrder => Rising(Boot \o queue, sent, Dropped)
<1>1. Boot \in Seq(Nat) /\ queue \in Seq(Nat)
  BY EmptySeq, ConcatProperties DEF TypeOK, Boot, InTransit
<1>2. PICK a \in Seq(Nat) : a = Boot \o queue
  BY <1>1, ConcatProperties
<1>3. Len(a) \in Nat /\ \A i \in 1..Len(a) : a[i] \in Nat
  BY LenProperties, ElementOfSeq
<1>4. ASSUME MessagesInOrder PROVE Rising(a, sent, Dropped)
  <2>1. /\ \A i \in 1..Len(a) - 1 : /\ a[i] < a[i + 1]
                                    /\ \A n \in a[i] + 1 .. a[i + 1] - 1 : Bad(n)
        /\ a # <<>> => \A n \in a[Len(a)] + 1 .. sent : Bad(n)
    BY <1>2, <1>4 DEF MessagesInOrder, Boot
  <2>2. ASSUME NEW i \in 1..Len(a) - 1
        PROVE  a[i] < a[i + 1] /\ \A n \in a[i] + 1 .. a[i + 1] - 1 : n \in Dropped
    <3>1. i \in 1..Len(a) /\ i + 1 \in 1..Len(a)
      BY <1>3
    <3>2. PICK x \in Nat, y \in Nat : x = a[i] /\ y = a[i + 1]
      BY <1>3, <3>1
    <3>3. x < y /\ \A n \in x + 1 .. y - 1 : n \in Nat /\ Bad(n)
      BY <2>1, <3>2
    <3> QED BY <3>2, <3>3 DEF Dropped
  <2>3. ASSUME a # <<>> PROVE \A n \in a[Len(a)] + 1 .. sent : n \in Dropped
    <3>1. Len(a) \in 1..Len(a)
      BY <1>3, <2>3, EmptySeq
    <3>2. PICK x \in Nat : x = a[Len(a)]
      BY <1>3, <3>1
    <3>3. \A n \in x + 1 .. sent : n \in Nat /\ Bad(n)
      BY <2>1, <2>3, <3>2 DEF TypeOK
    <3> QED BY <3>2, <3>3 DEF Dropped
  <2> QED BY <2>2, <2>3 DEF Rising
<1> QED BY <1>1, <1>2, <1>4

LEMMA RisingEmpty ==
    ASSUME NEW top, NEW B
    PROVE  Rising(<<>> \o <<>>, top, B)
<1>1. <<>> \o <<>> = <<>> /\ Len(<<>>) = 0
  BY EmptySeq, ConcatEmptySeq
<1> QED BY <1>1 DEF Rising

\* The copy of the queue to an IO area that is free moves what is on the way.
LEMMA OrderCopied ==
    ASSUME TypeOK, CallbackReturn, waiting = 0, Rising(got \o queue, sent, Dropped)
    PROVE  /\ io' \in Seq(Nat) /\ Rising((got \o io') \o queue', sent, Dropped)
           /\ waiting' = 0 => io' = <<>>
<1>1. queue \in Seq(Nat) /\ got \in Seq(Nat) /\ sent \in Nat /\ Len(queue) \in Nat
      /\ \A i \in 1..Len(queue) : queue[i] \in Nat
  BY LenProperties, ElementOfSeq DEF TypeOK
<1>2. /\ Good(queue) \in 0..Len(queue) /\ Popped(queue) \in {Good(queue), Good(queue) + 1}
      /\ Popped(queue) <= Len(queue)
      /\ Popped(queue) # Good(queue) => Good(queue) < Len(queue) /\ Bad(queue[Good(queue) + 1])
  BY <1>1, GoodIs, PoppedIs
<1>3. Popped(queue) = Good(queue) + 1 => queue[Good(queue) + 1] \in Dropped
  BY <1>1, <1>2 DEF Dropped
<1>4. Rising((got \o SubSeq(queue, 1, Good(queue))) \o SubSeq(queue, Popped(queue) + 1, Len(queue)),
             sent, Dropped)
  BY <1>1, <1>2, <1>3, RisingMoved
<1>5. io' = SubSeq(queue, 1, Good(queue)) /\ waiting' = Good(queue)
      /\ queue' = SubSeq(queue, Popped(queue) + 1, Len(queue))
  BY DEF CallbackReturn
<1>6. io' \in Seq(Nat) /\ Len(io') = Good(queue)
  BY <1>1, <1>2, <1>5, SubSeqProperties
<1> QED BY <1>4, <1>5, <1>6, EmptySeq

LEMMA OrderNext ==
    ASSUME IInv, [Next]_vars
    PROVE  MessagesInOrder'
<1>0. Kept /\ TypeOK /\ IoAreaKept /\ Area /\ Numbered /\ StopInv /\ [Next]_vars
  BY DEF IInv, Kept
<1>a. Boot \in Seq(Nat) /\ queue \in Seq(Nat) /\ got \in Seq(Nat) /\ io \in Seq(Nat) /\ sent \in Nat
  BY <1>0, OrderIs DEF TypeOK
<1>b. Rising(Boot \o queue, sent, Dropped)
  BY <1>0, OrderIs DEF IInv
<1>c. SUFFICES Rising(Boot' \o queue', sent', Dropped')
  BY DEF MessagesInOrder, Rising, Boot, Dropped
<1>d. got \o <<>> = got /\ <<>> \o <<>> = <<>> /\ \A s \in Seq(Nat) : <<>> \o s = s
  BY <1>a, ConcatEmptySeq, EmptySeq
<1>e. ASSUME Same PROVE Rising(Boot' \o queue', sent', Dropped')
  BY <1>b, <1>e DEF Same, Dropped, Bad
<1> USE DEF Same, Boot, InTransit, Kept, TypeOK, ResourcesMatchState, Places, Area, DriverPCs,
  GuestPCs, Ends, Served, monVars, msgVars, runVars, guestVars, stopVars, sendVars, vars
<1>1. ASSUME Create PROVE Same
  BY <1>0, <1>1 DEF Create
<1>2. ASSUME CreateFails PROVE Same
  BY <1>0, <1>2 DEF CreateFails
<1>3. ASSUME Launch PROVE Same
  BY <1>0, <1>3 DEF Launch
<1>4. ASSUME Start PROVE Rising(Boot' \o queue', sent', Dropped')
  <2>1. Boot = <<>> /\ Boot' = <<>> \o <<>>
    BY <1>0, <1>4 DEF Start
  <2>2. Same
    BY <1>d, <2>1, <1>4 DEF Start
  <2> QED BY <1>e, <2>2
<1>5. ASSUME StartFails PROVE Same
  BY <1>0, <1>5 DEF StartFails
<1>6. ASSUME Run PROVE Same
  BY <1>0, <1>6 DEF Run
<1>7. ASSUME RunTerminated PROVE Same
  BY <1>0, <1>7 DEF RunTerminated
<1>8. ASSUME Check PROVE Same
  BY <1>0, <1>8 DEF Check
<1>9. ASSUME Flush PROVE Rising(Boot' \o queue', sent', Dropped')
  <2>1. Boot' = <<>> /\ queue' = <<>>
    BY <1>9 DEF Flush
  <2> QED BY <2>1, RisingEmpty
<1>10. ASSUME Reconfigure PROVE Same
  BY <1>0, <1>10 DEF Reconfigure
<1>11. ASSUME ReconfigureFails PROVE Same
  BY <1>0, <1>11 DEF ReconfigureFails
<1>12. ASSUME Destroy PROVE Rising(Boot' \o queue', sent', Dropped')
  <2>1. Boot' = <<>> /\ queue' = <<>>
    BY <1>12 DEF Destroy
  <2> QED BY <2>1, RisingEmpty
<1>13. ASSUME NEW ok \in BOOLEAN, Load(ok) PROVE Same
  BY <1>0, <1>13 DEF Load
<1>14. ASSUME NEW ok \in BOOLEAN, Realloc(ok) PROVE Same
  BY <1>0, <1>14 DEF Realloc
<1>15. ASSUME NEW ok \in BOOLEAN, Reload(ok) PROVE Same
  BY <1>0, <1>15 DEF Reload
<1>16. ASSUME Iterate PROVE Rising(Boot' \o queue', sent', Dropped')
  <2>1. CASE op \in {"INTERRUPT", "IDLE"}
    <3>1. /\ CallbackReturn /\ waiting = 0 /\ Boot = got /\ Boot' = got \o io'
          /\ sent' = sent /\ power' = power
      BY <1>0, <1>d, <1>16, <2>1
      DEF Iterate, IoAreaKept
    <3> QED BY <1>0, <1>b, <3>1, OrderCopied DEF Dropped, Bad
  <2>2. CASE op \notin {"INTERRUPT", "IDLE"}
    <3>1. Same
      BY <1>0, <1>16, <2>2 DEF Iterate
    <3> QED BY <1>e, <3>1
  <2> QED BY <2>1, <2>2
<1>17. ASSUME OtherVirtualization PROVE Rising(Boot' \o queue', sent', Dropped')
  <2>1. CASE op \in {"INTERRUPT", "IDLE"}
    <3>1. /\ CallbackReturn /\ waiting = 0 /\ Boot = got /\ sent' = sent /\ power' = power
      BY <1>0, <1>d, <1>17, <2>1
      DEF OtherVirtualization, IoAreaKept
    <3>2. io' \in Seq(Nat) /\ waiting' \in Nat /\ (waiting' = 0 => io' = <<>>)
          /\ Rising((got \o io') \o queue', sent, Dropped)
      BY <1>0, <1>b, <3>1, Copied, OrderCopied
    <3>3. InTransit' = io'
      BY <3>2, <1>17 DEF OtherVirtualization
    <3>4. Boot' = got \o io'
      BY <1>0, <3>3, <1>17
      DEF OtherVirtualization
    <3> QED BY <3>1, <3>2, <3>4 DEF Dropped, Bad
  <2>2. CASE op \notin {"INTERRUPT", "IDLE"}
    <3>1. Same
      BY <1>0, <1>17, <2>2 DEF OtherVirtualization
    <3> QED BY <1>e, <3>1
  <2> QED BY <2>1, <2>2
<1>18. ASSUME Callback PROVE Rising(Boot' \o queue', sent', Dropped')
  <2>1. got' = (IF active THEN got \o io ELSE got)
    BY <1>0, <1>a, <1>18, Taken DEF Callback, IoAreaKept
  <2>2. /\ Boot = got \o io /\ Boot' = got' \o <<>>
        /\ queue' = queue /\ sent' = sent /\ power' = power
    BY <1>0, <1>18
    DEF Callback
  <2>3. CASE active
    <3>1. Boot' = Boot
      BY <1>a, <2>1, <2>2, <2>3, ConcatEmptySeq
    <3> QED BY <1>e, <2>2, <3>1
  <2>4. CASE ~active
    <3>1. got = <<>> /\ got' = <<>>
      BY <1>0, <2>1, <2>4
    <3>2. Rising(queue, sent, Dropped)
      BY <1>a, <1>b, RisingTail
    <3>3. Boot' \o queue' = queue
      BY <1>a, <1>d, <2>2, <3>1
    <3> QED BY <2>2, <3>2, <3>3 DEF Dropped, Bad
  <2> QED BY <2>3, <2>4
<1>19. ASSUME Activate PROVE Same
  BY <1>0, <1>19 DEF Activate
<1>20. ASSUME Interrupted PROVE Same
  BY <1>0, <1>20 DEF Interrupted, Return
<1>21. ASSUME Terminate PROVE Same
  BY <1>0, <1>21 DEF Terminate, Return
<1>22. ASSUME Serve PROVE Same
  BY <1>0, <1>22 DEF Serve, Return
<1>23. ASSUME FromGuest PROVE Same
  BY <1>0, <1>23 DEF FromGuest, Return
<1>24. ASSUME Idle PROVE Same
  BY <1>0, <1>24 DEF Idle
<1>25. ASSUME Awake PROVE Same
  BY <1>0, <1>25 DEF Awake, Return
<1>26. ASSUME GuestSends PROVE Same
  BY <1>0, <1>26 DEF GuestSends, Leave
<1>27. ASSUME NEW o \in {"INTERRUPT", "IDLE", "UNKNOWN"} \cup Served, GuestCalls(o) PROVE Same
  BY <1>0, <1>27 DEF GuestCalls, Leave
<1>28. ASSUME NEW r \in {"REBOOT", "POWEROFF"}, GuestEnds(r) PROVE Same
  BY <1>0, <1>28 DEF GuestEnds, Leave
<1>29. ASSUME Timer PROVE Same
  BY <1>0, <1>29 DEF Timer, WakeUp
<1>30. ASSUME NEW s \in Senders, Send(s) PROVE Rising(Boot' \o queue', sent', Dropped')
  <2>1. /\ Boot' = Boot /\ queue' = Append(queue, sent + 1) /\ sent' = sent + 1
        /\ power = 0 \/ power' = power
    BY <1>0, <1>30
    DEF Send, Enqueue, StopInv
  <2>2. \A i \in 1..Len(queue) : queue[i] \in 1..sent
    BY <1>0, ElementOfSeq DEF Numbered
  <2>3. InTransit \in Seq(1..sent) /\ got \in Seq(1..sent)
    BY <1>0, EmptySeq DEF Numbered
  <2>4. Boot \in Seq(1..sent)
    BY <2>3, EmptySeq, ConcatProperties
  <2>5. \A i \in 1..Len(Boot) : Boot[i] \in 1..sent
    BY <2>4, ElementOfSeq
  <2>6. \A n \in 1..sent : n \in Dropped => n \in Dropped'
    BY <2>1, <1>30 DEF Dropped, Bad, Send
  <2>7. Rising(Boot \o Append(queue, sent + 1), sent + 1, Dropped')
    BY <1>a, <1>b, <2>2, <2>5, <2>6, RisingAppend
  <2> QED BY <2>1, <2>7
<1>31. ASSUME NEW s \in Senders, SendWakes(s) PROVE Same
  BY <1>0, <1>31 DEF SendWakes, WakeUp
<1>32. ASSUME Stop PROVE Same
  BY <1>0, <1>32 DEF Stop
<1>33. ASSUME StopSends PROVE Rising(Boot' \o queue', sent', Dropped')
  <2>1. /\ Boot' = Boot /\ queue' = Append(queue, sent + 1) /\ sent' = sent + 1
        /\ power = 0 \/ power' = power
    BY <1>0, <1>33
    DEF StopSends, Enqueue, StopInv
  <2>2. \A i \in 1..Len(queue) : queue[i] \in 1..sent
    BY <1>0, ElementOfSeq DEF Numbered
  <2>3. InTransit \in Seq(1..sent) /\ got \in Seq(1..sent)
    BY <1>0, EmptySeq DEF Numbered
  <2>4. Boot \in Seq(1..sent)
    BY <2>3, EmptySeq, ConcatProperties
  <2>5. \A i \in 1..Len(Boot) : Boot[i] \in 1..sent
    BY <2>4, ElementOfSeq
  <2>6. \A n \in 1..sent : n \in Dropped => n \in Dropped'
    BY <2>1, <1>a, <1>33 DEF Dropped, Bad, StopSends
  <2>7. Rising(Boot \o Append(queue, sent + 1), sent + 1, Dropped')
    BY <1>a, <1>b, <2>2, <2>5, <2>6, RisingAppend
  <2> QED BY <2>1, <2>7
<1>34. ASSUME StopLate PROVE Same
  BY <1>0, <1>34 DEF StopLate
<1>35. ASSUME StopWakes PROVE Same
  BY <1>0, <1>35 DEF StopWakes, WakeUp
<1>36. ASSUME UNCHANGED vars PROVE Same
  BY <1>0, <1>36
<1> QED BY <1>0, <1>e, <1>1, <1>2, <1>3, <1>4, <1>5, <1>6, <1>7, <1>8, <1>9, <1>10, <1>11, <1>12,
  <1>13,
  <1>14, <1>15, <1>16, <1>17, <1>18, <1>19, <1>20, <1>21, <1>22, <1>23, <1>24, <1>25, <1>26, <1>27,
  <1>28, <1>29, <1>30, <1>31, <1>32, <1>33, <1>34, <1>35, <1>36 DEF Next, Daemon, Driver, Guest

-----------------------------------------------------------------------------
(* The theorems.                                                           *)

LEMMA InitIInv == Init => IInv
<1> SUFFICES ASSUME Init PROVE IInv
  OBVIOUS
<1>1. <<>> \in Seq(Nat) /\ <<>> \in Seq(1..sent) /\ Len(<<>>) = 0
  BY EmptySeq
<1>2. TypeOK
  <2>1. BOOLEAN = {TRUE, FALSE} /\ memory = FALSE /\ devices = FALSE /\ armed = FALSE
    BY DEF Init
  <2> QED BY <1>1 DEF Init, TypeOK, States, Ends, Operations, DaemonPCs
<1>3. ResourcesMatchState /\ Places
  BY DEF Init, ResourcesMatchState, Places, DriverPCs, GuestPCs
<1>4. IoAreaKept /\ Area /\ StopInv /\ Numbered
  BY <1>1 DEF Init, IoAreaKept, Area, StopInv, StopFlag, Numbered
<1>5. MessagesInOrder
  <2>1. queue = <<>> /\ <<>> \o <<>> = <<>> /\ state = "none"
    BY <1>1, ConcatEmptySeq DEF Init
  <2> QED BY <1>1, <2>1 DEF MessagesInOrder
<1> QED BY <1>2, <1>3, <1>4, <1>5 DEF IInv, Kept

THEOREM Invariance == Spec => []IInv
<1>1. IInv /\ [Next]_vars => IInv'
  <2> SUFFICES ASSUME IInv, [Next]_vars PROVE IInv'
    OBVIOUS
  <2> QED BY TypesNext, PlacesNext, AreaNext, NumberedNext, OrderNext, StopNext DEF IInv, Kept
<1> QED BY InitIInv, <1>1, PTL DEF Spec

\* Every variable stays in its domain.
THEOREM TypeCorrect == Spec => []TypeOK
<1>1. IInv => TypeOK
  BY DEF IInv, Kept
<1> QED BY Invariance, <1>1, PTL

\* The guest runs only with memory, devices and its timer, and nothing is left on when the
\* daemon is gone.
THEOREM ResourcesAlwaysMatch == Spec => []ResourcesMatchState
<1>1. IInv => ResourcesMatchState
  BY DEF IInv, Kept
<1> QED BY Invariance, <1>1, PTL

\* The messages reach the guest whole, once and in order.
THEOREM MessagesStayExact == Spec => []MessagesExact
<1>1. IInv => MessagesExact
  BY DEF IInv, MessagesExact
<1> QED BY Invariance, <1>1, PTL

\* Unless a stop comes while the helpers are launched, a guest that was told to shut down is not
\* booted again.
LEMMA NoBootOnceTold ==
    ASSUME ~EarlyStop, IInv, [Next]_vars, told
    PROVE  boots' = boots
<1>1. pc # "start" /\ StopFlag
  BY DEF IInv, StopInv, StopFlag, DriverPCs, GuestPCs
<1>2. ~Start
  BY <1>1 DEF Start
<1> QED BY <1>2 DEF Next, Daemon, Driver, Guest, Create, CreateFails, Launch, StartFails, Run,
  RunTerminated, Check, Flush, Reconfigure, ReconfigureFails, Destroy, Load, Realloc, Reload,
  Iterate, OtherVirtualization, Callback, Activate, Interrupted, Terminate, Serve, FromGuest,
  Idle, Awake, GuestSends, GuestCalls, GuestEnds, Timer, Send, SendWakes, Stop, StopSends,
  StopLate, StopWakes, vars

THEOREM ToldIsFinal == ~EarlyStop => (Spec => ShutdownIsFinal)
<1> SUFFICES ASSUME ~EarlyStop PROVE Spec => ShutdownIsFinal
  OBVIOUS
<1>1. IInv /\ [Next]_vars => [told => boots' = boots]_vars
  BY NoBootOnceTold
<1> QED BY Invariance, <1>1, PTL DEF Spec, ShutdownIsFinal
=============================================================================
