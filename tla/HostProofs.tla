----------------------------- MODULE HostProofs -----------------------------
(***************************************************************************)
(* Theorems about the parts of Host: the rights of the files of cofs, the  *)
(* driver and the daemon of Windows, the user's keys, the network and      *)
(* serial daemons, the listing of a directory, the trees of the host and   *)
(* of the guest, the screens of the guest, the monitor and the console.    *)
(***************************************************************************)
EXTENDS Host, WellFoundedInduction, FiniteSetTheorems, SequenceTheorems, TLAPS

-----------------------------------------------------------------------------
(* Numbers and recursion.                                                  *)

\* Induction over the numbers, for a set of them instead of a predicate.
LEMMA NatSets ==
    ASSUME NEW S, 0 \in S, \A n \in Nat : n \in S => n + 1 \in S
    PROVE  Nat \subseteq S
<1> SUFFICES ASSUME Nat \ S # {} PROVE FALSE
  OBVIOUS
<1> DEFINE R == OpToRel(<, Nat)
<1>1. IsWellFoundedOn(R, Nat)
  BY NatLessThanWellFounded
<1> HIDE DEF R
<1>2. PICK x \in Nat \ S : \A y \in Nat \ S : ~(<<y, x>> \in R)
  BY <1>1, WFMin
<1>3. x # 0 /\ x - 1 \in Nat /\ (x - 1 \in S => x \in S)
  OBVIOUS
<1>4. <<x - 1, x>> \in R
  BY <1>3 DEF R, OpToRel
<1> QED BY <1>2, <1>3, <1>4

\* A function of the numbers up to N that each step makes from the value before.
IsRun(g, V, s, N, h) ==
    g \in [0..N -> V] /\ g[0] = s /\ \A i \in 1..N : g[i] = h[<<g[i - 1], i>>]

LEMMA Recursion ==
    ASSUME NEW V, NEW s \in V, NEW N \in Nat, NEW h \in [V \X Nat -> V]
    PROVE  \E g : IsRun(g, V, s, N, h)
<1> DEFINE Good(n, g) == g \in [0..n -> V] /\ g[0] = s /\ \A i \in 1..n : g[i] = h[<<g[i - 1], i>>]
           S == {n \in Nat : n <= N => \E g : Good(n, g)}
<1>1. 0 \in S
  <2>1. Good(0, [i \in {0} |-> s])
    OBVIOUS
  <2> QED BY <2>1
<1>2. ASSUME NEW n \in Nat, n \in S PROVE n + 1 \in S
  <2> SUFFICES ASSUME n + 1 <= N PROVE \E g : Good(n + 1, g)
    OBVIOUS
  <2>1. PICK g : Good(n, g)
    BY <1>2
  <2> DEFINE e == [i \in 0..(n + 1) |-> IF i = n + 1 THEN h[<<g[n], n + 1>>] ELSE g[i]]
  <2>2. g[n] \in V /\ n + 1 \in 1..N
    BY <2>1
  <2>3. e \in [0..(n + 1) -> V]
    BY <2>1, <2>2
  <2>4. ASSUME NEW i \in 1..(n + 1) PROVE e[i] = h[<<e[i - 1], i>>]
    <3>1. CASE i = n + 1
      <4>1. e[i] = h[<<g[n], n + 1>>] /\ e[i - 1] = g[n] /\ i - 1 = n
        BY <3>1
      <4> QED BY <3>1, <4>1
    <3>2. CASE i # n + 1
      <4>1. i \in 1..n /\ i - 1 \in 0..n /\ i \in 0..n
        BY <3>2
      <4>2. e[i] = g[i] /\ e[i - 1] = g[i - 1]
        BY <4>1
      <4> QED BY <2>1, <4>1, <4>2
    <3> QED BY <3>1, <3>2
  <2>5. e[0] = s
    BY <2>1
  <2> QED BY <2>3, <2>4, <2>5
<1>3. Nat \subseteq S
  <2> HIDE DEF S
  <2> QED BY <1>1, <1>2, NatSets
<1>4. \E g : Good(N, g)
  <2> HIDE DEF Good
  <2> QED BY <1>3
<1> QED BY <1>4 DEF IsRun

\* The smallest of some numbers.
LEMMA MinFacts ==
    ASSUME NEW S \in SUBSET Nat, NEW x \in S, \A y \in S : x <= y
    PROVE  Min(S) = x /\ Net!Min(S) = x
<1>1. Min(S) \in S /\ \A y \in S : Min(S) <= y
  BY DEF Min
<1>2. Min(S) \in Nat /\ x \in Nat /\ Min(S) <= x /\ x <= Min(S)
  BY <1>1
<1>3. Net!Min(S) = Min(S)
  BY DEF Min, Net!Min
<1> QED BY <1>2, <1>3

-----------------------------------------------------------------------------
(* FileRights.  What the guest was told is compared with the attributes,   *)
(* so it is enough to know what each call does to both.                    *)

RightsTypes ==
    /\ file \in [RightsFiles -> [there : BOOLEAN, dir : BOOLEAN,
                                 attrs : SUBSET {"hidden", "readonly", "system"}, busy : BOOLEAN]]
    /\ attrib \in BOOLEAN
    /\ mode \in [RightsFiles -> SUBSET Rights!Rights]
    /\ deceived \subseteq RightsFiles

\* The rights that three attributes stand for.
RightsFrom(dirs, attrs) == {r \in Rights!Rights :
    \/ r = "r" /\ "hidden" \notin attrs
    \/ r = "w" /\ "readonly" \notin attrs
    \/ r = "x" /\ (dirs <=> "system" \notin attrs)}

LEMMA RightsAreThoseOf == \A f \in RightsFiles : Rights!RightsOf(f) = RightsFrom(file[f].dir, file[f].attrs)
BY DEF Rights!RightsOf, RightsFrom

LEMMA RightsAreThoseOfNext ==
    \A f \in RightsFiles : Rights!RightsOf(f)' = RightsFrom(file'[f].dir, file'[f].attrs)
BY DEF Rights!RightsOf, RightsFrom

\* Nothing is lost on the way to the attributes and back.
LEMMA AttributesKeep ==
    ASSUME NEW dirs \in BOOLEAN, NEW m \in SUBSET Rights!Rights
    PROVE  /\ Rights!Attributes(dirs, m) \in SUBSET {"hidden", "readonly", "system"}
           /\ RightsFrom(dirs, Rights!Attributes(dirs, m)) = m
<1>1. RightsFrom(dirs, Rights!Attributes(dirs, m)) = m
  <2>1. ASSUME NEW r \in Rights!Rights PROVE r \in RightsFrom(dirs, Rights!Attributes(dirs, m)) <=> r \in m
    <3>1. CASE r = "r" BY <3>1 DEF RightsFrom, Rights!Attributes, Rights!Rights
    <3>2. CASE r = "w" BY <3>2 DEF RightsFrom, Rights!Attributes, Rights!Rights
    <3>3. CASE r = "x" BY <3>3 DEF RightsFrom, Rights!Attributes, Rights!Rights
    <3> QED BY <3>1, <3>2, <3>3 DEF Rights!Rights
  <2>2. RightsFrom(dirs, Rights!Attributes(dirs, m)) \subseteq Rights!Rights
    BY DEF RightsFrom
  <2> QED BY <2>1, <2>2
<1> QED BY <1>1 DEF Rights!Attributes

\* What a step says of a file that is there afterwards.
RightsKept ==
    \A f \in RightsFiles : file'[f].there /\ f \notin deceived' =>
        mode'[f] = RightsFrom(file'[f].dir, file'[f].attrs)

LEMMA RightsNext ==
    RightsTypes /\ RightsExact /\ [Rights!Next]_(Rights!rightsVars) => RightsTypes' /\ RightsExact'
<1> SUFFICES ASSUME RightsTypes, RightsExact, [Rights!Next]_(Rights!rightsVars)
             PROVE  RightsTypes' /\ RightsKept
  BY RightsAreThoseOfNext DEF RightsKept, RightsExact, Rights!RightsExact
<1> USE DEF RightsTypes
<1>a. \A f \in RightsFiles : file[f].there /\ f \notin deceived =>
          mode[f] = RightsFrom(file[f].dir, file[f].attrs)
  BY RightsAreThoseOf DEF RightsExact, Rights!RightsExact
<1>b. RightsFrom(TRUE, {}) = Rights!Rights
  BY DEF RightsFrom, Rights!Rights
<1>1. ASSUME NEW f \in RightsFiles, Rights!Stat(f) PROVE RightsTypes' /\ RightsKept
  <2>1. Rights!RightsOf(f) \in SUBSET Rights!Rights
    BY DEF Rights!RightsOf
  <2>2. mode' = [mode EXCEPT ![f] = RightsFrom(file[f].dir, file[f].attrs)]
    BY <1>1, RightsAreThoseOf DEF Rights!Stat
  <2> QED BY <1>1, <1>a, <2>1, <2>2, RightsAreThoseOf DEF Rights!Stat, RightsKept
<1>2. ASSUME NEW f \in RightsFiles, NEW m \in SUBSET Rights!Rights, Rights!Mknod(f, m)
      PROVE  RightsTypes' /\ RightsKept
  <2>1. Rights!NewAttributes(m) \in SUBSET {"hidden", "readonly", "system"}
    BY AttributesKeep DEF Rights!NewAttributes
  <2>2. attrib => RightsFrom(FALSE, Rights!NewAttributes(m)) = m
    BY AttributesKeep DEF Rights!NewAttributes
  <2> QED BY <1>2, <1>a, <2>1, <2>2 DEF Rights!Mknod, Rights!Absent, RightsKept
<1>3. ASSUME NEW f \in RightsFiles, Rights!Mkdir(f) PROVE RightsTypes' /\ RightsKept
  BY <1>3, <1>a, <1>b DEF Rights!Mkdir, Rights!Absent, RightsKept
<1>4. ASSUME NEW f \in RightsFiles, NEW m \in SUBSET Rights!Rights, NEW resize \in BOOLEAN,
             NEW fails \in SUBSET {"mode", "size"}, Rights!SetAttr(f, m, resize, fails)
      PROVE  RightsTypes' /\ RightsKept
  <2> DEFINE done == attrib /\ "mode" \notin fails
             last == IF resize THEN {"size"} ELSE IF attrib THEN {"mode"} ELSE {}
  <2>1. /\ IF done THEN Rights!ChangeMode(f, m) ELSE UNCHANGED file
        /\ IF last \cap fails = {}
             THEN /\ mode' = [mode EXCEPT ![f] = m]
                  /\ deceived' = IF done THEN deceived \ {f} ELSE deceived \cup {f}
             ELSE /\ UNCHANGED mode
                  /\ deceived' = IF done THEN deceived \cup {f} ELSE deceived
        /\ UNCHANGED attrib
    BY <1>4 DEF Rights!SetAttr
  <2>2. /\ Rights!Attributes(file[f].dir, m) \in SUBSET {"hidden", "readonly", "system"}
        /\ RightsFrom(file[f].dir, Rights!Attributes(file[f].dir, m)) = m
    BY AttributesKeep
  <2> HIDE DEF done, last
  <2>3. CASE done
    <3>1. file' = [file EXCEPT ![f].attrs = Rights!Attributes(file[f].dir, m)]
      BY <2>1, <2>3 DEF Rights!ChangeMode
    <3> QED BY <2>1, <2>2, <2>3, <3>1, <1>a DEF RightsKept
  <2>4. CASE ~done
    BY <2>1, <2>4, <1>a DEF RightsKept
  <2> QED BY <2>3, <2>4
<1>5. ASSUME NEW f \in RightsFiles, Rights!Freed(f) PROVE RightsTypes' /\ RightsKept
  BY <1>5, <1>a DEF Rights!Freed, Rights!Absent, RightsKept
<1>6. ASSUME NEW f \in RightsFiles, Rights!Refused(f) PROVE RightsTypes' /\ RightsKept
  <2>1. "readonly" \notin file[f].attrs => file[f].attrs \ {"readonly"} = file[f].attrs
    OBVIOUS
  <2> QED BY <1>6, <1>a, <2>1 DEF Rights!Refused, RightsKept
<1>7. ASSUME NEW f \in RightsFiles, NEW g \in RightsFiles, f # g,
             file' = [file EXCEPT ![g] = file[f], ![f] = Rights!Absent],
             mode' = [mode EXCEPT ![g] = mode[f]],
             deceived' = IF f \in deceived THEN deceived \cup {g} ELSE deceived \ {g},
             UNCHANGED attrib, file[f].there
      PROVE  RightsTypes' /\ RightsKept
  BY <1>7, <1>a DEF Rights!Absent, RightsKept
<1>8. ASSUME NEW f \in RightsFiles, NEW g \in RightsFiles, Rights!Rename(f, g) PROVE RightsTypes' /\ RightsKept
  BY <1>8, <1>6, <1>7 DEF Rights!Rename
<1>9. ASSUME NEW f \in RightsFiles, Rights!HostUse(f) PROVE RightsTypes' /\ RightsKept
  BY <1>9, <1>a DEF Rights!HostUse, RightsKept
<1>10. CASE UNCHANGED Rights!rightsVars
  BY <1>10, <1>a DEF Rights!rightsVars, RightsKept
<1> QED
  BY ZenonT(40), <1>1, <1>2, <1>3, <1>4, <1>5, <1>6, <1>8, <1>9, <1>10 DEF Rights!Next, Rights!Unlink

\* The rights the guest was told a file has are those it would be told again, for any files,
\* however calls fail, unless the service itself answered with less than it did.
THEOREM RightsStayExact == Rights!Spec => []RightsExact
<1>1. Rights!Init => RightsTypes /\ RightsExact
  BY DEF Rights!Init, RightsTypes, RightsExact, Rights!RightsExact, Rights!Absent, Rights!Rights
<1> QED BY <1>1, RightsNext, PTL DEF Rights!Spec

-----------------------------------------------------------------------------
(* DriverService.                                                          *)

DriverTypes ==
    /\ svc \in {"none", "there", "deleted"} /\ driver \in {"none", "running", "stopping"}
    /\ open \subseteq Tools \cup {Drv!Daemon}
    /\ tool \in [Tools -> [op : {"none", "install", "remove"},
                           pc : {"idle", "ask", "create", "start", "undo", "check", "exit",
                                 "open", "count", "close", "stop", "delete"}]]
    /\ late \in BOOLEAN /\ forced \in BOOLEAN /\ mixed \in BOOLEAN /\ failed \in BOOLEAN
    /\ living \in BOOLEAN /\ execs \in BOOLEAN

\* Who can have the driver open, and what that keeps.
DriverOpen ==
    /\ \A t \in Tools : t \in open => tool[t].pc \in {"exit", "count", "close"}
    /\ Drv!Daemon \in open => dpc \notin {"off", "create", "open"}
    /\ driver = "none" => open = {}
    /\ driver = "stopping" => open # {}
    /\ dpc = "status" => Drv!Daemon \in open /\ ~living
    /\ living => Drv!Daemon \in open
    /\ dpc \in {"run", "launch", "boot", "running", "end"} => living

\* A remover that is past its question, and one that stopped the driver, asked before there was
\* a monitor, or did not mind.
DriverAsked ==
    living => \/ late \/ forced
              \/ /\ driver # "stopping"
                 /\ \A t \in Tools : ~(tool[t].op = "remove" /\ tool[t].pc \in {"close", "stop"})

\* What one run at a time makes of the service and the driver, at each point.
Settled == {<<"none", "none">>, <<"there", "running">>, <<"deleted", "stopping">>}
Left(pc) ==
    CASE pc = "create"            -> {<<"none", "none">>}
      [] pc \in {"start", "undo"} -> {<<"there", "none">>}
      [] pc = "delete"            -> {<<"none", "none">>, <<"there", "none">>, <<"there", "stopping">>,
                                      <<"deleted", "stopping">>}
      [] OTHER                    -> Settled
Alone(t) == \A u \in Tools : u # t => tool[u] = Drv!Idle

DriverAlone ==
    ~mixed /\ ~failed /\ ~forced =>
        /\ (\A t \in Tools : tool[t] = Drv!Idle) => <<svc, driver>> \in Settled
        /\ \A t \in Tools : tool[t] # Drv!Idle => Alone(t) /\ <<svc, driver>> \in Left(tool[t].pc)

\* Programs run beyond their daemon only when a boot failed; until it ends its messages are open.
DriverExecs ==
    /\ dpc \in {"launch", "boot", "running"} => port = "made"
    /\ execs => \/ dpc \in {"boot", "running"}
                \/ dpc \in {"end", "destroy", "exit"} /\ port = "made" /\ ended = "start"
                \/ dpc = "off" /\ ended = "start"

DriverInv == DriverTypes /\ DriverOpen /\ DriverAsked /\ DriverAlone /\ DriverExecs

DriverToolStep(t) ==
    \/ Drv!Begin(t) \/ Drv!NoManager(t) \/ Drv!Ask(t) \/ Drv!Create(t) \/ Drv!Start(t) \/ Drv!Undo(t)
    \/ Drv!Check(t) \/ Drv!Exit(t) \/ Drv!Open(t) \/ Drv!Count(t) \/ Drv!CloseCount(t) \/ Drv!Stop(t)
    \/ Drv!Delete(t)
DriverDaemonStep ==
    \/ Drv!Services
    \/ Drv!DaemonStarts \/ Drv!DaemonCreates \/ Drv!DaemonOpens \/ Drv!DaemonMonitor
    \/ Drv!DaemonAttaches \/ Drv!DaemonLaunches \/ Drv!DaemonBoots \/ Drv!DaemonReboots
    \/ Drv!DaemonKills \/ Drv!DaemonEnds \/ Drv!DaemonDestroys \/ Drv!DaemonExits
    \/ Drv!StopRequest \/ Drv!StopKills

\* A step of a run of the program, or one of the daemon, which leaves the runs alone.
LEMMA DriverSteps ==
    [Drv!Next]_(Drv!svcVars) <=> (\E t \in Tools : DriverToolStep(t)) \/ DriverDaemonStep \/ UNCHANGED Drv!svcVars
BY DEF Drv!Next, DriverToolStep, DriverDaemonStep

LEMMA DriverTypesNext == DriverTypes /\ [Drv!Next]_(Drv!svcVars) => DriverTypes'
<1> SUFFICES ASSUME DriverTypes, [Drv!Next]_(Drv!svcVars) PROVE DriverTypes'
  OBVIOUS
<1> USE DEF DriverTypes
<1>1. ASSUME NEW t \in Tools, DriverToolStep(t) PROVE DriverTypes'
  <2> USE DEF Drv!Goto, Drv!Finish, Drv!At, Drv!Idle, Drv!ToolFrame, Drv!daeVars
  <2>1. CASE Drv!Begin(t)
    BY <2>1 DEF Drv!Begin
  <2>2. CASE Drv!NoManager(t) \/ Drv!Ask(t)
    <3> HIDE DEF Drv!Goto, Drv!Finish
    <3>1. Drv!Goto(t, "create") \/ Drv!Goto(t, "open") \/ Drv!Finish(t)
      BY <2>2 DEF Drv!NoManager, Drv!Ask
    <3>2. UNCHANGED <<svc, driver, open, forced>> /\ failed' \in BOOLEAN
          /\ UNCHANGED <<mixed, late, living, execs>>
      BY <2>2 DEF Drv!NoManager, Drv!Ask
    <3>3. tool' \in [Tools -> [op : {"none", "install", "remove"},
                              pc : {"idle", "ask", "create", "start", "undo", "check", "exit",
                                    "open", "count", "close", "stop", "delete"}]]
      BY <3>1 DEF Drv!Goto, Drv!Finish
    <3> QED BY <3>2, <3>3
  <2>3. CASE Drv!Create(t) \/ Drv!Start(t)
    <3>1. svc' \in {"none", "there", "deleted"} /\ driver' \in {"none", "running", "stopping"}
      BY <2>3 DEF Drv!Create, Drv!Start
    <3>2. CASE Drv!Goto(t, "start") \/ Drv!Goto(t, "check") \/ Drv!Goto(t, "undo") \/ Drv!Finish(t)
      BY <2>3, <3>1, <3>2 DEF Drv!Create, Drv!Start
    <3> HIDE DEF Drv!Goto, Drv!Finish
    <3> QED BY <2>3, <3>2 DEF Drv!Create, Drv!Start
  <2>4. CASE Drv!Undo(t) \/ Drv!Delete(t)
    BY <2>4 DEF Drv!Undo, Drv!Delete, Drv!DeleteService
  <2>7. CASE Drv!Count(t)
    <3>1. Drv!Goto(t, "close") \/ Drv!Goto(t, "exit")
      BY <2>7, Zenon DEF Drv!Count
    <3> QED BY ZenonT(40), <2>7, <3>1 DEF Drv!Count
  <2>8. CASE Drv!Check(t)
    BY <2>8 DEF Drv!Check, Drv!Opened
  <2>9. CASE Drv!Open(t)
    <3>1. Drv!Goto(t, "count") \/ Drv!Goto(t, "stop")
      BY <2>9, Zenon DEF Drv!Open
    <3> QED BY ZenonT(40), <2>9, <3>1 DEF Drv!Open, Drv!Opened, Drv!CanOpen
  <2>5. CASE Drv!Exit(t) \/ Drv!CloseCount(t)
    BY <2>5 DEF Drv!Exit, Drv!CloseCount, Drv!Close
  <2>6. CASE Drv!Stop(t)
    BY <2>6 DEF Drv!Stop
  <2> QED BY <1>1, <2>1, <2>2, <2>3, <2>4, <2>5, <2>6, <2>7, <2>8, <2>9 DEF DriverToolStep
<1>2. CASE DriverDaemonStep
  <2> USE DEF Drv!DaeFrame, Drv!NoDriver
  <2>1. CASE Drv!Services \/ Drv!DaemonStarts \/ Drv!DaemonCreates \/ Drv!DaemonAttaches \/ Drv!DaemonLaunches
    BY <2>1 DEF Drv!Services, Drv!DaemonStarts, Drv!DaemonCreates, Drv!DaemonAttaches, Drv!DaemonLaunches, Drv!daeVars
  <2>2. CASE Drv!DaemonOpens
    BY <2>2 DEF Drv!DaemonOpens, Drv!Opened
  <2>3. CASE Drv!DaemonMonitor
    BY <2>3 DEF Drv!DaemonMonitor, Drv!Close
  <2>4. CASE Drv!DaemonBoots \/ Drv!DaemonReboots \/ Drv!DaemonKills \/ Drv!DaemonDestroys \/ Drv!StopRequest
    BY ZenonT(40), <2>4 DEF Drv!DaemonBoots, Drv!DaemonReboots, Drv!DaemonKills, Drv!DaemonDestroys, Drv!StopRequest
  <2>5. CASE Drv!DaemonEnds \/ Drv!DaemonExits \/ Drv!StopKills
    BY ZenonT(40), <2>5 DEF Drv!DaemonEnds, Drv!DaemonExits, Drv!StopKills, Drv!Gone, Drv!Close
  <2> QED BY <1>2, <2>1, <2>2, <2>3, <2>4, <2>5 DEF DriverDaemonStep
<1>3. CASE UNCHANGED Drv!svcVars
  BY <1>3 DEF Drv!svcVars
<1> QED BY <1>1, <1>2, <1>3, DriverSteps

\* The record of the run that has the step, and what no run changes.
LEMMA DriverToolFrame ==
    ASSUME DriverTypes, NEW t \in Tools, DriverToolStep(t)
    PROVE  /\ \A u \in Tools : u # t => tool'[u] = tool[u]
           /\ UNCHANGED <<late, living, dpc>> /\ (forced => forced')
<1> USE DEF DriverTypes, Drv!Goto, Drv!Finish, Drv!ToolFrame, Drv!daeVars
<1>1. CASE Drv!Begin(t)
  BY <1>1 DEF Drv!Begin
<1>2. CASE Drv!NoManager(t) \/ Drv!Ask(t) \/ Drv!Create(t) \/ Drv!Start(t) \/ Drv!Undo(t)
  BY <1>2 DEF Drv!NoManager, Drv!Ask, Drv!Create, Drv!Start, Drv!Undo
<1>3. CASE Drv!Check(t) \/ Drv!Exit(t) \/ Drv!Open(t) \/ Drv!Count(t) \/ Drv!CloseCount(t)
  BY <1>3 DEF Drv!Check, Drv!Exit, Drv!Open, Drv!Count, Drv!CloseCount
<1>4. CASE Drv!Stop(t) \/ Drv!Delete(t)
  BY <1>4 DEF Drv!Stop, Drv!Delete
<1> QED BY <1>1, <1>2, <1>3, <1>4 DEF DriverToolStep

LEMMA DriverOpenNext == DriverTypes /\ DriverOpen /\ [Drv!Next]_(Drv!svcVars) => DriverOpen'
<1> SUFFICES ASSUME DriverTypes, DriverOpen, [Drv!Next]_(Drv!svcVars) PROVE DriverOpen'
  OBVIOUS
<1> USE DEF DriverTypes, DriverOpen
<1>a. Drv!Daemon \notin Tools
  BY HostPartsAssumption DEF Drv!ToolsAssumption
<1>1. ASSUME NEW t \in Tools, DriverToolStep(t) PROVE DriverOpen'
  <2>1. ASSUME \/ open' = open \/ open' = open \cup {t} \/ open' = open \ {t},
               t \in open' => tool'[t].pc \in {"exit", "count", "close"},
               driver' = "none" => open' = {}, driver' = "stopping" => open' # {}
        PROVE  DriverOpen'
    BY <1>a, <1>1, <2>1, DriverToolFrame
  <2> USE DEF Drv!Goto, Drv!Finish, Drv!At, Drv!Idle
  <2>2. CASE Drv!Begin(t)
    BY <2>1, <2>2 DEF Drv!Begin
  <2>3. CASE Drv!NoManager(t) \/ Drv!Ask(t)
    BY <2>1, <2>3 DEF Drv!NoManager, Drv!Ask
  <2>4. CASE Drv!Create(t) \/ Drv!Start(t)
    BY <2>1, <2>4 DEF Drv!Create, Drv!Start
  <2>5. CASE Drv!Undo(t) \/ Drv!Delete(t)
    BY <2>1, <2>5 DEF Drv!Undo, Drv!Delete
  <2>6. CASE Drv!Check(t)
    BY <2>1, <2>6 DEF Drv!Check, Drv!Opened, Drv!CanOpen
  <2>7. CASE Drv!Open(t)
    BY <2>1, <2>7 DEF Drv!Open, Drv!Opened, Drv!CanOpen
  <2>8. CASE Drv!Count(t)
    BY <2>1, <2>8 DEF Drv!Count
  <2>9. CASE Drv!Exit(t) \/ Drv!CloseCount(t)
    BY <2>1, <2>9 DEF Drv!Exit, Drv!CloseCount, Drv!Close
  <2>10. CASE Drv!Stop(t)
    BY <2>1, <2>10 DEF Drv!Stop
  <2> QED BY <1>1, <2>2, <2>3, <2>4, <2>5, <2>6, <2>7, <2>8, <2>9, <2>10 DEF DriverToolStep
<1>2. CASE DriverDaemonStep
  <2> USE DEF Drv!DaeFrame, Drv!NoDriver
  <2>1. CASE Drv!Services \/ Drv!DaemonStarts \/ Drv!DaemonCreates \/ Drv!DaemonAttaches \/ Drv!DaemonLaunches
    BY <2>1 DEF Drv!Services, Drv!DaemonStarts, Drv!DaemonCreates, Drv!DaemonAttaches, Drv!DaemonLaunches,
                Drv!daeVars
  <2>2. CASE Drv!DaemonOpens
    BY <1>a, <2>2 DEF Drv!DaemonOpens, Drv!Opened, Drv!CanOpen
  <2>3. ASSUME Drv!Close(Drv!Daemon), UNCHANGED tool, ~living',
               dpc' \in {"off", "create", "destroy"}
        PROVE  DriverOpen'
    BY <1>a, <2>3 DEF Drv!Close
  <2>4. CASE Drv!DaemonMonitor
    <3>1. CASE Drv!Close(Drv!Daemon) /\ dpc' = "destroy" /\ UNCHANGED living
      BY <2>3, <2>4, <3>1 DEF Drv!DaemonMonitor
    <3>2. CASE living' = TRUE /\ Drv!NoDriver /\ dpc' \in {"run", "destroy"}
      BY <2>4, <3>2 DEF Drv!DaemonMonitor
    <3> QED BY <2>4, <3>1, <3>2 DEF Drv!DaemonMonitor
  <2>5. CASE Drv!DaemonBoots \/ Drv!DaemonReboots \/ Drv!DaemonKills \/ Drv!DaemonDestroys \/ Drv!StopRequest
    BY <2>5 DEF Drv!DaemonBoots, Drv!DaemonReboots, Drv!DaemonKills, Drv!DaemonDestroys, Drv!StopRequest
  <2>6. CASE Drv!DaemonEnds
    <3>1. CASE port = "made"
      BY <2>6, <3>1 DEF Drv!DaemonEnds
    <3>2. CASE port # "made"
      BY <2>3, <2>6, <3>2 DEF Drv!DaemonEnds
    <3> QED BY <3>1, <3>2
  <2>7. CASE Drv!DaemonExits \/ Drv!StopKills
    BY <2>3, <2>7 DEF Drv!DaemonExits, Drv!StopKills, Drv!Gone
  <2> QED BY <1>2, <2>1, <2>2, <2>4, <2>5, <2>6, <2>7 DEF DriverDaemonStep
<1>3. CASE UNCHANGED Drv!svcVars
  BY <1>3 DEF Drv!svcVars
<1> QED BY <1>1, <1>2, <1>3, DriverSteps

Asking(r) == r.op = "remove" /\ r.pc \in {"close", "stop"}

LEMMA DriverAskedNext ==
    DriverTypes /\ DriverOpen /\ DriverAsked /\ [Drv!Next]_(Drv!svcVars) => DriverAsked'
<1> SUFFICES ASSUME DriverTypes, DriverOpen, DriverAsked, [Drv!Next]_(Drv!svcVars),
                    living', ~late', ~forced'
             PROVE  driver' # "stopping" /\ \A u \in Tools : ~Asking(tool'[u])
  BY DEF DriverAsked, Asking
<1> USE DEF DriverTypes
<1>1. ASSUME NEW t \in Tools, DriverToolStep(t)
      PROVE  driver' # "stopping" /\ \A u \in Tools : ~Asking(tool'[u])
  <2>1. /\ driver # "stopping" /\ living /\ driver # "none" /\ ~forced
        /\ \A u \in Tools : ~Asking(tool[u])
    BY <1>1, DriverToolFrame DEF DriverAsked, DriverOpen, Asking
  <2>2. ASSUME driver' = driver \/ Drv!Close(t) \/ driver' = "running", ~Asking(tool'[t])
        PROVE  driver' # "stopping" /\ \A u \in Tools : ~Asking(tool'[u])
    BY <1>1, <2>1, <2>2, DriverToolFrame DEF Drv!Close
  <2> USE DEF Drv!Goto, Drv!Finish, Drv!At, Drv!Idle, Asking
  <2>3. CASE Drv!Begin(t)
    BY <2>2, <2>3 DEF Drv!Begin
  <2>4. CASE Drv!NoManager(t) \/ Drv!Ask(t)
    BY <2>2, <2>4 DEF Drv!NoManager, Drv!Ask
  <2>5. CASE Drv!Create(t) \/ Drv!Start(t)
    BY <2>2, <2>5 DEF Drv!Create, Drv!Start
  <2>6. CASE Drv!Undo(t) \/ Drv!Delete(t)
    BY <2>2, <2>6 DEF Drv!Undo, Drv!Delete
  <2>7. CASE Drv!Check(t)
    BY <2>2, <2>7 DEF Drv!Check, Drv!Opened
  <2>8. CASE Drv!Open(t)
    <3>1. driver = "running"
      BY <2>1
    <3>2. Drv!Opened(t) /\ Drv!Goto(t, "count")
      BY <2>8, <3>1 DEF Drv!Open, Drv!CanOpen
    <3> QED BY <2>2, <3>2 DEF Drv!Opened
  <2>9. CASE Drv!Count(t)
    BY <2>1, <2>2, <2>9, HostPartsAssumption DEF Drv!Count
  <2>10. CASE Drv!Exit(t) \/ Drv!CloseCount(t)
    BY <2>1, <2>2, <2>10 DEF Drv!Exit, Drv!CloseCount
  <2>11. CASE Drv!Stop(t)
    BY <2>1, <2>11 DEF Drv!Stop
  <2> QED
    BY <1>1, <2>3, <2>4, <2>5, <2>6, <2>7, <2>8, <2>9, <2>10, <2>11 DEF DriverToolStep
<1>2. ASSUME UNCHANGED <<tool, living, late, forced>>, driver' # "stopping" \/ driver' = driver
      PROVE  driver' # "stopping" /\ \A u \in Tools : ~Asking(tool'[u])
  BY <1>2 DEF DriverAsked, Asking
<1>3. CASE DriverDaemonStep
  <2> USE DEF Drv!DaeFrame, Drv!NoDriver
  <2>1. CASE Drv!Services \/ Drv!DaemonStarts \/ Drv!DaemonCreates \/ Drv!DaemonAttaches \/ Drv!DaemonLaunches
    BY <1>2, <2>1 DEF Drv!Services, Drv!DaemonStarts, Drv!DaemonCreates, Drv!DaemonAttaches, Drv!DaemonLaunches,
                      Drv!daeVars
  <2>2. CASE Drv!DaemonOpens
    BY <1>2, <2>2 DEF Drv!DaemonOpens, Drv!Opened
  <2>3. CASE Drv!DaemonMonitor
    <3>1. CASE late' = (\/ driver = "stopping"
                        \/ \E t \in Tools : tool[t].op = "remove" /\ tool[t].pc \in {"close", "stop"})
                 /\ UNCHANGED <<tool, driver>>
      BY <3>1 DEF Asking
    <3>2. CASE Drv!Close(Drv!Daemon) /\ UNCHANGED <<tool, living, late, forced>>
      BY <1>2, <3>2 DEF Drv!Close
    <3> QED BY <2>3, <3>1, <3>2 DEF Drv!DaemonMonitor
  <2>4. CASE Drv!DaemonBoots \/ Drv!DaemonReboots \/ Drv!DaemonKills \/ Drv!DaemonDestroys \/ Drv!StopRequest
    BY <1>2, <2>4 DEF Drv!DaemonBoots, Drv!DaemonReboots, Drv!DaemonKills, Drv!DaemonDestroys, Drv!StopRequest
  <2>5. CASE Drv!DaemonEnds
    <3>1. living /\ living' = (port = "made")
      BY <2>5 DEF Drv!DaemonEnds, DriverOpen
    <3>2. UNCHANGED <<tool, late, forced, driver, living>>
      BY <2>5, <3>1 DEF Drv!DaemonEnds
    <3> QED BY <1>2, <3>2
  <2>6. CASE Drv!DaemonExits \/ Drv!StopKills
    BY <2>6 DEF Drv!DaemonExits, Drv!StopKills, Drv!Gone
  <2> QED BY <1>3, <2>1, <2>2, <2>3, <2>4, <2>5, <2>6 DEF DriverDaemonStep
<1>4. CASE UNCHANGED Drv!svcVars
  BY <1>2, <1>4 DEF Drv!svcVars
<1> QED BY <1>1, <1>3, <1>4, DriverSteps

LEMMA DriverExecsNext == DriverTypes /\ DriverExecs /\ [Drv!Next]_(Drv!svcVars) => DriverExecs'
<1> SUFFICES ASSUME DriverTypes, DriverExecs, [Drv!Next]_(Drv!svcVars) PROVE DriverExecs'
  OBVIOUS
<1> USE DEF DriverExecs
<1>1. ASSUME NEW t \in Tools, DriverToolStep(t) PROVE DriverExecs'
  <2>1. UNCHANGED Drv!daeVars
    BY <1>1 DEF DriverToolStep, Drv!ToolFrame, Drv!Begin, Drv!NoManager, Drv!Ask, Drv!Create, Drv!Start,
                Drv!Undo, Drv!Check, Drv!Exit, Drv!Open, Drv!Count, Drv!CloseCount, Drv!Stop, Drv!Delete
  <2> QED BY <2>1 DEF Drv!daeVars
<1>2. CASE DriverDaemonStep
  <2> USE DEF Drv!DaeFrame, Drv!NoDriver
  <2>1. CASE Drv!Services \/ Drv!DaemonStarts \/ Drv!DaemonCreates \/ Drv!DaemonAttaches \/ Drv!DaemonLaunches
    BY <2>1 DEF Drv!Services, Drv!DaemonStarts, Drv!DaemonCreates, Drv!DaemonAttaches, Drv!DaemonLaunches, Drv!daeVars
  <2>2. CASE Drv!DaemonOpens
    BY <2>2 DEF Drv!DaemonOpens
  <2>3. CASE Drv!DaemonMonitor
    <3>1. dpc = "status" /\ dpc' \in {"run", "destroy"} /\ execs' = execs
      BY <2>3 DEF Drv!DaemonMonitor
    <3> QED BY <3>1
  <2>4. CASE Drv!DaemonBoots \/ Drv!DaemonReboots \/ Drv!DaemonKills \/ Drv!DaemonDestroys \/ Drv!StopRequest
    BY <2>4 DEF Drv!DaemonBoots, Drv!DaemonReboots, Drv!DaemonKills, Drv!DaemonDestroys, Drv!StopRequest
  <2>5. CASE Drv!DaemonEnds \/ Drv!DaemonExits \/ Drv!StopKills
    BY <2>5 DEF Drv!DaemonEnds, Drv!DaemonExits, Drv!StopKills, Drv!Gone
  <2> QED BY <1>2, <2>1, <2>2, <2>3, <2>4, <2>5 DEF DriverDaemonStep
<1>3. CASE UNCHANGED Drv!svcVars
  BY <1>3 DEF Drv!svcVars
<1> QED BY <1>1, <1>2, <1>3, DriverSteps

\* The closing of a handle, by whomever, leaves what one run made of the two as it was to be.
LEMMA DriverCloseKeeps ==
    ASSUME NEW p, Drv!Close(p), NEW pc, <<svc, driver>> \in Left(pc)
    PROVE  <<svc', driver'>> \in Left(pc)
BY DEF Drv!Close, Left, Settled

LEMMA DriverAloneNext ==
    DriverTypes /\ DriverOpen /\ DriverAlone /\ [Drv!Next]_(Drv!svcVars) => DriverAlone'
<1> SUFFICES ASSUME DriverTypes, DriverOpen, DriverAlone, [Drv!Next]_(Drv!svcVars),
                    ~mixed', ~failed', ~forced'
             PROVE  /\ (\A t \in Tools : tool'[t] = Drv!Idle) => <<svc', driver'>> \in Settled
                    /\ \A t \in Tools : tool'[t] # Drv!Idle =>
                          /\ \A u \in Tools : u # t => tool'[u] = Drv!Idle
                          /\ <<svc', driver'>> \in Left(tool'[t].pc)
  BY DEF DriverAlone, Alone, Drv!Idle
<1> DEFINE Goal ==
      /\ (\A t \in Tools : tool'[t] = Drv!Idle) => <<svc', driver'>> \in Settled
      /\ \A t \in Tools : tool'[t] # Drv!Idle =>
            /\ \A u \in Tools : u # t => tool'[u] = Drv!Idle
            /\ <<svc', driver'>> \in Left(tool'[t].pc)
<1> USE DEF DriverTypes
<1>1. ASSUME NEW t \in Tools, DriverToolStep(t) PROVE Goal
  <2>1. CASE Drv!Begin(t)
    <3>1. /\ \A u \in Tools : tool[u] = Drv!Idle
          /\ ~mixed /\ ~failed /\ ~forced
          /\ \E op \in {"install", "remove"} : tool' = [tool EXCEPT ![t] = [op |-> op, pc |-> "ask"]]
          /\ svc' = svc /\ driver' = driver
      BY <2>1 DEF Drv!Begin
    <3>2. <<svc', driver'>> \in Left("ask")
      BY <3>1 DEF DriverAlone, Left
    <3>3. tool'[t].pc = "ask" /\ tool'[t] # Drv!Idle /\ \A u \in Tools : u # t => tool'[u] = Drv!Idle
      BY <3>1 DEF Drv!Idle
    <3> QED BY <3>2, <3>3
  <2>2. ASSUME tool[t] # Drv!Idle, \E r : tool' = [tool EXCEPT ![t] = r],
               ~mixed, ~failed, ~forced,
               Alone(t) /\ <<svc, driver>> \in Left(tool[t].pc) => <<svc', driver'>> \in Left(tool'[t].pc)
        PROVE  Goal
    <3>1. Alone(t) /\ <<svc, driver>> \in Left(tool[t].pc)
      BY <2>2 DEF DriverAlone
    <3>2. /\ \A u \in Tools : u # t => tool'[u] = Drv!Idle
          /\ <<svc', driver'>> \in Left(tool'[t].pc)
      BY <2>2, <3>1 DEF Alone
    <3>3. tool'[t] = Drv!Idle => <<svc', driver'>> \in Settled
      BY <3>2 DEF Drv!Idle, Left
    <3> QED BY <3>2, <3>3
  <2> USE DEF Drv!Goto, Drv!Finish, Drv!At, Drv!Idle, Drv!ToolFrame
  <2>3. CASE Drv!NoManager(t)
    BY <2>3 DEF Drv!NoManager
  <2>4. CASE Drv!Ask(t)
    <3>1. <<svc, driver>> \in Left(tool[t].pc) => <<svc', driver'>> \in Left(tool'[t].pc)
      BY <2>4 DEF Drv!Ask, Left, Settled
    <3> QED BY <2>2, <2>4, <3>1 DEF Drv!Ask
  <2>5. CASE Drv!Create(t) \/ Drv!Start(t) \/ Drv!Undo(t)
    <3>1. <<svc, driver>> \in Left(tool[t].pc) => <<svc', driver'>> \in Left(tool'[t].pc)
      BY <2>5 DEF Drv!Create, Drv!Start, Drv!Undo, Drv!DeleteService, Left, Settled
    <3> QED BY <2>2, <2>5, <3>1 DEF Drv!Create, Drv!Start, Drv!Undo
  <2>6. CASE Drv!Check(t) \/ Drv!Open(t) \/ Drv!Count(t)
    <3>1. <<svc, driver>> \in Left(tool[t].pc) => <<svc', driver'>> \in Left(tool'[t].pc)
      BY <2>6 DEF Drv!Check, Drv!Open, Drv!Count, Drv!Opened, Left, Settled
    <3> QED BY <2>2, <2>6, <3>1 DEF Drv!Check, Drv!Open, Drv!Count
  <2>7. CASE Drv!Exit(t) \/ Drv!CloseCount(t)
    <3>1. <<svc, driver>> \in Left(tool[t].pc) => <<svc', driver'>> \in Left(tool[t].pc)
      BY <2>7, DriverCloseKeeps DEF Drv!Exit, Drv!CloseCount
    <3>2. <<svc, driver>> \in Left(tool[t].pc) => <<svc', driver'>> \in Left(tool'[t].pc)
      BY <2>7, <3>1 DEF Drv!Exit, Drv!CloseCount, Left
    <3> QED BY <2>2, <2>7, <3>2 DEF Drv!Exit, Drv!CloseCount
  <2>8. CASE Drv!Stop(t) \/ Drv!Delete(t)
    <3>1. <<svc, driver>> \in Left(tool[t].pc) => <<svc', driver'>> \in Left(tool'[t].pc)
      BY <2>8 DEF Drv!Stop, Drv!Delete, Drv!DeleteService, Left, Settled
    <3> QED BY <2>2, <2>8, <3>1 DEF Drv!Stop, Drv!Delete
  <2> QED BY <1>1, <2>1, <2>3, <2>4, <2>5, <2>6, <2>7, <2>8 DEF DriverToolStep
<1>2. ASSUME UNCHANGED <<tool, mixed, failed, forced>>,
             \A pc : <<svc, driver>> \in Left(pc) => <<svc', driver'>> \in Left(pc)
      PROVE  Goal
  <2>1. Left("ask") = Settled
    BY DEF Left
  <2> QED BY <1>2, <2>1 DEF DriverAlone, Alone
<1>3. CASE DriverDaemonStep
  <2>1. UNCHANGED <<tool, mixed, failed, forced>>
    BY <1>3 DEF DriverDaemonStep, Drv!DaeFrame, Drv!Services, Drv!DaemonStarts, Drv!DaemonCreates, Drv!DaemonOpens,
                Drv!DaemonMonitor, Drv!DaemonAttaches, Drv!DaemonLaunches, Drv!DaemonBoots, Drv!DaemonReboots,
                Drv!DaemonKills, Drv!DaemonEnds, Drv!DaemonDestroys, Drv!DaemonExits, Drv!StopRequest, Drv!StopKills,
                Drv!Gone
  <2>2. Drv!Close(Drv!Daemon) \/ UNCHANGED <<svc, driver>>
    BY <1>3 DEF DriverDaemonStep, Drv!NoDriver, Drv!Opened, Drv!Services, Drv!DaemonStarts, Drv!DaemonCreates, Drv!DaemonOpens,
                Drv!DaemonMonitor, Drv!DaemonAttaches, Drv!DaemonLaunches, Drv!DaemonBoots, Drv!DaemonReboots,
                Drv!DaemonKills, Drv!DaemonEnds, Drv!DaemonDestroys, Drv!DaemonExits, Drv!StopRequest, Drv!StopKills,
                Drv!Gone
  <2>3. \A pc : <<svc, driver>> \in Left(pc) => <<svc', driver'>> \in Left(pc)
    BY <2>2, DriverCloseKeeps
  <2> QED BY <2>1, <2>3, <1>2
<1>4. CASE UNCHANGED Drv!svcVars
  BY <1>2, <1>4 DEF Drv!svcVars
<1> QED BY <1>1, <1>3, <1>4, DriverSteps

LEMMA DriverInvNext == DriverInv /\ [Drv!Next]_(Drv!svcVars) => DriverInv'
BY DriverTypesNext, DriverOpenNext, DriverAskedNext, DriverAloneNext, DriverExecsNext DEF DriverInv

\* With any number of runs that install or remove, what they do to the driver and the service
\* stops no VM they were told of, leaves nothing half done when they came one at a time and were
\* refused nothing, and programs outlive their daemon only after a boot that failed.
THEOREM DriverStaysExact == Drv!Spec => []DriverExact
<1>1. Drv!Init => DriverInv
  <2> SUFFICES ASSUME Drv!Init PROVE DriverInv
    OBVIOUS
  <2> USE DEF Drv!Init, Drv!Idle
  <2>1. DriverTypes
    BY DEF DriverTypes
  <2>2. DriverOpen /\ DriverAsked /\ DriverExecs
    BY DEF DriverOpen, DriverAsked, DriverExecs
  <2>3. DriverAlone
    BY DEF DriverAlone, Settled
  <2> QED BY <2>1, <2>2, <2>3 DEF DriverInv
<1>2. DriverInv => DriverExact
  <2> SUFFICES ASSUME DriverInv PROVE DriverExact
    OBVIOUS
  <2>1. driver = "stopping" /\ living => late \/ forced
    BY DEF DriverInv, DriverAsked
  <2>2. ASSUME Drv!Quiet, ~mixed, ~failed, ~forced PROVE svc # "deleted" /\ (svc = "there" <=> driver = "running")
    <3>1. <<svc, driver>> \in Settled
      BY <2>2 DEF DriverInv, DriverAlone, Drv!Quiet
    <3>2. open = {}
      BY <2>2 DEF DriverInv, DriverTypes, DriverOpen, Drv!Quiet, Drv!Idle
    <3> QED BY <3>1, <3>2 DEF DriverInv, DriverOpen, Settled
  <2>3. dpc = "off" /\ execs => ended = "start"
    BY DEF DriverInv, DriverExecs
  <2> QED BY <2>1, <2>2, <2>3 DEF DriverExact, Drv!DriverExact
<1> QED BY <1>1, <1>2, DriverInvNext, PTL DEF Drv!Spec

-----------------------------------------------------------------------------
(* Keyboard.  What an event makes of the record of the keys s, while the   *)
(* console is attached: KeysGood says that the record and what the guest   *)
(* holds are the same.                                                     *)

KeyRecords ==
    [state : [Kbd!Slots -> Kbd!Keys \cup {Kbd!NoKey}], win : BOOLEAN, held : SUBSET Kbd!Keys,
     attached : BOOLEAN]

\* Where a program records a key.
Slot(k) == IF program = "x11" THEN k ELSE Kbd!Vkey(k)

KeysGood(s) ==
    /\ s \in KeyRecords /\ s.attached
    /\ \A k \in Kbd!Keys : k \in s.held <=> s.state[Slot(k)] = k
    /\ \A v \in Kbd!Slots : s.state[v] # Kbd!NoKey => Slot(s.state[v]) = v

\* The key can be recorded, or is.
Room(s, k) == s.state[Slot(k)] \in {Kbd!NoKey, k}

LEMMA KeyFacts ==
    /\ Kbd!NoKey \notin Kbd!Keys /\ Kbd!NoKey \in Kbd!Slots
    /\ \A k \in Kbd!Keys : k \in Kbd!Slots /\ Kbd!Vkey(k) \in Kbd!Slots /\ Slot(k) \in Kbd!Slots
    /\ {"control", "menu", "shift"} \subseteq Kbd!Slots
    /\ Kbd!Vkey("lctrl") = "control" /\ Kbd!Vkey("lalt") = "menu" /\ Kbd!Vkey("ralt") = "menu"
    /\ \A k \in Kbd!Keys : k \in {"lwin", "rwin", "del", "v"} => Kbd!Vkey(k) = k
    /\ {"lctrl", "rctrl", "lalt", "ralt", "lwin", "rwin", "del", "v", "tab"} \subseteq Kbd!Keys
BY DEF Kbd!Keys, Kbd!NoKey, Kbd!Slots, Kbd!Vkey, Slot

LEMMA PressKeeps ==
    ASSUME NEW s, KeysGood(s), NEW k \in Kbd!Keys, Room(s, k),
           NEW e, e = Kbd!Press([s EXCEPT !.state[Slot(k)] = k], k)
    PROVE  KeysGood(e) /\ e.held = s.held \cup {k} /\ e.win = s.win
           /\ e.state = [s.state EXCEPT ![Slot(k)] = k]
<1>1. /\ e \in KeyRecords /\ e.attached /\ e.held = s.held \cup {k} /\ e.win = s.win
      /\ e.state = [s.state EXCEPT ![Slot(k)] = k]
  BY KeyFacts DEF Kbd!Press, KeysGood, KeyRecords
<1>2. s.state[Slot(k)] \in {Kbd!NoKey, k} /\ s.state \in [Kbd!Slots -> Kbd!Keys \cup {Kbd!NoKey}]
  BY DEF Room, KeysGood, KeyRecords
<1>3. \A j \in Kbd!Keys : j \in e.held <=> e.state[Slot(j)] = j
  BY <1>1, <1>2, KeyFacts DEF KeysGood
<1>4. \A v \in Kbd!Slots : e.state[v] # Kbd!NoKey => Slot(e.state[v]) = v
  BY <1>1, <1>2, KeyFacts DEF KeysGood
<1> QED BY <1>1, <1>3, <1>4 DEF KeysGood

LEMMA ReleaseKeeps ==
    ASSUME NEW s, KeysGood(s), NEW v \in Kbd!Slots, s.state[v] # Kbd!NoKey,
           NEW e, e = Kbd!Release(Kbd!Forget(s, v), s.state[v])
    PROVE  KeysGood(e) /\ e.held = s.held \ {s.state[v]} /\ e.win = s.win
           /\ e.state = [s.state EXCEPT ![v] = Kbd!NoKey]
<1>1. /\ e \in KeyRecords /\ e.attached /\ e.held = s.held \ {s.state[v]} /\ e.win = s.win
      /\ e.state = [s.state EXCEPT ![v] = Kbd!NoKey]
  BY KeyFacts DEF Kbd!Release, Kbd!Forget, KeysGood, KeyRecords
<1>2. s.state \in [Kbd!Slots -> Kbd!Keys \cup {Kbd!NoKey}]
  BY DEF KeysGood, KeyRecords
<1>3. \A j \in Kbd!Keys : j \in e.held <=> e.state[Slot(j)] = j
  BY <1>1, <1>2, KeyFacts DEF KeysGood
<1>4. \A w \in Kbd!Slots : e.state[w] # Kbd!NoKey => Slot(e.state[w]) = w
  BY <1>1, <1>2, KeyFacts DEF KeysGood
<1> QED BY <1>1, <1>3, <1>4 DEF KeysGood

LEMMA NormalDown ==
    ASSUME NEW s, KeysGood(s), NEW k \in Kbd!Keys, Room(s, k), NEW e, e = Kbd!Normal(s, k, Slot(k), FALSE)
    PROVE  KeysGood(e) /\ e.held = s.held \cup {k} /\ e.state = [s.state EXCEPT ![Slot(k)] = k]
<1>1. e = Kbd!Press([s EXCEPT !.state[Slot(k)] = k], k)
  BY DEF Kbd!Normal
<1> QED BY <1>1, PressKeeps

LEMMA NormalUp ==
    ASSUME NEW s, KeysGood(s), NEW k \in Kbd!Keys, Room(s, k), NEW e, e = Kbd!Normal(s, k, Slot(k), TRUE)
    PROVE  /\ KeysGood(e) /\ e.held = s.held \ {k}
           /\ \A v \in Kbd!Slots : e.state[v] \in {s.state[v], Kbd!NoKey}
<1>1. s.state \in [Kbd!Slots -> Kbd!Keys \cup {Kbd!NoKey}]
  BY DEF KeysGood, KeyRecords
<1>2. CASE s.state[Slot(k)] = Kbd!NoKey
  <2>1. e = s
    BY <1>2 DEF Kbd!Normal
  <2>2. k \notin s.held
    BY <1>2, KeyFacts DEF KeysGood
  <2> QED BY <2>1, <2>2
<1>3. CASE s.state[Slot(k)] # Kbd!NoKey
  <2>1. s.state[Slot(k)] = k
    BY <1>3 DEF Room
  <2>2. PICK v \in Kbd!Slots : v = Slot(k)
    BY KeyFacts
  <2>3. e = Kbd!Release(Kbd!Forget(s, v), s.state[v]) /\ s.state[v] # Kbd!NoKey
    BY <1>3, <2>1, <2>2 DEF Kbd!Normal
  <2>4. KeysGood(e) /\ e.held = s.held \ {s.state[v]} /\ e.state = [s.state EXCEPT ![v] = Kbd!NoKey]
    BY ONLY KeysGood(s), v \in Kbd!Slots, <2>3, ReleaseKeeps
  <2>5. e.held = s.held \ {k}
    BY <2>1, <2>2, <2>4
  <2>6. \A w \in Kbd!Slots : e.state[w] \in {s.state[w], Kbd!NoKey}
    BY <1>1, <2>4
  <2> QED BY <2>4, <2>5, <2>6
<1> QED BY <1>2, <1>3

LEMMA AltGrKeeps ==
    ASSUME NEW s, KeysGood(s), NEW k \in Kbd!Keys, NEW released \in BOOLEAN,
           NEW e, e = Kbd!AltGr(s, k, released)
    PROVE  /\ KeysGood(e) /\ e.held \subseteq s.held /\ e.win = s.win
           /\ \A v \in Kbd!Slots : e.state[v] \in {s.state[v], Kbd!NoKey}
           /\ k = "ralt" /\ ~released /\ s.state["control"] = "lctrl" => "lctrl" \notin e.held
<1>1. s.state \in [Kbd!Slots -> Kbd!Keys \cup {Kbd!NoKey}]
  BY DEF KeysGood, KeyRecords
<1>2. CASE k = "ralt" /\ ~released /\ s.state["control"] = "lctrl"
  <2>1. "control" \in Kbd!Slots /\ s.state["control"] # Kbd!NoKey
    BY <1>2, KeyFacts DEF Kbd!NoKey
  <2>2. e = Kbd!Release(Kbd!Forget(s, "control"), s.state["control"])
    BY <1>2 DEF Kbd!AltGr
  <2>3. /\ KeysGood(e) /\ e.held = s.held \ {s.state["control"]} /\ e.win = s.win
        /\ e.state = [s.state EXCEPT !["control"] = Kbd!NoKey]
    BY <2>1, <2>2, ReleaseKeeps
  <2> QED BY <1>1, <1>2, <2>1, <2>3
<1>3. CASE ~(k = "ralt" /\ ~released /\ s.state["control"] = "lctrl")
  BY <1>3 DEF Kbd!AltGr
<1> QED BY <1>2, <1>3

LEMMA UnstickKeeps ==
    ASSUME NEW s, KeysGood(s), NEW v \in Kbd!Slots, NEW isDown \in BOOLEAN,
           NEW e, e = Kbd!Unstick(s, v, isDown)
    PROVE  /\ KeysGood(e) /\ e.held \subseteq s.held
           /\ \A w \in Kbd!Slots : e.state[w] \in {s.state[w], Kbd!NoKey}
<1>1. s.state \in [Kbd!Slots -> Kbd!Keys \cup {Kbd!NoKey}]
  BY DEF KeysGood, KeyRecords
<1>2. CASE isDown \/ s.state[v] = Kbd!NoKey
  BY <1>2 DEF Kbd!Unstick
<1>3. CASE ~isDown /\ s.state[v] # Kbd!NoKey
  <2>1. e = Kbd!Release(Kbd!Forget(s, v), s.state[v])
    BY <1>3 DEF Kbd!Unstick
  <2>2. KeysGood(e) /\ e.held = s.held \ {s.state[v]} /\ e.state = [s.state EXCEPT ![v] = Kbd!NoKey]
    BY <1>3, <2>1, ReleaseKeeps
  <2> QED BY <1>1, <1>3, <2>2
<1> QED BY <1>2, <1>3

\* The record of the Windows keys is apart.
LEMMA WinKeeps ==
    ASSUME NEW s, KeysGood(s), NEW w \in BOOLEAN, NEW e, e = [s EXCEPT !.win = w]
    PROVE  KeysGood(e) /\ e.held = s.held /\ e.state = s.state
<1>1. e \in KeyRecords /\ e.attached /\ e.held = s.held /\ e.state = s.state
  BY DEF KeysGood, KeyRecords
<1> QED BY <1>1 DEF KeysGood

\* What a key that goes down does in each program.  A console that detaches passes nothing on.
KeyPressed(s, k, e) ==
    /\ e \in KeyRecords /\ e.held \subseteq s.held \cup {k}
    /\ \A v \in Kbd!Slots : v # Slot(k) => e.state[v] \in {s.state[v], Kbd!NoKey}
    /\ e.attached => KeysGood(e)
    /\ ~e.attached => /\ e.held \subseteq s.held /\ program = "nt"
                      /\ \/ k \in {"lwin", "rwin"} /\ "lalt" \notin e.held
                         \/ k \in {"lalt", "ralt"} /\ "lwin" \notin e.held
    /\ program # "x11" /\ k = "ralt" /\ s.state["control"] = "lctrl" => "lctrl" \notin e.held
    /\ program # "x11" /\ k = "lctrl" => e.attached /\ e.state["control"] = "lctrl"

\* And a key that goes up.
KeyReleased(s, e) ==
    /\ KeysGood(e) /\ e.held \subseteq s.held
    /\ \A v \in Kbd!Slots : e.state[v] \in {s.state[v], Kbd!NoKey}

LEMMA NormalPressed ==
    ASSUME NEW s, KeysGood(s), NEW u, KeysGood(u), u.held \subseteq s.held,
           \A v \in Kbd!Slots : u.state[v] \in {s.state[v], Kbd!NoKey},
           NEW k \in Kbd!Keys, Room(s, k),
           program # "x11" /\ k = "ralt" /\ s.state["control"] = "lctrl" => "lctrl" \notin u.held,
           NEW e, e = Kbd!Normal(u, k, Slot(k), FALSE)
    PROVE  KeyPressed(s, k, e)
<1>1. Room(u, k)
  BY KeyFacts DEF Room
<1>2. KeysGood(e) /\ e.held = u.held \cup {k} /\ e.state = [u.state EXCEPT ![Slot(k)] = k]
  BY <1>1, NormalDown
<1>3. u.state \in [Kbd!Slots -> Kbd!Keys \cup {Kbd!NoKey}] /\ e.attached /\ e \in KeyRecords
  BY <1>2 DEF KeysGood, KeyRecords
<1>4. \A v \in Kbd!Slots : v # Slot(k) => e.state[v] = u.state[v]
  BY <1>2, <1>3
<1>5. \A v \in Kbd!Slots : v # Slot(k) => e.state[v] \in {s.state[v], Kbd!NoKey}
  BY <1>4
<1>6. e.state[Slot(k)] = k
  BY <1>2, <1>3, KeyFacts
<1>7. program # "x11" /\ k = "lctrl" => Slot(k) = "control"
  BY KeyFacts DEF Slot
<1>8. program # "x11" /\ k = "lctrl" => e.state["control"] = "lctrl"
  BY <1>6, <1>7
<1> QED BY <1>2, <1>3, <1>5, <1>8 DEF KeyPressed

LEMMA NormalReleased ==
    ASSUME NEW s, KeysGood(s), NEW u, KeysGood(u), u.held \subseteq s.held,
           \A v \in Kbd!Slots : u.state[v] \in {s.state[v], Kbd!NoKey},
           NEW k \in Kbd!Keys, Room(s, k),
           NEW e, e = Kbd!Normal(u, k, Slot(k), TRUE)
    PROVE  KeyReleased(s, e)
<1>1. Room(u, k)
  BY KeyFacts DEF Room
<1>2. /\ KeysGood(e) /\ e.held = u.held \ {k}
      /\ \A v \in Kbd!Slots : e.state[v] \in {u.state[v], Kbd!NoKey}
  BY <1>1, NormalUp
<1> QED BY <1>2 DEF KeyReleased

LEMMA NtPressed ==
    ASSUME program = "nt", NEW s, KeysGood(s), NEW k \in Kbd!Keys, Room(s, k), NEW mods,
           NEW e, e = Kbd!NtEvent(s, k, FALSE, mods)
    PROVE  KeyPressed(s, k, e)
<1> DEFINE menu == Kbd!AltGr(s, k, FALSE)
           win  == [s EXCEPT !.win = TRUE]
           alt   == mods \cap {"lalt", "ralt"} # {}
           shift == mods \cap {"lshift", "rshift"} # {}
           unAlt == Kbd!Unstick(s, "menu", alt)
           loose == Kbd!Unstick(unAlt, "shift", shift)
<1>a. s.state \in [Kbd!Slots -> Kbd!Keys \cup {Kbd!NoKey}] /\ s.held \subseteq Kbd!Keys
      /\ s.attached /\ s \in KeyRecords
  BY DEF KeysGood, KeyRecords
<1>b. Slot(k) = Kbd!Vkey(k)
  BY DEF Slot
<1>c. /\ KeysGood(menu) /\ menu.held \subseteq s.held
      /\ \A v \in Kbd!Slots : menu.state[v] \in {s.state[v], Kbd!NoKey}
      /\ k = "ralt" /\ s.state["control"] = "lctrl" => "lctrl" \notin menu.held
  BY AltGrKeeps
<1>d. KeysGood(win) /\ win.held = s.held /\ win.state = s.state
  BY WinKeeps
<1>e. /\ KeysGood(loose) /\ loose.held \subseteq s.held
      /\ \A v \in Kbd!Slots : loose.state[v] \in {s.state[v], Kbd!NoKey}
  <2>1. /\ KeysGood(unAlt) /\ unAlt.held \subseteq s.held
        /\ \A v \in Kbd!Slots : unAlt.state[v] \in {s.state[v], Kbd!NoKey}
    BY UnstickKeeps, KeyFacts
  <2>2. /\ KeysGood(loose) /\ loose.held \subseteq unAlt.held
        /\ \A v \in Kbd!Slots : loose.state[v] \in {unAlt.state[v], Kbd!NoKey}
    <3> HIDE DEF unAlt
    <3> QED BY <2>1, UnstickKeeps, KeyFacts
  <2> QED BY <2>1, <2>2
<1>1. CASE k \in {"lwin", "rwin"} /\ "lalt" \in mods
  <2>1. e = [Kbd!Release(s, "lalt") EXCEPT !.attached = FALSE]
    BY <1>1 DEF Kbd!NtEvent
  <2>2. e \in KeyRecords /\ ~e.attached /\ e.held = s.held \ {"lalt"} /\ e.state = s.state
    BY <1>a, <2>1 DEF Kbd!Release, KeyRecords
  <2> QED BY <1>1, <2>2 DEF KeyPressed
<1>2. CASE k \in {"lwin", "rwin"} /\ "lalt" \notin mods
  <2>1. e = Kbd!Normal(win, k, Slot(k), FALSE)
    BY <1>2, <1>b, KeyFacts DEF Kbd!NtEvent
  <2>2. \A v \in Kbd!Slots : win.state[v] \in {s.state[v], Kbd!NoKey}
    BY <1>d
  <2> HIDE DEF win
  <2> QED BY <1>2, <1>d, <2>1, <2>2, NormalPressed
<1>3. CASE k = "del"
  <2>1. e = s \/ e = Kbd!Normal(s, k, Slot(k), FALSE)
    BY <1>3, <1>b, KeyFacts DEF Kbd!NtEvent
  <2>2. CASE e = s
    BY <1>a, <1>3, <2>2 DEF KeyPressed
  <2>3. CASE e = Kbd!Normal(s, k, Slot(k), FALSE)
    BY <1>3, <2>3, NormalPressed
  <2> QED BY <2>1, <2>2, <2>3
<1>4. CASE k \in {"lalt", "ralt"} /\ s.win
  <2>1. e = [Kbd!Release(menu, "lwin") EXCEPT !.attached = FALSE]
    BY <1>4 DEF Kbd!NtEvent
  <2>2. menu \in KeyRecords /\ menu.attached
    BY <1>c DEF KeysGood
  <2> HIDE DEF menu
  <2>3. e \in KeyRecords /\ ~e.attached /\ e.held = menu.held \ {"lwin"} /\ e.state = menu.state
    BY <2>1, <2>2 DEF Kbd!Release, KeyRecords
  <2> QED BY <1>4, <1>c, <2>3 DEF KeyPressed
<1>5. CASE k \in {"lalt", "ralt"} /\ ~s.win
  <2>1. e = Kbd!Normal(menu, k, Slot(k), FALSE)
    BY <1>5, <1>b, KeyFacts DEF Kbd!NtEvent
  <2> HIDE DEF menu
  <2> QED BY <1>5, <1>c, <2>1, NormalPressed
<1>6. CASE k = "v"
  <2>1. e = s \/ e = Kbd!Normal(s, k, Slot(k), FALSE)
    BY <1>6, <1>b, KeyFacts DEF Kbd!NtEvent
  <2>2. CASE e = s
    BY <1>a, <1>6, <2>2 DEF KeyPressed
  <2>3. CASE e = Kbd!Normal(s, k, Slot(k), FALSE)
    BY <1>6, <2>3, NormalPressed
  <2> QED BY <2>1, <2>2, <2>3
<1>7. CASE k \notin {"lwin", "rwin", "del", "lalt", "ralt", "v"}
  <2>1. e = Kbd!Normal(loose, k, Slot(k), FALSE)
    BY <1>7, <1>b DEF Kbd!NtEvent
  <2> HIDE DEF loose
  <2> QED BY <1>7, <1>e, <2>1, NormalPressed
<1> QED BY <1>1, <1>2, <1>3, <1>4, <1>5, <1>6, <1>7

LEMMA NtReleased ==
    ASSUME program = "nt", NEW s, KeysGood(s), NEW k \in Kbd!Keys, Room(s, k), NEW mods,
           NEW e, e = Kbd!NtEvent(s, k, TRUE, mods)
    PROVE  KeyReleased(s, e)
<1> DEFINE win == [s EXCEPT !.win = FALSE]
<1>a. Slot(k) = Kbd!Vkey(k) /\ s.state \in [Kbd!Slots -> Kbd!Keys \cup {Kbd!NoKey}]
  BY DEF Slot, KeysGood, KeyRecords
<1>1. CASE k \in {"lwin", "rwin"}
  <2>1. e = Kbd!Normal(win, k, Slot(k), TRUE)
    BY <1>1, <1>a, KeyFacts DEF Kbd!NtEvent
  <2>2. KeysGood(win) /\ win.held = s.held /\ win.state = s.state
    BY WinKeeps
  <2> HIDE DEF win
  <2> QED BY <2>1, <2>2, NormalReleased
<1>2. CASE k \notin {"lwin", "rwin"}
  <2>1. Kbd!AltGr(s, k, TRUE) = s
    BY DEF Kbd!AltGr
  <2>2. e = Kbd!Normal(s, k, Slot(k), TRUE)
    BY <1>2, <1>a, <2>1, KeyFacts DEF Kbd!NtEvent
  <2> QED BY <2>2, NormalReleased
<1> QED BY <1>1, <1>2

LEMMA FltkPressed ==
    ASSUME program = "fltk", NEW s, KeysGood(s), NEW k \in Kbd!Keys, Room(s, k),
           NEW e, e = Kbd!FltkEvent(s, k, FALSE)
    PROVE  KeyPressed(s, k, e)
<1> DEFINE menu == Kbd!AltGr(s, k, FALSE)
<1>a. s \in KeyRecords /\ s.attached /\ Slot(k) = Kbd!Vkey(k)
  BY DEF KeysGood, Slot
<1>1. CASE k \in {"lwin", "rwin"}
  <2>1. e = [s EXCEPT !.win = TRUE]
    BY <1>1 DEF Kbd!FltkEvent
  <2>2. KeysGood(e) /\ e.held = s.held /\ e.state = s.state
    BY <2>1, WinKeeps
  <2>3. e \in KeyRecords /\ e.attached
    BY <2>2 DEF KeysGood
  <2> QED BY <1>1, <2>2, <2>3 DEF KeyPressed
<1>2. CASE k = "v" /\ s.win
  <2>1. e = s
    BY <1>2 DEF Kbd!FltkEvent
  <2> QED BY <1>a, <1>2, <2>1 DEF KeyPressed
<1>3. CASE k \notin {"lwin", "rwin"} /\ ~(k = "v" /\ s.win)
  <2>1. e = Kbd!Normal(menu, k, Slot(k), FALSE)
    BY <1>3, <1>a DEF Kbd!FltkEvent
  <2>2. /\ KeysGood(menu) /\ menu.held \subseteq s.held
        /\ \A v \in Kbd!Slots : menu.state[v] \in {s.state[v], Kbd!NoKey}
        /\ k = "ralt" /\ s.state["control"] = "lctrl" => "lctrl" \notin menu.held
    BY AltGrKeeps
  <2> HIDE DEF menu
  <2> QED BY <2>1, <2>2, NormalPressed
<1> QED BY <1>1, <1>2, <1>3

LEMMA FltkReleased ==
    ASSUME program = "fltk", NEW s, KeysGood(s), NEW k \in Kbd!Keys, Room(s, k),
           NEW e, e = Kbd!FltkEvent(s, k, TRUE)
    PROVE  KeyReleased(s, e)
<1>a. Slot(k) = Kbd!Vkey(k) /\ s.state \in [Kbd!Slots -> Kbd!Keys \cup {Kbd!NoKey}]
  BY DEF Slot, KeysGood, KeyRecords
<1>1. CASE k \in {"lwin", "rwin"}
  <2>1. e = [s EXCEPT !.win = FALSE]
    BY <1>1 DEF Kbd!FltkEvent
  <2>2. KeysGood(e) /\ e.held = s.held /\ e.state = s.state
    BY <2>1, WinKeeps
  <2> QED BY <1>1, <2>2 DEF KeyReleased
<1>2. CASE k \notin {"lwin", "rwin"}
  <2>1. Kbd!AltGr(s, k, TRUE) = s
    BY DEF Kbd!AltGr
  <2>2. e = Kbd!Normal(s, k, Slot(k), TRUE)
    BY <1>2, <1>a, <2>1 DEF Kbd!FltkEvent
  <2> QED BY <2>2, NormalReleased
<1> QED BY <1>1, <1>2

\* On X11 a key has a place of its own, and Tab with Shift has none.
LEMMA X11Slots ==
    ASSUME program = "x11", NEW s, KeysGood(s)
    PROVE  /\ \A k \in Kbd!Keys : Slot(k) = k /\ Room(s, k)
           /\ s.state[Kbd!NoKey] = Kbd!NoKey /\ [s EXCEPT !.state[Kbd!NoKey] = Kbd!NoKey] = s
<1>1. s.state \in [Kbd!Slots -> Kbd!Keys \cup {Kbd!NoKey}] /\ s \in KeyRecords
  BY DEF KeysGood, KeyRecords
<1>2. \A k \in Kbd!Keys : Slot(k) = k
  BY DEF Slot
<1>3. \A k \in Kbd!Keys : Room(s, k)
  BY <1>1, <1>2, KeyFacts DEF KeysGood, Room
<1>4. s.state[Kbd!NoKey] = Kbd!NoKey
  BY <1>1, <1>2, KeyFacts DEF KeysGood
<1>5. [s EXCEPT !.state[Kbd!NoKey] = Kbd!NoKey] = s
  BY <1>1, <1>4, KeyFacts DEF KeyRecords
<1> QED BY <1>2, <1>3, <1>4, <1>5

LEMMA X11Pressed ==
    ASSUME program = "x11", NEW s, KeysGood(s), NEW k \in Kbd!Keys, NEW mods,
           NEW e, e = Kbd!X11Event(s, k, FALSE, mods)
    PROVE  KeyPressed(s, k, e)
<1>1. Slot(k) = k /\ Room(s, k) /\ [s EXCEPT !.state[Kbd!NoKey] = Kbd!NoKey] = s
  BY X11Slots
<1>2. CASE e = s
  BY <1>2 DEF KeyPressed, KeysGood
<1>3. CASE e = Kbd!Normal(s, k, Slot(k), FALSE)
  BY <1>1, <1>3, NormalPressed
<1>4. e = s \/ e = Kbd!Normal(s, k, Slot(k), FALSE)
  BY <1>1 DEF Kbd!X11Event, Kbd!Press, Kbd!Normal
<1> QED BY <1>2, <1>3, <1>4

LEMMA X11Released ==
    ASSUME program = "x11", NEW s, KeysGood(s), NEW k \in Kbd!Keys, NEW mods,
           NEW e, e = Kbd!X11Event(s, k, TRUE, mods)
    PROVE  KeyReleased(s, e)
<1>1. Slot(k) = k /\ Room(s, k) /\ s.state[Kbd!NoKey] = Kbd!NoKey
  BY X11Slots
<1>2. CASE e = s
  BY <1>2 DEF KeyReleased
<1>3. CASE e = Kbd!Normal(s, k, Slot(k), TRUE)
  BY <1>1, <1>3, NormalReleased
<1>4. e = s \/ e = Kbd!Normal(s, k, Slot(k), TRUE)
  BY <1>1 DEF Kbd!X11Event, Kbd!Normal
<1> QED BY <1>2, <1>3, <1>4

Programs == {"nt", "fltk", "x11"}

LEMMA EventPressed ==
    ASSUME program \in Programs, NEW s, KeysGood(s), NEW k \in Kbd!Keys, Room(s, k), NEW mods,
           NEW e, e = Kbd!Event(s, k, FALSE, mods)
    PROVE  KeyPressed(s, k, e)
<1>1. CASE program = "nt"
  <2>1. e = Kbd!NtEvent(s, k, FALSE, mods)
    BY <1>1 DEF Kbd!Event
  <2> QED BY <1>1, <2>1, NtPressed
<1>2. CASE program = "fltk"
  <2>1. e = Kbd!FltkEvent(s, k, FALSE)
    BY <1>2 DEF Kbd!Event
  <2> QED BY <1>2, <2>1, FltkPressed
<1>3. CASE program = "x11"
  <2>1. e = Kbd!X11Event(s, k, FALSE, mods)
    BY <1>3 DEF Kbd!Event
  <2> QED BY <1>3, <2>1, X11Pressed
<1> QED BY <1>1, <1>2, <1>3 DEF Programs

LEMMA EventReleased ==
    ASSUME program \in Programs, NEW s, KeysGood(s), NEW k \in Kbd!Keys, Room(s, k), NEW mods,
           NEW e, e = Kbd!Event(s, k, TRUE, mods)
    PROVE  KeyReleased(s, e)
<1>1. CASE program = "nt"
  <2>1. e = Kbd!NtEvent(s, k, TRUE, mods)
    BY <1>1 DEF Kbd!Event
  <2> QED BY <1>1, <2>1, NtReleased
<1>2. CASE program = "fltk"
  <2>1. e = Kbd!FltkEvent(s, k, TRUE)
    BY <1>2 DEF Kbd!Event
  <2> QED BY <1>2, <2>1, FltkReleased
<1>3. CASE program = "x11"
  <2>1. e = Kbd!X11Event(s, k, TRUE, mods)
    BY <1>3 DEF Kbd!Event
  <2> QED BY <1>3, <2>1, X11Released
<1> QED BY <1>1, <1>2, <1>3 DEF Programs

\* AltGr is two events; the Control of the first is gone after the second.
FakeControl(k) == altgr /\ program # "x11" /\ k = "ralt"

LEMMA EventsPressed ==
    ASSUME program \in Programs, KeysGood(keys), NEW k \in Kbd!Keys, Room(keys, k),
           FakeControl(k) => Room(keys, "lctrl"), NEW mods, NEW e, e = Kbd!Events(k, FALSE, mods)
    PROVE  /\ e.held \subseteq keys.held \cup {k}
           /\ e.attached => KeysGood(e)
           /\ ~e.attached => /\ e.held \subseteq keys.held /\ program = "nt"
                             /\ \/ k \in {"lwin", "rwin"} /\ "lalt" \notin e.held
                                \/ k \in {"lalt", "ralt"} /\ "lwin" \notin e.held
<1>1. CASE ~FakeControl(k)
  <2>1. e = Kbd!Event(keys, k, FALSE, mods)
    BY <1>1 DEF Kbd!Events, FakeControl
  <2>2. KeyPressed(keys, k, e)
    BY <2>1, EventPressed
  <2> QED BY <2>2 DEF KeyPressed
<1>2. CASE FakeControl(k)
  <2>1. PICK s : s = Kbd!Event(keys, "lctrl", FALSE, mods)
    OBVIOUS
  <2>2. e = Kbd!Event(s, k, FALSE, mods)
    BY <1>2, <2>1 DEF Kbd!Events, FakeControl
  <2>3. KeyPressed(keys, "lctrl", s)
    BY <1>2, <2>1, EventPressed, KeyFacts
  <2>4. KeysGood(s) /\ s.held \subseteq keys.held \cup {"lctrl"} /\ s.state["control"] = "lctrl"
    BY <1>2, <2>3 DEF KeyPressed, FakeControl
  <2>5. Room(s, k)
    <3>1. Slot(k) \in Kbd!Slots /\ Slot(k) # Slot("lctrl")
      BY <1>2, KeyFacts DEF FakeControl, Slot
    <3> QED BY <2>3, <3>1 DEF Room, KeyPressed
  <2>6. KeyPressed(s, k, e)
    BY <2>2, <2>4, <2>5, EventPressed
  <2>7. "lctrl" \notin e.held
    BY <1>2, <2>4, <2>6 DEF KeyPressed, FakeControl
  <2> QED BY <2>4, <2>6, <2>7 DEF KeyPressed
<1> QED BY <1>1, <1>2

LEMMA EventsReleased ==
    ASSUME program \in Programs, KeysGood(keys), NEW k \in Kbd!Keys, Room(keys, k),
           FakeControl(k) => Room(keys, "lctrl"), NEW mods, NEW e, e = Kbd!Events(k, TRUE, mods)
    PROVE  KeysGood(e) /\ e.held \subseteq keys.held
<1>1. CASE ~FakeControl(k)
  <2>1. e = Kbd!Event(keys, k, TRUE, mods)
    BY <1>1 DEF Kbd!Events, FakeControl
  <2>2. KeyReleased(keys, e)
    BY <2>1, EventReleased
  <2> QED BY <2>2 DEF KeyReleased
<1>2. CASE FakeControl(k)
  <2>1. PICK s : s = Kbd!Event(keys, "lctrl", TRUE, mods)
    OBVIOUS
  <2>2. e = Kbd!Event(s, k, TRUE, mods)
    BY <1>2, <2>1 DEF Kbd!Events, FakeControl
  <2>3. KeyReleased(keys, s)
    BY <1>2, <2>1, EventReleased, KeyFacts
  <2>4. KeysGood(s) /\ s.held \subseteq keys.held /\ Room(s, k)
    BY <2>3, KeyFacts DEF KeyReleased, Room
  <2>5. KeyReleased(s, e)
    BY <2>2, <2>4, EventReleased
  <2> QED BY <2>4, <2>5 DEF KeyReleased
<1> QED BY <1>1, <1>2

NoTwins(S) == program # "x11" => \A i, j \in S : ~Kbd!Twin(i, j)
Told == keys.held \subseteq IF keys.attached THEN down ELSE down \ {"lalt", "lwin"}

KeysInv ==
    /\ program \in Programs /\ down \subseteq Kbd!Keys
    /\ ~twins => /\ keys.attached => KeysGood(keys)
                 /\ NoTwins(Kbd!With(down) \cup keys.held)
                 /\ ~missed => Told

\* Without two keys of one virtual key there is room for every key that is down.
LEMMA RoomForKeys ==
    ASSUME program \in Programs, KeysGood(keys), NEW S, NoTwins(S \cup keys.held), NEW k \in Kbd!Keys, k \in S
    PROVE  Room(keys, k)
<1>1. CASE program = "x11"
  BY <1>1, X11Slots
<1>2. CASE program # "x11"
  <2> SUFFICES ASSUME keys.state[Slot(k)] # Kbd!NoKey, keys.state[Slot(k)] # k PROVE FALSE
    BY DEF Room
  <2>1. PICK j \in Kbd!Keys : j = keys.state[Slot(k)]
    BY KeyFacts DEF KeysGood, KeyRecords
  <2>2. Slot(j) = Slot(k)
    BY <2>1, KeyFacts DEF KeysGood
  <2>3. j \in keys.held /\ j # k
    BY <2>1, <2>2 DEF KeysGood
  <2>4. Kbd!Twin(j, k)
    BY <1>2, <2>2, <2>3 DEF Kbd!Twin, Slot
  <2> QED BY <1>2, <2>3, <2>4 DEF NoTwins
<1> QED BY <1>1, <1>2

\* The definitions read of the next state.
LEMMA KeysGoodNext ==
    ASSUME program' = program, NEW e, e = keys', KeysGood(e) PROVE KeysGood(keys)'
BY DEF KeysGood, KeyRecords, Slot, Kbd!Keys, Kbd!NoKey, Kbd!Slots, Kbd!Vkey

LEMMA NoTwinsNext ==
    ASSUME program' = program, NEW S, NoTwins(S), NEW Q, Q \subseteq S, Q = (Kbd!With(down) \cup keys.held)'
    PROVE  NoTwins(Kbd!With(down) \cup keys.held)'
BY DEF NoTwins, Kbd!Twin, Kbd!Vkey

LEMMA KeyDownKeeps ==
    ASSUME KeysInv, NEW k \in Kbd!Keys, Kbd!KeyDown(k) PROVE KeysInv'
<1>1. /\ keys.attached /\ ~twins /\ k \notin down /\ down' = down \cup {k}
      /\ UNCHANGED <<program, altgr, focused, missed>>
  BY DEF Kbd!KeyDown, Kbd!Runs
<1>2. /\ program \in Programs /\ down \subseteq Kbd!Keys
      /\ KeysGood(keys) /\ NoTwins(Kbd!With(down) \cup keys.held) /\ (~missed => keys.held \subseteq down)
  BY <1>1 DEF KeysInv, Told
<1>3. program' \in Programs /\ down' \subseteq Kbd!Keys
  BY <1>1, <1>2
<1>4. SUFFICES ASSUME ~twins' 
      PROVE  /\ keys'.attached => KeysGood(keys)'
             /\ NoTwins(Kbd!With(down) \cup keys.held)'
             /\ ~missed => keys'.held \subseteq IF keys'.attached THEN down' ELSE down' \ {"lalt", "lwin"}
  BY <1>1, <1>3 DEF KeysInv, Told
<1>5. PICK W : W = Kbd!With(down')
  OBVIOUS
<1>6. k \in W /\ Kbd!With(down) \subseteq W /\ (FakeControl(k) => "lctrl" \in W) /\ down \subseteq W
  BY <1>1, <1>5 DEF Kbd!With, FakeControl
<1>7. NoTwins(W \cup keys.held)
  BY <1>4, <1>5 DEF Kbd!KeyDown, NoTwins
<1>8. W = Kbd!With(down)'
  BY <1>1, <1>5 DEF Kbd!With
<1>9. CASE ~focused
  <2>1. keys' = keys
    BY <1>9 DEF Kbd!KeyDown
  <2>2. KeysGood(keys)'
    BY <1>1, <1>2, <2>1, KeysGoodNext
  <2>3. NoTwins(Kbd!With(down) \cup keys.held)'
    BY <1>1, <1>7, <1>8, <2>1, NoTwinsNext
  <2> QED BY <1>1, <1>2, <2>1, <2>2, <2>3
<1>10. CASE focused
  <2>1. PICK e : e = Kbd!Events(k, FALSE, W) /\ e = keys'
    BY <1>5, <1>10 DEF Kbd!KeyDown
  <2>2. Room(keys, k) /\ (FakeControl(k) => Room(keys, "lctrl"))
    BY <1>2, <1>6, <1>7, RoomForKeys, KeyFacts
  <2>3. /\ e.held \subseteq keys.held \cup {k}
        /\ e.attached => KeysGood(e)
        /\ ~e.attached => /\ e.held \subseteq keys.held /\ program = "nt"
                          /\ \/ k \in {"lwin", "rwin"} /\ "lalt" \notin e.held
                             \/ k \in {"lalt", "ralt"} /\ "lwin" \notin e.held
    BY <1>2, <2>1, <2>2, EventsPressed
  <2>4. e.attached => KeysGood(keys)'
    BY <1>1, <2>1, <2>3, KeysGoodNext
  <2>5. NoTwins(Kbd!With(down) \cup keys.held)'
    <3>1. PICK Q : Q = (Kbd!With(down) \cup keys.held)'
      OBVIOUS
    <3>2. Q \subseteq W \cup keys.held
      BY <1>6, <1>8, <2>1, <2>3, <3>1
    <3> QED BY <1>1, <1>7, <3>1, <3>2, NoTwinsNext
  <2>6. ASSUME ~missed PROVE keys'.held \subseteq down'
    BY <1>1, <1>2, <2>1, <2>3, <2>6
  <2>7. ASSUME ~missed, ~e.attached PROVE "lalt" \notin e.held /\ "lwin" \notin e.held
    <3>1. e.held \subseteq down /\ program # "x11"
      BY <1>2, <2>3, <2>7
    <3>2. \A j \in down : ~Kbd!Twin(j, k)
      BY <1>6, <1>7, <3>1 DEF NoTwins
    <3>3. CASE k \in {"lwin", "rwin"} /\ "lalt" \notin e.held
      <4>1. "lwin" \notin down
        BY <1>1, <3>2, <3>3 DEF Kbd!Twin
      <4> QED BY <3>1, <3>3, <4>1
    <3>4. CASE k \in {"lalt", "ralt"} /\ "lwin" \notin e.held
      <4>1. "lalt" \notin down
        BY <1>1, <3>2, <3>4, KeyFacts DEF Kbd!Twin
      <4> QED BY <3>1, <3>4, <4>1
    <3> QED BY <2>3, <2>7, <3>3, <3>4
  <2> QED BY <2>1, <2>4, <2>5, <2>6, <2>7
<1> QED BY <1>9, <1>10

LEMMA KeyUpKeeps ==
    ASSUME KeysInv, NEW k \in Kbd!Keys, Kbd!KeyUp(k) PROVE KeysInv'
<1>1. /\ keys.attached /\ ~twins /\ k \in down /\ down' = down \ {k}
      /\ UNCHANGED <<program, altgr, focused, twins>> /\ missed' = (missed \/ k \in keys'.held)
  BY DEF Kbd!KeyUp, Kbd!Runs
<1>2. /\ program \in Programs /\ down \subseteq Kbd!Keys
      /\ KeysGood(keys) /\ NoTwins(Kbd!With(down) \cup keys.held) /\ (~missed => keys.held \subseteq down)
  BY <1>1 DEF KeysInv, Told
<1>3. Kbd!With(down)' \subseteq Kbd!With(down) /\ k \in Kbd!With(down)
      /\ (FakeControl(k) => "lctrl" \in Kbd!With(down))
  BY <1>1 DEF Kbd!With, FakeControl
<1>4. KeysGood(keys') /\ keys'.held \subseteq keys.held /\ KeysGood(keys)'
  <2>1. CASE ~focused
    <3>1. keys' = keys
      BY <2>1 DEF Kbd!KeyUp
    <3> QED BY <1>1, <1>2, <3>1, KeysGoodNext
  <2>2. CASE focused
    <3>1. PICK e : e = Kbd!Events(k, TRUE, Kbd!With(down')) /\ e = keys'
      BY <2>2 DEF Kbd!KeyUp
    <3>2. Room(keys, k) /\ (FakeControl(k) => Room(keys, "lctrl"))
      BY <1>2, <1>3, RoomForKeys, KeyFacts
    <3>3. KeysGood(e) /\ e.held \subseteq keys.held
      BY <1>2, <3>1, <3>2, EventsReleased
    <3> QED BY <1>1, <3>1, <3>3, KeysGoodNext
  <2> QED BY <2>1, <2>2
<1>5. NoTwins(Kbd!With(down) \cup keys.held)'
  BY SMTT(30), <1>1, <1>2, <1>3, <1>4, NoTwinsNext
<1>6. keys'.attached
  BY <1>4 DEF KeysGood
<1> QED BY <1>1, <1>2, <1>4, <1>5, <1>6 DEF KeysInv, Told

LEMMA KeysNext == KeysInv /\ [Kbd!Next]_(Kbd!keyVars) => KeysInv'
<1> SUFFICES ASSUME KeysInv, [Kbd!Next]_(Kbd!keyVars) PROVE KeysInv'
  OBVIOUS
<1>1. ASSUME NEW k \in Kbd!Keys, Kbd!KeyDown(k) PROVE KeysInv'
  BY <1>1, KeyDownKeeps
<1>2. ASSUME NEW k \in Kbd!Keys, Kbd!KeyUp(k) PROVE KeysInv'
  BY <1>2, KeyUpKeeps
<1>3. ASSUME Kbd!Runs, UNCHANGED <<program, altgr, twins>>, down' \subseteq down,
             KeysGood(keys'), keys'.held \subseteq keys.held, ~missed' => keys'.held \subseteq down'
      PROVE  KeysInv'
  <2>1. keys.attached /\ ~twins /\ program \in Programs /\ down \subseteq Kbd!Keys
        /\ NoTwins(Kbd!With(down) \cup keys.held)
    BY <1>3 DEF KeysInv, Kbd!Runs
  <2>2. Kbd!With(down)' \subseteq Kbd!With(down)
    BY <1>3 DEF Kbd!With
  <2>3. NoTwins(Kbd!With(down) \cup keys.held)'
    BY <1>3, <2>1, <2>2, NoTwinsNext
  <2>4. KeysGood(keys)' /\ keys'.attached
    BY <1>3, KeysGoodNext DEF KeysGood
  <2> QED BY <1>3, <2>1, <2>3, <2>4 DEF KeysInv, Told
<1>4. Kbd!Runs => KeysGood(keys) /\ keys.attached /\ (~missed => keys.held \subseteq down)
  BY DEF KeysInv, Told, Kbd!Runs
<1>5. ASSUME NEW k \in Kbd!Keys, Kbd!Swallowed(k) PROVE KeysInv'
  BY <1>3, <1>4, <1>5 DEF Kbd!Swallowed
<1>6. CASE Kbd!Unfocus
  <2>1. CASE program = "x11"
    BY <1>3, <1>4, <1>6, <2>1 DEF Kbd!Unfocus
  <2>2. CASE program # "x11"
    <3>1. /\ Kbd!Runs /\ UNCHANGED <<program, altgr, twins, down>>
          /\ keys' = [keys EXCEPT !.held = @ \ {keys.state[v] : v \in Kbd!Slots},
                                  !.state = [v \in Kbd!Slots |-> Kbd!NoKey], !.win = FALSE]
      BY <1>6, <2>2 DEF Kbd!Unfocus
    <3>2. KeysGood(keys) /\ keys \in KeyRecords /\ keys.attached
      BY <1>4, <3>1 DEF KeysGood
    <3>3. \A k \in keys.held : k \in {keys.state[v] : v \in Kbd!Slots}
      BY <3>2, KeyFacts DEF KeysGood, KeyRecords
    <3>4. /\ keys' \in KeyRecords /\ keys'.attached /\ keys'.held = {}
          /\ keys'.state = [v \in Kbd!Slots |-> Kbd!NoKey]
      BY <3>1, <3>2, <3>3 DEF KeyRecords
    <3>5. KeysGood(keys')
      BY <3>4, KeyFacts DEF KeysGood
    <3> QED BY <1>3, <3>1, <3>4, <3>5
  <2> QED BY <2>1, <2>2
<1>7. CASE Kbd!Focus
  BY <1>3, <1>4, <1>7 DEF Kbd!Focus
<1>8. CASE UNCHANGED Kbd!keyVars
  <2>1. UNCHANGED <<program, altgr, keys, down, twins, missed>>
    BY <1>8 DEF Kbd!keyVars
  <2> QED BY <2>1 DEF KeysInv, Told, KeysGood, KeyRecords, Slot, NoTwins, Kbd!With
<1> QED BY <1>1, <1>2, <1>5, <1>6, <1>7, <1>8 DEF Kbd!Next

\* Whatever keys go down and up, in whichever program, and however the keyboard is lost and found:
\* the guest holds what the program has recorded, and nothing the user let go of, unless the
\* record had no room for a key or the program was not told that one went up.
THEOREM KeysStayExact == Kbd!Spec => []KeysExact
<1>1. Kbd!Init => KeysInv
  <2> SUFFICES ASSUME Kbd!Init PROVE KeysInv
    OBVIOUS
  <2>1. /\ keys \in KeyRecords /\ keys.attached /\ keys.held = {}
        /\ keys.state = [v \in Kbd!Slots |-> Kbd!NoKey]
    BY DEF Kbd!Init, KeyRecords
  <2>2. KeysGood(keys)
    BY <2>1, KeyFacts DEF KeysGood
  <2>3. Kbd!With(down) \cup keys.held = {}
    BY <2>1 DEF Kbd!Init, Kbd!With
  <2> QED BY <2>1, <2>2, <2>3 DEF Kbd!Init, KeysInv, Programs, NoTwins, Told
<1>2. KeysInv => KeysExact
  <2> SUFFICES ASSUME KeysInv, ~twins PROVE
        /\ keys.attached => keys.held = {keys.state[v] : v \in Kbd!Slots} \ {Kbd!NoKey}
        /\ ~missed => keys.held \subseteq IF keys.attached THEN down ELSE down \ {"lalt", "lwin"}
    BY DEF KeysExact, Kbd!KeysExact
  <2>1. ASSUME keys.attached PROVE keys.held = {keys.state[v] : v \in Kbd!Slots} \ {Kbd!NoKey}
    <3>1. KeysGood(keys) /\ keys.held \subseteq Kbd!Keys /\ keys.state \in [Kbd!Slots -> Kbd!Keys \cup {Kbd!NoKey}]
      BY <2>1 DEF KeysInv, KeysGood, KeyRecords
    <3>2. \A k \in keys.held : k \in {keys.state[v] : v \in Kbd!Slots} /\ k # Kbd!NoKey
      BY <3>1, KeyFacts DEF KeysGood
    <3>3. ASSUME NEW v \in Kbd!Slots, keys.state[v] # Kbd!NoKey PROVE keys.state[v] \in keys.held
      BY <3>1, <3>3 DEF KeysGood
    <3> QED BY <3>2, <3>3
  <2> QED BY <2>1 DEF KeysInv, Told
<1> QED BY <1>1, <1>2, KeysNext, PTL DEF Kbd!Spec

-----------------------------------------------------------------------------
(* NetDaemons.  The list of adapters is scanned one after the other, so    *)
(* what was found is known by induction over the part that was scanned.    *)

ScanType == [found : Nat, stop : BOOLEAN, failed : BOOLEAN]

NetFixedTypes == kind \in Net!Kinds /\ params \in Net!Params /\ adapters \in Seq(Net!Adapters)

LEMMA LookTypes ==
    ASSUME NetFixedTypes, NEW s \in ScanType, NEW n \in 1..Len(adapters)
    PROVE  Net!Look(s, n) \in ScanType
<1>1. adapters[n] \in Net!Adapters
  BY DEF NetFixedTypes
<1>2. Net!Bridged(s, n) \in ScanType
  BY <1>1 DEF Net!Bridged, Net!Found, ScanType, Net!Adapters
<1>3. Net!Ndis(s, n) \in ScanType
  BY <1>1 DEF Net!Ndis, Net!Failed, Net!Found, ScanType, Net!Adapters
<1>4. Net!Tap(s, n) \in ScanType
  BY <1>1 DEF Net!Tap, Net!Failed, Net!Found, ScanType, Net!Adapters
<1> QED BY <1>2, <1>3, <1>4 DEF Net!Look

\* The scan goes from one adapter to the next.
LEMMA ScannedSteps ==
    ASSUME NetFixedTypes
    PROVE  /\ Net!Scanned \in [0..Len(adapters) -> ScanType]
           /\ Net!Scanned[0] = Net!Found(0, FALSE)
           /\ \A n \in 1..Len(adapters) : Net!Scanned[n] = Net!Look(Net!Scanned[n - 1], n)
<1> DEFINE N == Len(adapters)
           s0 == Net!Found(0, FALSE)
           h == [p \in ScanType \X Nat |-> IF p[2] \in 1..N THEN Net!Look(p[1], p[2]) ELSE s0]
<1>1. N \in Nat /\ s0 \in ScanType /\ h \in [ScanType \X Nat -> ScanType]
  BY LookTypes DEF NetFixedTypes, Net!Found, ScanType
<1>a. \E g : IsRun(g, ScanType, s0, N, h)
  <2> HIDE DEF N, s0, h
  <2> QED BY <1>1, Recursion
<1>2. PICK g \in [0..N -> ScanType] : g[0] = s0 /\ \A i \in 1..N : g[i] = h[<<g[i - 1], i>>]
  <2> HIDE DEF N, s0, h
  <2> QED BY <1>a DEF IsRun
<1>3. \A i \in 1..N : g[i] = Net!Look(g[i - 1], i)
  <2> TAKE i \in 1..N
  <2>1. g[i - 1] \in ScanType
    BY <1>1, <1>2
  <2> QED BY <1>2, <2>1
<1>4. g = [n \in 0..N |-> IF n = 0 THEN s0 ELSE Net!Look(g[n - 1], n)]
  <2> DEFINE f == [n \in 0..N |-> IF n = 0 THEN s0 ELSE Net!Look(g[n - 1], n)]
  <2>1. ASSUME NEW n \in 0..N PROVE g[n] = f[n]
    <3>1. CASE n = 0 BY <1>2, <3>1
    <3>2. CASE n # 0
      <4>1. n \in 1..N BY <1>1, <3>2
      <4> QED BY <4>1, <3>2, <1>3
    <3> QED BY <3>1, <3>2
  <2> HIDE DEF s0, N
  <2> QED BY <1>2, <2>1
<1>5. Net!Scanned = [n \in 0..N |-> IF n = 0 THEN s0 ELSE Net!Look(Net!Scanned[n - 1], n)]
  BY <1>4 DEF Net!Scanned
<1> DEFINE c == Net!Scanned
<1> HIDE DEF c
<1>6. c = [n \in 0..N |-> IF n = 0 THEN s0 ELSE Net!Look(c[n - 1], n)]
  BY <1>5 DEF c
<1>7. c \in [0..N -> ScanType]
  <2> DEFINE S == {n \in Nat : n <= N => c[n] \in ScanType}
  <2>1. 0 \in S
    BY SMTT(30), <1>1, <1>6
  <2>2. ASSUME NEW n \in Nat, n \in S PROVE n + 1 \in S
    <3> SUFFICES ASSUME n + 1 <= N PROVE c[n + 1] \in ScanType
      OBVIOUS
    <3>1. n + 1 \in 1..N /\ c[n] \in ScanType /\ c[n + 1] = Net!Look(c[n], n + 1)
      BY <1>1, <1>6, <2>2
    <3> QED BY <3>1, LookTypes
  <2>3. Nat \subseteq S
    <3> HIDE DEF S
    <3> QED BY <2>1, <2>2, NatSets
  <2>4. \A n \in 0..N : c[n] \in ScanType
    BY <1>1, <2>3
  <2> QED BY <1>6, <2>4
<1> QED BY SMTT(30), <1>1, <1>6, <1>7 DEF c

\* What the scan of the first n adapters has to have found: nothing, when it failed; the first
\* of the exact name, or the first of all when no name is asked for, when it stopped; before,
\* the first that suits, where there is none of the exact name yet.
ScanRight(n, s) ==
    /\ s.failed => s.found = 0 /\ s.stop
    /\ s.stop /\ ~s.failed =>
         /\ s.found \in (IF params.name THEN Net!Exact ELSE Net!Suited)
         /\ \A j \in (IF params.name THEN Net!Exact ELSE Net!Suited) : s.found <= j
    /\ ~s.stop =>
         /\ \A j \in Net!Exact : params.name => n < j
         /\ \/ s.found = 0 /\ \A j \in Net!Suited : n < j
            \/ s.found \in Net!Suited /\ \A j \in Net!Suited : s.found <= j

LEMMA SuitedFacts ==
    ASSUME NetFixedTypes
    PROVE  /\ Net!Exact \subseteq Net!Suited /\ Net!Suited \subseteq 1..Len(adapters)
           /\ 1..Len(adapters) \subseteq Nat
           /\ \A i \in 1..Len(adapters) : adapters[i] \in Net!Adapters
BY DEF NetFixedTypes, Net!Exact, Net!Suited

\* A scan that goes on, at an adapter that does not suit, suits in part or suits.
LEMMA ScanSkips ==
    ASSUME NetFixedTypes, NEW n \in 1..Len(adapters), NEW s \in ScanType, ScanRight(n - 1, s), ~s.stop,
           n \notin Net!Suited
    PROVE  ScanRight(n, s)
BY SuitedFacts DEF ScanRight, ScanType

LEMMA ScanHits ==
    ASSUME NetFixedTypes, NEW n \in 1..Len(adapters), NEW s \in ScanType, ScanRight(n - 1, s), ~s.stop,
           n \in (IF params.name THEN Net!Exact ELSE Net!Suited), params.name \/ s.found = 0
    PROVE  ScanRight(n, Net!Found(n, TRUE))
BY SuitedFacts DEF ScanRight, ScanType, Net!Found

LEMMA ScanKeeps ==
    ASSUME NetFixedTypes, NEW n \in 1..Len(adapters), NEW s \in ScanType, ScanRight(n - 1, s), ~s.stop,
           params.name, n \in Net!Suited \ Net!Exact
    PROVE  /\ s.found # 0 => ScanRight(n, s)
           /\ s.found = 0 => ScanRight(n, Net!Found(n, FALSE))
<1> DEFINE S == Net!Suited
           E == Net!Exact
<1>1. /\ n \in Nat /\ E \subseteq S /\ S \subseteq 1..Len(adapters) /\ S \subseteq Nat /\ 0 \notin S
      /\ s.found \in Nat /\ n \in S
  BY SuitedFacts DEF ScanType, NetFixedTypes
<1>2. \A j \in E : n < j
  <2>1. \A j \in E : n - 1 < j /\ j # n
    BY DEF ScanRight
  <2> QED BY <1>1, <2>1
<1>3. CASE s.found # 0
  <2>1. s.found \in S /\ (\A j \in S : s.found <= j)
    BY <1>3 DEF ScanRight
  <2> QED BY <1>2, <1>3, <2>1 DEF ScanRight
<1>4. CASE s.found = 0
  <2>1. \A j \in S : n - 1 < j
    BY <1>1, <1>4 DEF ScanRight
  <2>2. \A j \in S : n <= j
    BY <1>1, <2>1
  <2> QED BY <1>1, <1>2, <1>4, <2>2 DEF ScanRight, Net!Found
<1> QED BY <1>3, <1>4

\* A scan for an adapter without a name has found none while it goes on.
ScanEmpty(s) == ~s.stop /\ (kind = "tap" \/ ~params.name) => s.found = 0

LEMMA ScanStep ==
    ASSUME NetFixedTypes, kind \in Net!Bridges \cup {"tap"},
           NEW n \in 1..Len(adapters), NEW s \in ScanType, ScanRight(n - 1, s), ScanEmpty(s)
    PROVE  ScanRight(n, Net!Look(s, n)) /\ ScanEmpty(Net!Look(s, n))
<1> DEFINE a == adapters[n]
<1>1. a \in Net!Adapters /\ n \in DOMAIN adapters /\ params.name \in BOOLEAN
  BY SuitedFacts DEF NetFixedTypes, Net!Params
<1>2. CASE s.stop
  BY <1>2 DEF Net!Look, ScanRight, ScanEmpty
<1>3. CASE ~s.stop
  <2>f. ScanRight(n, Net!Failed)
    BY DEF ScanRight, Net!Failed
  <2>s. /\ n \in Net!Suited <=>
             /\ a.connection = "named"
             /\ kind = "tap" => a.tap
             /\ params.name => a.name = "exact" \/ (kind \in Net!Bridges /\ a.name = "partial")
             /\ kind = "bridged" /\ ~params.name => a.address
        /\ n \in Net!Exact <=> n \in Net!Suited /\ a.name = "exact"
    BY <1>1 DEF Net!Suited, Net!Exact
  <2>k. n \in Net!Suited /\ params.name /\ n \notin Net!Exact => a.name = "partial"
    BY <2>s
  <2> HIDE DEF a
  <2>1. CASE kind = "bridged"
    <3>1. Net!Look(s, n) = Net!Bridged(s, n)
      BY <1>3, <2>1 DEF Net!Look
    <3>2. CASE n \notin Net!Suited
      <4>1. Net!Bridged(s, n) = s
        BY <1>1, <2>1, <2>s, <3>2 DEF Net!Bridged, Net!Adapters, a
      <4> QED BY <3>1, <4>1, <3>2, <1>3, ScanSkips
    <3>3. CASE n \in (IF params.name THEN Net!Exact ELSE Net!Suited)
      <4>1. Net!Bridged(s, n) = Net!Found(n, TRUE)
        BY <1>1, <2>1, <2>s, <3>3 DEF Net!Bridged, Net!Adapters, a
      <4>2. params.name \/ s.found = 0
        BY <1>3 DEF ScanEmpty
      <4>3. ScanRight(n, Net!Found(n, TRUE))
        BY <1>3, <3>3, <4>2, ScanHits
      <4> QED BY <3>1, <4>1, <4>3 DEF ScanEmpty, Net!Found
    <3>4. CASE params.name /\ n \in Net!Suited \ Net!Exact
      <4>1. Net!Bridged(s, n) = IF s.found = 0 THEN Net!Found(n, FALSE) ELSE s
        BY <1>1, <2>1, <2>s, <2>k, <3>4 DEF Net!Bridged, Net!Adapters, a
      <4>2. ScanRight(n, Net!Bridged(s, n))
        BY <1>3, <3>4, <4>1, ScanKeeps
      <4> QED BY <2>1, <3>1, <3>4, <4>2 DEF ScanEmpty
    <3> QED BY <3>2, <3>3, <3>4, <2>s
  <2>2. CASE kind = "ndis"
    <3>1. Net!Look(s, n) = Net!Ndis(s, n)
      BY <1>3, <2>2 DEF Net!Look
    <3>u. CASE a.connection = "unnamed"
      <4>1. Net!Ndis(s, n) = Net!Failed
        BY <3>u DEF Net!Ndis, a, Net!Failed
      <4> QED BY <3>1, <4>1, <2>f DEF ScanEmpty, Net!Failed
    <3>2. CASE n \notin Net!Suited /\ a.connection # "unnamed"
      <4>1. Net!Ndis(s, n) = s
        BY <1>1, <2>2, <2>s, <3>2 DEF Net!Ndis, Net!Adapters, Net!Bridges, a
      <4> QED BY <3>1, <4>1, <3>2, <1>3, ScanSkips
    <3>3. CASE n \in (IF params.name THEN Net!Exact ELSE Net!Suited)
      <4>1. Net!Ndis(s, n) = Net!Found(n, TRUE)
        BY <1>1, <2>2, <2>s, <3>3 DEF Net!Ndis, Net!Adapters, a
      <4>2. params.name \/ s.found = 0
        BY <1>3 DEF ScanEmpty
      <4>3. ScanRight(n, Net!Found(n, TRUE))
        BY <1>3, <3>3, <4>2, ScanHits
      <4> QED BY <3>1, <4>1, <4>3 DEF ScanEmpty, Net!Found
    <3>4. CASE params.name /\ n \in Net!Suited \ Net!Exact
      <4>1. Net!Ndis(s, n) = IF s.found = 0 THEN Net!Found(n, FALSE) ELSE s
        BY <1>1, <2>2, <2>s, <2>k, <3>4 DEF Net!Ndis, Net!Adapters, a
      <4>2. ScanRight(n, Net!Ndis(s, n))
        BY <1>3, <3>4, <4>1, ScanKeeps
      <4> QED BY <2>2, <3>1, <3>4, <4>2 DEF ScanEmpty
    <3> QED BY <3>u, <3>2, <3>3, <3>4, <2>s
  <2>3. CASE kind = "tap"
    <3>1. Net!Look(s, n) = Net!Tap(s, n)
      BY <1>3, <2>3 DEF Net!Look
    <3>u. CASE a.connection = "unnamed"
      <4>1. Net!Tap(s, n) = Net!Failed
        BY <3>u DEF Net!Tap, a, Net!Failed
      <4> QED BY <3>1, <4>1, <2>f DEF ScanEmpty, Net!Failed
    <3>2. CASE n \notin Net!Suited /\ a.connection # "unnamed"
      <4>1. Net!Tap(s, n) = s
        BY <1>1, <2>3, <2>s, <3>2 DEF Net!Tap, Net!Adapters, Net!Bridges, a
      <4> QED BY <3>1, <4>1, <3>2, <1>3, ScanSkips
    <3>3. CASE n \in (IF params.name THEN Net!Exact ELSE Net!Suited)
      <4>1. Net!Tap(s, n) = Net!Found(n, TRUE)
        BY <1>1, <2>3, <2>s, <3>3 DEF Net!Tap, Net!Adapters, a
      <4>2. params.name \/ s.found = 0
        BY <1>3, <2>3 DEF ScanEmpty
      <4>3. ScanRight(n, Net!Found(n, TRUE))
        BY <1>3, <3>3, <4>2, ScanHits
      <4> QED BY <3>1, <4>1, <4>3 DEF ScanEmpty, Net!Found
    <3> QED BY <3>u, <3>2, <3>3, <2>s, <2>3 DEF Net!Bridges
  <2> QED BY <2>1, <2>2, <2>3 DEF Net!Bridges
<1> QED BY <1>2, <1>3

LEMMA ScanEnds ==
    ASSUME NetFixedTypes, kind \in Net!Bridges \cup {"tap"}
    PROVE  ScanRight(Len(adapters), Net!Scanned[Len(adapters)])
<1> DEFINE c == Net!Scanned
           N == Len(adapters)
           S == {n \in Nat : n <= N => ScanRight(n, c[n]) /\ ScanEmpty(c[n])}
<1>1. N \in Nat
  BY DEF NetFixedTypes
<1>2. 0 \in S
  <2>1. c[0] = Net!Found(0, FALSE)
    BY ScannedSteps
  <2>2. ScanRight(0, Net!Found(0, FALSE))
    BY SuitedFacts DEF ScanRight, Net!Found
  <2> QED BY <2>1, <2>2 DEF ScanEmpty, Net!Found
<1>3. ASSUME NEW n \in Nat, n \in S PROVE n + 1 \in S
  <2> SUFFICES ASSUME n + 1 <= N PROVE ScanRight(n + 1, c[n + 1]) /\ ScanEmpty(c[n + 1])
    OBVIOUS
  <2>1. n + 1 \in 1..N /\ (n + 1) - 1 = n /\ n \in 0..N /\ ScanRight(n, c[n]) /\ ScanEmpty(c[n])
    BY <1>1, <1>3
  <2>2. c[n] \in ScanType /\ c[n + 1] = Net!Look(c[n], n + 1)
    BY <2>1, ScannedSteps
  <2> HIDE DEF c
  <2> QED BY <2>1, <2>2, ScanStep
<1>4. Nat \subseteq S
  <2> HIDE DEF S
  <2> QED BY <1>2, <1>3, NatSets
<1> QED BY <1>1, <1>4

\* The adapter a program expects.
Expected == IF params.name /\ Net!Exact # {} THEN Net!Min(Net!Exact) ELSE Net!Min(Net!Suited)

LEMMA SelectedIsExpected ==
    ASSUME NetFixedTypes, kind \in Net!Bridges \cup {"tap"}, Net!Selected # 0
    PROVE  Net!Selected = Expected
<1> DEFINE s == Net!Scanned[Len(adapters)]
           x == s.found
<1>1. Net!Selected = x
  BY DEF Net!Selected, Net!Bridges
<1>2. ScanRight(Len(adapters), s)
  BY ScanEnds
<1> HIDE DEF s
<1>3. Net!Exact \in SUBSET Nat /\ Net!Suited \in SUBSET Nat /\ Len(adapters) \in Nat
  BY SuitedFacts DEF NetFixedTypes
<1>4. ~s.failed
  BY <1>1, <1>2 DEF ScanRight
<1>5. CASE s.stop /\ params.name
  <2>1. x \in Net!Exact /\ \A j \in Net!Exact : x <= j
    BY <1>2, <1>4, <1>5 DEF ScanRight
  <2> QED BY <1>1, <1>3, <1>5, <2>1, MinFacts DEF Expected
<1>6. CASE s.stop /\ ~params.name
  <2>1. x \in Net!Suited /\ \A j \in Net!Suited : x <= j
    BY <1>2, <1>4, <1>6 DEF ScanRight
  <2> QED BY <1>1, <1>3, <1>6, <2>1, MinFacts DEF Expected
<1>7. CASE ~s.stop
  <2>1. params.name => Net!Exact = {}
    <3>1. \A j \in Net!Exact : params.name => Len(adapters) < j /\ j <= Len(adapters)
      BY <1>2, <1>7, SuitedFacts DEF ScanRight, NetFixedTypes
    <3> QED BY <1>3, <3>1
  <2>2. x \in Net!Suited /\ \A j \in Net!Suited : x <= j
    BY <1>1, <1>2, <1>7 DEF ScanRight
  <2> QED BY <1>1, <1>3, <2>1, <2>2, MinFacts DEF Expected
<1> QED BY <1>5, <1>6, <1>7

Serving == npc \in {"attach", "ready", "run", "reopen", "resume"}

NetInv ==
    /\ NetFixedTypes
    /\ npc \in {"parse", "search", "attach", "ready", "run", "reopen", "resume", "done"}
    /\ thread \in {"none", "read", "mark", "suspend", "stopped", "clear"}
    /\ adhandle \in BOOLEAN /\ raw \in BOOLEAN /\ suspended \in BOOLEAN /\ stale \in BOOLEAN
    /\ npc \in {"parse", "search", "attach"} => attached = <<>>
    /\ npc \in {"search"} \/ Serving => Net!Accepts
    /\ attached # <<>> => Net!Accepts /\ attached = <<params.inst, Net!Unit>>
    /\ (Serving \/ attached # <<>>) /\ kind \in Net!Bridges \cup {"tap"} => chosen = Expected
    /\ npc \in {"attach", "ready", "run", "resume"} /\ kind \in {"bridged", "tap", "linux tap"}
         => adhandle
    /\ npc \in {"reopen", "resume"} =>
         kind = "bridged" /\ (thread \in {"suspend", "stopped"} \/ stale)
    /\ thread # "none" => kind = "bridged" /\ npc \in {"run", "reopen", "resume", "done"}
    /\ suspended <=> thread \in {"suspend", "stopped", "clear"}
    /\ raw => npc = "run" /\ kind = "linux serial"

LEMMA NetFixed ==
    ASSUME UNCHANGED <<kind, params, adapters>>
    PROVE  NetFixedTypes' = NetFixedTypes /\ Expected' = Expected /\ Net!Accepts' = Net!Accepts
           /\ Net!Unit' = Net!Unit
BY DEF NetFixedTypes, Expected, Net!Accepts, Net!Unit, Net!Exact, Net!Suited, Net!UnitFits,
       Net!BridgedAccepts, Net!NdisAccepts, Net!SlirpAccepts, Net!BaseAccepts, Net!SerialAccepts,
       Net!LinuxSerialAccepts

LEMMA NetNext == NetInv /\ [Net!Next]_(Net!netdVars) => NetInv'
<1> SUFFICES ASSUME NetInv, [Net!Next]_(Net!netdVars) PROVE NetInv'
  OBVIOUS
<1>0. UNCHANGED <<kind, params, adapters>>
  BY DEF Net!Next, Net!netdVars, Net!Fixed, Net!Parse, Net!Search, Net!Attach, Net!Ready, Net!Leave,
         Net!ThreadReads, Net!ThreadMarks, Net!ThreadSuspends, Net!ThreadClears, Net!Offline,
         Net!Reopen, Net!Resume
<1>f. NetFixedTypes' = NetFixedTypes /\ Expected' = Expected /\ Net!Accepts' = Net!Accepts
      /\ Net!Unit' = Net!Unit
  BY <1>0, NetFixed
<1> USE <1>0, <1>f DEF NetInv, Serving
<1>1. CASE Net!Parse
  BY <1>1 DEF Net!Parse, Net!NoBridge, Net!Bridges
<1>2. CASE Net!Search
  <2>1. chosen' # 0 /\ kind \in Net!Bridges \cup {"tap"} => chosen' = Expected
    BY <1>2, SelectedIsExpected DEF Net!Search
  <2> QED BY <1>2, <2>1 DEF Net!Search, Net!NoBridge
<1>3. CASE Net!Attach
  BY <1>3 DEF Net!Attach, Net!NoBridge
<1>4. CASE Net!Ready
  <2>1. PICK runs \in BOOLEAN :
         /\ npc' = IF runs THEN "run" ELSE "done"
         /\ \/ Net!SerialReady(runs) \/ Net!LinuxSerialReady(runs) \/ Net!BridgedReady(runs)
            \/ Net!NdisReady(runs) \/ Net!SlirpReady(runs) \/ Net!TapReady(runs)
    BY <1>4 DEF Net!Ready, Net!Serves
  <2>2. UNCHANGED <<chosen, adhandle, attached, suspended, tries, stale>> /\ npc = "ready" /\ ~raw
        /\ thread = "none" /\ ~suspended
    BY <1>4 DEF Net!Ready
  <2>3. CASE Net!LinuxSerialReady(runs)
    BY <2>1, <2>2, <2>3 DEF Net!LinuxSerialReady, Net!Bridges
  <2>4. CASE Net!BridgedReady(runs)
    BY <2>1, <2>2, <2>4 DEF Net!BridgedReady
  <2>5. CASE Net!SerialReady(runs) \/ Net!NdisReady(runs) \/ Net!SlirpReady(runs) \/ Net!TapReady(runs)
    <3>1. UNCHANGED <<raw, thread>>
      BY <2>5 DEF Net!SerialReady, Net!NdisReady, Net!SlirpReady, Net!TapReady
    <3> QED BY <2>1, <2>2, <3>1
  <2> QED BY <2>1, <2>3, <2>4, <2>5
<1>5. CASE Net!Leave
  BY <1>5 DEF Net!Leave, Net!NoBridge
<1>6. CASE Net!ThreadReads \/ Net!ThreadMarks \/ Net!ThreadSuspends \/ Net!ThreadClears
  <2>1. CASE Net!ThreadReads BY <2>1 DEF Net!ThreadReads
  <2>2. CASE Net!ThreadMarks BY <2>2 DEF Net!ThreadMarks
  <2>3. CASE Net!ThreadSuspends BY <2>3 DEF Net!ThreadSuspends
  <2>4. CASE Net!ThreadClears BY <2>4 DEF Net!ThreadClears
  <2> QED BY <1>6, <2>1, <2>2, <2>3, <2>4
<1>7. CASE Net!Offline
  BY <1>7 DEF Net!Offline
<1>8. CASE Net!Reopen
  BY <1>8 DEF Net!Reopen
<1>9. CASE Net!Resume
  BY <1>9 DEF Net!Resume
<1>10. CASE UNCHANGED Net!netdVars
  BY <1>10 DEF Net!netdVars
<1> QED BY <1>1, <1>2, <1>3, <1>4, <1>5, <1>6, <1>7, <1>8, <1>9, <1>10 DEF Net!Next

LEMMA NetInvIsExact == NetInv => NetExact
<1> SUFFICES ASSUME NetInv PROVE NetExact
  OBVIOUS
<1> USE DEF NetInv, Serving
<1>a. MaxUnits \in Nat \ {0}
  BY HostPartsAssumption DEF HostPartsAssumption, Net!StartsAssumption
<1>b. MaxUnits \in Nat /\ 0 \in 0..(MaxUnits - 1)
  BY ONLY <1>a
<1>c. Net!Accepts => params.inst # Net!Absent /\ Net!UnitFits
  BY DEF Net!Accepts, Net!BridgedAccepts, Net!NdisAccepts, Net!SlirpAccepts, Net!BaseAccepts,
         Net!SerialAccepts, Net!LinuxSerialAccepts
<1>d. Net!UnitFits => Net!Unit \in 0..(MaxUnits - 1)
  BY <1>b DEF Net!UnitFits, Net!Unit
<1>1. attached # <<>> => attached[1] # Net!Absent /\ attached[2] \in 0..(MaxUnits - 1)
  <2>1. attached # <<>> =>
          attached = <<params.inst, Net!Unit>> /\ params.inst # Net!Absent /\ Net!Unit \in 0..(MaxUnits - 1)
    BY <1>c, <1>d
  <2> QED BY ONLY <2>1
<1>2. attached # <<>> /\ kind \in Net!Bridges \cup {"tap"} => chosen = Expected
  OBVIOUS
<1> QED BY <1>1, <1>2 DEF NetExact, Net!NetExact, Expected

\* A network or serial daemon attaches to what it was told, with the adapter a user would expect,
\* whatever adapters there are; its main loop waits with the adapter open, and its thread reads
\* one that is open, however often it goes offline.
THEOREM NetStaysExact == Net!Spec => []NetExact
<1>1. Net!Init => NetInv
  BY HostPartsAssumption DEF HostPartsAssumption, Net!Init, NetInv, Serving, NetFixedTypes, Net!StartsAssumption
<1> QED BY <1>1, NetNext, NetInvIsExact, PTL DEF Net!Spec

-----------------------------------------------------------------------------
(* DirListing.  A reader is after some of the entries, and its position is *)
(* the bytes of these: no other count of entries has as many.              *)

ListTypes ==
    /\ dir \subseteq Entries
    /\ names \in [taken : BOOLEAN, list : Seq(Entries)]
    /\ refcount \in Nat
    /\ reader \in [Readers -> [open : BOOLEAN, pos : Nat, got : Seq(Entries), end : BOOLEAN]]

\* Where each open file is in the list.
ReaderExact ==
    \A r \in Readers : reader[r].open =>
        /\ Len(reader[r].got) <= Len(names.list)
        /\ reader[r].got = SubSeq(names.list, 1, Len(reader[r].got))
        /\ reader[r].pos = List!Bytes[Len(reader[r].got)]
        /\ reader[r].end => Len(reader[r].got) = Len(names.list)

ListCounted ==
    /\ refcount = Cardinality({r \in Readers : reader[r].open})
    /\ names.taken <=> refcount > 0
    /\ ~names.taken => names.list = <<>>

ListInv == ListTypes /\ ListCounted /\ ReaderExact

ListSizes == IsFiniteSet(Readers) /\ IsFiniteSet(Entries) /\ BufSize \in Nat /\ \A e \in Entries : Size[e] \in 1..BufSize

LEMMA ListSizesFit == ListSizes
BY HostPartsAssumption DEF HostPartsAssumption, List!SizesFit, ListSizes, IsFiniteSet, List!IsFiniteSet

\* The bytes of a list, entry by entry.
LEMMA BytesSteps ==
    ASSUME ListTypes
    PROVE  /\ List!Bytes \in [0..Len(names.list) -> Nat]
           /\ List!Bytes[0] = 0
           /\ \A n \in 1..Len(names.list) :
                List!Bytes[n] = List!Bytes[n - 1] + Size[names.list[n]]
<1> DEFINE N == Len(names.list)
           h == [p \in Nat \X Nat |-> IF p[2] \in 1..N THEN p[1] + Size[names.list[p[2]]] ELSE 0]
<1>1. N \in Nat /\ \A i \in 1..N : names.list[i] \in Entries /\ Size[names.list[i]] \in 1..BufSize
  BY ListSizesFit DEF ListTypes, ListSizes
<1>2. h \in [Nat \X Nat -> Nat]
  BY <1>1, ListSizesFit DEF ListSizes
<1>3. \E g : IsRun(g, Nat, 0, N, h)
  <2> HIDE DEF N, h
  <2> QED BY <1>1, <1>2, Recursion
<1>4. PICK g \in [0..N -> Nat] : g[0] = 0 /\ \A i \in 1..N : g[i] = h[<<g[i - 1], i>>]
  <2> HIDE DEF N, h
  <2> QED BY <1>3 DEF IsRun
<1>5. \A i \in 1..N : g[i] = g[i - 1] + Size[names.list[i]]
  <2> TAKE i \in 1..N
  <2>1. g[i - 1] \in Nat /\ i \in Nat
    BY <1>1, <1>4
  <2> QED BY <1>4, <2>1
<1>6. g = [n \in 0..N |-> IF n = 0 THEN 0 ELSE g[n - 1] + Size[names.list[n]]]
  <2> DEFINE f == [n \in 0..N |-> IF n = 0 THEN 0 ELSE g[n - 1] + Size[names.list[n]]]
  <2>1. ASSUME NEW n \in 0..N PROVE g[n] = f[n]
    <3>1. CASE n = 0 BY <1>4, <3>1
    <3>2. CASE n # 0
      <4>1. n \in 1..N
        BY <1>1, <3>2
      <4> QED BY <1>5, <3>2, <4>1
    <3> QED BY <3>1, <3>2
  <2> HIDE DEF N
  <2>2. f \in [0..N -> {f[i] : i \in 0..N}] /\ DOMAIN f = 0..N /\ DOMAIN g = 0..N
    BY <1>4
  <2> QED BY ONLY <2>1, <2>2, <1>4
<1>7. List!Bytes = [n \in 0..N |-> IF n = 0 THEN 0 ELSE List!Bytes[n - 1] + Size[names.list[n]]]
  <2> HIDE DEF h
  <2> QED BY <1>6 DEF List!Bytes
<1> DEFINE c == List!Bytes
<1> HIDE DEF c
<1>8. c = [n \in 0..N |-> IF n = 0 THEN 0 ELSE c[n - 1] + Size[names.list[n]]]
  BY <1>7 DEF c
<1>9. c \in [0..N -> Nat]
  <2> DEFINE S == {n \in Nat : n <= N => c[n] \in Nat}
  <2>1. 0 \in S
    BY <1>1, <1>8
  <2>2. ASSUME NEW n \in Nat, n \in S PROVE n + 1 \in S
    <3> SUFFICES ASSUME n + 1 <= N PROVE c[n + 1] \in Nat
      OBVIOUS
    <3>1. n + 1 \in 1..N /\ c[n] \in Nat /\ c[n + 1] = c[n] + Size[names.list[n + 1]]
      BY <1>1, <1>8, <2>2
    <3> QED BY <1>1, <3>1
  <2>3. Nat \subseteq S
    <3> HIDE DEF S
    <3> QED BY <2>1, <2>2, NatSets
  <2>4. \A n \in 0..N : c[n] \in Nat
    BY <1>1, <2>3
  <2> QED BY <1>8, <2>4
<1> QED BY SMTT(30), <1>1, <1>8, <1>9 DEF c

\* More entries have more bytes.
LEMMA BytesGrow ==
    ASSUME ListTypes, NEW i \in 0..Len(names.list), NEW j \in 0..Len(names.list), i < j
    PROVE  List!Bytes[i] < List!Bytes[j]
<1> DEFINE N == Len(names.list)
           c == List!Bytes
           S == {n \in Nat : i < n /\ n <= N => c[i] < c[n]}
<1>1. N \in Nat /\ \A k \in 1..N : names.list[k] \in Entries /\ Size[names.list[k]] \in 1..BufSize
  BY ListSizesFit DEF ListTypes, ListSizes
<1>2. c \in [0..N -> Nat] /\ \A n \in 1..N : c[n] = c[n - 1] + Size[names.list[n]]
  BY BytesSteps
<1> HIDE DEF c
<1>3. 0 \in S
  BY <1>1
<1>4. ASSUME NEW n \in Nat, n \in S PROVE n + 1 \in S
  <2> SUFFICES ASSUME i < n + 1, n + 1 <= N PROVE c[i] < c[n + 1]
    OBVIOUS
  <2>1. n + 1 \in 1..N /\ n \in 0..N /\ (i = n \/ c[i] < c[n])
    BY <1>1, <1>4
  <2>2. c[n + 1] = c[n] + Size[names.list[n + 1]] /\ Size[names.list[n + 1]] \in 1..BufSize
    BY <1>1, <1>2, <2>1
  <2>3. c[i] \in Nat /\ c[n] \in Nat
    BY <1>2, <2>1
  <2> QED BY <2>1, <2>2, <2>3, ListSizesFit DEF ListSizes
<1>5. Nat \subseteq S
  <2> HIDE DEF S
  <2> QED BY <1>3, <1>4, NatSets
<1> QED BY <1>1, <1>5 DEF c

\* The entries skipped to get to a position are those a reader is after.
LEMMA SkippedIs ==
    ASSUME ListTypes, NEW k \in 0..Len(names.list)
    PROVE  List!Skipped(List!Bytes[k]) = k
<1> DEFINE N == Len(names.list)
           c == List!Bytes
<1>1. N \in Nat /\ DOMAIN names.list = 1..N
  BY DEF ListTypes
<1>2. c \in [0..N -> Nat] /\ \A i, j \in 0..N : i < j => c[i] < c[j]
  BY BytesSteps, BytesGrow
<1> HIDE DEF c
<1>3. {i \in 1..N : c[i - 1] < c[k]} = 1..k
  <2>1. ASSUME NEW i \in 1..N PROVE c[i - 1] < c[k] <=> i <= k
    <3>1. i - 1 \in 0..N /\ c[i - 1] \in Nat /\ c[k] \in Nat
      BY <1>1, <1>2
    <3>2. CASE i - 1 < k BY <1>2, <3>1, <3>2
    <3>3. CASE i - 1 = k BY <3>1, <3>3
    <3>4. CASE k < i - 1 BY <1>2, <3>1, <3>4
    <3> QED BY <3>1, <3>2, <3>3, <3>4
  <2> QED BY <1>1, <2>1
<1>4. Cardinality(1..k) = k
  BY FS_Interval
<1> QED BY <1>1, <1>3, <1>4 DEF c, List!Skipped, Cardinality, List!Cardinality

\* A reader is given the entries that come next.
LEMMA SubSeqNext ==
    ASSUME NEW A, NEW s \in Seq(A), NEW k \in Nat, NEW n \in Nat, k + n <= Len(s)
    PROVE  SubSeq(s, 1, k) \o SubSeq(s, k + 1, k + n) = SubSeq(s, 1, k + n)
           /\ Len(SubSeq(s, 1, k + n)) = k + n /\ SubSeq(s, 1, k + n) \in Seq(A)
OBVIOUS

\* One reader more, and one less.
LEMMA ReaderOpens ==
    ASSUME ListInv, NEW r \in Readers, ~reader[r].open, reader'[r].open,
           \A q \in Readers \ {r} : reader'[q] = reader[q]
    PROVE  Cardinality({q \in Readers : reader'[q].open}) = refcount + 1
<1>1. {q \in Readers : reader'[q].open} = {q \in Readers : reader[q].open} \cup {r}
  OBVIOUS
<1>2. IsFiniteSet({q \in Readers : reader[q].open})
  BY ListSizesFit, FS_Subset DEF ListSizes
<1> QED BY <1>1, <1>2, FS_AddElement DEF ListInv, ListCounted

LEMMA ReaderCloses ==
    ASSUME ListInv, NEW r \in Readers, reader[r].open, ~reader'[r].open,
           \A q \in Readers \ {r} : reader'[q] = reader[q]
    PROVE  /\ Cardinality({q \in Readers : reader'[q].open}) = refcount - 1
           /\ refcount > 0
           /\ refcount = 1 => \A q \in Readers : ~reader'[q].open
<1> DEFINE O == {q \in Readers : reader[q].open}
<1>1. {q \in Readers : reader'[q].open} = O \ {r}
  OBVIOUS
<1>2. IsFiniteSet(O) /\ IsFiniteSet(O \ {r})
  BY ListSizesFit, FS_Subset DEF ListSizes
<1>3. Cardinality(O \ {r}) = refcount - 1
  BY <1>2, FS_RemoveElement DEF ListInv, ListCounted
<1>4. Cardinality(O \ {r}) \in Nat
  BY <1>2, FS_CardinalityType
<1>5. refcount = 1 => O \ {r} = {}
  BY <1>2, <1>3, FS_EmptySet
<1>6. Cardinality({q \in Readers : reader'[q].open}) = refcount - 1
  BY <1>1, <1>3
<1>7. refcount = 1 => \A q \in Readers : ~reader'[q].open
  BY <1>1, <1>5
<1>8. refcount > 0
  BY <1>3, <1>4 DEF ListInv, ListTypes
<1> QED BY <1>6, <1>7, <1>8

LEMMA BytesStart == ListTypes => List!Bytes[0] = 0
BY BytesSteps

LEMMA BytesStartNext == ListTypes' => (List!Bytes[0] = 0)'
<1>1. ListTypes => List!Bytes[0] = 0
  BY BytesStart
<1> QED BY <1>1, PTL

LEMMA ListInit == List!Init => ListInv
<1> SUFFICES ASSUME List!Init PROVE ListInv
  OBVIOUS
<1>1. {r \in Readers : reader[r].open} = {}
  BY DEF List!Init, List!Closed
<1>2. Cardinality({}) = 0
  BY FS_EmptySet
<1>3. names = [taken |-> FALSE, list |-> <<>>] /\ refcount = 0 /\ dir \subseteq Entries
      /\ reader = [r \in Readers |-> [open |-> FALSE, pos |-> 0, got |-> <<>>, end |-> FALSE]]
  BY DEF List!Init, List!Closed, List!NoList
<1>4. ListTypes
  BY <1>3 DEF ListTypes
<1>5. ListCounted
  <2>1. refcount = 0 /\ names.list = <<>> /\ ~names.taken
    BY <1>3
  <2>2. refcount = Cardinality({r \in Readers : reader[r].open})
    BY <1>1, <1>2, <2>1
  <2>3. ~(refcount > 0)
    BY <2>1
  <2> QED BY <2>1, <2>2, <2>3 DEF ListCounted
<1>6. ReaderExact
  BY <1>3 DEF ReaderExact
<1> QED BY <1>4, <1>5, <1>6 DEF ListInv

LEMMA ListOpen ==
    ASSUME ListInv, NEW r \in Readers, List!Open(r)
    PROVE  ListInv'
<1> USE DEF ListInv
<1>1. /\ ~reader[r].open /\ dir' = dir
      /\ reader' = [reader EXCEPT ![r] = [open |-> TRUE, pos |-> 0, got |-> <<>>, end |-> FALSE]]
  BY DEF List!Open, List!AtStart
<1>2. reader'[r].open /\ \A q \in Readers \ {r} : reader'[q] = reader[q]
  BY <1>1 DEF ListTypes
<1>3. Cardinality({q \in Readers : reader'[q].open}) = refcount + 1
  BY <1>1, <1>2, ReaderOpens
<1>4. /\ names.taken => names' = names /\ refcount' = refcount + 1
      /\ ~names.taken => names'.taken /\ refcount' = 1 /\ names' \in [taken : BOOLEAN, list : Seq(Entries)]
  <2>1. CASE names.taken
    BY <2>1 DEF List!Open
  <2>2. CASE ~names.taken
    <3>1. PICK list \in List!SetToSeqs(dir) : List!Getdir(list)
      BY <2>2 DEF List!Open
    <3>2. list \in Seq(Entries)
      <4>1. IsFiniteSet(dir)
        BY ListSizesFit, FS_Subset DEF ListSizes, ListTypes
      <4>2. Cardinality(dir) \in Nat
        BY <4>1, FS_CardinalityType
      <4>3. list \in [1..Cardinality(dir) -> dir]
        BY <3>1 DEF List!SetToSeqs, Cardinality, List!Cardinality
      <4>4. list \in [1..Cardinality(dir) -> Entries]
        BY <4>3 DEF ListTypes
      <4> QED BY <4>2, <4>4
    <3> QED BY <3>1, <3>2, <2>2 DEF List!Getdir
  <2> QED BY <2>1, <2>2
<1>5. ~names.taken => refcount = 0 /\ \A q \in Readers : ~reader[q].open
  <2> SUFFICES ASSUME ~names.taken, NEW q \in Readers, reader[q].open PROVE FALSE
    BY DEF ListCounted, ListTypes
  <2>1. IsFiniteSet({p \in Readers : reader[p].open})
    BY ListSizesFit, FS_Subset DEF ListSizes
  <2>2. Cardinality({p \in Readers : reader[p].open}) = 0
    BY DEF ListCounted, ListTypes
  <2>3. {p \in Readers : reader[p].open} = {}
    BY <2>1, <2>2, FS_EmptySet
  <2> QED BY <2>3
<1>6. ListTypes'
  BY <1>1, <1>4 DEF ListTypes
<1>7. ListCounted'
  BY <1>3, <1>4, <1>5 DEF ListCounted, ListTypes
<1>8. ReaderExact'
  <2> SUFFICES ASSUME NEW q \in Readers, reader'[q].open
               PROVE  /\ Len(reader'[q].got) <= Len(names'.list)
                      /\ reader'[q].got = SubSeq(names'.list, 1, Len(reader'[q].got))
                      /\ reader'[q].pos = (List!Bytes')[Len(reader'[q].got)]
                      /\ reader'[q].end => Len(reader'[q].got) = Len(names'.list)
    BY DEF ReaderExact
  <2>1. CASE q = r
    <3>1. reader'[q] = [open |-> TRUE, pos |-> 0, got |-> <<>>, end |-> FALSE]
      BY <1>1, <2>1 DEF ListTypes
    <3>2. List!Bytes'[0] = 0
      BY <1>6, BytesStartNext
    <3> QED BY <3>1, <3>2, <1>6 DEF ListTypes
  <2>2. CASE q # r
    <3>1. reader'[q] = reader[q] /\ names' = names
      BY <1>2, <1>4, <1>5, <2>2
    <3>2. List!Bytes' = List!Bytes
      BY <3>1 DEF List!Bytes
    <3> QED BY <3>1, <3>2 DEF ReaderExact
  <2> QED BY <2>1, <2>2
<1> QED BY <1>6, <1>7, <1>8

LEMMA ListRead ==
    ASSUME ListInv, NEW r \in Readers, NEW n \in Nat, List!Read(r, n)
    PROVE  ListInv'
<1> USE DEF ListInv
<1> DEFINE k == Len(reader[r].got)
           L == names.list
<1>1. ListTypes /\ k \in 0..Len(L) /\ L \in Seq(Entries) /\ Len(L) \in Nat
      /\ reader[r].got \in Seq(Entries) /\ reader[r].pos \in Nat
      /\ reader[r].open /\ ~reader[r].end
  BY DEF ListTypes, ReaderExact, List!Read
<1>2. reader[r].got = SubSeq(L, 1, k) /\ reader[r].pos = List!Bytes[k]
  BY <1>1 DEF ReaderExact
<1>3. List!Skipped(reader[r].pos) = k
  BY <1>1, <1>2, SkippedIs
<1>4. /\ List!Fit(k, n) /\ (n = 0 => ~List!Fit(k, 1))
      /\ reader' = [reader EXCEPT
           ![r].got = @ \o SubSeq(L, k + 1, k + n),
           ![r].pos = @ + List!Bytes[k + n] - List!Bytes[k],
           ![r].end = ~List!Fit(k, 1)]
      /\ dir' = dir /\ names' = names /\ refcount' = refcount
  BY <1>3 DEF List!Read
<1>5. k + n \in 0..Len(L) /\ List!Bytes[k] \in Nat /\ List!Bytes[k + n] \in Nat
  BY <1>1, <1>4, BytesSteps DEF List!Fit
<1> DEFINE G == reader[r].got \o SubSeq(L, k + 1, k + n)
           P == reader[r].pos + List!Bytes[k + n] - List!Bytes[k]
           E == ~List!Fit(k, 1)
<1>a. G = SubSeq(L, 1, k + n) /\ Len(G) = k + n /\ G \in Seq(Entries)
  <2>1. L \in Seq(Entries) /\ k \in Nat /\ k + n <= Len(L)
    BY <1>1, <1>5
  <2> HIDE DEF k, L
  <2>2. SubSeq(L, 1, k) \o SubSeq(L, k + 1, k + n) = SubSeq(L, 1, k + n)
        /\ Len(SubSeq(L, 1, k + n)) = k + n /\ SubSeq(L, 1, k + n) \in Seq(Entries)
    BY <2>1, SubSeqNext
  <2> QED BY <1>2, <2>2
<1>b. P = List!Bytes[k + n]
  <2> HIDE DEF k, L
  <2> QED BY <1>2, <1>5
<1>c. E \in BOOLEAN
  BY DEF List!Fit
<1>d. reader' = [reader EXCEPT ![r].got = G, ![r].pos = P, ![r].end = E]
  BY <1>4
<1>6. /\ reader'[r].got = SubSeq(L, 1, k + n) /\ Len(reader'[r].got) = k + n
      /\ reader'[r].pos = List!Bytes[k + n] /\ reader'[r].open
      /\ reader'[r].end <=> E
      /\ reader'[r].got \in Seq(Entries)
  <2> HIDE DEF k, L, G, P, E
  <2> QED BY <1>1, <1>a, <1>b, <1>c, <1>d DEF ListTypes
<1>7. \A q \in Readers \ {r} : reader'[q] = reader[q]
  BY <1>4 DEF ListTypes
<1>9. ListTypes'
  <2>1. reader' \in [Readers -> [open : BOOLEAN, pos : Nat, got : Seq(Entries), end : BOOLEAN]]
    <3>1. P \in Nat
      BY <1>5, <1>b
    <3> HIDE DEF G, P, E
    <3> QED BY ZenonT(40), <3>1, <1>a, <1>c, <1>d, <1>1 DEF ListTypes
  <2> QED BY <1>1, <1>4, <2>1 DEF ListTypes
<1>10. ListCounted'
  <2>1. {q \in Readers : reader'[q].open} = {q \in Readers : reader[q].open}
    BY <1>1, <1>6, <1>7
  <2> QED BY <1>4, <2>1 DEF ListCounted
<1>11. List!Bytes' = List!Bytes
  BY <1>4 DEF List!Bytes
<1>12. ~List!Fit(k, 1) => n = 0 /\ k = Len(L)
  <2>1. CASE k = Len(L)
    BY <1>1, <1>4, <2>1 DEF List!Fit
  <2>2. CASE k # Len(L)
    <3>1. k + 1 \in 1..Len(L) /\ L[k + 1] \in Entries
      BY <1>1, <2>2
    <3>2. List!Bytes[k + 1] = List!Bytes[k] + Size[L[k + 1]] /\ Size[L[k + 1]] \in 1..BufSize
      <4>1. (k + 1) - 1 = k
        BY <1>1
      <4> QED BY <1>1, <3>1, <4>1, BytesSteps, ListSizesFit DEF ListSizes
    <3> QED BY <1>1, <1>5, <3>1, <3>2, ListSizesFit DEF List!Fit, ListSizes
  <2> QED BY <2>1, <2>2
<1>13. ReaderExact'
  <2> SUFFICES ASSUME NEW q \in Readers, reader'[q].open
               PROVE  /\ Len(reader'[q].got) <= Len(L)
                      /\ reader'[q].got = SubSeq(L, 1, Len(reader'[q].got))
                      /\ reader'[q].pos = List!Bytes[Len(reader'[q].got)]
                      /\ reader'[q].end => Len(reader'[q].got) = Len(L)
    BY <1>4, <1>11 DEF ReaderExact
  <2>1. CASE q = r
    <3>1. k + n <= Len(L)
      BY <1>1, <1>5
    <3>2. reader'[q].end => k + n = Len(L)
      <4>1. ASSUME reader'[q].end PROVE k + n = Len(L)
        <5>1. E
          BY <1>6, <2>1, <4>1
        <5> QED BY <1>1, <1>12, <5>1
      <4> QED BY <4>1
    <3> HIDE DEF k, L
    <3> QED BY <1>6, <2>1, <3>1, <3>2
  <2>2. CASE q # r
    BY <1>7, <2>2 DEF ReaderExact
  <2> QED BY <2>1, <2>2
<1> QED BY <1>9, <1>10, <1>13

LEMMA ListRewind ==
    ASSUME ListInv, NEW r \in Readers, List!Rewind(r)
    PROVE  ListInv'
<1> USE DEF ListInv
<1>1. /\ reader[r].open /\ dir' = dir /\ names' = names /\ refcount' = refcount
      /\ reader' = [reader EXCEPT ![r] = [open |-> TRUE, pos |-> 0, got |-> <<>>, end |-> FALSE]]
  BY DEF List!Rewind, List!AtStart
<1>2. reader'[r] = [open |-> TRUE, pos |-> 0, got |-> <<>>, end |-> FALSE]
      /\ \A q \in Readers \ {r} : reader'[q] = reader[q]
  BY <1>1 DEF ListTypes
<1>3. ListTypes'
  BY <1>1 DEF ListTypes
<1>4. ListCounted'
  <2>1. {q \in Readers : reader'[q].open} = {q \in Readers : reader[q].open}
    BY <1>1, <1>2
  <2> QED BY <1>1, <2>1 DEF ListCounted
<1>5. List!Bytes' = List!Bytes
  BY <1>1 DEF List!Bytes
<1>6. ReaderExact'
  <2> SUFFICES ASSUME NEW q \in Readers, reader'[q].open
               PROVE  /\ Len(reader'[q].got) <= Len(names.list)
                      /\ reader'[q].got = SubSeq(names.list, 1, Len(reader'[q].got))
                      /\ reader'[q].pos = List!Bytes[Len(reader'[q].got)]
                      /\ reader'[q].end => Len(reader'[q].got) = Len(names.list)
    BY <1>1, <1>5 DEF ReaderExact
  <2>1. CASE q = r
    <3>1. reader'[q].got = <<>> /\ reader'[q].pos = 0 /\ ~reader'[q].end
      BY <1>2, <2>1
    <3>2. names.list \in Seq(Entries) /\ List!Bytes[0] = 0
      BY BytesStart DEF ListTypes
    <3> QED BY <3>1, <3>2
  <2>2. CASE q # r
    BY <1>2, <2>2 DEF ReaderExact
  <2> QED BY <2>1, <2>2
<1> QED BY <1>3, <1>4, <1>6

LEMMA ListRelease ==
    ASSUME ListInv, NEW r \in Readers, List!Release(r)
    PROVE  ListInv'
<1> USE DEF ListInv
<1>1. /\ reader[r].open /\ dir' = dir /\ refcount' = refcount - 1
      /\ names' = IF refcount' = 0 THEN [taken |-> FALSE, list |-> <<>>] ELSE names
      /\ reader' = [reader EXCEPT ![r] = [open |-> FALSE, pos |-> 0, got |-> <<>>, end |-> FALSE]]
  BY DEF List!Release, List!Closed, List!NoList
<1>2. reader'[r] = [open |-> FALSE, pos |-> 0, got |-> <<>>, end |-> FALSE]
      /\ \A q \in Readers \ {r} : reader'[q] = reader[q]
  BY <1>1 DEF ListTypes
<1>3. /\ Cardinality({q \in Readers : reader'[q].open}) = refcount - 1
      /\ refcount > 0
      /\ refcount = 1 => \A q \in Readers : ~reader'[q].open
  <2>1. ~reader'[r].open
    BY <1>2
  <2> QED BY <1>1, <1>2, <2>1, ReaderCloses
<1>4. refcount \in Nat /\ refcount' \in Nat
  BY <1>1, <1>3 DEF ListTypes
<1>5. ListTypes'
  BY <1>1, <1>4 DEF ListTypes
<1>6. ListCounted'
  <2>1. CASE refcount' = 0
    <3>a. names' = [taken |-> FALSE, list |-> <<>>]
      BY <1>1, <2>1
    <3>1. names'.list = <<>> /\ ~names'.taken /\ ~(refcount' > 0)
      BY <3>a, <2>1
    <3>2. refcount' = Cardinality({q \in Readers : reader'[q].open})
      BY <1>1, <1>3
    <3> QED BY <3>1, <3>2 DEF ListCounted
  <2>2. CASE refcount' # 0
    <3>1. names' = names /\ refcount > 0 /\ refcount' > 0
      BY <1>1, <1>3, <1>4, <2>2
    <3> QED BY <1>1, <1>3, <3>1 DEF ListCounted
  <2> QED BY <2>1, <2>2
<1>7. ReaderExact'
  <2> SUFFICES ASSUME NEW q \in Readers, reader'[q].open
               PROVE  /\ Len(reader'[q].got) <= Len(names'.list)
                      /\ reader'[q].got = SubSeq(names'.list, 1, Len(reader'[q].got))
                      /\ reader'[q].pos = (List!Bytes')[Len(reader'[q].got)]
                      /\ reader'[q].end => Len(reader'[q].got) = Len(names'.list)
    BY DEF ReaderExact
  <2>1. q # r /\ refcount' # 0
    BY <1>1, <1>2, <1>3, <1>4
  <2>2. names' = names /\ reader'[q] = reader[q]
    BY <1>1, <1>2, <2>1
  <2>3. List!Bytes' = List!Bytes
    BY <2>2 DEF List!Bytes
  <2> QED BY <2>2, <2>3 DEF ReaderExact
<1> QED BY <1>5, <1>6, <1>7

LEMMA ListSame ==
    ASSUME ListInv, dir' \subseteq Entries, names' = names, refcount' = refcount, reader' = reader
    PROVE  ListInv'
<1>1. List!Bytes' = List!Bytes
  BY DEF List!Bytes
<1> QED BY <1>1 DEF ListInv, ListTypes, ListCounted, ReaderExact

LEMMA ListNext == ListInv /\ [List!Next]_(List!listVars) => ListInv'
<1> SUFFICES ASSUME ListInv, [List!Next]_(List!listVars) PROVE ListInv'
  OBVIOUS
<1>1. CASE UNCHANGED List!listVars
  BY <1>1, ListSame DEF List!listVars, ListInv, ListTypes
<1>2. ASSUME NEW r \in Readers,
             List!Open(r) \/ List!Rewind(r) \/ List!Release(r)
             \/ \E n \in 0..Cardinality(Entries) : List!Read(r, n)
      PROVE  ListInv'
  <2>1. CASE List!Open(r) BY <2>1, ListOpen
  <2>2. CASE List!Rewind(r) BY <2>2, ListRewind
  <2>3. CASE List!Release(r) BY <2>3, ListRelease
  <2>4. CASE \E n \in 0..Cardinality(Entries) : List!Read(r, n)
    BY <2>4, ListRead
  <2> QED BY <1>2, <2>1, <2>2, <2>3, <2>4
<1>3. ASSUME NEW e \in Entries, List!HostChange(e) PROVE ListInv'
  BY <1>3, ListSame DEF List!HostChange, ListInv, ListTypes
<1> QED BY <1>1, <1>2, <1>3 DEF List!Next, Cardinality, List!Cardinality

LEMMA ListInvExact == ListInv => List!ListingExact
<1> SUFFICES ASSUME ListInv PROVE List!ListingExact
  OBVIOUS
<1>1. \A r \in Readers : reader[r].open =>
        /\ List!IsPrefix(reader[r].got, names.list)
        /\ reader[r].end => reader[r].got = names.list
  <2> SUFFICES ASSUME NEW r \in Readers, reader[r].open
               PROVE  /\ List!IsPrefix(reader[r].got, names.list)
                      /\ reader[r].end => reader[r].got = names.list
    OBVIOUS
  <2> DEFINE g == reader[r].got
             L == names.list
  <2>1. g \in Seq(Entries) /\ L \in Seq(Entries)
    BY DEF ListInv, ListTypes
  <2>2. Len(g) <= Len(L) /\ g = SubSeq(L, 1, Len(g)) /\ (reader[r].end => Len(g) = Len(L))
    BY DEF ListInv, ReaderExact
  <2> HIDE DEF g, L
  <2>3. SubSeq(g, 1, Len(g)) = g /\ SubSeq(L, 1, Len(L)) = L
    BY <2>1
  <2>4. List!IsPrefix(g, L)
    BY <2>2, <2>3 DEF List!IsPrefix
  <2>5. reader[r].end => g = L
    BY <2>2, <2>3
  <2> QED BY <2>4, <2>5 DEF g, L
<1> QED BY <1>1 DEF ListInv, ListCounted, List!ListingExact, Cardinality, List!Cardinality

-----------------------------------------------------------------------------
(* FileSystem.  A name the guest can reach is that of the inode the host   *)
(* finds first, and no other name the guest can reach leads to it.         *)

\* n is the inode that find_inode returns for a name.
First(n, p, x) ==
    /\ n \in Children /\ inode[n].parent = p /\ inode[n].name = x
    /\ \A m \in Children : inode[m].parent = p /\ inode[m].name = x => place[n] <= place[m]

\* The same after a step.
FirstAfter(n, p, x) ==
    /\ n \in Children /\ inode'[n].parent = p /\ inode'[n].name = x
    /\ \A m \in Children : inode'[m].parent = p /\ inode'[m].name = x => place'[n] <= place'[m]

InoAfter(p) == IF p = Root THEN 1 ELSE dentry'[p].ino

Places == Dentries \cup {Root}

FsTypes ==
    /\ inode \in [Numbers -> [live : BOOLEAN, parent : 0..MaxIno, name : Names \cup {None}, refcount : Int]]
    /\ inode[1] = [Free EXCEPT !.live = TRUE]
    /\ place \in [Children -> Children] /\ next_inode_num \in 2..(MaxIno + 1)
    /\ disk \subseteq {<<x>> : x \in Names} \cup {<<x, y>> : x \in DirNames, y \in FileNames}
    /\ icache \in [Numbers -> {"none", "live", "freeing"}] /\ icache[1] = "none"
    /\ dentry \in [Dentries -> [ino : 0..MaxIno, parent : Places \cup {None}, name : Names \cup {None},
                                hashed : BOOLEAN, open : 0..MaxOpens]]
    /\ task \in {None} \cup [parent : Places, name : Names, ino : Children]
    /\ {raced, reborn, nomem} \subseteq BOOLEAN

\* Each number has a place of its own; those not given yet come last.
PlacesExact ==
    /\ \A m, n \in Children : place[m] = place[n] => m = n
    /\ \A n \in Children : IF n < next_inode_num THEN place[n] < next_inode_num ELSE place[n] = n

\* The directories of the host's tree are those of the root.
TreeInv == \A n \in Children :
    /\ ~inode[n].live => inode[n] = Free
    /\ inode[n].live =>
         /\ n < next_inode_num /\ inode[n].name \in Names
         /\ inode[n].parent \in Numbers /\ inode[inode[n].parent].live
         /\ inode[n].parent # 1 => inode[n].name \in FileNames /\ inode[inode[n].parent].name \in DirNames

\* A place where the guest looks names up.
Directory(p) == p = Root \/ (p \in Dentries /\ Used(p) /\ dentry[p].hashed /\ IsDir(p))

\* A dentry has its directory, and its inode is not being freed.
DentryOk(d) ==
    /\ ~Used(d) => dentry[d] = Unused
    /\ Used(d) =>
         /\ dentry[d].ino \in Children /\ dentry[d].ino < next_inode_num
         /\ icache[dentry[d].ino] = "live" /\ dentry[d].name \in Names
         /\ IsDir(d) => inode[dentry[d].ino].live /\ inode[dentry[d].ino].name \in DirNames
         /\ ~IsDir(d) => inode[dentry[d].ino].name \notin DirNames
         /\ \/ dentry[d].parent = Root
            \/ /\ dentry[d].parent \in Dentries /\ Used(dentry[d].parent) /\ IsDir(dentry[d].parent)
               /\ dentry[d].name \in FileNames
               /\ dentry[d].hashed => dentry[dentry[d].parent].hashed

DentriesInv == \A d \in Dentries : DentryOk(d)

\* A name the guest can reach is that of one dentry, and of the inode the host finds; in a
\* directory, where the host changes nothing, the file is there.
HashedOk(d) == dentry[d].hashed =>
    /\ First(dentry[d].ino, InoOf(dentry[d].parent), dentry[d].name)
    /\ dentry[d].parent # Root => <<dentry[dentry[d].parent].name, dentry[d].name>> \in disk
    /\ \A e \in Hashed(dentry[d].parent, dentry[d].name) : e = d

HashedInv == \A d \in Dentries : HashedOk(d)

\* The lookup under way has a name without dentry, and the number of the inode that is found
\* by it, if that is still in the tree.
TaskInv == task # None =>
    /\ Directory(task.parent) /\ NameIn(task.parent, task.name) /\ Hashed(task.parent, task.name) = {}
    /\ task.ino < next_inode_num
    /\ inode[task.ino].live => First(task.ino, InoOf(task.parent), task.name)
    /\ task.parent # Root => <<dentry[task.parent].name, task.name>> \in disk

\* While no number was given twice, each dentry has an inode of its own, in its directory.
OwnOk(d) == Used(d) =>
    /\ inode[dentry[d].ino].live /\ inode[dentry[d].ino].parent = InoOf(dentry[d].parent)
    /\ \A e \in Dentries : dentry[e].ino = dentry[d].ino => e = d

OwnInode == ~reborn => \A d \in Dentries : OwnOk(d)

GuestInv == TreeInv /\ DentriesInv /\ HashedInv /\ TaskInv /\ OwnInode

FsInv ==
    /\ FsTypes /\ PlacesExact
    /\ Runs => GuestInv
    /\ ListsExact

\* Paths of two names.
LEMMA PairAppend == ASSUME NEW a, NEW x PROVE Append(<<a>>, x) = <<a, x>>
<1> DEFINE S == {a, x}
           s == <<a>>
           t == Append(s, x)
<1>1. s \in Seq(S) /\ Len(s) = 1 /\ s[1] = a
  OBVIOUS
<1>2. x \in S OBVIOUS
<1> HIDE DEF s, S
<1>3. t \in Seq(S) /\ Len(t) = 2 /\ t[1] = a /\ t[2] = x
  <2>1. /\ Append(s, x) \in Seq(S) /\ Len(Append(s, x)) = Len(s) + 1
        /\ \A i \in 1..Len(s) : Append(s, x)[i] = s[i]
        /\ Append(s, x)[Len(s) + 1] = x
    BY ZenonT(40), <1>1, <1>2, AppendProperties
  <2>2. 1 \in 1..Len(s) /\ Len(s) + 1 = 2
    BY <1>1
  <2> QED BY <1>1, <2>1, <2>2
<1>4. <<a, x>> \in Seq(S) /\ Len(<<a,x>>) = 2 /\ <<a,x>>[1] = a /\ <<a,x>>[2] = x
  BY DEF S
<1> HIDE DEF t
<1>5. t = <<a, x>>
  BY <1>3, <1>4, SeqEqual
<1> QED BY <1>5 DEF t, s

LEMMA PairShape == ASSUME NEW a, NEW x PROVE /\ Len(<<a,x>>) = 2 /\ <<a,x>>[2] = x /\ <<a,x>>[1] = a
OBVIOUS

LEMMA PairLast == ASSUME NEW a, NEW x PROVE Last(<<a,x>>) = x
BY PairShape DEF Last

LEMMA PairFront == ASSUME NEW a, NEW x PROVE Front(<<a,x>>) = <<a>>
<1> DEFINE S == {a, x}
           s == <<a, x>>
           t == SubSeq(s, 1, 1)
<1>1. s \in Seq(S) /\ Len(s) = 2 /\ s[1] = a
  OBVIOUS
<1>2. t \in Seq(S) /\ Len(t) = 1 /\ t[1] = a
  <2> HIDE DEF s, S
  <2> QED BY <1>1, SubSeqProperties
<1>3. <<a>> \in Seq(S) /\ Len(<<a>>) = 1 /\ <<a>>[1] = a
  OBVIOUS
<1> HIDE DEF t, s, S
<1>5. t = <<a>>
  BY <1>2, <1>3, SeqEqual
<1> QED BY <1>1, <1>5 DEF t, s, Front

LEMMA SmallestExists ==
    ASSUME NEW S \in SUBSET Nat, S # {}
    PROVE  \E x \in S : \A y \in S : x <= y
<1> DEFINE R == OpToRel(<, Nat)
<1>1. IsWellFoundedOn(R, Nat)
  BY NatLessThanWellFounded
<1> HIDE DEF R
<1>2. PICK x \in S : \A y \in S : ~(<<y, x>> \in R)
  BY <1>1, WFMin
<1>3. \A y \in S : y < x => <<y, x>> \in R
  BY DEF R, OpToRel
<1>4. \A y \in S : x \in Nat /\ y \in Nat /\ ~(y < x)
  BY <1>2, <1>3
<1> QED BY <1>2, <1>4

\* find_inode finds the first of a name, if there is one.
LEMMA FindInodeFacts ==
    ASSUME FsTypes, PlacesExact, NEW p, NEW x
    PROVE  /\ FindInode(p, x) \in {0} \cup Children
           /\ FindInode(p, x) # 0 => First(FindInode(p, x), p, x)
           /\ FindInode(p, x) = 0 => \A n \in Children : ~(inode[n].parent = p /\ inode[n].name = x)
           /\ \A n : First(n, p, x) => FindInode(p, x) = n
<1> DEFINE named == {n \in Children : inode[n].parent = p /\ inode[n].name = x}
           f == CHOOSE n \in named : \A m \in named : place[n] <= place[m]
<1>1. FindInode(p, x) = IF named = {} THEN 0 ELSE f
  BY DEF FindInode
<1>2. \A n \in Children : place[n] \in Nat /\ n # 0
  BY FileSystemAssumption DEF FsTypes, Children
<1>3. ASSUME named # {} PROVE f \in named /\ \A m \in named : place[f] <= place[m]
  <2>1. \E n \in named : \A m \in named : place[n] <= place[m]
    <3> DEFINE S == {place[n] : n \in named}
    <3>1. S \in SUBSET Nat /\ S # {}
      BY <1>2, <1>3
    <3>2. PICK v \in S : \A w \in S : v <= w
      <4> HIDE DEF S
      <4> QED BY <3>1, SmallestExists
    <3> QED BY <3>2
  <2> HIDE DEF named
  <2> QED BY <2>1
<1>4. ASSUME NEW n, First(n, p, x) PROVE FindInode(p, x) = n
  <2>1. n \in named /\ \A m \in named : place[n] <= place[m]
    BY <1>4 DEF First
  <2>2. f \in named /\ place[f] <= place[n] /\ place[n] <= place[f]
    BY <1>3, <2>1
  <2>3. place[f] = place[n] /\ f \in Children /\ n \in Children
    BY <1>2, <2>1, <2>2
  <2>4. f = n
    BY <2>3 DEF PlacesExact
  <2> HIDE DEF f
  <2> QED BY <1>1, <2>1, <2>4
<1>5. CASE named = {}
  BY <1>1, <1>4, <1>5
<1>6. CASE named # {}
  <2>1. FindInode(p, x) = f /\ f \in named /\ \A m \in named : place[f] <= place[m]
    BY <1>1, <1>3, <1>6
  <2>2. f \in Children /\ f # 0 /\ First(f, p, x)
    <3> HIDE DEF f
    <3> QED BY <2>1, <1>2 DEF First
  <2> HIDE DEF f, named
  <2> QED BY <1>4, <2>1, <2>2
<1> QED BY <1>5, <1>6

\* A name's first inode is in the tree.
LEMMA FirstInTree ==
    ASSUME FsTypes, TreeInv, NEW n, NEW p, NEW x \in Names, First(n, p, x)
    PROVE  n \in Children /\ inode[n].live /\ n < next_inode_num /\ inode[n].name = x /\ inode[n].parent = p
BY FileSystemAssumption DEF First, TreeInv, Free

\* What is known after an inode is found or made.
Allocated(n, p, x) ==
    /\ n \in Children /\ n < next_inode_num' /\ FirstAfter(n, p, x)
    /\ \A m, q : \A y \in Names : First(m, q, y) => FirstAfter(m, q, y)
    /\ FsTypes => inode' \in [Numbers -> [live : BOOLEAN, parent : 0..MaxIno, name : Names \cup {None}, refcount : Int]]
    /\ inode'[1] = inode[1] /\ place' = place
    /\ \A m \in Numbers : m < next_inode_num => inode'[m] = inode[m]
    /\ \A m \in Numbers : inode'[m].refcount = inode[m].refcount
    /\ next_inode_num <= next_inode_num' /\ next_inode_num' \in 2..(MaxIno + 1)
    /\ TreeInv' /\ PlacesExact'
    /\ inode[n].live \/ (n = next_inode_num /\ inode'[n].name = x)

LEMMA Allocation ==
    ASSUME FsTypes, PlacesExact, TreeInv, NEW p \in Numbers, NEW x \in Names, FindOrAlloc(p, x),
           inode[p].live, p # 1 => x \in FileNames /\ inode[p].name \in DirNames
    PROVE  Allocated(Number(p, x), p, x)
<1> DEFINE n == next_inode_num
<1>1. CASE FindInode(p, x) # 0
  <2>1. UNCHANGED hostVars /\ Number(p, x) = FindInode(p, x) /\ First(Number(p, x), p, x)
    BY <1>1, FindInodeFacts DEF FindOrAlloc, Number
  <2>2. FirstAfter(Number(p, x), p, x) /\ \A m, q, y : First(m, q, y) => FirstAfter(m, q, y)
    BY <2>1 DEF First, FirstAfter, hostVars
  <2>3. Number(p, x) \in Children /\ inode[Number(p, x)].live /\ Number(p, x) < next_inode_num
    BY <2>1, FirstInTree
  <2>4. TreeInv' /\ PlacesExact'
    BY <2>1 DEF TreeInv, PlacesExact, hostVars
  <2> HIDE DEF n
  <2> QED BY <2>1, <2>2, <2>3, <2>4 DEF Allocated, FsTypes, hostVars
<1>2. CASE FindInode(p, x) = 0
  <2>1. /\ n <= MaxIno /\ n \in Children /\ n \in Nat /\ next_inode_num' = n + 1 /\ place' = place
        /\ inode' = [inode EXCEPT ![n] = [live |-> TRUE, parent |-> p, name |-> x, refcount |-> 0]]
        /\ Number(p, x) = n
    BY <1>2, FileSystemAssumption DEF FindOrAlloc, Number, FsTypes, Children
  <2>2. ~inode[n].live /\ inode[n] = Free
    BY <2>1 DEF TreeInv
  <2>3. /\ inode'[n] = [live |-> TRUE, parent |-> p, name |-> x, refcount |-> 0]
        /\ \A m \in Numbers \ {n} : inode'[m] = inode[m]
        /\ n \in Numbers /\ n # 1
    BY <2>1, FileSystemAssumption DEF FsTypes, Children, Numbers
  <2>4. ASSUME NEW m, NEW q, NEW y \in Names, First(m, q, y) PROVE FirstAfter(m, q, y)
    <3>1. m # n /\ m \in Children /\ Children \subseteq Numbers
      BY <2>2, <2>4, FirstInTree DEF Children, Numbers
    <3>2. ~(q = p /\ y = x)
      BY <1>2, <2>4, FindInodeFacts DEF First
    <3> QED BY <2>1, <2>3, <2>4, <3>1, <3>2 DEF First, FirstAfter
  <2>5. FirstAfter(n, p, x)
    <3>1. \A m \in Children : ~(inode[m].parent = p /\ inode[m].name = x)
      BY <1>2, FindInodeFacts
    <3>2. \A m \in Children \ {n} : inode'[m] = inode[m]
      BY <2>3 DEF Children, Numbers
    <3>3. place[n] <= place[n]
      BY <2>1, FileSystemAssumption DEF FsTypes, Children
    <3> QED BY <2>1, <2>3, <3>1, <3>2, <3>3 DEF FirstAfter
  <2>6. PlacesExact'
    <3>1. place[n] = n /\ \A m \in Children : m \in Nat /\ (m < n => place[m] < n /\ place[m] \in Nat) /\ (m > n => place[m] = m)
      BY <2>1, FileSystemAssumption DEF PlacesExact, FsTypes, Children
    <3>2. \A m \in Children : IF m < n + 1 THEN place[m] < n + 1 ELSE place[m] = m
      BY <2>1, <3>1
    <3> QED BY <2>1, <3>2 DEF PlacesExact
  <2>7. TreeInv'
    <3> SUFFICES ASSUME NEW m \in Children
                 PROVE  /\ ~inode'[m].live => inode'[m] = Free
                        /\ inode'[m].live =>
                             /\ m < next_inode_num' /\ inode'[m].name \in Names
                             /\ inode'[m].parent \in Numbers /\ inode'[inode'[m].parent].live
                             /\ inode'[m].parent # 1 => inode'[m].name \in FileNames
                                                        /\ inode'[inode'[m].parent].name \in DirNames
      BY DEF TreeInv, Free
    <3>1. m \in Numbers /\ p # n
      BY <2>2 DEF Children, Numbers, Free
    <3>2. CASE m = n
      <4>1. inode'[m].live /\ inode'[m].parent = p /\ inode'[m].name = x /\ inode'[p] = inode[p]
        BY <2>3, <3>1, <3>2
      <4> QED BY <2>1, <3>2, <4>1
    <3>3. CASE m # n
      <4>1. inode'[m] = inode[m]
        BY <2>3, <3>1, <3>3
      <4>2. CASE ~inode[m].live
        BY <4>1, <4>2 DEF TreeInv
      <4>3. CASE inode[m].live
        <5>1. /\ m < n /\ inode[m].name \in Names
              /\ inode[m].parent \in Numbers /\ inode[inode[m].parent].live
              /\ inode[m].parent # 1 => inode[m].name \in FileNames /\ inode[inode[m].parent].name \in DirNames
          BY <4>3 DEF TreeInv
        <5>2. inode[m].parent # n /\ inode'[inode[m].parent] = inode[inode[m].parent]
          BY <2>2, <2>3, <5>1
        <5>3. m < n + 1
          BY <2>1, <5>1 DEF Children
        <5> QED BY <2>1, <4>1, <4>3, <5>1, <5>2, <5>3
      <4> QED BY <4>2, <4>3
    <3> QED BY <3>2, <3>3
  <2>8. inode' \in [Numbers -> [live : BOOLEAN, parent : 0..MaxIno, name : Names \cup {None}, refcount : Int]]
    <3>1. p \in 0..MaxIno
      BY FileSystemAssumption DEF Numbers
    <3>2. [live |-> TRUE, parent |-> p, name |-> x, refcount |-> 0]
            \in [live : BOOLEAN, parent : 0..MaxIno, name : Names \cup {None}, refcount : Int]
      BY <3>1
    <3> HIDE DEF n
    <3> QED BY <2>1, <2>3, <3>2 DEF FsTypes
  <2>9. \A m \in Numbers : inode'[m].refcount = inode[m].refcount
    BY <2>2, <2>3 DEF Free
  <2>10. n + 1 \in 2..(MaxIno + 1) /\ n <= n + 1 /\ n < n + 1
    BY <2>1, FileSystemAssumption DEF Children
  <2>11. inode'[1] = inode[1] /\ \A m \in Numbers : m < next_inode_num => inode'[m] = inode[m]
    BY <2>1, <2>3, FileSystemAssumption DEF Numbers
  <2>12. inode'[n].name = x
    BY <2>3
  <2> QED BY <2>1, <2>4, <2>5, <2>6, <2>7, <2>8, <2>9, <2>10, <2>11, <2>12 DEF Allocated
<1> QED BY <1>1, <1>2

FsRuns == FsTypes /\ PlacesExact /\ GuestInv /\ ListsExact /\ Runs

\* A directory where the guest looks names up is one of the host's tree.
LEMMA DirectoryFacts ==
    ASSUME FsRuns, NEW p \in Places, Directory(p)
    PROVE  /\ InoOf(p) \in Numbers /\ inode[InoOf(p)].live /\ InoOf(p) < next_inode_num
           /\ p = Root <=> InoOf(p) = 1
           /\ p = Root => inode[InoOf(p)].name = None
           /\ p # Root => /\ p \in Dentries /\ dentry[p].parent = Root /\ dentry[p].hashed /\ Used(p)
                          /\ InoOf(p) = dentry[p].ino /\ InoOf(p) \in Children
                          /\ inode[InoOf(p)].name = dentry[p].name /\ inode[InoOf(p)].parent = 1
                          /\ dentry[p].name \in DirNames
<1>1. 1 \in Numbers /\ Children \subseteq Numbers /\ 1 \notin Children /\ 1 < next_inode_num
  BY FileSystemAssumption DEF Numbers, Children, FsRuns, FsTypes
<1>2. CASE p = Root
  <2>1. InoOf(p) = 1
    BY <1>2 DEF InoOf
  <2>2. inode[1].live /\ inode[1].name = None
    BY DEF FsRuns, FsTypes, Free
  <2> QED BY <1>1, <1>2, <2>1, <2>2
<1>3. CASE p # Root
  <2>1. p \in Dentries /\ Used(p) /\ dentry[p].hashed /\ IsDir(p) /\ InoOf(p) = dentry[p].ino
    BY <1>3 DEF Directory, InoOf
  <2>2. DentryOk(p) /\ HashedOk(p)
    BY <2>1 DEF FsRuns, GuestInv, DentriesInv, HashedInv
  <2>3. /\ dentry[p].ino \in Children /\ dentry[p].ino < next_inode_num /\ inode[dentry[p].ino].live
        /\ dentry[p].name \in DirNames /\ dentry[p].name \notin FileNames
    BY <2>1, <2>2, FileSystemAssumption DEF DentryOk, IsDir
  <2>4. dentry[p].parent = Root
    BY <2>1, <2>2, <2>3 DEF DentryOk
  <2>5. inode[dentry[p].ino].parent = 1 /\ inode[dentry[p].ino].name = dentry[p].name
    BY <2>1, <2>2, <2>4 DEF HashedOk, First, InoOf
  <2> QED BY <1>1, <1>3, <2>1, <2>3, <2>4, <2>5
<1> QED BY <1>2, <1>3

LEMMA SameDirectory ==
    ASSUME FsRuns, NEW p \in Places, NEW q \in Places, Directory(p), Directory(q), InoOf(p) = InoOf(q)
    PROVE  p = q
<1>1. CASE p = Root \/ q = Root
  BY <1>1, DirectoryFacts
<1>2. CASE p # Root /\ q # Root
  <2>1. /\ p \in Dentries /\ q \in Dentries /\ dentry[p].parent = Root /\ dentry[q].parent = Root
        /\ dentry[p].name = dentry[q].name /\ dentry[p].hashed /\ dentry[q].hashed /\ Used(q)
    BY <1>2, DirectoryFacts
  <2>2. q \in Hashed(dentry[p].parent, dentry[p].name) /\ HashedOk(p)
    BY <2>1 DEF Hashed, Below, FsRuns, GuestInv, HashedInv
  <2> QED BY <2>1, <2>2 DEF HashedOk
<1> QED BY <1>1, <1>2

\* The path of a name in a directory.
PathIn(p, x) == IF p = Root THEN <<x>> ELSE <<dentry[p].name, x>>

LEMMA AtIs ==
    ASSUME FsRuns, NEW p \in Places, Directory(p), NEW x
    PROVE  At(p, x) = PathIn(p, x)
<1>1. CASE p = Root
  <2>1. InoOf(p) = 1 /\ inode[1].name = None
    BY <1>1 DEF InoOf, FsRuns, FsTypes, Free
  <2>2. PathOf(InoOf(p)) = <<>>
    BY <2>1 DEF PathOf
  <2> QED BY <1>1, <2>2 DEF At, PathIn
<1>2. CASE p # Root
  <2>1. /\ InoOf(p) \in Children /\ inode[InoOf(p)].live /\ inode[InoOf(p)].name = dentry[p].name
        /\ inode[InoOf(p)].parent = 1 /\ dentry[p].name \in DirNames
    BY <1>2, DirectoryFacts
  <2>2. inode[1].name = None /\ InoOf(p) # 0 /\ dentry[p].name # None
    BY <2>1, FileSystemAssumption DEF FsRuns, FsTypes, Free, Children, Names
  <2>3. PathOf(InoOf(p)) = <<dentry[p].name>>
    BY <2>1, <2>2 DEF PathOf
  <2>4. Append(<<dentry[p].name>>, x) = <<dentry[p].name, x>>
    BY PairAppend
  <2> QED BY <1>2, <2>3, <2>4 DEF At, PathIn
<1> QED BY <1>1, <1>2

\* A name that is looked up may be one of the host's tree.
LEMMA NameFits ==
    ASSUME FsRuns, NEW p \in Places, Directory(p), NEW x \in Names, NameIn(p, x)
    PROVE  /\ InoOf(p) # 1 => x \in FileNames /\ inode[InoOf(p)].name \in DirNames
           /\ PathIn(p, x) \in {<<y>> : y \in Names} \cup {<<y, z>> : y \in DirNames, z \in FileNames}
<1>1. CASE p = Root
  BY <1>1 DEF InoOf, PathIn
<1>2. CASE p # Root
  <2>1. x \in FileNames
    BY <1>2 DEF NameIn, Names
  <2>2. dentry[p].name \in DirNames /\ inode[InoOf(p)].name = dentry[p].name
    BY <1>2, DirectoryFacts
  <2> QED BY <1>2, <2>1, <2>2 DEF PathIn
<1> QED BY <1>1, <1>2

\* What is known of the guest is kept when an inode is found or made.
LEMMA AllocationKeeps ==
    ASSUME FsRuns, NEW n, NEW p, NEW x, Allocated(n, p, x), dentry' = dentry, icache' = icache, disk \subseteq disk',
           reborn' = reborn
    PROVE  DentriesInv' /\ HashedInv' /\ OwnInode' /\ ListsExact'
<1>1. \A d \in Dentries : DentryOk(d) /\ HashedOk(d)
  BY DEF FsRuns, GuestInv, DentriesInv, HashedInv
<1>2. \A d \in Dentries : Used(d) => dentry[d].ino \in Numbers /\ dentry[d].ino < next_inode_num
                                     /\ inode'[dentry[d].ino] = inode[dentry[d].ino]
  BY <1>1 DEF DentryOk, Allocated, Children, Numbers
<1>3. next_inode_num \in Int /\ next_inode_num' \in Int /\ next_inode_num <= next_inode_num'
  BY FileSystemAssumption DEF Allocated, FsRuns, FsTypes
<1>4. ASSUME NEW d \in Dentries PROVE DentryOk(d)'
  <2>1. CASE ~Used(d)
    BY <1>1, <2>1 DEF DentryOk, Used
  <2>2. CASE Used(d)
    <3>1. dentry[d].ino < next_inode_num'
      BY <1>1, <1>2, <1>3, <2>2 DEF Numbers
    <3> QED BY <1>1, <1>2, <2>2, <3>1 DEF DentryOk, Used, IsDir
  <2> QED BY <2>1, <2>2
<1>5. ASSUME NEW d \in Dentries PROVE HashedOk(d)'
  <2> SUFFICES ASSUME dentry[d].hashed
               PROVE  /\ FirstAfter(dentry[d].ino, InoOf(dentry[d].parent), dentry[d].name)
                      /\ dentry[d].parent # Root => <<dentry[dentry[d].parent].name, dentry[d].name>> \in disk'
                      /\ \A e \in Hashed(dentry[d].parent, dentry[d].name) : e = d
    BY DEF HashedOk, First, FirstAfter, InoOf, InoAfter, InoOf, Hashed, Below, Used
  <2>1. dentry[d].name \in Names
    BY <1>1, FileSystemAssumption DEF DentryOk, Unused
  <2> QED BY <1>1, <2>1 DEF HashedOk, Allocated
<1>6. OwnInode'
  BY <1>2 DEF FsRuns, GuestInv, OwnInode, OwnOk, Used, InoOf
<1>7. ListsExact'
  <2>1. Runs' => Runs
    BY DEF FsRuns
  <2>2. \A m \in Numbers : ReadersOf(m)' = ReadersOf(m)
    BY DEF ReadersOf, IsDir
  <2> QED BY <2>1, <2>2 DEF FsRuns, ListsExact, Allocated
<1> QED BY <1>4, <1>5, <1>6, <1>7 DEF DentriesInv, HashedInv

LEMMA SamePath ==
    ASSUME FsRuns, NEW p \in Places, NEW q \in Places, Directory(p), Directory(q), NEW x, NEW y,
           PathIn(p, x) = PathIn(q, y)
    PROVE  p = q /\ x = y
<1>1. CASE p = Root /\ q = Root
  BY <1>1 DEF PathIn
<1>2. CASE ~(p = Root <=> q = Root)
  BY <1>2 DEF PathIn
<1>3. CASE p # Root /\ q # Root
  <2>1. dentry[p].name = dentry[q].name /\ x = y
    BY <1>3 DEF PathIn
  <2>2. /\ p \in Dentries /\ q \in Dentries /\ dentry[p].parent = Root /\ dentry[q].parent = Root
        /\ dentry[p].hashed /\ dentry[q].hashed /\ Used(q)
    BY <1>3, DirectoryFacts
  <2>3. q \in Hashed(dentry[p].parent, dentry[p].name) /\ HashedOk(p)
    BY <2>1, <2>2 DEF Hashed, Below, FsRuns, GuestInv, HashedInv
  <2> QED BY <2>1, <2>2, <2>3 DEF HashedOk
<1> QED BY <1>1, <1>2, <1>3

\* What a dentry with a name says.
LEMMA HashedFacts ==
    ASSUME FsRuns, NEW d \in Dentries, dentry[d].hashed
    PROVE  /\ Used(d) /\ dentry[d].name \in Names /\ dentry[d].parent \in Places /\ Directory(dentry[d].parent)
           /\ dentry[d].ino \in Children /\ dentry[d].ino < next_inode_num /\ dentry[d].ino \in Numbers
           /\ First(dentry[d].ino, InoOf(dentry[d].parent), dentry[d].name)
           /\ inode[dentry[d].ino].live
           /\ inode[dentry[d].ino].name = dentry[d].name /\ inode[dentry[d].ino].parent = InoOf(dentry[d].parent)
           /\ NameIn(dentry[d].parent, dentry[d].name)
           /\ dentry[d].parent # Root => PathIn(dentry[d].parent, dentry[d].name) \in disk
<1>1. DentryOk(d) /\ HashedOk(d)
  BY DEF FsRuns, GuestInv, DentriesInv, HashedInv
<1>2. Used(d)
  BY <1>1 DEF DentryOk, Unused
<1>3. dentry[d].name \in Names /\ dentry[d].ino \in Children /\ dentry[d].ino < next_inode_num
  BY <1>1, <1>2 DEF DentryOk
<1>4. /\ dentry[d].parent \in Places /\ Directory(dentry[d].parent)
      /\ NameIn(dentry[d].parent, dentry[d].name)
  BY <1>1, <1>2, FileSystemAssumption DEF DentryOk, Directory, Places, NameIn
<1>5. First(dentry[d].ino, InoOf(dentry[d].parent), dentry[d].name)
  BY <1>1 DEF HashedOk
<1>6. inode[dentry[d].ino].live
  BY <1>3, <1>5, FirstInTree DEF FsRuns, GuestInv
<1>7. dentry[d].parent # Root => PathIn(dentry[d].parent, dentry[d].name) \in disk
  BY <1>1 DEF HashedOk, PathIn
<1> QED BY <1>2, <1>3, <1>4, <1>5, <1>6, <1>7 DEF First, Children, Numbers

DentryTypes ==
    dentry \in [Dentries -> [ino : 0..MaxIno, parent : Places \cup {None}, name : Names \cup {None},
                             hashed : BOOLEAN, open : 0..MaxOpens]]

LEMMA UnhashTypes == ASSUME FsTypes, NEW d \in Dentries, Unhash(d) PROVE DentryTypes'
<1>1. ASSUME NEW b \in BOOLEAN, dentry' = [dentry EXCEPT ![d].hashed = b] PROVE DentryTypes'
  BY <1>1 DEF FsTypes, DentryTypes
<1> QED BY <1>1 DEF Unhash

\* A name loses its dentry, and perhaps its file.
LEMMA UnhashKeeps ==
    ASSUME FsRuns, NEW d \in Dentries, dentry[d].hashed, Unhash(d), UNCHANGED <<hostVars, icache, task, reborn>>,
           \A e \in Below(d) : ~dentry[e].hashed, ~Locked(d),
           \A q \in disk : q # PathIn(dentry[d].parent, dentry[d].name) => q \in disk'
    PROVE  /\ \A e \in Dentries : e # d => dentry'[e] = dentry[e]
           /\ GuestInv' /\ PlacesExact' /\ ListsExact'
<1>1. /\ dentry'[d] = [dentry[d] EXCEPT !.hashed = FALSE] /\ \A e \in Dentries : e # d => dentry'[e] = dentry[e]
      /\ dentry \in [Dentries -> [ino : 0..MaxIno, parent : Places \cup {None}, name : Names \cup {None},
                                hashed : BOOLEAN, open : 0..MaxOpens]]
  BY DEF Unhash, FsRuns, FsTypes
<1>2. /\ \A e \in Dentries : /\ dentry'[e].ino = dentry[e].ino /\ dentry'[e].parent = dentry[e].parent
                             /\ dentry'[e].name = dentry[e].name /\ dentry'[e].open = dentry[e].open
      /\ ~dentry'[d].hashed /\ \A e \in Dentries : dentry'[e].hashed => dentry[e].hashed /\ e # d
  BY <1>1
<1>3. \A e \in Dentries : DentryOk(e) /\ HashedOk(e)
  BY DEF FsRuns, GuestInv, DentriesInv, HashedInv
<1>4. inode' = inode /\ place' = place /\ next_inode_num' = next_inode_num /\ icache' = icache /\ task' = task
  BY DEF hostVars
<1>5. TreeInv' /\ PlacesExact'
  BY <1>4 DEF TreeInv, PlacesExact, FsRuns, GuestInv
<1>6. ASSUME NEW e \in Dentries PROVE DentryOk(e)'
  <2>1. CASE ~Used(e)
    <3>1. dentry[e] = Unused /\ e # d
      BY <1>3, <2>1, HashedFacts DEF DentryOk
    <3> QED BY <1>1, <2>1, <3>1 DEF DentryOk, Used
  <2>2. CASE Used(e)
    <3>1. dentry[e].hashed /\ dentry[e].parent # Root /\ e # d => dentry[e].parent # d
      BY <2>2 DEF Below
    <3>2. dentry'[e].hashed /\ dentry[e].parent # Root => dentry'[dentry[e].parent].hashed
      BY <1>1, <1>2, <1>3, <2>2, <3>1 DEF DentryOk
    <3>3. IsDir(e)' <=> IsDir(e)
      BY <1>2 DEF IsDir
    <3>4. dentry[e].parent \in Dentries => (Used(dentry[e].parent)' <=> Used(dentry[e].parent)) /\ (IsDir(dentry[e].parent)' <=> IsDir(dentry[e].parent))
      BY <1>2 DEF IsDir, Used
    <3> QED BY <1>2, <1>3, <1>4, <2>2, <3>2, <3>3, <3>4 DEF DentryOk, Used, IsDir
  <2> QED BY <2>1, <2>2
<1>7. ASSUME NEW e \in Dentries PROVE HashedOk(e)'
  <2> SUFFICES ASSUME dentry'[e].hashed
               PROVE  /\ FirstAfter(dentry'[e].ino, InoAfter(dentry'[e].parent), dentry'[e].name)
                      /\ dentry'[e].parent # Root => <<dentry'[dentry'[e].parent].name, dentry'[e].name>> \in disk'
                      /\ \A c \in Dentries : Used(c)' /\ dentry'[c].parent = dentry'[e].parent /\ dentry'[c].hashed
                                             /\ dentry'[c].name = dentry'[e].name => c = e
    BY DEF HashedOk, First, FirstAfter, InoOf, InoAfter, Hashed, Below
  <2>1. dentry[e].hashed /\ e # d
    BY <1>2
  <2>2. FirstAfter(dentry'[e].ino, InoAfter(dentry'[e].parent), dentry'[e].name)
    <3>1. First(dentry[e].ino, InoOf(dentry[e].parent), dentry[e].name)
      BY <1>3, <2>1 DEF HashedOk
    <3>2. InoAfter(dentry'[e].parent) = InoOf(dentry[e].parent)
      BY <1>2, <2>1, HashedFacts DEF InoOf, InoAfter, Places, Directory
    <3> QED BY <1>2, <1>4, <3>1, <3>2 DEF First, FirstAfter
  <2>3. \A c \in Dentries : Used(c)' /\ dentry'[c].parent = dentry'[e].parent /\ dentry'[c].hashed
                            /\ dentry'[c].name = dentry'[e].name => c = e
    <3> SUFFICES ASSUME NEW c \in Dentries, Used(c)', dentry'[c].parent = dentry'[e].parent, dentry'[c].hashed,
                        dentry'[c].name = dentry'[e].name
                 PROVE  c = e
      OBVIOUS
    <3>1. c \in Hashed(dentry[e].parent, dentry[e].name)
      BY <1>2 DEF Hashed, Below, Used
    <3> QED BY <1>3, <2>1, <3>1 DEF HashedOk
  <2>4. dentry[e].parent # Root => <<dentry'[dentry'[e].parent].name, dentry'[e].name>> \in disk'
    <3> SUFFICES ASSUME dentry[e].parent # Root
                 PROVE  <<dentry'[dentry'[e].parent].name, dentry'[e].name>> \in disk'
      OBVIOUS
    <3>1. dentry[e].parent \in Dentries
      BY <1>3, <2>1, HashedFacts DEF Directory
    <3>2. PathIn(dentry[e].parent, dentry[e].name) = <<dentry'[dentry'[e].parent].name, dentry'[e].name>>
          /\ PathIn(dentry[e].parent, dentry[e].name) \in disk
      BY <1>2, <2>1, <3>1, HashedFacts DEF PathIn
    <3>3. PathIn(dentry[e].parent, dentry[e].name) # PathIn(dentry[d].parent, dentry[d].name)
      <4> SUFFICES ASSUME PathIn(dentry[e].parent, dentry[e].name) = PathIn(dentry[d].parent, dentry[d].name)
                   PROVE FALSE
        OBVIOUS
      <4>1. dentry[e].parent = dentry[d].parent /\ dentry[e].name = dentry[d].name /\ Used(e)
        BY <2>1, HashedFacts, SamePath
      <4>2. e \in Hashed(dentry[d].parent, dentry[d].name) /\ HashedOk(d)
        BY <1>3, <2>1, <4>1 DEF Hashed, Below
      <4> QED BY <2>1, <4>2 DEF HashedOk
    <3> QED BY <3>2, <3>3
  <2> QED BY <1>2, <2>2, <2>3, <2>4
<1>8. TaskInv'
  <2> SUFFICES ASSUME task # None
               PROVE  /\ Directory(task.parent)' /\ NameIn(task.parent, task.name) /\ (Hashed(task.parent, task.name) = {})'
                      /\ task.ino < next_inode_num
                      /\ inode[task.ino].live => FirstAfter(task.ino, InoAfter(task.parent), task.name)
                      /\ task.parent # Root => <<dentry'[task.parent].name, task.name>> \in disk'
    BY <1>4 DEF TaskInv, First, FirstAfter, NameIn, InoOf, InoAfter
  <2>1. /\ Directory(task.parent) /\ NameIn(task.parent, task.name) /\ Hashed(task.parent, task.name) = {}
        /\ task.ino < next_inode_num
        /\ inode[task.ino].live => First(task.ino, InoOf(task.parent), task.name)
        /\ task.parent # Root => <<dentry[task.parent].name, task.name>> \in disk
        /\ task.parent \in Places /\ task.parent # d
    BY FileSystemAssumption DEF FsRuns, GuestInv, TaskInv, Locked, FsTypes
  <2>2. Directory(task.parent)' /\ InoAfter(task.parent) = InoOf(task.parent)
    BY <1>1, <1>2, <1>4, <2>1 DEF Directory, InoOf, InoAfter, Used, IsDir, Places
  <2>3. (Hashed(task.parent, task.name) = {})'
    BY <1>2, <1>4, <2>1 DEF Hashed, Below, Used
  <2>4. inode[task.ino].live => FirstAfter(task.ino, InoAfter(task.parent), task.name)
    BY <1>4, <2>1, <2>2 DEF First, FirstAfter
  <2>5. task.parent # Root => <<dentry'[task.parent].name, task.name>> \in disk'
    <3> SUFFICES ASSUME task.parent # Root PROVE <<dentry'[task.parent].name, task.name>> \in disk'
      OBVIOUS
    <3>1. PathIn(task.parent, task.name) = <<dentry'[task.parent].name, task.name>>
          /\ PathIn(task.parent, task.name) \in disk
      BY <1>2, <2>1 DEF PathIn, Directory
    <3>2. PathIn(task.parent, task.name) # PathIn(dentry[d].parent, dentry[d].name)
      <4> SUFFICES ASSUME PathIn(task.parent, task.name) = PathIn(dentry[d].parent, dentry[d].name)
                   PROVE FALSE
        OBVIOUS
      <4>1. task.parent = dentry[d].parent /\ task.name = dentry[d].name /\ Used(d)
        BY <2>1, HashedFacts, SamePath
      <4> QED BY <2>1, <4>1 DEF Hashed, Below
    <3> QED BY <3>1, <3>2
  <2> QED BY <2>1, <2>2, <2>3, <2>4, <2>5
<1>9. OwnInode'
  <2> SUFFICES ASSUME ~reborn, NEW e \in Dentries, Used(e)'
               PROVE  /\ inode[dentry'[e].ino].live /\ inode[dentry'[e].ino].parent = InoAfter(dentry'[e].parent)
                      /\ \A c \in Dentries : dentry'[c].ino = dentry'[e].ino => c = e
    BY <1>4 DEF OwnInode, OwnOk, InoOf, InoAfter
  <2>1. Used(e) /\ OwnOk(e) /\ DentryOk(e)
    BY <1>2, <1>3 DEF FsRuns, GuestInv, OwnInode, Used
  <2>2. InoAfter(dentry'[e].parent) = InoOf(dentry[e].parent)
    BY <1>2, <2>1 DEF InoOf, InoAfter, DentryOk
  <2> QED BY <1>2, <2>1, <2>2 DEF OwnOk
<1>10. ListsExact'
  <2>1. \A m \in Numbers : ReadersOf(m)' = ReadersOf(m)
    BY <1>2 DEF ReadersOf, IsDir
  <2> QED BY <1>4, <2>1 DEF FsRuns, ListsExact
<1> QED BY <1>1, <1>5, <1>6, <1>7, <1>8, <1>9, <1>10 DEF GuestInv, DentriesInv, HashedInv

LEMMA FsSame == FsInv /\ UNCHANGED vars => FsInv'
<1> SUFFICES ASSUME FsInv, UNCHANGED vars PROVE FsInv'
  OBVIOUS
<1> USE DEF vars, hostVars, guestVars
<1>1. FsTypes' /\ PlacesExact'
  BY DEF FsInv, FsTypes, PlacesExact, Free
<1>2. Runs' <=> Runs
  BY DEF Runs
<1>3. TreeInv => TreeInv'
  BY DEF TreeInv
<1>4. DentriesInv => DentriesInv'
  BY DEF DentriesInv, DentryOk, Used, IsDir
<1>5. HashedInv => HashedInv'
  <2>1. \A p, x : Hashed(p, x)' = Hashed(p, x)
    BY DEF Hashed, Below, Used
  <2>2. \A n, p, x : First(n, p, x)' <=> First(n, p, x)
    BY DEF First
  <2>3. \A p : InoOf(p)' = InoOf(p)
    BY DEF InoOf
  <2> QED BY <2>1, <2>2, <2>3 DEF HashedInv, HashedOk
<1>6. TaskInv => TaskInv'
  BY DEF TaskInv, First, InoOf, Directory, NameIn, Hashed, Below, Used, IsDir
<1>7. OwnInode => OwnInode'
  BY DEF OwnInode, OwnOk, Used, InoOf
<1>8. ListsExact => ListsExact'
  BY <1>2 DEF ListsExact, ReadersOf, IsDir
<1> QED BY <1>1, <1>2, <1>3, <1>4, <1>5, <1>6, <1>7, <1>8 DEF FsInv, GuestInv

LEMMA RunsInv == FsInv /\ Runs <=> FsRuns /\ FsInv
BY DEF FsInv, FsRuns

\* Lookups and creations differ in whether the file has to be there or is made.
LEMMA LookupKeeps ==
    ASSUME FsInv, Runs, NEW p \in Places, Directory(p), NEW x \in Names, NameIn(p, x), Hashed(p, x) = {},
           FindOrAlloc(InoOf(p), x), task' = [parent |-> p, name |-> x, ino |-> Number(InoOf(p), x)],
           disk \subseteq disk', disk' \subseteq disk \cup {At(p, x)}, At(p, x) \in disk',
           UNCHANGED <<icache, dentry, raced, reborn, nomem>>
    PROVE  FsInv'
<1> DEFINE n == Number(InoOf(p), x)
<1>1. FsRuns
  BY RunsInv
<1>2. InoOf(p) \in Numbers /\ inode[InoOf(p)].live /\ (InoOf(p) # 1 => x \in FileNames /\ inode[InoOf(p)].name \in DirNames)
  BY <1>1, DirectoryFacts, NameFits
<1>3. Allocated(n, InoOf(p), x)
  BY <1>1, <1>2, Allocation DEF FsRuns, GuestInv
<1>4. At(p, x) = PathIn(p, x) /\ PathIn(p, x) \in {<<y>> : y \in Names} \cup {<<y, z>> : y \in DirNames, z \in FileNames}
  BY <1>1, AtIs, NameFits
<1> HIDE DEF n
<1>5. FsTypes'
  <2>1. task' \in [parent : Places, name : Names, ino : Children]
    BY <1>3 DEF Allocated, n
  <2>2. disk' \subseteq {<<y>> : y \in Names} \cup {<<y, z>> : y \in DirNames, z \in FileNames}
    BY <1>1, <1>4 DEF FsRuns, FsTypes
  <2> QED BY <1>1, <1>3, <2>1, <2>2 DEF FsRuns, FsTypes, Allocated, Free
<1>6. DentriesInv' /\ HashedInv' /\ OwnInode' /\ ListsExact'
  BY <1>1, <1>3, AllocationKeeps
<1>7. TaskInv'
  <2>1. task'.parent = p /\ task'.name = x /\ task'.ino = n
    BY DEF n
  <2>2. Directory(p)' /\ (Hashed(p, x) = {})' /\ InoAfter(p) = InoOf(p)
    BY DEF Directory, Hashed, Below, Used, IsDir, InoAfter, InoOf
  <2>3. p # Root => <<dentry'[p].name, x>> \in disk'
    BY <1>4 DEF PathIn
  <2>4. n < next_inode_num' /\ FirstAfter(n, InoAfter(p), x)
    BY <1>3, <2>2 DEF Allocated
  <2>5. FirstAfter(task'.ino, InoAfter(task'.parent), task'.name) /\ Directory(task.parent)'
        /\ (Hashed(task.parent, task.name) = {})' /\ NameIn(task.parent, task.name)'
    BY <2>1, <2>2, <2>4 DEF Directory, Hashed, Below, Used, IsDir, NameIn
  <2> QED BY <2>1, <2>3, <2>4, <2>5 DEF TaskInv, First, FirstAfter, InoAfter, InoOf
<1> QED BY <1>3, <1>5, <1>6, <1>7 DEF FsInv, GuestInv, Allocated

LEMMA FsLookup ==
    ASSUME FsInv, NEW p \in Places, Directory(p), NEW x \in Names, Lookup(p, x)
    PROVE  FsInv'
BY LookupKeeps DEF Lookup, Exists

LEMMA FsCreate ==
    ASSUME FsInv, NEW p \in Places, Directory(p), NEW x \in Names, Create(p, x)
    PROVE  FsInv'
BY LookupKeeps DEF Create, MakeFile

LEMMA FsDelete ==
    ASSUME FsInv, NEW d \in Dentries, Delete(d)
    PROVE  FsInv'
<1> DEFINE p == dentry[d].parent
<1>1. /\ FsRuns /\ Used(d) /\ dentry[d].hashed /\ ~Locked(p)
      /\ IsDir(d) => {e \in Below(d) : dentry[e].hashed} = {} /\ ~Locked(d)
      /\ disk' = disk \ {At(p, dentry[d].name)} /\ Unhash(d)
      /\ UNCHANGED <<hostVars, icache, task, raced, reborn, nomem>>
  BY RunsInv DEF Delete, RemoveFile
<1>2. At(p, dentry[d].name) = PathIn(p, dentry[d].name)
  BY <1>1, HashedFacts, AtIs
<1>3. /\ \A e \in Below(d) : ~dentry[e].hashed
      /\ ~Locked(d)
  <2>1. CASE IsDir(d)
    BY <1>1, <2>1
  <2>2. CASE ~IsDir(d)
    <3>1. \A e \in Dentries : DentryOk(e)
      BY <1>1 DEF FsRuns, GuestInv, DentriesInv
    <3>2. Below(d) = {}
      BY <2>2, <3>1, FileSystemAssumption DEF Below, DentryOk
    <3>3. ~Locked(d)
      BY <1>1, <2>2, FileSystemAssumption DEF Locked, FsRuns, GuestInv, TaskInv, Directory
    <3> QED BY <3>2, <3>3
  <2> QED BY <2>1, <2>2
<1>4. \A q \in disk : q # PathIn(dentry[d].parent, dentry[d].name) => q \in disk'
  BY <1>1, <1>2
<1>5. GuestInv' /\ PlacesExact' /\ ListsExact'
  BY <1>1, <1>3, <1>4, UnhashKeeps
<1>6. FsTypes'
  <2>1. DentryTypes'
    BY <1>1, UnhashTypes DEF FsRuns
  <2> QED BY <1>1, <2>1 DEF FsRuns, FsTypes, DentryTypes, hostVars, Free
<1> QED BY <1>5, <1>6 DEF FsInv

LEMMA FsRevalidate ==
    ASSUME FsInv, NEW d \in Dentries, Revalidate(d)
    PROVE  FsInv'
<1> DEFINE p == dentry[d].parent
<1>1. /\ FsRuns /\ Used(d) /\ dentry[d].hashed /\ ~Locked(p)
      /\ UNCHANGED <<disk, icache, task, raced, reborn, nomem>>
  BY RunsInv DEF Revalidate
<1>2. /\ p \in Places /\ Directory(p) /\ dentry[d].name \in Names /\ NameIn(p, dentry[d].name)
      /\ First(dentry[d].ino, InoOf(p), dentry[d].name) /\ dentry[d].ino \in Children
  BY <1>1, HashedFacts
<1>3. FindInode(InoOf(p), dentry[d].name) = dentry[d].ino /\ dentry[d].ino # 0
  BY <1>1, <1>2, FindInodeFacts DEF FsRuns, Used
<1>4. UNCHANGED hostVars
  BY <1>3 DEF Revalidate, FindOrAlloc
<1>5. CASE UNCHANGED dentry
  BY <1>1, <1>4, <1>5, FsSame DEF vars, guestVars
<1>6. CASE ~UNCHANGED dentry
  <2>1. Unhash(d) /\ Below(d) = {} /\ ~Locked(d)
    BY <1>3, <1>6 DEF Revalidate, Number
  <2>2. GuestInv' /\ PlacesExact' /\ ListsExact'
    BY <1>1, <1>4, <2>1, UnhashKeeps
  <2>3. DentryTypes'
    BY <1>1, <2>1, UnhashTypes DEF FsRuns
  <2>4. FsTypes'
    BY <1>1, <1>4, <2>3 DEF FsRuns, FsTypes, DentryTypes, hostVars, Free
  <2> QED BY <2>2, <2>4 DEF FsInv
<1> QED BY <1>5, <1>6

\* Dentries change only in who has them open, and the inodes in use in their references.
LEMMA OpensKeep ==
    ASSUME FsRuns, UNCHANGED <<place, next_inode_num, disk, icache, task, reborn>>,
           \A e \in Dentries : /\ dentry'[e].ino = dentry[e].ino /\ dentry'[e].parent = dentry[e].parent
                               /\ dentry'[e].name = dentry[e].name /\ dentry'[e].hashed = dentry[e].hashed
                               /\ ~Used(e) => dentry'[e] = dentry[e],
           \A m \in Numbers : /\ inode'[m].live = inode[m].live /\ inode'[m].parent = inode[m].parent
                              /\ inode'[m].name = inode[m].name
                              /\ ~inode[m].live => inode'[m] = inode[m]
    PROVE  GuestInv' /\ PlacesExact'
<1>1. Children \subseteq Numbers
  BY DEF Children, Numbers
<1>2. \A e \in Dentries : DentryOk(e) /\ HashedOk(e)
  BY DEF FsRuns, GuestInv, DentriesInv, HashedInv
<1>3. TreeInv'
  BY <1>1 DEF TreeInv, FsRuns, GuestInv
<1>4. PlacesExact'
  BY DEF PlacesExact, FsRuns
<1>5. \A p \in Places : InoAfter(p) = InoOf(p)
  BY DEF InoAfter, InoOf, Places
<1>6. \A m, p, x : First(m, p, x) => FirstAfter(m, p, x)
  BY <1>1 DEF First, FirstAfter
<1>7. ASSUME NEW e \in Dentries PROVE DentryOk(e)'
  <2>1. CASE ~Used(e)
    BY <1>2, <2>1 DEF DentryOk, Used
  <2>2. CASE Used(e)
    <3>1. dentry[e].ino \in Numbers /\ inode'[dentry[e].ino].live = inode[dentry[e].ino].live
          /\ inode'[dentry[e].ino].name = inode[dentry[e].ino].name
      BY <1>1, <1>2, <2>2 DEF DentryOk
    <3> QED BY <1>2, <2>2, <3>1 DEF DentryOk, Used, IsDir
  <2> QED BY <2>1, <2>2
<1>8. ASSUME NEW e \in Dentries PROVE HashedOk(e)'
  <2> SUFFICES ASSUME dentry[e].hashed
               PROVE  /\ FirstAfter(dentry'[e].ino, InoAfter(dentry'[e].parent), dentry'[e].name)
                      /\ dentry'[e].parent # Root => <<dentry'[dentry'[e].parent].name, dentry'[e].name>> \in disk'
                      /\ \A c \in Dentries : Used(c)' /\ dentry'[c].parent = dentry'[e].parent /\ dentry'[c].hashed
                                             /\ dentry'[c].name = dentry'[e].name => c = e
    BY DEF HashedOk, First, FirstAfter, InoOf, InoAfter, Hashed, Below
  <2>1. dentry[e].parent \in Places /\ (dentry[e].parent # Root => dentry[e].parent \in Dentries)
    BY HashedFacts DEF Places
  <2>2. FirstAfter(dentry'[e].ino, InoAfter(dentry'[e].parent), dentry'[e].name)
    BY <1>2, <1>5, <1>6, <2>1 DEF HashedOk
  <2>3. dentry'[e].parent # Root => <<dentry'[dentry'[e].parent].name, dentry'[e].name>> \in disk'
    BY <1>2, <2>1 DEF HashedOk
  <2>4. ASSUME NEW c \in Dentries, Used(c)', dentry'[c].parent = dentry'[e].parent, dentry'[c].hashed,
               dentry'[c].name = dentry'[e].name
        PROVE  c = e
    <3>1. c \in Hashed(dentry[e].parent, dentry[e].name)
      BY <2>4 DEF Hashed, Below, Used
    <3> QED BY <1>2, <3>1 DEF HashedOk
  <2> QED BY <2>2, <2>3, <2>4
<1>9. TaskInv'
  <2> SUFFICES ASSUME task # None
               PROVE  /\ Directory(task.parent)' /\ NameIn(task.parent, task.name) /\ (Hashed(task.parent, task.name) = {})'
                      /\ task.ino < next_inode_num
                      /\ inode'[task.ino].live => FirstAfter(task.ino, InoAfter(task.parent), task.name)
                      /\ task.parent # Root => <<dentry'[task.parent].name, task.name>> \in disk'
    BY DEF TaskInv, First, FirstAfter, NameIn, InoOf, InoAfter
  <2>1. /\ Directory(task.parent) /\ NameIn(task.parent, task.name) /\ Hashed(task.parent, task.name) = {}
        /\ task.ino < next_inode_num
        /\ inode[task.ino].live => First(task.ino, InoOf(task.parent), task.name)
        /\ task.parent # Root => <<dentry[task.parent].name, task.name>> \in disk
        /\ task.parent \in Places /\ task.ino \in Numbers
    BY <1>1 DEF FsRuns, GuestInv, TaskInv, FsTypes
  <2>2. Directory(task.parent)' /\ InoAfter(task.parent) = InoOf(task.parent)
    BY <1>5, <2>1 DEF Directory, Used, IsDir
  <2>3. (Hashed(task.parent, task.name) = {})'
    BY <2>1 DEF Hashed, Below, Used
  <2>4. task.parent # Root => <<dentry'[task.parent].name, task.name>> \in disk'
    BY <2>1 DEF Directory
  <2> QED BY <1>6, <2>1, <2>2, <2>3, <2>4
<1>10. OwnInode'
  <2> SUFFICES ASSUME ~reborn, NEW e \in Dentries, Used(e)'
               PROVE  /\ inode'[dentry'[e].ino].live /\ inode'[dentry'[e].ino].parent = InoAfter(dentry'[e].parent)
                      /\ \A c \in Dentries : dentry'[c].ino = dentry'[e].ino => c = e
    BY DEF OwnInode, OwnOk, InoOf, InoAfter
  <2>1. Used(e) /\ OwnOk(e) /\ DentryOk(e)
    BY <1>2 DEF FsRuns, GuestInv, OwnInode, Used
  <2>2. InoAfter(dentry'[e].parent) = InoOf(dentry[e].parent) /\ dentry[e].ino \in Numbers
    BY <1>1, <1>5, <2>1 DEF DentryOk, Places
  <2> QED BY <2>1, <2>2 DEF OwnOk
<1> QED BY <1>3, <1>4, <1>7, <1>8, <1>9, <1>10 DEF GuestInv, DentriesInv, HashedInv

\* Those who read a list can be counted.
LEMMA ReadersCounted ==
    ASSUME NEW n
    PROVE  /\ IsFiniteSet(ReadersOf(n)) /\ Cardinality(ReadersOf(n)) \in Nat
           /\ \A r : r \notin ReadersOf(n) => Cardinality(ReadersOf(n) \cup {r}) = Cardinality(ReadersOf(n)) + 1
           /\ \A r \in ReadersOf(n) : Cardinality(ReadersOf(n) \ {r}) = Cardinality(ReadersOf(n)) - 1
<1>1. IsFiniteSet(Dentries \X (1..MaxOpens))
  <2>1. IsFiniteSet(1..MaxOpens) /\ IsFiniteSet(Dentries)
    BY FileSystemAssumption, FS_Interval
  <2> QED BY <2>1, FS_Product
<1>2. IsFiniteSet(ReadersOf(n))
  BY <1>1, FS_Subset DEF ReadersOf
<1> QED BY <1>2, FS_CardinalityType, FS_AddElement, FS_RemoveElement

LEMMA FsOpen ==
    ASSUME FsInv, NEW d \in Dentries, Open(d)
    PROVE  FsInv'
<1> DEFINE n == dentry[d].ino
           r == <<d, dentry[d].open + 1>>
<1>1. /\ FsRuns /\ Used(d) /\ dentry[d].hashed /\ dentry[d].open < MaxOpens
      /\ dentry' = [dentry EXCEPT ![d].open = @ + 1]
      /\ UNCHANGED <<place, next_inode_num, disk, icache, task, raced, reborn, nomem>>
      /\ inode' = IF IsDir(d) THEN [inode EXCEPT ![n].refcount = @ + 1] ELSE inode
  BY RunsInv DEF Open
<1>2. n \in Children /\ n \in Numbers /\ n # 1 /\ n # 0 /\ inode[n].live
  BY <1>1, HashedFacts, FileSystemAssumption DEF Children
<1>3. dentry[d].open \in Nat /\ dentry[d].open + 1 \in 1..MaxOpens
  BY <1>1, FileSystemAssumption DEF FsRuns, FsTypes
<1>4. /\ dentry'[d].open = dentry[d].open + 1
      /\ \A e \in Dentries : /\ dentry'[e].ino = dentry[e].ino /\ dentry'[e].parent = dentry[e].parent
                             /\ dentry'[e].name = dentry[e].name /\ dentry'[e].hashed = dentry[e].hashed
                             /\ e # d => dentry'[e] = dentry[e]
  BY <1>1 DEF FsRuns, FsTypes
<1>5. /\ inode'[n].refcount = IF IsDir(d) THEN inode[n].refcount + 1 ELSE inode[n].refcount
      /\ \A m \in Numbers : /\ inode'[m].live = inode[m].live /\ inode'[m].parent = inode[m].parent
                            /\ inode'[m].name = inode[m].name
                            /\ m # n => inode'[m] = inode[m]
  BY <1>1, <1>2 DEF FsRuns, FsTypes
<1>6. GuestInv' /\ PlacesExact'
  BY <1>1, <1>2, <1>4, <1>5, OpensKeep
<1>7. FsTypes'
  <2>1. DentryTypes'
    <3>1. dentry[d].open + 1 \in 0..MaxOpens
      BY <1>3
    <3> QED BY <1>1, <3>1 DEF FsRuns, FsTypes, DentryTypes
  <2>2. inode' \in [Numbers -> [live : BOOLEAN, parent : 0..MaxIno, name : Names \cup {None}, refcount : Int]]
    BY <1>1, <1>2 DEF FsRuns, FsTypes
  <2>3. inode'[1] = inode[1]
    BY <1>2, <1>5, FileSystemAssumption DEF Numbers
  <2> QED BY <1>1, <2>1, <2>2, <2>3 DEF FsRuns, FsTypes, DentryTypes, Free
<1>8. ListsExact'
  <2> SUFFICES ASSUME NEW m \in Numbers PROVE inode'[m].refcount = Cardinality(ReadersOf(m)')
    BY DEF ListsExact
  <2>1. inode[m].refcount = Cardinality(ReadersOf(m))
    BY <1>1 DEF FsRuns, ListsExact
  <2>2. CASE m = n /\ IsDir(d)
    <3>1. ReadersOf(m)' = ReadersOf(m) \cup {r} /\ r \notin ReadersOf(m)
      <4>1. IsDir(d)' /\ \A e \in Dentries : IsDir(e)' <=> IsDir(e)
        BY <1>4, <2>2 DEF IsDir
      <4>2. r \notin ReadersOf(m)
        BY <1>3 DEF ReadersOf
      <4>3. ASSUME NEW s \in Dentries \X (1..MaxOpens)
            PROVE  s \in ReadersOf(m)' <=> s \in ReadersOf(m) \/ s = r
        <5>1. s[1] \in Dentries /\ s[2] \in Nat /\ s = <<s[1], s[2]>>
          OBVIOUS
        <5>2. CASE s[1] = d
          <6>1. s = r <=> s[2] = dentry[d].open + 1
            BY <5>1, <5>2
          <6>2. s[2] <= dentry[d].open + 1 <=> (s[2] <= dentry[d].open \/ s[2] = dentry[d].open + 1)
            BY <1>3, <5>1
          <6> QED BY <1>4, <2>2, <4>1, <5>2, <6>1, <6>2 DEF ReadersOf
        <5>3. CASE s[1] # d
          BY <1>4, <4>1, <5>1, <5>3 DEF ReadersOf
        <5> QED BY <5>2, <5>3
      <4>4. r \in Dentries \X (1..MaxOpens)
        BY <1>3
      <4>5. ReadersOf(m) \subseteq Dentries \X (1..MaxOpens) /\ ReadersOf(m)' \subseteq Dentries \X (1..MaxOpens)
        BY DEF ReadersOf
      <4> HIDE DEF r
      <4> QED BY <4>2, <4>3, <4>4, <4>5
    <3> HIDE DEF r
    <3>2. Cardinality(ReadersOf(m) \cup {r}) = Cardinality(ReadersOf(m)) + 1
      BY <3>1, ReadersCounted
    <3> QED BY <1>5, <2>1, <2>2, <3>1, <3>2
  <2>3. CASE ~(m = n /\ IsDir(d))
    <3>1. ReadersOf(m)' = ReadersOf(m)
      BY <1>4, <2>3 DEF ReadersOf, IsDir
    <3> QED BY <1>5, <2>1, <2>3, <3>1
  <2> QED BY <2>2, <2>3
<1> QED BY <1>6, <1>7, <1>8 DEF FsInv

LEMMA FsRelease ==
    ASSUME FsInv, NEW d \in Dentries, Release(d)
    PROVE  FsInv'
<1> DEFINE n == dentry[d].ino
           r == <<d, dentry[d].open>>
<1>1. /\ FsRuns /\ Used(d) /\ dentry[d].open > 0
      /\ dentry' = [dentry EXCEPT ![d].open = @ - 1]
      /\ UNCHANGED <<place, next_inode_num, disk, icache, task, raced, reborn, nomem>>
      /\ inode' = IF IsDir(d) THEN [inode EXCEPT ![n].refcount = @ - 1] ELSE inode
  BY RunsInv DEF Release
<1>2. n \in Children /\ n \in Numbers /\ n # 1 /\ n # 0 /\ (IsDir(d) => inode[n].live)
  BY <1>1, FileSystemAssumption DEF FsRuns, GuestInv, DentriesInv, DentryOk, Children, Numbers
<1>3. dentry[d].open \in 1..MaxOpens /\ dentry[d].open - 1 \in 0..MaxOpens /\ MaxOpens \in Nat
  BY <1>1, FileSystemAssumption DEF FsRuns, FsTypes
<1>4. /\ dentry'[d].open = dentry[d].open - 1
      /\ \A e \in Dentries : /\ dentry'[e].ino = dentry[e].ino /\ dentry'[e].parent = dentry[e].parent
                             /\ dentry'[e].name = dentry[e].name /\ dentry'[e].hashed = dentry[e].hashed
                             /\ e # d => dentry'[e] = dentry[e]
  BY <1>1 DEF FsRuns, FsTypes
<1>5. /\ inode'[n].refcount = IF IsDir(d) THEN inode[n].refcount - 1 ELSE inode[n].refcount
      /\ \A m \in Numbers : /\ inode'[m].live = inode[m].live /\ inode'[m].parent = inode[m].parent
                            /\ inode'[m].name = inode[m].name
                            /\ (m # n \/ ~IsDir(d)) => inode'[m] = inode[m]
  BY <1>1, <1>2 DEF FsRuns, FsTypes
<1>6. GuestInv' /\ PlacesExact'
  BY <1>1, <1>2, <1>4, <1>5, OpensKeep
<1>7. FsTypes'
  <2>1. DentryTypes'
    BY <1>1, <1>3 DEF FsRuns, FsTypes, DentryTypes
  <2>2. inode' \in [Numbers -> [live : BOOLEAN, parent : 0..MaxIno, name : Names \cup {None}, refcount : Int]]
    BY <1>1, <1>2 DEF FsRuns, FsTypes
  <2>3. inode'[1] = inode[1]
    BY <1>2, <1>5, FileSystemAssumption DEF Numbers
  <2> QED BY <1>1, <2>1, <2>2, <2>3 DEF FsRuns, FsTypes, DentryTypes, Free
<1>8. ListsExact'
  <2> SUFFICES ASSUME NEW m \in Numbers PROVE inode'[m].refcount = Cardinality(ReadersOf(m)')
    BY DEF ListsExact
  <2>1. inode[m].refcount = Cardinality(ReadersOf(m))
    BY <1>1 DEF FsRuns, ListsExact
  <2>2. CASE m = n /\ IsDir(d)
    <3>1. ReadersOf(m)' = ReadersOf(m) \ {r} /\ r \in ReadersOf(m)
      <4>1. \A e \in Dentries : IsDir(e)' <=> IsDir(e)
        BY <1>4 DEF IsDir
      <4>2. r \in ReadersOf(m)
        BY <1>3, <2>2 DEF ReadersOf
      <4>3. ASSUME NEW s \in Dentries \X (1..MaxOpens)
            PROVE  s \in ReadersOf(m)' <=> s \in ReadersOf(m) /\ s # r
        <5>1. s[1] \in Dentries /\ s[2] \in Nat /\ s = <<s[1], s[2]>>
          OBVIOUS
        <5>2. CASE s[1] = d
          <6>1. s = r <=> s[2] = dentry[d].open
            BY <5>1, <5>2
          <6>2. s[2] <= dentry[d].open - 1 <=> (s[2] <= dentry[d].open /\ s[2] # dentry[d].open)
            BY <1>3, <5>1
          <6> QED BY <1>4, <2>2, <4>1, <5>2, <6>1, <6>2 DEF ReadersOf
        <5>3. CASE s[1] # d
          BY <1>4, <4>1, <5>1, <5>3 DEF ReadersOf
        <5> QED BY <5>2, <5>3
      <4>5. ReadersOf(m) \subseteq Dentries \X (1..MaxOpens) /\ ReadersOf(m)' \subseteq Dentries \X (1..MaxOpens)
        BY DEF ReadersOf
      <4> HIDE DEF r
      <4> QED BY <4>2, <4>3, <4>5
    <3> HIDE DEF r
    <3>2. Cardinality(ReadersOf(m) \ {r}) = Cardinality(ReadersOf(m)) - 1
      BY <3>1, ReadersCounted
    <3> QED BY <1>5, <2>1, <2>2, <3>1, <3>2
  <2>3. CASE ~(m = n /\ IsDir(d))
    <3>1. ReadersOf(m)' = ReadersOf(m)
      BY <1>4, <2>3 DEF ReadersOf, IsDir
    <3> QED BY <1>5, <2>1, <2>3, <3>1
  <2> QED BY <2>2, <2>3
<1> QED BY <1>6, <1>7, <1>8 DEF FsInv

\* Paths, and what the host finds, are as before where names, directories and inodes are.
LEMMA SameFirst ==
    ASSUME UNCHANGED <<inode, place>>, NEW m, NEW p, NEW x, First(m, p, x)
    PROVE  FirstAfter(m, p, x)
BY DEF First, FirstAfter

LEMMA FsIget ==
    ASSUME FsInv, NEW d \in Dentries, Iget(d)
    PROVE  FsInv'
<1> DEFINE n == task.ino
           p == task.parent
           x == task.name
           new == [ino |-> n, parent |-> p, name |-> x, hashed |-> TRUE, open |-> 0]
<1>1. /\ FsRuns /\ task # None /\ ~Used(d) /\ icache' = [icache EXCEPT ![n] = "live"]
      /\ dentry' = [dentry EXCEPT ![d] = new]
      /\ task' = None /\ raced' = ~inode[n].live
      /\ reborn' = (reborn \/ \E e \in Dentries : dentry[e].ino = n /\ ~dentry[e].hashed)
      /\ UNCHANGED <<hostVars, disk, nomem>>
  BY RunsInv DEF Iget
<1>2. /\ Directory(p) /\ NameIn(p, x) /\ Hashed(p, x) = {} /\ n < next_inode_num
      /\ inode[n].live => First(n, InoOf(p), x)
      /\ p # Root => <<dentry[p].name, x>> \in disk
      /\ p \in Places /\ x \in Names /\ n \in Children /\ n \in Numbers /\ n # 1 /\ n # 0
  BY <1>1, FileSystemAssumption DEF FsRuns, GuestInv, TaskInv, FsTypes, Children, Numbers
<1>3. \A e \in Dentries : DentryOk(e) /\ HashedOk(e)
  BY <1>1 DEF FsRuns, GuestInv, DentriesInv, HashedInv
<1>4. /\ dentry[d] = Unused /\ p # d
      /\ \A e \in Dentries : Used(e) => dentry[e].parent # d
  BY <1>1, <1>2, <1>3, FileSystemAssumption DEF DentryOk, Directory
<1>5. /\ dentry'[d].ino = n /\ dentry'[d].parent = p /\ dentry'[d].name = x /\ dentry'[d].hashed /\ dentry'[d].open = 0
      /\ \A e \in Dentries \ {d} : dentry'[e] = dentry[e]
  BY <1>1 DEF FsRuns, FsTypes
<1>6. icache'[n] = "live" /\ \A m \in Numbers : m # n => icache'[m] = icache[m]
  BY <1>1, <1>2 DEF FsRuns, FsTypes
<1>7. inode' = inode /\ place' = place /\ next_inode_num' = next_inode_num /\ disk' = disk
  BY <1>1 DEF hostVars
<1>8. FsTypes'
  <2>1. ASSUME NEW b \in BOOLEAN, NEW f,
               f = [dentry EXCEPT ![d] = [ino |-> n, parent |-> p, name |-> x, hashed |-> b, open |-> 0]]
        PROVE  f \in [Dentries -> [ino : 0..MaxIno, parent : Places \cup {None}, name : Names \cup {None},
                                   hashed : BOOLEAN, open : 0..MaxOpens]]
    <3>1. n \in 0..MaxIno /\ 0 \in 0..MaxOpens
      BY <1>2, FileSystemAssumption DEF Numbers
    <3> QED BY <1>1, <1>2, <2>1, <3>1 DEF FsRuns, FsTypes
  <2>2. dentry' \in [Dentries -> [ino : 0..MaxIno, parent : Places \cup {None}, name : Names \cup {None},
                                   hashed : BOOLEAN, open : 0..MaxOpens]]
    BY <1>1, <2>1
  <2>3. icache' \in [Numbers -> {"none", "live", "freeing"}] /\ icache'[1] = "none"
    BY <1>1, <1>2, FileSystemAssumption DEF FsRuns, FsTypes, Numbers
  <2>4. {raced', reborn', nomem'} \subseteq BOOLEAN
    <3>1. raced' \in BOOLEAN
      BY <1>1
    <3>2. reborn' \in BOOLEAN
      BY <1>1
    <3>3. nomem' \in BOOLEAN
      BY <1>1 DEF FsRuns, FsTypes
    <3> QED BY <3>1, <3>2, <3>3
  <2> QED BY <1>1, <1>7, <2>2, <2>3, <2>4 DEF FsRuns, FsTypes, Free
<1>9. PlacesExact' /\ TreeInv'
  BY <1>1, <1>7 DEF FsRuns, GuestInv, PlacesExact, TreeInv
<1>10. ListsExact'
  <2>1. \A m \in Numbers : ReadersOf(m)' = ReadersOf(m)
    <3>1. dentry[d].open = 0 /\ dentry'[d].open = 0 /\ \A i \in 1..MaxOpens : ~(i <= 0)
      BY <1>4, <1>5, FileSystemAssumption DEF Unused
    <3> QED BY <1>5, <3>1 DEF ReadersOf, IsDir
  <2> QED BY <1>1, <1>7, <2>1 DEF FsRuns, ListsExact
<1>11. CASE ~inode[n].live
  <2>1. ~Runs'
    BY <1>1, <1>11 DEF Runs
  <2> QED BY <1>8, <1>9, <1>10, <2>1 DEF FsInv
<1>12. CASE inode[n].live
  <2>1. First(n, InoOf(p), x) /\ inode[n].name = x /\ inode[n].parent = InoOf(p)
    BY <1>2, <1>12 DEF First
  <2>2. \A q \in Places : Directory(q) => InoAfter(q) = InoOf(q) /\ q # d
    BY <1>1, <1>5, FileSystemAssumption DEF InoAfter, InoOf, Directory, Places
  <2>3. ASSUME NEW e \in Dentries PROVE DentryOk(e)'
    <3>1. CASE e # d /\ ~Used(e)
      BY <1>3, <1>5, <3>1 DEF DentryOk, Used
    <3>2. CASE e # d /\ Used(e)
      <4>1. dentry[e].parent # d /\ dentry'[e] = dentry[e] /\ icache'[dentry[e].ino] = "live"
        BY <1>2, <1>3, <1>4, <1>5, <1>6, <3>2 DEF DentryOk, Children, Numbers
      <4>2. dentry[e].parent \in Dentries => dentry'[dentry[e].parent] = dentry[dentry[e].parent]
        BY <1>5, <4>1
      <4> QED BY <1>3, <1>7, <3>2, <4>1, <4>2 DEF DentryOk, Used, IsDir
    <3>3. CASE e = d
      <4>1. /\ IsDir(d)' => x \in DirNames
            /\ ~(IsDir(d)') => x \notin DirNames
        BY <1>5 DEF IsDir
      <4>2. p # Root => /\ p \in Dentries /\ dentry'[p].ino # 0 /\ dentry'[p].name \in DirNames
                        /\ dentry'[p].hashed /\ x \in FileNames
        <5> SUFFICES ASSUME p # Root PROVE /\ p \in Dentries /\ dentry'[p].ino # 0 /\ dentry'[p].name \in DirNames
                                           /\ dentry'[p].hashed /\ x \in FileNames
          OBVIOUS
        <5>1. p \in Dentries /\ Used(p) /\ dentry[p].hashed /\ IsDir(p) /\ dentry'[p] = dentry[p]
          BY <1>2, <1>4, <1>5 DEF Directory
        <5>2. x \in FileNames
          BY <1>2 DEF NameIn, Names
        <5> QED BY <5>1, <5>2 DEF Used, IsDir
      <4>3. /\ dentry'[d].ino \in Children /\ dentry'[d].ino < next_inode_num' /\ icache'[dentry'[d].ino] = "live"
            /\ dentry'[d].name \in Names /\ inode'[dentry'[d].ino].live /\ inode'[dentry'[d].ino].name = x
        BY <1>2, <1>5, <1>6, <1>7, <1>12, <2>1
      <4> QED BY <1>2, <1>5, <3>3, <4>1, <4>2, <4>3 DEF DentryOk, Used, IsDir, Places
    <3> QED BY <3>1, <3>2, <3>3
  <2>4. ASSUME NEW e \in Dentries, dentry'[e].hashed
        PROVE  /\ FirstAfter(dentry'[e].ino, InoAfter(dentry'[e].parent), dentry'[e].name)
               /\ dentry'[e].parent # Root => <<dentry'[dentry'[e].parent].name, dentry'[e].name>> \in disk'
               /\ \A c \in Dentries : Used(c)' /\ dentry'[c].parent = dentry'[e].parent /\ dentry'[c].hashed
                                      /\ dentry'[c].name = dentry'[e].name => c = e
    <3>1. \A c \in Dentries : c # d /\ dentry'[c].hashed => ~(dentry[c].parent = p /\ dentry[c].name = x)
      BY <1>1, <1>2, <1>5, HashedFacts DEF Hashed, Below
    <3>2. CASE e = d
      <4>1. FirstAfter(n, InoAfter(p), x)
        BY <1>2, <1>7, <2>1, <2>2, SameFirst
      <4>2. p # Root => <<dentry'[p].name, x>> \in disk'
        BY <1>2, <1>4, <1>5, <1>7 DEF Directory
      <4> QED BY <1>5, <3>1, <3>2, <4>1, <4>2
    <3>3. CASE e # d
      <4>1. dentry'[e] = dentry[e] /\ dentry[e].hashed /\ dentry[e].parent \in Places /\ Directory(dentry[e].parent)
            /\ (dentry[e].parent # Root => dentry[e].parent \in Dentries \ {d})
        BY <1>1, <1>5, <2>2, <2>4, <3>3, HashedFacts DEF Places
      <4>2. FirstAfter(dentry[e].ino, InoAfter(dentry[e].parent), dentry[e].name)
        BY <1>3, <1>7, <2>2, <4>1, SameFirst DEF HashedOk
      <4>3. dentry[e].parent # Root => <<dentry'[dentry[e].parent].name, dentry[e].name>> \in disk'
        BY <1>3, <1>5, <1>7, <4>1 DEF HashedOk
      <4>4. ASSUME NEW c \in Dentries, Used(c)', dentry'[c].parent = dentry[e].parent, dentry'[c].hashed,
                   dentry'[c].name = dentry[e].name
            PROVE  c = e
        <5>1. c # d
          BY <1>5, <2>4, <3>1, <3>3, <4>1, <4>4
        <5>2. c \in Hashed(dentry[e].parent, dentry[e].name)
          BY <1>5, <4>4, <5>1 DEF Hashed, Below, Used
        <5> QED BY <1>3, <4>1, <5>2 DEF HashedOk
      <4> QED BY <4>1, <4>2, <4>3, <4>4
    <3> QED BY <3>2, <3>3
  <2>5. HashedInv'
    BY <2>4 DEF HashedInv, HashedOk, First, FirstAfter, InoOf, InoAfter, Hashed, Below
  <2>6. TaskInv'
    BY <1>1 DEF TaskInv
  <2>7. ASSUME ~reborn', NEW e \in Dentries, Used(e)'
        PROVE  /\ inode[dentry'[e].ino].live /\ inode[dentry'[e].ino].parent = InoAfter(dentry'[e].parent)
               /\ \A c \in Dentries : dentry'[c].ino = dentry'[e].ino => c = e
    <3>1. ~reborn /\ \A c \in Dentries : dentry[c].ino = n => dentry[c].hashed
      BY <1>1, <2>7
    <3>2. ASSUME NEW c \in Dentries, dentry[c].ino = n PROVE FALSE
      <4>1. dentry[c].hashed
        BY <3>1, <3>2
      <4>2. /\ Directory(dentry[c].parent) /\ dentry[c].parent \in Places /\ Used(c)
            /\ First(n, InoOf(dentry[c].parent), dentry[c].name)
        BY <1>1, <3>2, <4>1, HashedFacts
      <4>3. dentry[c].name = x /\ InoOf(dentry[c].parent) = InoOf(p)
        BY <2>1, <4>2 DEF First
      <4>4. dentry[c].parent = p
        BY <1>1, <1>2, <4>2, <4>3, SameDirectory
      <4> QED BY <1>2, <4>1, <4>2, <4>3, <4>4 DEF Hashed, Below
    <3>3. CASE e = d
      <4>1. InoAfter(p) = InoOf(p)
        BY <1>2, <2>2
      <4> QED BY <1>5, <1>12, <2>1, <3>2, <3>3, <4>1
    <3>4. CASE e # d
      <4>1. Used(e) /\ dentry'[e] = dentry[e]
        BY <1>5, <2>7, <3>4 DEF Used
      <4>2. OwnOk(e) /\ DentryOk(e)
        BY <1>1, <1>3, <3>1 DEF FsRuns, GuestInv, OwnInode
      <4>3. InoAfter(dentry[e].parent) = InoOf(dentry[e].parent)
        BY <1>4, <1>5, <4>1, <4>2 DEF InoAfter, InoOf, DentryOk
      <4>4. \A c \in Dentries : dentry'[c].ino = dentry[e].ino => c = e
        BY <1>5, <3>2, <4>1, <4>2 DEF OwnOk
      <4> QED BY <4>1, <4>2, <4>3, <4>4 DEF OwnOk
    <3> QED BY <3>3, <3>4
  <2>8. OwnInode'
    BY <1>7, <2>7 DEF OwnInode, OwnOk, InoOf, InoAfter
  <2> QED BY <1>8, <1>9, <1>10, <2>3, <2>5, <2>6, <2>8 DEF FsInv, GuestInv, DentriesInv
<1> QED BY <1>11, <1>12

LEMMA FsPrune ==
    ASSUME FsInv, NEW d \in Dentries, Prune(d)
    PROVE  FsInv'
<1>1. /\ FsRuns /\ Used(d) /\ dentry[d].open = 0 /\ Below(d) = {} /\ ~Locked(d)
      /\ dentry' = [dentry EXCEPT ![d] = Unused]
      /\ UNCHANGED <<hostVars, disk, icache, task, raced, reborn, nomem>>
  BY RunsInv DEF Prune
<1>2. \A e \in Dentries : DentryOk(e) /\ HashedOk(e)
  BY <1>1 DEF FsRuns, GuestInv, DentriesInv, HashedInv
<1>3. \A e \in Dentries : Used(e) => dentry[e].parent # d
  BY <1>1 DEF Below
<1>4. dentry'[d] = Unused /\ \A e \in Dentries \ {d} : dentry'[e] = dentry[e]
  BY <1>1 DEF FsRuns, FsTypes
<1>5. inode' = inode /\ place' = place /\ next_inode_num' = next_inode_num /\ disk' = disk
  BY <1>1 DEF hostVars
<1>6. FsTypes'
  <2>1. ASSUME NEW b \in BOOLEAN, NEW f,
               f = [dentry EXCEPT ![d] = [ino |-> 0, parent |-> None, name |-> None, hashed |-> b, open |-> 0]]
        PROVE  f \in [Dentries -> [ino : 0..MaxIno, parent : Places \cup {None}, name : Names \cup {None},
                                   hashed : BOOLEAN, open : 0..MaxOpens]]
    <3>1. 0 \in 0..MaxIno /\ 0 \in 0..MaxOpens
      BY FileSystemAssumption
    <3> QED BY <1>1, <2>1, <3>1 DEF FsRuns, FsTypes
  <2>2. dentry' \in [Dentries -> [ino : 0..MaxIno, parent : Places \cup {None}, name : Names \cup {None},
                                   hashed : BOOLEAN, open : 0..MaxOpens]]
    BY <1>1, <2>1 DEF Unused
  <2> QED BY <1>1, <1>5, <2>2 DEF FsRuns, FsTypes, Free
<1>7. PlacesExact' /\ TreeInv'
  BY <1>1, <1>5 DEF FsRuns, GuestInv, PlacesExact, TreeInv
<1>8. \A e \in Dentries : Used(e)' <=> Used(e) /\ e # d
  BY <1>1, <1>4 DEF Used, Unused
<1>9. ListsExact'
  <2>1. \A m \in Numbers : ReadersOf(m)' = ReadersOf(m)
    <3>1. dentry[d].open = 0 /\ dentry'[d].open = 0 /\ \A i \in 1..MaxOpens : ~(i <= 0)
      BY <1>1, <1>4, FileSystemAssumption DEF Unused
    <3> QED BY <1>4, <3>1 DEF ReadersOf, IsDir
  <2> QED BY <1>1, <1>5, <2>1 DEF FsRuns, ListsExact, Runs
<1>10. ASSUME NEW e \in Dentries PROVE DentryOk(e)'
  <2>1. CASE e # d /\ Used(e)
    <3>1. dentry[e].parent \in Dentries => dentry'[dentry[e].parent] = dentry[dentry[e].parent]
      BY <1>3, <1>4, <2>1
    <3> QED BY <1>1, <1>2, <1>4, <1>5, <2>1, <3>1 DEF DentryOk, Used, IsDir
  <2>2. CASE e # d /\ ~Used(e)
    BY <1>2, <1>4, <2>2 DEF DentryOk, Used
  <2>3. CASE e = d
    BY <1>4, <2>3 DEF DentryOk, Used, Unused
  <2> QED BY <2>1, <2>2, <2>3
<1>11. \A p \in Places : p # d => InoAfter(p) = InoOf(p)
  BY <1>4 DEF InoAfter, InoOf, Places
<1>12. ASSUME NEW e \in Dentries, dentry'[e].hashed
       PROVE  /\ FirstAfter(dentry'[e].ino, InoAfter(dentry'[e].parent), dentry'[e].name)
              /\ dentry'[e].parent # Root => <<dentry'[dentry'[e].parent].name, dentry'[e].name>> \in disk'
              /\ \A c \in Dentries : Used(c)' /\ dentry'[c].parent = dentry'[e].parent /\ dentry'[c].hashed
                                     /\ dentry'[c].name = dentry'[e].name => c = e
  <2>1. e # d /\ dentry'[e] = dentry[e] /\ dentry[e].hashed
    BY <1>4, <1>12 DEF Unused
  <2>2. dentry[e].parent \in Places /\ dentry[e].parent # d
        /\ (dentry[e].parent # Root => dentry[e].parent \in Dentries \ {d})
    BY <1>1, <1>3, <2>1, HashedFacts DEF Places
  <2>3. FirstAfter(dentry[e].ino, InoAfter(dentry[e].parent), dentry[e].name)
    BY <1>2, <1>5, <1>11, <2>1, <2>2, SameFirst DEF HashedOk
  <2>4. dentry[e].parent # Root => <<dentry'[dentry[e].parent].name, dentry[e].name>> \in disk'
    BY <1>2, <1>4, <1>5, <2>1, <2>2 DEF HashedOk
  <2>5. ASSUME NEW c \in Dentries, Used(c)', dentry'[c].parent = dentry[e].parent, dentry'[c].hashed,
               dentry'[c].name = dentry[e].name
        PROVE  c = e
    <3>1. c \in Hashed(dentry[e].parent, dentry[e].name)
      BY <1>4, <1>8, <2>5 DEF Hashed, Below
    <3> QED BY <1>2, <2>1, <3>1 DEF HashedOk
  <2> QED BY <2>1, <2>3, <2>4, <2>5
<1>13. HashedInv'
  BY <1>12 DEF HashedInv, HashedOk, First, FirstAfter, InoOf, InoAfter, Hashed, Below
<1>14. TaskInv'
  <2> SUFFICES ASSUME task # None
               PROVE  /\ Directory(task.parent)' /\ NameIn(task.parent, task.name) /\ (Hashed(task.parent, task.name) = {})'
                      /\ task.ino < next_inode_num
                      /\ inode[task.ino].live => FirstAfter(task.ino, InoAfter(task.parent), task.name)
                      /\ task.parent # Root => <<dentry'[task.parent].name, task.name>> \in disk'
    BY <1>1, <1>5 DEF TaskInv, First, FirstAfter, NameIn, InoOf, InoAfter
  <2>1. /\ Directory(task.parent) /\ NameIn(task.parent, task.name) /\ Hashed(task.parent, task.name) = {}
        /\ task.ino < next_inode_num
        /\ inode[task.ino].live => First(task.ino, InoOf(task.parent), task.name)
        /\ task.parent # Root => <<dentry[task.parent].name, task.name>> \in disk
        /\ task.parent \in Places /\ task.parent # d
    BY <1>1 DEF FsRuns, GuestInv, TaskInv, FsTypes, Locked
  <2>2. Directory(task.parent)'
    BY <1>1, <1>4, <1>8, <2>1 DEF Directory, IsDir
  <2>3. (Hashed(task.parent, task.name) = {})'
    BY <1>1, <1>4, <1>8, <2>1 DEF Hashed, Below, Unused
  <2>4. task.parent # Root => <<dentry'[task.parent].name, task.name>> \in disk'
    BY <1>4, <1>5, <2>1 DEF Directory
  <2>5. inode[task.ino].live => FirstAfter(task.ino, InoAfter(task.parent), task.name)
    BY <1>5, <1>11, <2>1, SameFirst
  <2> QED BY <2>1, <2>2, <2>3, <2>4, <2>5
<1>15. ASSUME ~reborn', NEW e \in Dentries, Used(e)'
       PROVE  /\ inode[dentry'[e].ino].live /\ inode[dentry'[e].ino].parent = InoAfter(dentry'[e].parent)
              /\ \A c \in Dentries : dentry'[c].ino = dentry'[e].ino => c = e
  <2>1. e # d /\ Used(e) /\ dentry'[e] = dentry[e] /\ OwnOk(e) /\ DentryOk(e)
    BY <1>1, <1>2, <1>4, <1>8, <1>15 DEF FsRuns, GuestInv, OwnInode
  <2>2. InoAfter(dentry[e].parent) = InoOf(dentry[e].parent)
    BY <1>3, <1>11, <2>1 DEF DentryOk, Places
  <2>3. ASSUME NEW c \in Dentries, dentry'[c].ino = dentry[e].ino PROVE c = e
    <3>1. dentry'[d].ino = 0 /\ dentry[e].ino # 0
      BY <1>4, <2>1 DEF Unused, Used
    <3> QED BY <1>4, <2>1, <2>3, <3>1 DEF OwnOk
  <2> QED BY <2>1, <2>2, <2>3 DEF OwnOk
<1>16. OwnInode'
  BY <1>5, <1>15 DEF OwnInode, OwnOk, InoOf, InoAfter
<1> QED BY <1>6, <1>7, <1>9, <1>10, <1>13, <1>14, <1>16 DEF FsInv, GuestInv, DentriesInv

\* What the guest knows stays right when only icache, files with one name or inodes that
\* nobody has change.
LEMMA DentriesKeep ==
    ASSUME FsRuns, UNCHANGED <<place, next_inode_num, dentry, task, reborn>>,
           \A a \in DirNames, b \in FileNames : <<a, b>> \in disk => <<a, b>> \in disk',
           \A e \in Dentries : Used(e) => icache'[dentry[e].ino] = "live",
           NEW N \in SUBSET Children, \A m \in Numbers : inode'[m] = IF m \in N THEN Free ELSE inode[m],
           \A e \in Dentries : Used(e) /\ (dentry[e].hashed \/ IsDir(e) \/ ~reborn) => dentry[e].ino \notin N
    PROVE  DentriesInv' /\ HashedInv' /\ TaskInv' /\ OwnInode'
<1>1. \A e \in Dentries : DentryOk(e) /\ HashedOk(e)
  BY DEF FsRuns, GuestInv, DentriesInv, HashedInv
<1>2. Children \subseteq Numbers
  BY DEF Children, Numbers
<1>3. \A p : InoAfter(p) = InoOf(p)
  BY DEF InoAfter, InoOf
<1>4. ASSUME NEW m, NEW p, NEW x \in Names, First(m, p, x), m \notin N PROVE FirstAfter(m, p, x)
  <2>1. \A k \in Children : inode'[k].name = x => inode'[k] = inode[k]
    BY <1>2, FileSystemAssumption DEF Free
  <2> QED BY <1>2, <1>4, <2>1 DEF First, FirstAfter
<1>5. ASSUME NEW e \in Dentries PROVE DentryOk(e)'
  <2>1. CASE ~Used(e)
    BY <1>1, <2>1 DEF DentryOk, Used
  <2>2. CASE Used(e)
    <3>1. dentry[e].ino \in Children /\ dentry[e].ino \in Numbers
      BY <1>1, <1>2, <2>2 DEF DentryOk
    <3>2. IsDir(e) => inode'[dentry[e].ino] = inode[dentry[e].ino]
      BY <2>2, <3>1
    <3>3. ~IsDir(e) => inode'[dentry[e].ino].name \notin DirNames
      BY <1>1, <2>2, <3>1, FileSystemAssumption DEF DentryOk, Free, Names
    <3> QED BY <1>1, <2>2, <3>1, <3>2, <3>3 DEF DentryOk, Used, IsDir
  <2> QED BY <2>1, <2>2
<1>6. ASSUME NEW e \in Dentries PROVE HashedOk(e)'
  <2> SUFFICES ASSUME dentry[e].hashed
               PROVE  /\ FirstAfter(dentry[e].ino, InoAfter(dentry[e].parent), dentry[e].name)
                      /\ dentry[e].parent # Root => <<dentry[dentry[e].parent].name, dentry[e].name>> \in disk'
                      /\ \A c \in Hashed(dentry[e].parent, dentry[e].name) : c = e
    BY DEF HashedOk, First, FirstAfter, InoOf, InoAfter, Hashed, Below, Used
  <2>1. /\ Used(e) /\ dentry[e].name \in Names /\ Directory(dentry[e].parent) /\ dentry[e].parent \in Places
        /\ NameIn(dentry[e].parent, dentry[e].name)
    BY HashedFacts
  <2>2. FirstAfter(dentry[e].ino, InoAfter(dentry[e].parent), dentry[e].name)
    BY <1>1, <1>3, <1>4, <2>1 DEF HashedOk
  <2>3. dentry[e].parent # Root => <<dentry[dentry[e].parent].name, dentry[e].name>> \in disk'
    BY <1>1, <2>1 DEF HashedOk, Directory, IsDir, NameIn, Names
  <2> QED BY <1>1, <2>2, <2>3 DEF HashedOk
<1>7. TaskInv'
  <2> SUFFICES ASSUME task # None
               PROVE  /\ Directory(task.parent) /\ NameIn(task.parent, task.name) /\ Hashed(task.parent, task.name) = {}
                      /\ task.ino < next_inode_num
                      /\ inode'[task.ino].live => FirstAfter(task.ino, InoAfter(task.parent), task.name)
                      /\ task.parent # Root => <<dentry[task.parent].name, task.name>> \in disk'
    BY DEF TaskInv, First, FirstAfter, NameIn, InoOf, InoAfter, Directory, Hashed, Below, Used, IsDir
  <2>1. /\ Directory(task.parent) /\ NameIn(task.parent, task.name) /\ Hashed(task.parent, task.name) = {}
        /\ task.ino < next_inode_num
        /\ inode[task.ino].live => First(task.ino, InoOf(task.parent), task.name)
        /\ task.parent # Root => <<dentry[task.parent].name, task.name>> \in disk
        /\ task.parent \in Places /\ task.ino \in Numbers /\ task.name \in Names
    BY <1>2 DEF FsRuns, GuestInv, TaskInv, FsTypes
  <2>2. inode'[task.ino].live => task.ino \notin N /\ inode[task.ino].live
    BY <2>1 DEF Free
  <2>3. inode'[task.ino].live => FirstAfter(task.ino, InoAfter(task.parent), task.name)
    BY <1>3, <1>4, <2>1, <2>2
  <2>4. task.parent # Root => <<dentry[task.parent].name, task.name>> \in disk'
    BY <2>1 DEF Directory, IsDir, NameIn, Names
  <2> QED BY <2>1, <2>3, <2>4
<1>8. OwnInode'
  <2> SUFFICES ASSUME ~reborn, NEW e \in Dentries, Used(e)
               PROVE  /\ inode'[dentry[e].ino].live /\ inode'[dentry[e].ino].parent = InoAfter(dentry[e].parent)
                      /\ \A c \in Dentries : dentry[c].ino = dentry[e].ino => c = e
    BY DEF OwnInode, OwnOk, InoOf, InoAfter, Used
  <2>1. OwnOk(e) /\ dentry[e].ino \in Numbers
    BY <1>1, <1>2 DEF FsRuns, GuestInv, OwnInode, DentryOk
  <2>2. inode'[dentry[e].ino] = inode[dentry[e].ino]
    BY <2>1
  <2> QED BY <1>3, <2>1, <2>2 DEF OwnOk
<1> QED BY <1>5, <1>6, <1>7, <1>8 DEF DentriesInv, HashedInv

LEMMA FsEvict ==
    ASSUME FsInv, NEW n \in Numbers, Evict(n)
    PROVE  FsInv'
<1>1. /\ FsRuns /\ icache[n] = "live" /\ \A e \in Dentries : dentry[e].ino # n
      /\ icache' = [icache EXCEPT ![n] = "freeing"]
      /\ UNCHANGED <<hostVars, disk, dentry, task, raced, reborn, nomem>>
  BY RunsInv DEF Evict
<1>2. \A m \in Numbers : m # n => icache'[m] = icache[m]
  BY <1>1 DEF FsRuns, FsTypes
<1>3. inode' = inode /\ place' = place /\ next_inode_num' = next_inode_num
  BY <1>1 DEF hostVars
<1>4. \A e \in Dentries : Used(e) => icache'[dentry[e].ino] = "live"
  <2>1. \A e \in Dentries : Used(e) => icache[dentry[e].ino] = "live" /\ dentry[e].ino \in Numbers
    BY <1>1 DEF FsRuns, GuestInv, DentriesInv, DentryOk, Children, Numbers
  <2> QED BY <1>1, <1>2, <2>1
<1>5. DentriesInv' /\ HashedInv' /\ TaskInv' /\ OwnInode'
  <2>1. {} \in SUBSET Children /\ \A m \in Numbers : inode'[m] = IF m \in {} THEN Free ELSE inode[m]
    BY <1>3
  <2> QED BY <1>1, <1>3, <1>4, <2>1, DentriesKeep
<1>6. FsTypes'
  <2>1. icache' \in [Numbers -> {"none", "live", "freeing"}] /\ icache'[1] = "none"
    BY <1>1, <1>2, FileSystemAssumption DEF FsRuns, FsTypes, Numbers
  <2> QED BY <1>1, <1>3, <2>1 DEF FsRuns, FsTypes, Free
<1>7. PlacesExact' /\ TreeInv' /\ ListsExact'
  BY <1>1, <1>3 DEF FsRuns, GuestInv, PlacesExact, TreeInv, ListsExact, ReadersOf, IsDir
<1> QED BY <1>5, <1>6, <1>7 DEF FsInv, GuestInv

LEMMA FsHostChange ==
    ASSUME FsInv, NEW x \in FileNames, HostChange(<<x>>)
    PROVE  FsInv'
<1>1. /\ FsRuns /\ disk' \subseteq disk \cup {<<x>>} /\ \A q \in disk : q # <<x>> => q \in disk'
      /\ UNCHANGED <<hostVars, guestVars, nomem>>
  BY RunsInv DEF HostChange
<1>2. inode' = inode /\ place' = place /\ next_inode_num' = next_inode_num /\ icache' = icache /\ dentry' = dentry
      /\ task' = task /\ raced' = raced /\ reborn' = reborn /\ nomem' = nomem
  BY <1>1 DEF hostVars, guestVars
<1>3. \A a \in DirNames, b \in FileNames : <<a, b>> \in disk => <<a, b>> \in disk'
  BY <1>1
<1>4. \A e \in Dentries : Used(e) => icache'[dentry[e].ino] = "live"
  BY <1>1, <1>2 DEF FsRuns, GuestInv, DentriesInv, DentryOk
<1>5. DentriesInv' /\ HashedInv' /\ TaskInv' /\ OwnInode'
  <2>1. {} \in SUBSET Children /\ \A m \in Numbers : inode'[m] = IF m \in {} THEN Free ELSE inode[m]
    BY <1>2
  <2> QED BY <1>1, <1>2, <1>3, <1>4, <2>1, DentriesKeep
<1>6. FsTypes'
  <2>1. disk' \subseteq {<<y>> : y \in Names} \cup {<<y, z>> : y \in DirNames, z \in FileNames}
    BY <1>1 DEF FsRuns, FsTypes, Names
  <2> QED BY <1>1, <1>2, <2>1 DEF FsRuns, FsTypes, Free
<1>7. PlacesExact' /\ TreeInv' /\ ListsExact'
  BY <1>1, <1>2 DEF FsRuns, GuestInv, PlacesExact, TreeInv, ListsExact, ReadersOf, IsDir
<1> QED BY <1>5, <1>6, <1>7 DEF FsInv, GuestInv

LEMMA FsForget ==
    ASSUME FsInv, NEW n \in Numbers, Forget(n)
    PROVE  FsInv'
<1> DEFINE N == Forgotten(n)
<1>1. /\ FsRuns /\ icache[n] = "freeing" /\ icache' = [icache EXCEPT ![n] = "none"]
      /\ inode' = [m \in Numbers |-> IF m \in N THEN Free ELSE inode[m]]
      /\ UNCHANGED <<place, next_inode_num, disk, dentry, task, raced, reborn, nomem>>
  BY RunsInv DEF Forget, FreeInodes
<1>2. n # 1 /\ n \in Children
  BY <1>1, FileSystemAssumption DEF FsRuns, FsTypes, Numbers, Children
<1>3. \A e \in Dentries : DentryOk(e) /\ HashedOk(e)
  BY <1>1 DEF FsRuns, GuestInv, DentriesInv, HashedInv
<1>4. \A m \in Children :
        /\ ~inode[m].live => inode[m] = Free
        /\ inode[m].live =>
             /\ m < next_inode_num /\ inode[m].name \in Names
             /\ inode[m].parent \in Numbers /\ inode[inode[m].parent].live
             /\ inode[m].parent # 1 => inode[m].name \in FileNames /\ inode[inode[m].parent].name \in DirNames
  BY <1>1 DEF FsRuns, GuestInv, TreeInv
<1>5. \A e \in Dentries : Used(e) => dentry[e].ino # n
  BY <1>1, <1>3 DEF DentryOk
<1>6. Children \subseteq Numbers /\ \A m \in Numbers : m # 1 => m \in Children
  BY FileSystemAssumption DEF Children, Numbers
<1>7. N \in SUBSET Children /\ \A m \in N : inode[m].live /\ (m = n \/ inode[m].parent = n)
  <2>1. inode[1].parent = 0
    BY <1>1 DEF FsRuns, FsTypes, Free
  <2>2. n # 0
    BY FileSystemAssumption DEF Numbers
  <2> QED BY <1>2, <1>6, <2>1, <2>2 DEF Forgotten
<1>8. \A m \in Children : inode[m].live /\ inode[m].parent \in N => inode[m].parent = n /\ m \in N
  <2> SUFFICES ASSUME NEW m \in Children, inode[m].live, inode[m].parent \in N
               PROVE  inode[m].parent = n /\ m \in N
    OBVIOUS
  <2>1. inode[m].parent # 1 /\ inode[inode[m].parent].name \in DirNames
    BY <1>4, <1>7, FileSystemAssumption DEF Children
  <2>2. inode[m].parent = n
    <3> SUFFICES ASSUME inode[m].parent # n PROVE FALSE
      OBVIOUS
    <3>1. inode[m].parent \in Children /\ inode[inode[m].parent].live /\ inode[inode[m].parent].parent = n
      BY <1>7
    <3>2. inode[inode[m].parent].name \in FileNames
      BY <1>2, <1>4, <3>1
    <3> QED BY <2>1, <3>2, FileSystemAssumption
  <2> QED BY <1>6, <1>7, <2>2 DEF Forgotten
<1>9. ASSUME NEW e \in Dentries, Used(e), dentry[e].hashed \/ IsDir(e) \/ ~reborn
      PROVE  dentry[e].ino \notin N
  <2> SUFFICES ASSUME dentry[e].ino \in N PROVE FALSE
    OBVIOUS
  <2>1. dentry[e].ino # n /\ dentry[e].ino \in Children
    BY <1>5, <1>7, <1>9
  <2>2. inode[dentry[e].ino].parent = n /\ inode[dentry[e].ino].live
    BY <1>7, <2>1
  <2>3. inode[dentry[e].ino].parent # InoOf(dentry[e].parent)
    <3>1. dentry[e].parent \in Places
      BY <1>3, <1>9 DEF DentryOk, Places
    <3>2. dentry[e].parent = Root => InoOf(dentry[e].parent) = 1
      BY DEF InoOf
    <3>3. dentry[e].parent # Root => InoOf(dentry[e].parent) # n
      BY <1>3, <1>5, <1>9 DEF DentryOk, InoOf
    <3> QED BY <1>2, <2>2, <3>2, <3>3
  <2>4. CASE dentry[e].hashed
    BY <1>3, <2>3, <2>4 DEF HashedOk, First
  <2>5. CASE IsDir(e)
    <3>1. inode[dentry[e].ino].name \in DirNames
      BY <1>3, <1>9, <2>5 DEF DentryOk
    <3>2. inode[dentry[e].ino].name \in FileNames
      BY <1>2, <1>4, <2>1, <2>2
    <3> QED BY <3>1, <3>2, FileSystemAssumption
  <2>6. CASE ~reborn
    BY <1>1, <1>9, <2>3, <2>6 DEF FsRuns, GuestInv, OwnInode, OwnOk
  <2> QED BY <1>9, <2>4, <2>5, <2>6
<1>10. \A m \in Numbers : inode'[m] = IF m \in N THEN Free ELSE inode[m]
  BY <1>1
<1>11. DentriesInv' /\ HashedInv' /\ TaskInv' /\ OwnInode'
  <2>1. \A e \in Dentries : Used(e) => icache'[dentry[e].ino] = "live"
    <3>1. \A e \in Dentries : Used(e) => icache[dentry[e].ino] = "live" /\ dentry[e].ino \in Numbers
      BY <1>3, <1>6 DEF DentryOk
    <3> QED BY <1>1, <1>5, <3>1 DEF FsRuns, FsTypes
  <2> HIDE DEF N
  <2> QED BY <1>1, <1>7, <1>9, <1>10, <2>1, DentriesKeep
<1>12. TreeInv'
  <2> SUFFICES ASSUME NEW m \in Children
               PROVE  /\ ~inode'[m].live => inode'[m] = Free
                      /\ inode'[m].live =>
                           /\ m < next_inode_num /\ inode'[m].name \in Names
                           /\ inode'[m].parent \in Numbers /\ inode'[inode'[m].parent].live
                           /\ inode'[m].parent # 1 => inode'[m].name \in FileNames
                                                      /\ inode'[inode'[m].parent].name \in DirNames
    BY <1>1 DEF TreeInv, Free
  <2> HIDE DEF N
  <2>1. CASE m \in N
    <3>1. inode'[m] = Free
      BY <1>6, <1>10, <2>1
    <3>2. ~Free.live
      BY DEF Free
    <3> QED BY <3>1, <3>2
  <2>2. CASE m \notin N
    <3>1. inode'[m] = inode[m]
      BY <1>6, <1>10, <2>2
    <3>2. inode[m].live => inode'[inode[m].parent] = inode[inode[m].parent]
      BY <1>4, <1>8, <1>10, <2>2
    <3> QED BY <1>4, <3>1, <3>2
  <2> QED BY <2>1, <2>2
<1>13. ListsExact'
  <2> SUFFICES ASSUME NEW m \in Numbers PROVE inode'[m].refcount = Cardinality(ReadersOf(m)')
    BY DEF ListsExact
  <2>1. ReadersOf(m)' = ReadersOf(m) /\ inode[m].refcount = Cardinality(ReadersOf(m))
    BY <1>1 DEF ReadersOf, IsDir, FsRuns, ListsExact
  <2> HIDE DEF N
  <2>2. CASE m \in N
    <3>1. ReadersOf(m) = {}
      <4> SUFFICES ASSUME NEW r \in ReadersOf(m) PROVE FALSE
        OBVIOUS
      <4>1. r[1] \in Dentries /\ dentry[r[1]].ino = m /\ IsDir(r[1])
        BY DEF ReadersOf
      <4>2. m # 0
        BY FileSystemAssumption DEF Numbers
      <4> QED BY <1>9, <2>2, <4>1, <4>2 DEF Used
    <3>2. Cardinality({}) = 0
      BY FS_EmptySet
    <3> QED BY <1>10, <2>1, <2>2, <3>1, <3>2 DEF Free
  <2>3. CASE m \notin N
    BY <1>10, <2>1, <2>3
  <2> QED BY <2>2, <2>3
<1>14. FsTypes'
  <2>1. icache' \in [Numbers -> {"none", "live", "freeing"}] /\ icache'[1] = "none"
    BY <1>1, <1>2, FileSystemAssumption DEF FsRuns, FsTypes, Numbers
  <2>2. inode' \in [Numbers -> [live : BOOLEAN, parent : 0..MaxIno, name : Names \cup {None}, refcount : Int]]
    <3>1. Free \in [live : BOOLEAN, parent : 0..MaxIno, name : Names \cup {None}, refcount : Int]
      BY FileSystemAssumption DEF Free
    <3> HIDE DEF N
    <3> QED BY <1>1, <3>1 DEF FsRuns, FsTypes
  <2>3. inode'[1] = inode[1]
    <3>1. 1 \notin N /\ 1 \in Numbers
      BY <1>7, FileSystemAssumption DEF Children, Numbers
    <3> QED BY <1>10, <3>1
  <2> QED BY <1>1, <2>1, <2>2, <2>3 DEF FsRuns, FsTypes, Free
<1>15. PlacesExact'
  BY <1>1 DEF FsRuns, PlacesExact
<1> QED BY <1>11, <1>12, <1>13, <1>14, <1>15 DEF FsInv, GuestInv

\* Nothing is known to either side but the root.
Fresh ==
    /\ inode = [n \in Numbers |-> IF n = 1 THEN [Free EXCEPT !.live = TRUE] ELSE Free]
    /\ place = [n \in Children |-> n] /\ next_inode_num = 2
    /\ disk \subseteq {<<x>> : x \in Names} \cup {<<x, y>> : x \in DirNames, y \in FileNames}
    /\ icache = [n \in Numbers |-> "none"]
    /\ dentry = [d \in Dentries |-> Unused]
    /\ task = None /\ raced = FALSE /\ reborn = FALSE /\ nomem = FALSE

LEMMA FreshInv == Fresh => FsInv
<1> SUFFICES ASSUME Fresh PROVE FsInv
  OBVIOUS
<1>1. 1 \in Numbers /\ Children \subseteq Numbers /\ 1 \notin Children /\ \A n \in Children : n \in Nat /\ n >= 2
  BY FileSystemAssumption DEF Children, Numbers
<1>2. \A n \in Children : inode[n] = Free
  BY <1>1 DEF Fresh
<1>3. \A d \in Dentries : dentry[d] = Unused
  BY DEF Fresh
<1>4. ~Free.live /\ Free.refcount = 0 /\ ~Unused.hashed /\ Unused.ino = 0 /\ Unused.open = 0
  BY DEF Free, Unused
<1>5. FsTypes
  <2>1. Free \in [live : BOOLEAN, parent : 0..MaxIno, name : Names \cup {None}, refcount : Int]
        /\ [Free EXCEPT !.live = TRUE] \in [live : BOOLEAN, parent : 0..MaxIno, name : Names \cup {None}, refcount : Int]
    <3> DEFINE S == [live : BOOLEAN, parent : 0..MaxIno, name : Names \cup {None}, refcount : Int]
    <3>1. 0 \in 0..MaxIno
      BY FileSystemAssumption
    <3>2. ASSUME NEW b \in BOOLEAN PROVE [live |-> b, parent |-> 0, name |-> None, refcount |-> 0] \in S
      BY <3>1
    <3>3. ASSUME NEW b \in BOOLEAN, NEW r \in S PROVE [r EXCEPT !.live = b] \in S
      OBVIOUS
    <3> HIDE DEF S
    <3>4. Free \in S
      BY <3>2 DEF Free
    <3>5. [Free EXCEPT !.live = TRUE] \in S
      BY <3>3, <3>4
    <3> QED BY <3>4, <3>5 DEF S
  <2>2. inode \in [Numbers -> [live : BOOLEAN, parent : 0..MaxIno, name : Names \cup {None}, refcount : Int]]
    BY <2>1 DEF Fresh
  <2>3. inode[1] = [Free EXCEPT !.live = TRUE]
    BY <1>1 DEF Fresh
  <2>4. Unused \in [ino : 0..MaxIno, parent : Places \cup {None}, name : Names \cup {None},
                    hashed : BOOLEAN, open : 0..MaxOpens]
    BY FileSystemAssumption DEF Unused
  <2>5. dentry \in [Dentries -> [ino : 0..MaxIno, parent : Places \cup {None}, name : Names \cup {None},
                                 hashed : BOOLEAN, open : 0..MaxOpens]]
    BY <2>4 DEF Fresh
  <2>6. place \in [Children -> Children] /\ next_inode_num \in 2..(MaxIno + 1)
    BY FileSystemAssumption DEF Fresh
  <2>7. icache \in [Numbers -> {"none", "live", "freeing"}] /\ icache[1] = "none"
    BY <1>1 DEF Fresh
  <2>8. {raced, reborn, nomem} \subseteq BOOLEAN /\ task \in {None} \cup [parent : Places, name : Names, ino : Children]
    BY DEF Fresh
  <2>9. disk \subseteq {<<x>> : x \in Names} \cup {<<x, y>> : x \in DirNames, y \in FileNames}
    BY DEF Fresh
  <2> QED BY ONLY <2>2, <2>3, <2>5, <2>6, <2>7, <2>8, <2>9 DEF FsTypes
<1>6. PlacesExact
  BY <1>1 DEF PlacesExact, Fresh
<1>7. TreeInv
  BY <1>2, <1>4 DEF TreeInv
<1>8. \A d \in Dentries : ~Used(d) /\ ~dentry[d].hashed
  BY <1>3, <1>4 DEF Used
<1>9. DentriesInv /\ HashedInv /\ TaskInv /\ OwnInode
  <2>1. DentriesInv
    BY <1>3, <1>8 DEF DentriesInv, DentryOk
  <2>2. HashedInv
    BY <1>8 DEF HashedInv, HashedOk
  <2>3. TaskInv
    BY DEF TaskInv, Fresh
  <2>4. OwnInode
    BY <1>8 DEF OwnInode, OwnOk
  <2> QED BY <2>1, <2>2, <2>3, <2>4
<1>10. ListsExact
  <2> SUFFICES ASSUME NEW n \in Numbers PROVE inode[n].refcount = Cardinality(ReadersOf(n))
    BY DEF ListsExact
  <2>1. inode[n].refcount = 0
    BY <1>4 DEF Fresh, Free
  <2>2. ReadersOf(n) = {}
    <3>1. \A i \in 1..MaxOpens : ~(i <= 0)
      BY FileSystemAssumption
    <3> QED BY <1>3, <1>4, <3>1 DEF ReadersOf
  <2> QED BY <2>1, <2>2, FS_EmptySet
<1> QED BY <1>5, <1>6, <1>7, <1>9, <1>10 DEF FsInv, GuestInv

LEMMA FreshAfter == Fresh' => FsInv'
<1>1. Fresh => FsInv
  BY FreshInv
<1> QED BY <1>1, PTL

LEMMA FsInit == Init => FsInv
<1> SUFFICES ASSUME Init PROVE FsInv
  OBVIOUS
<1>1. Fresh
  BY DEF Init, Fresh
<1> QED BY <1>1, FreshInv

LEMMA FsReset == FsInv /\ Reset => FsInv'
<1> SUFFICES ASSUME FsInv, Reset PROVE FsInv'
  OBVIOUS
<1>1. Fresh'
  <2>1. inode' = [n \in Numbers |-> IF n = 1 THEN [Free EXCEPT !.live = TRUE] ELSE Free]
    <3>1. inode[1] = [Free EXCEPT !.live = TRUE] /\ inode' = [n \in Numbers |-> IF n \in Children THEN Free ELSE inode[n]]
      BY DEF FsInv, FsTypes, Reset, FreeInodes
    <3>2. \A n \in Numbers : n \in Children <=> n # 1
      BY FileSystemAssumption DEF Numbers, Children
    <3> QED BY <3>1, <3>2
  <2> QED BY <2>1 DEF Fresh, Reset, FsInv, FsTypes, Free, Unused
<1> QED BY <1>1, FreshAfter

LEMMA PairConcat == ASSUME NEW a, NEW x PROVE <<a>> \o <<x>> = <<a, x>>
<1> DEFINE S == {a, x}
           s == <<a>>
           u == <<x>>
           t == s \o u
<1>1. s \in Seq(S) /\ Len(s) = 1 /\ s[1] = a /\ u \in Seq(S) /\ Len(u) = 1 /\ u[1] = x
  OBVIOUS
<1>2. t \in Seq(S) /\ Len(t) = 2 /\ t[1] = a /\ t[2] = x
  <2> HIDE DEF s, u, S
  <2>1. /\ s \o u \in Seq(S) /\ Len(s \o u) = Len(s) + Len(u)
        /\ \A i \in 1 .. Len(s) + Len(u) : (s \o u)[i] = IF i <= Len(s) THEN s[i] ELSE u[i - Len(s)]
    BY <1>1, ConcatProperties
  <2> QED BY <1>1, <2>1
<1>3. <<a, x>> \in Seq(S) /\ Len(<<a,x>>) = 2 /\ <<a,x>>[1] = a /\ <<a,x>>[2] = x
  BY DEF S
<1> HIDE DEF t
<1>4. t = <<a, x>>
  BY <1>2, <1>3, SeqEqual
<1> QED BY <1>4 DEF t, s, u

\* What moves with a file or directory.
MovedFrom(q, from, to) ==
    \/ q \in disk \/ q = to
    \/ \E a \in DirNames, b \in FileNames : from = <<a>> /\ q = to \o <<b>>

LEMMA MovedFacts ==
    ASSUME FsTypes, NEW from, NEW to
    PROVE  /\ to \in Moved(from, to)
           /\ \A q \in Moved(from, to) : MovedFrom(q, from, to)
           /\ \A a, b : <<a, b>> \in disk /\ <<a, b>> # from /\ <<a, b>> # to /\ <<a>> # from /\ <<a>> # to
                        => <<a, b>> \in Moved(from, to)
           /\ \A a, b : <<a, b>> \in disk /\ <<a>> = from => to \o <<b>> \in Moved(from, to)
<1> DEFINE A == {q \in disk : q # from /\ q # to /\ ~(Len(q) = 2 /\ Front(q) \in {from, to})}
           R == {r \in disk : Len(r) = 2 /\ Front(r) = from}
           B == {to \o <<Last(q)>> : q \in R}
<1>1. Moved(from, to) = A \cup {to} \cup B
  BY DEF Moved
<1>2. \A a, b : Len(<<a, b>>) = 2 /\ Front(<<a, b>>) = <<a>> /\ Last(<<a, b>>) = b
  BY PairShape, PairFront, PairLast
<1>3. ASSUME NEW q \in B
      PROVE  \E a \in DirNames, b \in FileNames : <<a, b>> \in disk /\ from = <<a>> /\ q = to \o <<b>>
  <2>1. PICK r \in disk : Len(r) = 2 /\ Front(r) = from /\ q = to \o <<Last(r)>>
    OBVIOUS
  <2>2. \A x : Len(<<x>>) # 2
    OBVIOUS
  <2>3. PICK a \in DirNames, b \in FileNames : r = <<a, b>>
    <3>1. r \in {<<x>> : x \in Names} \cup {<<x, y>> : x \in DirNames, y \in FileNames}
      <4>1. disk \subseteq {<<x>> : x \in Names} \cup {<<x, y>> : x \in DirNames, y \in FileNames}
        BY DEF FsTypes
      <4>2. r \in disk
        OBVIOUS
      <4> QED BY ONLY <4>1, <4>2
    <3>2. r \notin {<<x>> : x \in Names}
      BY <2>1, <2>2
    <3> QED BY <3>1, <3>2
  <2> QED BY <1>2, <2>1, <2>3
<1>4. ASSUME NEW a, NEW b, <<a, b>> \in disk, <<a, b>> # from, <<a, b>> # to, <<a>> # from, <<a>> # to
      PROVE  <<a, b>> \in A
  BY <1>2, <1>4
<1>5. ASSUME NEW a, NEW b, <<a, b>> \in disk, <<a>> = from PROVE to \o <<b>> \in B
  <2>1. <<a, b>> \in R /\ Last(<<a, b>>) = b
    BY <1>2, <1>5
  <2> HIDE DEF R
  <2> QED BY <2>1
<1>6. \A q \in A : q \in disk
  OBVIOUS
<1> HIDE DEF A, B
<1>7. \A q \in Moved(from, to) : MovedFrom(q, from, to)
  BY <1>1, <1>3, <1>6 DEF MovedFrom
<1> QED BY <1>1, <1>4, <1>5, <1>7

\* The inode that is put first leaves the order of the others as it is.
LEMMA ReparentPlaces ==
    ASSUME FsTypes, PlacesExact, NEW n \in Children, n < next_inode_num, Reparent(n)
    PROVE  /\ place' \in [Children -> Children] /\ place'[n] = 2
           /\ \A m \in Children : place'[n] <= place'[m]
           /\ \A k, m \in Children \ {n} : place[k] <= place[m] => place'[k] <= place'[m]
           /\ \A m, k \in Children : place'[m] = place'[k] => m = k
           /\ \A m \in Children : IF m < next_inode_num THEN place'[m] < next_inode_num ELSE place'[m] = m
<1>1. \A m \in Children : place[m] \in Children /\ m \in Nat
  BY FileSystemAssumption DEF FsTypes, Children
<1>2. \A m \in Children : place'[m] = IF m = n THEN 2 ELSE IF place[m] < place[n] THEN place[m] + 1 ELSE place[m]
  BY DEF Reparent
<1>3. \A v \in Children : v \in Nat /\ v >= 2 /\ v <= MaxIno
  BY FileSystemAssumption DEF Children
<1>4. 2 \in Children /\ \A v, w \in Children : v < w => v + 1 \in Children
  BY FileSystemAssumption DEF Children
<1>5. next_inode_num \in Nat /\ place[n] < next_inode_num
  BY FileSystemAssumption DEF FsTypes, PlacesExact
<1>6. \A m \in Children : place'[m] \in Children
  BY <1>1, <1>2, <1>4
<1>7. place' \in [Children -> Children]
  BY <1>6 DEF Reparent
<1>8. \A m, k \in Children : place'[m] = place'[k] => m = k
  <2> SUFFICES ASSUME NEW m \in Children, NEW k \in Children, place'[m] = place'[k] PROVE m = k
    OBVIOUS
  <2>1. \A i \in Children : i # n => place[i] # place[n]
    BY DEF PlacesExact
  <2>2. m = n /\ k # n => FALSE
    BY <1>1, <1>2, <1>3, <2>1
  <2>3. k = n /\ m # n => FALSE
    BY <1>1, <1>2, <1>3, <2>1
  <2>4. m # n /\ k # n => place[m] = place[k]
    BY <1>1, <1>2, <1>3, <2>1
  <2> QED BY <2>2, <2>3, <2>4 DEF PlacesExact
<1>9. \A m \in Children : IF m < next_inode_num THEN place'[m] < next_inode_num ELSE place'[m] = m
  <2> SUFFICES ASSUME NEW m \in Children
               PROVE  IF m < next_inode_num THEN place'[m] < next_inode_num ELSE place'[m] = m
    OBVIOUS
  <2>1. IF m < next_inode_num THEN place[m] < next_inode_num ELSE place[m] = m
    BY DEF PlacesExact
  <2> QED BY <1>1, <1>2, <1>3, <1>5, <2>1
<1>10. \A m \in Children : place'[n] <= place'[m]
  BY <1>2, <1>3, <1>6
<1>11. \A k, m \in Children \ {n} : place[k] <= place[m] => place'[k] <= place'[m]
  BY <1>1, <1>2, <1>3
<1> QED BY <1>2, <1>7, <1>8, <1>9, <1>10, <1>11

\* A rename moves one name from one place to another.
Renamed(d, p, x) ==
    LET o == dentry[d].parent
        y == dentry[d].name
    IN
    /\ dentry[d].hashed /\ ~Locked(o) /\ ~Locked(p) /\ NameIn(p, x)
    /\ PathIn(o, y) # PathIn(p, x) /\ disk' = Moved(PathIn(o, y), PathIn(p, x))
    /\ IsDir(d) <=> x \in DirNames
    /\ IsDir(d) => p = Root /\ o = Root /\ \A b : <<x, b>> \notin disk
    /\ Reparent(dentry[d].ino)
    /\ UNCHANGED <<next_inode_num, icache, task, raced, reborn>>

LEMMA RenameFacts ==
    ASSUME FsRuns, NEW d \in Dentries, NEW p \in Places, Directory(p), NEW x \in Names, NEW ok \in BOOLEAN,
           Rename(d, p, x, ok)
    PROVE  /\ Renamed(d, p, x) /\ RenameInode(dentry[d].ino, InoOf(p), x, ok)
           /\ dentry' = IF ok THEN MoveDentry(d, p, x) ELSE dentry
<1> DEFINE o == dentry[d].parent
           y == dentry[d].name
<1>1. /\ dentry[d].hashed /\ ~Locked(o) /\ ~Locked(p)
      /\ IsDir(d) => x \in DirNames /\ p = Root /\ \A q \in disk : Len(q) = 1 \/ Front(q) # At(p, x)
      /\ ~IsDir(d) => x \in FileNames
      /\ At(o, y) # At(p, x) /\ disk' = Moved(At(o, y), At(p, x))
      /\ RenameInode(FindInode(InoOf(o), y), InoOf(p), x, ok)
      /\ dentry' = IF ok THEN MoveDentry(d, p, x) ELSE dentry
      /\ UNCHANGED <<next_inode_num, icache, task, raced, reborn>>
  BY DEF Rename
<1>2. /\ o \in Places /\ Directory(o) /\ y \in Names /\ NameIn(o, y)
      /\ First(dentry[d].ino, InoOf(o), y)
  BY <1>1, HashedFacts
<1>3. FindInode(InoOf(o), y) = dentry[d].ino
  BY <1>2, FindInodeFacts DEF FsRuns
<1>4. At(o, y) = PathIn(o, y) /\ At(p, x) = PathIn(p, x)
  BY <1>2, AtIs
<1>5. IsDir(d) <=> x \in DirNames
  BY <1>1, FileSystemAssumption
<1>6. IsDir(d) => p = Root /\ o = Root /\ \A b : <<x, b>> \notin disk
  <2> SUFFICES ASSUME IsDir(d) PROVE p = Root /\ o = Root /\ \A b : <<x, b>> \notin disk
    OBVIOUS
  <2>1. p = Root /\ o = Root
    BY <1>1, <1>2 DEF NameIn, IsDir
  <2>2. At(p, x) = <<x>>
    BY <1>4, <2>1 DEF PathIn
  <2>3. \A b : Len(<<x, b>>) = 2 /\ Front(<<x, b>>) = <<x>>
    BY PairShape, PairFront
  <2> QED BY <1>1, <2>1, <2>2, <2>3
<1>7. NameIn(p, x)
  BY <1>1, <1>5, <1>6 DEF NameIn
<1>8. Reparent(dentry[d].ino)
  BY <1>1, <1>3 DEF RenameInode
<1> QED BY <1>1, <1>3, <1>4, <1>5, <1>6, <1>7, <1>8 DEF Renamed

\* The types after a rename, and the places.
LEMMA RenameTypes ==
    ASSUME FsRuns, NEW d \in Dentries, NEW p \in Places, Directory(p), NEW x \in Names, NEW ok \in BOOLEAN,
           Renamed(d, p, x), RenameInode(dentry[d].ino, InoOf(p), x, ok),
           dentry' = IF ok THEN MoveDentry(d, p, x) ELSE dentry
    PROVE  FsTypes' /\ PlacesExact'
<1> DEFINE n == dentry[d].ino
           o == dentry[d].parent
           y == dentry[d].name
<1>1. /\ n \in Children /\ n < next_inode_num /\ n \in Numbers /\ n # 1
      /\ o \in Places /\ Directory(o) /\ y \in Names
  BY HashedFacts, FileSystemAssumption DEF Renamed, Children
<1>2. place' \in [Children -> Children] /\ PlacesExact'
  BY <1>1, ReparentPlaces DEF Renamed, FsRuns, PlacesExact
<1>3. inode' = [inode EXCEPT ![n].parent = InoOf(p), ![n].name = IF ok THEN x ELSE None] /\ nomem' = ~ok
  BY DEF RenameInode
<1>4. inode' \in [Numbers -> [live : BOOLEAN, parent : 0..MaxIno, name : Names \cup {None}, refcount : Int]]
      /\ inode'[1] = inode[1]
  <2>1. InoOf(p) \in 0..MaxIno
    BY DirectoryFacts, FileSystemAssumption DEF Numbers
  <2>2. (IF ok THEN x ELSE None) \in Names \cup {None}
    OBVIOUS
  <2>3. 1 \in Numbers
    BY FileSystemAssumption DEF Numbers
  <2>4. ASSUME NEW a \in 0..MaxIno, NEW b \in Names \cup {None}, inode' = [inode EXCEPT ![n].parent = a, ![n].name = b]
        PROVE  /\ inode' \in [Numbers -> [live : BOOLEAN, parent : 0..MaxIno, name : Names \cup {None}, refcount : Int]]
               /\ inode'[1] = inode[1]
    <3> DEFINE T == [Numbers -> [live : BOOLEAN, parent : 0..MaxIno, name : Names \cup {None}, refcount : Int]]
               f == [inode EXCEPT ![n].parent = a]
    <3>1. inode \in T
      BY DEF FsRuns, FsTypes
    <3>2. f \in T /\ f[1] = inode[1]
      BY <1>1, <2>3, <3>1
    <3>3. inode' = [f EXCEPT ![n].name = b]
      BY <1>1, <2>4, <3>1
    <3> HIDE DEF f
    <3>4. inode' \in T /\ inode'[1] = f[1]
      BY <1>1, <2>3, <3>2, <3>3
    <3> QED BY <3>2, <3>4
  <2> QED BY <1>3, <2>1, <2>2, <2>4
<1>5. disk' \subseteq {<<z>> : z \in Names} \cup {<<a, b>> : a \in DirNames, b \in FileNames}
  <2> SUFFICES ASSUME NEW q \in disk'
               PROVE  q \in {<<z>> : z \in Names} \cup {<<a, b>> : a \in DirNames, b \in FileNames}
    OBVIOUS
  <2>1. q \in Moved(PathIn(o, y), PathIn(p, x))
    BY DEF Renamed
  <2>2. MovedFrom(q, PathIn(o, y), PathIn(p, x))
    BY <2>1, MovedFacts DEF FsRuns
  <2>3. q = PathIn(p, x) => q \in {<<z>> : z \in Names} \cup {<<a, b>> : a \in DirNames, b \in FileNames}
    BY NameFits DEF Renamed
  <2>4. ASSUME NEW a \in DirNames, NEW b \in FileNames, PathIn(o, y) = <<a>>, q = PathIn(p, x) \o <<b>>
        PROVE  q \in {<<c, e>> : c \in DirNames, e \in FileNames}
    <3>1. y = a
      BY <2>4 DEF PathIn
    <3>2. x \in DirNames /\ p = Root
      BY <2>4, <3>1 DEF Renamed, IsDir
    <3>3. q = <<x, b>>
      BY <2>4, <3>2, PairConcat DEF PathIn
    <3> QED BY <3>2, <3>3
  <2> DEFINE P == {<<z>> : z \in Names} \cup {<<a, b>> : a \in DirNames, b \in FileNames}
  <2>5. disk \subseteq P
    BY DEF FsRuns, FsTypes
  <2>6. q = PathIn(p, x) => q \in P
    BY <2>3
  <2>7. ASSUME NEW a \in DirNames, NEW b \in FileNames, PathIn(o, y) = <<a>>, q = PathIn(p, x) \o <<b>>
        PROVE  q \in P
    BY <2>4, <2>7
  <2> HIDE DEF P
  <2>8. q \in P
    BY <2>2, <2>5, <2>6, <2>7 DEF MovedFrom
  <2> QED BY <2>8 DEF P
<1>6. DentryTypes'
  <2>1. ASSUME NEW e \in Dentries
        PROVE  MoveDentry(d, p, x)[e] \in [ino : 0..MaxIno, parent : Places \cup {None}, name : Names \cup {None},
                                           hashed : BOOLEAN, open : 0..MaxOpens]
    <3> DEFINE S == [ino : 0..MaxIno, parent : Places \cup {None}, name : Names \cup {None},
                     hashed : BOOLEAN, open : 0..MaxOpens]
    <3>1. dentry[e] \in S /\ dentry[d] \in S
      BY DEF FsRuns, FsTypes
    <3>2. ASSUME NEW r \in S, NEW b \in BOOLEAN
          PROVE  [r EXCEPT !.parent = p, !.name = x] \in S /\ [r EXCEPT !.hashed = b] \in S
      OBVIOUS
    <3> HIDE DEF S
    <3>3. [dentry[d] EXCEPT !.parent = p, !.name = x] \in S /\ [dentry[e] EXCEPT !.hashed = FALSE] \in S
      BY <3>1, <3>2
    <3>4. MoveDentry(d, p, x)[e] \in S
      BY <3>1, <3>3 DEF MoveDentry
    <3> QED BY <3>4 DEF S
  <2>2. MoveDentry(d, p, x) \in [Dentries -> [ino : 0..MaxIno, parent : Places \cup {None}, name : Names \cup {None},
                                              hashed : BOOLEAN, open : 0..MaxOpens]]
    BY <2>1 DEF MoveDentry
  <2> QED BY <2>2 DEF FsRuns, FsTypes, DentryTypes
<1>7. nomem' \in BOOLEAN
  BY <1>3
<1> QED BY <1>2, <1>4, <1>5, <1>6, <1>7 DEF FsRuns, FsTypes, DentryTypes, Renamed, Free

\* What a rename to another name leaves in place: each other name the guest can reach.
LEMMA RenameOthers ==
    ASSUME FsRuns, NEW d \in Dentries, NEW p \in Places, Directory(p), NEW x \in Names, Renamed(d, p, x),
           RenameInode(dentry[d].ino, InoOf(p), x, TRUE), dentry' = MoveDentry(d, p, x),
           NEW q \in Places, Directory(q), NEW z \in Names, NameIn(q, z),
           ~(q = dentry[d].parent /\ z = dentry[d].name), ~(q = p /\ z = x),
           q # Root => <<dentry[q].name, z>> \in disk
    PROVE  /\ InoAfter(q) = InoOf(q)
           /\ \A m : First(m, InoOf(q), z) => FirstAfter(m, InoAfter(q), z) /\ m # dentry[d].ino
           /\ q # Root => <<dentry'[q].name, z>> \in disk' /\ dentry'[q].hashed
<1> DEFINE n == dentry[d].ino
           o == dentry[d].parent
           y == dentry[d].name
<1>1. /\ n \in Children /\ n < next_inode_num /\ n \in Numbers /\ n # 1
      /\ o \in Places /\ Directory(o) /\ y \in Names /\ First(n, InoOf(o), y) /\ Used(d)
  BY HashedFacts, FileSystemAssumption DEF Renamed, Children
<1>2. /\ dentry'[d] = [dentry[d] EXCEPT !.parent = p, !.name = x]
      /\ \A e \in Dentries : e # d => dentry'[e] = IF e \in Hashed(p, x) THEN [dentry[e] EXCEPT !.hashed = FALSE]
                                                                         ELSE dentry[e]
  BY DEF MoveDentry
<1>3. \A e \in Dentries : dentry'[e].ino = dentry[e].ino
  <2>1. ASSUME NEW e \in Dentries PROVE dentry'[e].ino = dentry[e].ino
    <3>1. dentry[e] \in [ino : 0..MaxIno, parent : Places \cup {None}, name : Names \cup {None},
                         hashed : BOOLEAN, open : 0..MaxOpens]
      BY DEF FsRuns, FsTypes
    <3>2. CASE e = d
      BY <1>2, <3>1, <3>2
    <3>3. CASE e # d /\ e \in Hashed(p, x)
      <4>1. dentry'[e] = [dentry[e] EXCEPT !.hashed = FALSE]
        BY <1>2, <3>3
      <4> QED BY <3>1, <4>1
    <3>4. CASE e # d /\ e \notin Hashed(p, x)
      BY <1>2, <3>4
    <3> QED BY <3>2, <3>3, <3>4
  <2> QED BY <2>1
<1>4. dentry'[d].name = x /\ dentry'[d].hashed
  BY <1>2 DEF FsRuns, FsTypes, Renamed
<1>5. InoAfter(q) = InoOf(q)
  BY <1>3 DEF InoAfter, InoOf, Places
<1>6. /\ inode'[n].parent = InoOf(p) /\ inode'[n].name = x
      /\ \A m \in Numbers : m # n => inode'[m] = inode[m]
  BY <1>1 DEF RenameInode, FsRuns, FsTypes
<1>7. /\ place'[n] = 2
      /\ \A k, m \in Children \ {n} : place[k] <= place[m] => place'[k] <= place'[m]
  BY <1>1, ReparentPlaces DEF Renamed, FsRuns
<1>8. ASSUME NEW m, First(m, InoOf(q), z) PROVE FirstAfter(m, InoAfter(q), z) /\ m # n
  <2>1. m # n
    <3> SUFFICES ASSUME m = n PROVE FALSE
      OBVIOUS
    <3>1. InoOf(q) = InoOf(o) /\ z = y
      BY <1>1, <1>8 DEF First
    <3>2. q = o
      BY <1>1, <3>1, SameDirectory
    <3> QED BY <3>1, <3>2
  <2>2. ~(inode'[n].parent = InoOf(q) /\ inode'[n].name = z)
    <3> SUFFICES ASSUME InoOf(q) = InoOf(p), z = x PROVE FALSE
      BY <1>6
    <3>1. q = p
      BY SameDirectory
    <3> QED BY <3>1
  <2>3. Children \subseteq Numbers
    BY DEF Children, Numbers
  <2> QED BY <1>5, <1>6, <1>7, <1>8, <2>1, <2>2, <2>3 DEF First, FirstAfter
<1>9. ASSUME q # Root PROVE <<dentry'[q].name, z>> \in disk' /\ dentry'[q].hashed
  <2>1. q \in Dentries /\ Used(q) /\ dentry[q].hashed /\ dentry[q].parent = Root /\ dentry[q].name \in DirNames
        /\ z \in FileNames
    BY <1>9, DirectoryFacts DEF NameIn, Names
  <2>2. CASE q = d
    <3>1. o = Root /\ IsDir(d) /\ p = Root /\ PathIn(o, y) = <<y>> /\ PathIn(p, x) = <<x>>
      BY <2>1, <2>2 DEF Renamed, PathIn, IsDir
    <3>2. <<y, z>> \in disk
      BY <1>9, <2>2
    <3>3. <<x>> \o <<z>> \in disk'
      BY <3>1, <3>2, MovedFacts DEF Renamed, FsRuns
    <3> QED BY <1>4, <2>2, <3>3, PairConcat
  <2>3. CASE q # d
    <3>1. q \notin Hashed(p, x)
      <4> SUFFICES ASSUME q \in Hashed(p, x) PROVE FALSE
        OBVIOUS
      <4>1. dentry[q].name = x /\ x \in DirNames
        BY <2>1 DEF Hashed
      <4> QED BY <1>9, <4>1 DEF Renamed
    <3>2. dentry'[q] = dentry[q]
      BY <1>2, <2>1, <2>3, <3>1
    <3>3. PathIn(q, z) = <<dentry[q].name, z>>
      BY <1>9 DEF PathIn
    <3>4. PathIn(q, z) # PathIn(o, y) /\ PathIn(q, z) # PathIn(p, x)
      BY <1>1, SamePath
    <3>5. <<dentry[q].name>> # PathIn(o, y)
      <4> SUFFICES ASSUME <<dentry[q].name>> = PathIn(o, y) PROVE FALSE
        OBVIOUS
      <4>1. o = Root /\ y = dentry[q].name
        BY DEF PathIn
      <4>2. q \in Hashed(o, y) /\ HashedOk(d)
        BY <2>1, <4>1 DEF Hashed, Below, FsRuns, GuestInv, HashedInv
      <4> QED BY <2>3, <4>2 DEF HashedOk, Renamed
    <3>6. <<dentry[q].name>> # PathIn(p, x)
      <4> SUFFICES ASSUME <<dentry[q].name>> = PathIn(p, x) PROVE FALSE
        OBVIOUS
      <4>1. p = Root /\ x = dentry[q].name
        BY DEF PathIn
      <4> QED BY <1>9, <2>1, <4>1 DEF Renamed
    <3>7. PathIn(q, z) \in disk'
      BY <1>9, <3>3, <3>4, <3>5, <3>6, MovedFacts DEF Renamed, FsRuns
    <3> QED BY <2>1, <3>2, <3>3, <3>7
  <2> QED BY <2>2, <2>3
<1> QED BY <1>5, <1>8, <1>9

LEMMA FsRename ==
    ASSUME FsInv, NEW d \in Dentries, NEW p \in Places, Directory(p), NEW x \in Names, NEW ok \in BOOLEAN,
           Rename(d, p, x, ok)
    PROVE  FsInv'
<1> DEFINE n == dentry[d].ino
           o == dentry[d].parent
           y == dentry[d].name
<1>1. FsRuns
  BY RunsInv DEF Rename
<1>2. /\ Renamed(d, p, x) /\ RenameInode(n, InoOf(p), x, ok)
      /\ dentry' = IF ok THEN MoveDentry(d, p, x) ELSE dentry
  BY <1>1, RenameFacts
<1>3. FsTypes' /\ PlacesExact'
  BY <1>1, <1>2, RenameTypes
<1>4. CASE ~ok
  <2>1. ~Runs'
    BY <1>2, <1>4 DEF RenameInode, Runs
  <2> QED BY <1>3, <2>1 DEF FsInv, ListsExact
<1>5. CASE ok
  <2>1. RenameInode(n, InoOf(p), x, TRUE) /\ dentry' = MoveDentry(d, p, x)
    BY <1>2, <1>5
  <2>2. /\ n \in Children /\ n < next_inode_num /\ n \in Numbers /\ n # 1 /\ inode[n].live /\ inode[n].name = y
        /\ o \in Places /\ Directory(o) /\ y \in Names /\ First(n, InoOf(o), y) /\ Used(d) /\ dentry[d].hashed
    BY <1>1, <1>2, HashedFacts, FileSystemAssumption DEF Renamed, Children
  <2>3. /\ dentry'[d] = [dentry[d] EXCEPT !.parent = p, !.name = x]
        /\ \A e \in Dentries : e # d => dentry'[e] = IF e \in Hashed(p, x) THEN [dentry[e] EXCEPT !.hashed = FALSE]
                                                                           ELSE dentry[e]
    BY <2>1 DEF MoveDentry
  <2>4. /\ dentry'[d].ino = n /\ dentry'[d].parent = p /\ dentry'[d].name = x /\ dentry'[d].open = dentry[d].open
        /\ dentry'[d].hashed
    BY <2>2, <2>3 DEF FsRuns, FsTypes
  <2>5. \A e \in Dentries : e # d =>
            /\ dentry'[e].ino = dentry[e].ino /\ dentry'[e].parent = dentry[e].parent
            /\ dentry'[e].name = dentry[e].name /\ dentry'[e].open = dentry[e].open
            /\ dentry'[e].hashed <=> dentry[e].hashed /\ e \notin Hashed(p, x)
    <3> SUFFICES ASSUME NEW e \in Dentries, e # d
                 PROVE  /\ dentry'[e].ino = dentry[e].ino /\ dentry'[e].parent = dentry[e].parent
                        /\ dentry'[e].name = dentry[e].name /\ dentry'[e].open = dentry[e].open
                        /\ dentry'[e].hashed <=> dentry[e].hashed /\ e \notin Hashed(p, x)
      OBVIOUS
    <3>1. dentry[e] \in [ino : 0..MaxIno, parent : Places \cup {None}, name : Names \cup {None},
                         hashed : BOOLEAN, open : 0..MaxOpens]
      BY <1>1 DEF FsRuns, FsTypes
    <3>2. CASE e \in Hashed(p, x)
      <4>1. dentry'[e] = [dentry[e] EXCEPT !.hashed = FALSE]
        BY <2>3, <3>2
      <4>2. ~dentry'[e].hashed
        BY <3>1, <4>1
      <4> QED BY <3>1, <3>2, <4>1, <4>2
    <3>3. CASE e \notin Hashed(p, x)
      BY <2>3, <3>3
    <3> QED BY <3>2, <3>3
  <2>6. \A e \in Dentries : DentryOk(e) /\ HashedOk(e)
    BY <1>1 DEF FsRuns, GuestInv, DentriesInv, HashedInv
  <2>7. \A e \in Dentries : dentry'[e].ino = dentry[e].ino /\ (Used(e)' <=> Used(e)) /\ (IsDir(e)' <=> IsDir(e))
    BY <1>2, <2>4, <2>5 DEF Used, IsDir, Renamed
  <2>8. \A q \in Places : InoAfter(q) = InoOf(q)
    BY <2>7 DEF InoAfter, InoOf, Places
  <2>9. /\ inode'[n].parent = InoOf(p) /\ inode'[n].name = x
        /\ \A m \in Numbers : inode'[m].live = inode[m].live /\ inode'[m].refcount = inode[m].refcount
        /\ \A m \in Numbers : m # n => inode'[m] = inode[m]
    BY <1>1, <2>1, <2>2 DEF RenameInode, FsRuns, FsTypes
  <2>10. \A e \in Dentries : e # d /\ dentry[e].hashed => ~(dentry[e].parent = o /\ dentry[e].name = y)
    <3> SUFFICES ASSUME NEW e \in Dentries, e # d, dentry[e].hashed, dentry[e].parent = o, dentry[e].name = y
                 PROVE  FALSE
      OBVIOUS
    <3>1. e \in Hashed(o, y)
      BY <1>1, HashedFacts DEF Hashed, Below
    <3> QED BY <2>2, <2>6, <3>1 DEF HashedOk
  <2>11. \A e \in Dentries : dentry[e].hashed /\ dentry[e].parent = p /\ dentry[e].name = x => e \in Hashed(p, x)
    BY <1>1, HashedFacts DEF Hashed, Below
  \* a directory that is not the one moved, and is not replaced, has the names it had
  <2>12. ASSUME NEW e \in Dentries, e # d, dentry'[e].hashed
         PROVE  /\ FirstAfter(dentry'[e].ino, InoAfter(dentry'[e].parent), dentry'[e].name)
                /\ dentry[e].parent # Root => /\ <<dentry'[dentry[e].parent].name, dentry[e].name>> \in disk'
                                              /\ dentry'[dentry[e].parent].hashed
    <3>1. dentry[e].hashed /\ e \notin Hashed(p, x)
      BY <2>5, <2>12
    <3>2. /\ dentry[e].parent \in Places /\ Directory(dentry[e].parent) /\ dentry[e].name \in Names
          /\ NameIn(dentry[e].parent, dentry[e].name)
          /\ First(dentry[e].ino, InoOf(dentry[e].parent), dentry[e].name)
          /\ dentry[e].parent # Root => <<dentry[dentry[e].parent].name, dentry[e].name>> \in disk
      BY <1>1, <2>6, <3>1, HashedFacts DEF HashedOk
    <3>3. ~(dentry[e].parent = o /\ dentry[e].name = y) /\ ~(dentry[e].parent = p /\ dentry[e].name = x)
      BY <2>10, <2>11, <2>12, <3>1
    <3>4. /\ FirstAfter(dentry[e].ino, InoAfter(dentry[e].parent), dentry[e].name)
          /\ dentry[e].parent # Root => /\ <<dentry'[dentry[e].parent].name, dentry[e].name>> \in disk'
                                        /\ dentry'[dentry[e].parent].hashed
      <4> DEFINE q == dentry[e].parent
                 z == dentry[e].name
      <4>1. /\ q \in Places /\ Directory(q) /\ z \in Names /\ NameIn(q, z) /\ ~(q = o /\ z = y) /\ ~(q = p /\ z = x)
            /\ q # Root => <<dentry[q].name, z>> \in disk
        BY <3>2, <3>3
      <4> HIDE DEF q, z
      <4>2. /\ InoAfter(q) = InoOf(q)
            /\ \A m : First(m, InoOf(q), z) => FirstAfter(m, InoAfter(q), z) /\ m # n
            /\ q # Root => <<dentry'[q].name, z>> \in disk' /\ dentry'[q].hashed
        BY <1>1, <1>2, <2>1, <4>1, RenameOthers
      <4> QED BY <3>2, <4>2 DEF q, z
    <3> QED BY <2>5, <2>12, <3>4
  <2>13. p # Root => p \in Dentries \ {d} /\ Used(p) /\ IsDir(p) /\ dentry'[p].hashed /\ dentry'[p].name = dentry[p].name
                     /\ x \in FileNames
    <3> SUFFICES ASSUME p # Root
                 PROVE  p \in Dentries \ {d} /\ Used(p) /\ IsDir(p) /\ dentry'[p].hashed /\ dentry'[p].name = dentry[p].name
                        /\ x \in FileNames
      OBVIOUS
    <3>1. p \in Dentries /\ Used(p) /\ IsDir(p) /\ dentry[p].hashed /\ dentry[p].parent = Root
      BY <1>1, DirectoryFacts DEF IsDir
    <3>2. p # d /\ x \in FileNames
      BY <1>2, <3>1, FileSystemAssumption DEF Renamed, Names
    <3>3. p \notin Hashed(p, x)
      BY <3>1 DEF Hashed, Below
    <3> QED BY <2>5, <3>1, <3>2, <3>3
  <2>14. TreeInv'
    <3> SUFFICES ASSUME NEW m \in Children
                 PROVE  /\ ~inode'[m].live => inode'[m] = Free
                        /\ inode'[m].live =>
                             /\ m < next_inode_num /\ inode'[m].name \in Names
                             /\ inode'[m].parent \in Numbers /\ inode'[inode'[m].parent].live
                             /\ inode'[m].parent # 1 => inode'[m].name \in FileNames
                                                        /\ inode'[inode'[m].parent].name \in DirNames
      BY <1>2 DEF TreeInv, Free, Renamed
    <3>1. /\ ~inode[m].live => inode[m] = Free
          /\ inode[m].live =>
               /\ m < next_inode_num /\ inode[m].name \in Names
               /\ inode[m].parent \in Numbers /\ inode[inode[m].parent].live
               /\ inode[m].parent # 1 => inode[m].name \in FileNames /\ inode[inode[m].parent].name \in DirNames
          /\ m \in Numbers
      BY <1>1 DEF FsRuns, GuestInv, TreeInv, Children, Numbers
    <3>2. CASE m = n
      <4>1. InoOf(p) \in Numbers /\ inode[InoOf(p)].live
            /\ (InoOf(p) # 1 => x \in FileNames /\ inode[InoOf(p)].name \in DirNames)
        BY <1>1, <1>2, DirectoryFacts, NameFits DEF Renamed
      <4>2. InoOf(p) # n
        <5> SUFFICES ASSUME InoOf(p) = n PROVE FALSE
          OBVIOUS
        <5>1. y \in DirNames
          BY <2>2, <4>1
        <5> QED BY <1>2, <2>2, <5>1 DEF Renamed, IsDir, InoOf
      <4>3. inode'[InoOf(p)] = inode[InoOf(p)]
        BY <2>9, <4>1, <4>2
      <4> QED BY <2>2, <2>9, <3>1, <3>2, <4>1, <4>3
    <3>3. CASE m # n
      <4>1. inode'[m] = inode[m]
        BY <2>9, <3>1, <3>3
      <4>2. CASE ~inode[m].live
        BY <3>1, <4>1, <4>2
      <4>3. CASE inode[m].live
        <5>1. inode'[inode[m].parent].live
          BY <2>9, <3>1, <4>3
        <5>2. inode[m].parent # 1 => inode'[inode[m].parent].name \in DirNames
          <6>1. CASE inode[m].parent # n
            BY <2>9, <3>1, <4>3, <6>1
          <6>2. CASE inode[m].parent = n
            <7>1. y \in DirNames
              BY <2>2, <3>1, <4>3, <6>2
            <7> QED BY <1>2, <2>9, <6>2, <7>1 DEF Renamed, IsDir
          <6> QED BY <6>1, <6>2
        <5> QED BY <3>1, <4>1, <4>3, <5>1, <5>2
      <4> QED BY <4>2, <4>3
    <3> QED BY <3>2, <3>3
  <2>15. ASSUME NEW e \in Dentries PROVE DentryOk(e)'
    <3>1. CASE ~Used(e)
      <4>1. e # d /\ e \notin Hashed(p, x) /\ dentry'[e] = dentry[e] /\ dentry[e] = Unused
        BY <2>2, <2>3, <2>6, <3>1 DEF Hashed, Below, DentryOk
      <4> QED BY <3>1, <4>1 DEF DentryOk, Used
    <3>2. CASE Used(e)
      <4>1. /\ dentry[e].ino \in Children /\ dentry[e].ino \in Numbers /\ dentry[e].ino < next_inode_num
            /\ icache[dentry[e].ino] = "live" /\ dentry[e].name \in Names
            /\ IsDir(e) => inode[dentry[e].ino].live /\ inode[dentry[e].ino].name \in DirNames
            /\ ~IsDir(e) => inode[dentry[e].ino].name \notin DirNames
        BY <2>6, <3>2 DEF DentryOk, Children, Numbers
      <4>2. /\ dentry'[e].ino \in Children /\ dentry'[e].ino < next_inode_num' /\ dentry'[e].name \in Names
            /\ icache'[dentry'[e].ino] = "live"
        BY <1>2, <2>4, <2>5, <2>7, <4>1 DEF Renamed
      <4>3. /\ IsDir(e) => inode'[dentry[e].ino].live /\ inode'[dentry[e].ino].name \in DirNames
            /\ ~IsDir(e) => inode'[dentry[e].ino].name \notin DirNames
        <5>1. CASE dentry[e].ino # n
          BY <2>9, <4>1, <5>1
        <5>2. CASE dentry[e].ino = n
          <6>1. IsDir(e) <=> y \in DirNames
            BY <2>2, <4>1, <5>2
          <6>2. IsDir(e) <=> x \in DirNames
            BY <1>2, <6>1 DEF Renamed, IsDir
          <6> QED BY <2>9, <4>1, <5>2, <6>2
        <5> QED BY <5>1, <5>2
      <4>4. \/ dentry'[e].parent = Root
            \/ /\ dentry'[e].parent \in Dentries /\ dentry'[dentry'[e].parent].ino # 0
               /\ dentry'[dentry'[e].parent].name \in DirNames
               /\ dentry'[e].name \in FileNames
               /\ dentry'[e].hashed => dentry'[dentry'[e].parent].hashed
        <5>1. CASE e = d
          BY <2>4, <2>7, <2>13, <5>1 DEF Used, IsDir
        <5>2. CASE e # d
          <6>1. CASE dentry[e].parent = Root
            BY <2>5, <5>2, <6>1
          <6>2. CASE dentry[e].parent # Root
            <7>1. dentry[e].parent \in Dentries /\ Used(dentry[e].parent) /\ IsDir(dentry[e].parent)
                  /\ dentry[e].name \in FileNames
              BY <2>6, <3>2, <6>2 DEF DentryOk
            <7>2. dentry'[dentry[e].parent].ino # 0 /\ dentry'[dentry[e].parent].name \in DirNames
              BY <2>7, <7>1 DEF Used, IsDir
            <7>3. dentry'[e].hashed => dentry'[dentry[e].parent].hashed
              BY <2>12, <5>2, <6>2
            <7> QED BY <2>5, <5>2, <7>1, <7>2, <7>3
          <6> QED BY <6>1, <6>2
        <5> QED BY <5>1, <5>2
      <4> QED BY <2>7, <3>2, <4>2, <4>3, <4>4 DEF DentryOk, Used, IsDir
    <3> QED BY <3>1, <3>2
  <2>16. ASSUME NEW e \in Dentries, dentry'[e].hashed
         PROVE  /\ FirstAfter(dentry'[e].ino, InoAfter(dentry'[e].parent), dentry'[e].name)
                /\ dentry'[e].parent # Root => <<dentry'[dentry'[e].parent].name, dentry'[e].name>> \in disk'
                /\ \A c \in Dentries : Used(c)' /\ dentry'[c].parent = dentry'[e].parent /\ dentry'[c].hashed
                                       /\ dentry'[c].name = dentry'[e].name => c = e
    <3>1. \A c \in Dentries : c # d /\ dentry'[c].hashed => ~(dentry'[c].parent = p /\ dentry'[c].name = x)
      BY <2>5, <2>11
    <3>2. CASE e = d
      <4>1. FirstAfter(n, InoOf(p), x)
        BY <1>1, <1>2, <2>2, <2>9, ReparentPlaces DEF Renamed, FirstAfter, FsRuns
      <4>2. p # Root => <<dentry'[p].name, x>> \in disk'
        BY <1>1, <1>2, <2>13, MovedFacts DEF Renamed, PathIn, FsRuns
      <4> QED BY <2>4, <2>8, <3>1, <3>2, <4>1, <4>2
    <3>3. CASE e # d
      <4>1. dentry'[e].parent # Root => <<dentry'[dentry'[e].parent].name, dentry'[e].name>> \in disk'
        BY <2>5, <2>12, <2>16, <3>3
      <4>2. ASSUME NEW c \in Dentries, Used(c)', dentry'[c].parent = dentry'[e].parent, dentry'[c].hashed,
                   dentry'[c].name = dentry'[e].name
            PROVE  c = e
        <5>1. c # d
          BY <2>4, <2>16, <3>1, <3>3, <4>2
        <5>2. dentry[e].hashed /\ dentry[c].hashed /\ dentry[c].parent = dentry[e].parent /\ dentry[c].name = dentry[e].name
          BY <2>5, <2>16, <3>3, <4>2, <5>1
        <5>3. c \in Hashed(dentry[e].parent, dentry[e].name)
          BY <2>7, <4>2, <5>2 DEF Hashed, Below
        <5> QED BY <2>6, <5>2, <5>3 DEF HashedOk
      <4> QED BY <2>12, <2>16, <3>3, <4>1, <4>2
    <3> QED BY <3>2, <3>3
  <2>17. HashedInv'
    BY <2>16 DEF HashedInv, HashedOk, First, FirstAfter, InoOf, InoAfter, Hashed, Below
  <2>18. TaskInv'
    <3> SUFFICES ASSUME task # None
                 PROVE  /\ task.parent = Root \/ /\ task.parent \in Dentries /\ dentry'[task.parent].ino # 0
                                                 /\ dentry'[task.parent].hashed /\ dentry'[task.parent].name \in DirNames
                        /\ NameIn(task.parent, task.name)
                        /\ \A c \in Dentries : ~(dentry'[c].hashed /\ dentry'[c].ino # 0 /\ dentry'[c].parent = task.parent
                                                 /\ dentry'[c].name = task.name)
                        /\ task.ino < next_inode_num
                        /\ inode'[task.ino].live => FirstAfter(task.ino, InoAfter(task.parent), task.name)
                        /\ task.parent # Root => <<dentry'[task.parent].name, task.name>> \in disk'
      BY <1>2 DEF TaskInv, First, FirstAfter, NameIn, InoOf, InoAfter, Directory, Hashed, Below, Used, IsDir, Renamed
    <3>1. /\ Directory(task.parent) /\ NameIn(task.parent, task.name) /\ Hashed(task.parent, task.name) = {}
          /\ task.ino < next_inode_num
          /\ inode[task.ino].live => First(task.ino, InoOf(task.parent), task.name)
          /\ task.parent # Root => <<dentry[task.parent].name, task.name>> \in disk
          /\ task.parent \in Places /\ task.ino \in Numbers /\ task.name \in Names
      BY <1>1 DEF FsRuns, GuestInv, TaskInv, FsTypes, Children, Numbers
    <3>2. task.parent # o /\ task.parent # p
      BY <1>2 DEF Renamed, Locked
    <3>3. /\ \A m : First(m, InoOf(task.parent), task.name) => FirstAfter(m, InoAfter(task.parent), task.name)
          /\ task.parent # Root => /\ <<dentry'[task.parent].name, task.name>> \in disk'
                                   /\ dentry'[task.parent].hashed
      BY <1>1, <1>2, <2>1, <3>1, <3>2, RenameOthers
    <3>4. task.parent # Root => /\ task.parent \in Dentries /\ dentry'[task.parent].ino # 0
                                /\ dentry'[task.parent].name \in DirNames
      BY <2>7, <3>1 DEF Directory, Used, IsDir
    <3>5. \A c \in Dentries : ~(dentry'[c].hashed /\ dentry'[c].ino # 0 /\ dentry'[c].parent = task.parent
                                /\ dentry'[c].name = task.name)
      <4> SUFFICES ASSUME NEW c \in Dentries, dentry'[c].hashed, dentry'[c].ino # 0, dentry'[c].parent = task.parent,
                          dentry'[c].name = task.name
                   PROVE  FALSE
        OBVIOUS
      <4>1. c # d
        BY <2>4, <3>2
      <4>2. c \in Hashed(task.parent, task.name)
        BY <2>5, <4>1 DEF Hashed, Below, Used
      <4> QED BY <3>1, <4>2
    <3>6. inode'[task.ino].live => FirstAfter(task.ino, InoAfter(task.parent), task.name)
      BY <2>9, <3>1, <3>3
    <3> QED BY <3>1, <3>3, <3>4, <3>5, <3>6
  <2>19. OwnInode'
    <3> SUFFICES ASSUME ~reborn, NEW e \in Dentries, Used(e)'
                 PROVE  /\ inode'[dentry'[e].ino].live /\ inode'[dentry'[e].ino].parent = InoAfter(dentry'[e].parent)
                        /\ \A c \in Dentries : dentry'[c].ino = dentry'[e].ino => c = e
      BY <1>2 DEF OwnInode, OwnOk, InoOf, InoAfter, Renamed
    <3>1. Used(e) /\ OwnOk(e) /\ OwnOk(d) /\ DentryOk(e)
      BY <1>1, <2>6, <2>7 DEF FsRuns, GuestInv, OwnInode
    <3>2. \A c \in Dentries : dentry'[c].ino = dentry'[e].ino => c = e
      BY <2>7, <3>1 DEF OwnOk
    <3>3. CASE e = d
      BY <2>2, <2>4, <2>8, <2>9, <3>2, <3>3
    <3>4. CASE e # d
      <4>1. dentry[e].ino # n /\ dentry[e].ino \in Numbers
        BY <2>2, <3>1, <3>4 DEF OwnOk, DentryOk, Children, Numbers
      <4>2. InoAfter(dentry'[e].parent) = InoOf(dentry[e].parent)
        BY <2>5, <2>8, <3>1, <3>4 DEF DentryOk, Places
      <4> QED BY <2>7, <2>9, <3>1, <3>2, <4>1, <4>2 DEF OwnOk
    <3> QED BY <3>3, <3>4
  <2>20. ListsExact'
    <3>1. \A m \in Numbers : ReadersOf(m)' = ReadersOf(m)
      BY <2>4, <2>5, <2>7 DEF ReadersOf
    <3> QED BY <1>1, <2>9, <3>1 DEF FsRuns, ListsExact
  <2> QED BY <1>3, <2>14, <2>15, <2>17, <2>18, <2>19, <2>20 DEF FsInv, GuestInv, DentriesInv
<1> QED BY <1>4, <1>5

LEMMA FsStep == FsInv /\ Next => FsInv'
<1> SUFFICES ASSUME FsInv, Next PROVE FsInv'
  OBVIOUS
<1>1. ASSUME NEW x \in Names, NEW p \in Dentries \cup {Root}, p \in Walked,
             Lookup(p, x) \/ Create(p, x) \/ \E d \in Dentries, ok \in BOOLEAN : Rename(d, p, x, ok)
      PROVE  FsInv'
  <2>1. p \in Places /\ Directory(p)
    BY <1>1 DEF Walked, Directory, Places
  <2>2. CASE Lookup(p, x)
    BY <2>1, <2>2, FsLookup
  <2>3. CASE Create(p, x)
    BY <2>1, <2>3, FsCreate
  <2>4. CASE \E d \in Dentries, ok \in BOOLEAN : Rename(d, p, x, ok)
    BY <2>1, <2>4, FsRename
  <2> QED BY <1>1, <2>2, <2>3, <2>4
<1>2. ASSUME NEW d \in Dentries,
             Iget(d) \/ Delete(d) \/ Revalidate(d) \/ Open(d) \/ Release(d) \/ Prune(d)
      PROVE  FsInv'
  BY <1>2, FsIget, FsDelete, FsRevalidate, FsOpen, FsRelease, FsPrune
<1>3. ASSUME NEW n \in Numbers, Evict(n) \/ Forget(n) PROVE FsInv'
  BY <1>3, FsEvict, FsForget
<1>4. ASSUME NEW x \in FileNames, HostChange(<<x>>) PROVE FsInv'
  BY <1>4, FsHostChange
<1>5. CASE Reset
  BY <1>5, FsReset
<1> QED BY <1>1, <1>2, <1>3, <1>4, <1>5 DEF Next

\* The tree hangs together even when an inode has no name, or was forgotten by the host.
FsTree == FsInv /\ TreeExact

LEMMA FsTreeInit == Init => FsTree
<1> SUFFICES ASSUME Init PROVE TreeExact
  BY FsInit DEF FsTree
<1>1. \A n \in Children : ~inode[n].live
  BY FileSystemAssumption DEF Init, Children, Numbers, Free
<1> QED BY <1>1 DEF TreeExact

LEMMA FsTreeNext == FsTree /\ [Next]_vars => FsTree'
<1> SUFFICES ASSUME FsTree, [Next]_vars PROVE FsTree'
  OBVIOUS
<1>1. FsInv'
  BY FsStep, FsSame DEF FsTree
<1>2. CASE Runs'
  <2>1. TreeInv'
    BY <1>1, <1>2 DEF FsInv, GuestInv
  <2> QED BY <1>1, <2>1 DEF FsTree, TreeInv, TreeExact
<1>3. CASE inode' = inode
  BY <1>1, <1>3 DEF FsTree, TreeExact
<1>4. ASSUME ~Runs', inode' # inode PROVE FsTree'
  <2>1. \E x \in Names, p \in Places, d \in Dentries, ok \in BOOLEAN : p \in Walked /\ Rename(d, p, x, ok)
    <3>1. Next
      BY <1>4 DEF vars, hostVars
    <3>2. \A x, p : ~Lookup(p, x) /\ ~Create(p, x)
      BY <1>4 DEF Lookup, Create, Runs
    <3>3. \A d \in Dentries : ~Iget(d) /\ ~Delete(d) /\ ~Revalidate(d) /\ ~Open(d) /\ ~Release(d) /\ ~Prune(d)
      BY <1>4 DEF Iget, Delete, Revalidate, Open, Release, Prune, Runs, hostVars
    <3>4. \A n \in Numbers : ~Evict(n) /\ ~Forget(n)
      BY <1>4 DEF Evict, Forget, Runs
    <3>5. \A x \in FileNames : ~HostChange(<<x>>)
      BY <1>4 DEF HostChange, hostVars
    <3>6. ~Reset
      BY <1>4 DEF Reset, Runs
    <3> QED BY <3>1, <3>2, <3>3, <3>4, <3>5, <3>6 DEF Next, Places
  <2>2. PICK x \in Names, p \in Places, d \in Dentries, ok \in BOOLEAN : p \in Walked /\ Rename(d, p, x, ok)
    BY <2>1
  <2>3. FsRuns
    BY <2>2, RunsInv DEF FsTree, Rename
  <2>4. Directory(p) /\ RenameInode(dentry[d].ino, InoOf(p), x, ok) /\ dentry[d].hashed
    BY <2>2, <2>3, RenameFacts DEF Walked, Directory, Places, Renamed
  <2>5. InoOf(p) \in Numbers /\ inode[InoOf(p)].live /\ dentry[d].ino \in Numbers
    BY <2>3, <2>4, DirectoryFacts, HashedFacts
  <2>6. \A m \in Numbers : /\ inode'[m].live = inode[m].live
                           /\ inode'[m].parent = IF m = dentry[d].ino THEN InoOf(p) ELSE inode[m].parent
    BY <2>3, <2>4, <2>5 DEF RenameInode, FsRuns, FsTypes
  <2>7. \A m \in Children : inode[m].live => inode[inode[m].parent].live /\ inode[m].parent \in Numbers
    BY <2>3 DEF FsRuns, GuestInv, TreeInv
  <2>8. TreeExact'
    BY <2>5, <2>6, <2>7 DEF TreeExact, Children, Numbers
  <2> QED BY <1>1, <2>8 DEF FsTree
<1> QED BY <1>2, <1>3, <1>4

LEMMA FsExact == FsTree => FilesExact
<1> SUFFICES ASSUME FsTree PROVE FilesExact
  OBVIOUS
<1>1. PathsAgree
  <2> SUFFICES ASSUME Runs, NEW d \in Dentries, Used(d), dentry[d].hashed
               PROVE  PathOf(dentry[d].ino) = GuestPath(d)
    BY DEF PathsAgree
  <2>1. FsRuns
    BY RunsInv DEF FsTree
  <2> DEFINE n == dentry[d].ino
             p == dentry[d].parent
             x == dentry[d].name
  <2>2. /\ p \in Places /\ Directory(p) /\ x \in Names /\ n \in Children
        /\ inode[n].live /\ inode[n].name = x /\ inode[n].parent = InoOf(p)
    BY <2>1, HashedFacts
  <2>3. n # 0 /\ x # None
    BY <2>2, FileSystemAssumption DEF Children
  <2>4. CASE p = Root
    <3>1. InoOf(p) = 1 /\ inode[1].name = None
      BY <2>1, <2>4 DEF InoOf, FsRuns, FsTypes, Free
    <3> QED BY <2>2, <2>3, <2>4, <3>1 DEF PathOf, GuestPath
  <2>5. CASE p # Root
    <3>1. InoOf(p) # 0 /\ inode[InoOf(p)].live /\ inode[InoOf(p)].name = dentry[p].name /\ dentry[p].name \in DirNames
      BY <2>1, <2>2, <2>5, DirectoryFacts, FileSystemAssumption DEF Numbers
    <3>2. dentry[p].name # None
      BY <3>1, FileSystemAssumption DEF Names
    <3> QED BY <2>2, <2>3, <2>5, <3>1, <3>2 DEF PathOf, GuestPath
  <2> QED BY <2>4, <2>5
<1>2. OpensKnown
  BY DEF OpensKnown, FsTree, FsInv, GuestInv, OwnInode, OwnOk
<1> QED BY <1>1, <1>2 DEF FilesExact, FsTree, FsInv

\* The host's tree of inodes and the guest's dentries give the same path to each name the
\* guest can reach.
THEOREM FilesStayExact == Spec => []FilesExact
<1>1. Init => FsTree
  BY FsTreeInit
<1>2. FsTree /\ [Next]_vars => FsTree'
  BY FsTreeNext
<1>3. FsTree => FilesExact
  BY FsExact
<1> QED BY <1>1, <1>2, <1>3, PTL DEF Spec

\* The names the host keeps are those the guest uses, and a directory's list of names reaches
\* each reader once and in order.
THEOREM NamesStayExact == Spec /\ List!Spec => []NamesExact
<1>1. List!Init => ListInv
  BY ListInit
<1>2. List!Spec => []List!ListingExact
  BY <1>1, ListNext, ListInvExact, PTL DEF List!Spec
<1>3. FilesExact /\ List!ListingExact => NamesExact
  BY DEF NamesExact
<1> QED BY <1>2, <1>3, FilesStayExact, PTL
-----------------------------------------------------------------------------
(* Console.  A buffer is rows of X cells, so each operation is followed    *)
(* row by row; products are hidden in Line.                                *)

\* The rows of the buffer.
Lines == 0..(MaxY - 1)
\* Where a row of the buffer begins.
Line(r) == r * X
\* The first row of the screen.
Top == MaxY - Y

LEMMA LineOrder ==
    ASSUME NEW a \in Int, NEW b \in Int, a < b
    PROVE  Line(a) + X <= Line(b)
<1>1. X \in Nat /\ X > 0
  BY HostPartsAssumption DEF HostPartsAssumption, Con!SizesPositive
<1> DEFINE d == b - a - 1
<1>2. d \in Nat /\ b = a + 1 + d
  OBVIOUS
<1> HIDE DEF d
<1>3. d * X >= 0
  BY <1>1, <1>2
<1>4. (a + 1 + d) * X = a * X + X + d * X
  BY <1>1, <1>2
<1> QED BY <1>1, <1>2, <1>3, <1>4 DEF Line

LEMMA Sizes ==
    /\ X \in Nat /\ X > 0 /\ Y \in Nat /\ Y > 0 /\ MaxY \in Nat /\ MaxY >= Y
    /\ Top \in Nat /\ Top + Y = MaxY /\ Lines = 0..(MaxY - 1)
    /\ Con!Cols = 0..(X - 1) /\ Con!Rows = 0..(Y - 1)
  BY HostPartsAssumption DEF HostPartsAssumption, Con!SizesPositive, Top, Lines, Con!Cols, Con!Rows

LEMMA LineInt == ASSUME NEW a \in Int PROVE Line(a) \in Int /\ X * a = Line(a)
  BY Sizes DEF Line

LEMMA LineSum ==
    ASSUME NEW a \in Int, NEW b \in Int
    PROVE  /\ Line(a) \in Int /\ Line(b) \in Int
           /\ Line(a + b) = Line(a) + Line(b) /\ Line(a - b) = Line(a) - Line(b)
  BY Sizes DEF Line

LEMMA LineFacts ==
    /\ Con!ScreenAt = Line(Top) /\ Con!Cells = 0..(Line(MaxY) - 1) /\ Line(0) = 0
<1>1. Con!ScreenAt = Line(Top)
  BY DEF Con!ScreenAt, Line, Top
<1>2. Con!Cells = 0..(Line(MaxY) - 1)
  BY Sizes, LineInt DEF Con!Cells
<1>3. Line(0) = 0
  BY Sizes DEF Line
<1> QED BY <1>1, <1>2, <1>3

\* Which cells are in rows a to b - 1.
LEMMA RowsBetween ==
    ASSUME NEW r \in Int, NEW c \in Con!Cols, NEW a \in Int, NEW b \in Int
    PROVE  Line(r) + c \in Line(a)..(Line(b) - 1) <=> a <= r /\ r < b
<1>1. /\ X \in Nat /\ X > 0 /\ c \in 0..(X - 1)
      /\ Line(a) \in Int /\ Line(b) \in Int /\ Line(r) \in Int
  BY Sizes, LineInt
<1>2. /\ r < a => Line(r) + X <= Line(a)
      /\ a < r => Line(a) + X <= Line(r)
      /\ r < b => Line(r) + X <= Line(b)
      /\ b < r => Line(b) + X <= Line(r)
  BY LineOrder
<1>3. Line(r) + c >= Line(a) <=> a <= r
  <2>1. r = a \/ r < a \/ a < r
    OBVIOUS
  <2> QED BY <1>1, <1>2, <2>1
<1>4. Line(r) + c <= Line(b) - 1 <=> r < b
  <2>1. r = b \/ r < b \/ b < r
    OBVIOUS
  <2> QED BY <1>1, <1>2, <2>1
<1> QED BY <1>1, <1>3, <1>4

\* Which cells are in a part of row a.
LEMMA CellsInRow ==
    ASSUME NEW r \in Int, NEW c \in Con!Cols, NEW a \in Int, NEW i \in Nat, NEW j \in Int, j < X
    PROVE  Line(r) + c \in (Line(a) + i)..(Line(a) + j) <=> r = a /\ c \in i..j
<1>1. /\ X \in Nat /\ X > 0 /\ c \in 0..(X - 1)
      /\ Line(a) \in Int /\ Line(r) \in Int
  BY Sizes, LineInt
<1>2. /\ r < a => Line(r) + X <= Line(a)
      /\ a < r => Line(a) + X <= Line(r)
  BY LineOrder
<1>3. r = a \/ r < a \/ a < r
  OBVIOUS
<1> QED BY <1>1, <1>2, <1>3

LEMMA CellOfPlace ==
    /\ \A r \in Lines, c \in Con!Cols : Line(r) + c \in Con!Cells
    /\ \A p \in Con!Places : /\ p[1] \in 0..(Y - 1) /\ p[2] \in Con!Cols /\ p = <<p[1], p[2]>>
                             /\ Line(Top + p[1]) + p[2] \in Con!Cells
<1>1. \A r \in Lines, c \in Con!Cols : Line(r) + c \in Con!Cells
  <2> TAKE r \in Lines, c \in Con!Cols
  <2>1. Line(r) + c \in Line(0)..(Line(MaxY) - 1)
    <3>1. r \in Int /\ 0 <= r /\ r < MaxY /\ MaxY \in Int
      BY Sizes
    <3> QED BY <3>1, RowsBetween
  <2> QED BY <2>1, LineFacts
<1>2. \A p \in Con!Places : p[1] \in 0..(Y - 1) /\ p[2] \in Con!Cols /\ p = <<p[1], p[2]>>
  BY DEF Con!Places, Con!Rows
<1>3. \A p \in Con!Places : Top + p[1] \in Lines
  <2> TAKE p \in Con!Places
  <2> QED BY <1>2, Sizes
<1> QED BY <1>1, <1>2, <1>3

\* What is in a row of the buffer.
CellAt(b, r, c) == b[Line(r) + c]

\* The rows of the buffer that an operation writes, and what is in them then.
\* Rows A to B - 1 of g are those k rows later of b, or hold v; the others are those of b.
Shifted(g, b, A, B, k) ==
    \A r \in Lines, c \in Con!Cols :
        /\ A <= r /\ r < B => CellAt(g, r, c) = CellAt(b, r + k, c)
        /\ ~(A <= r /\ r < B) => CellAt(g, r, c) = CellAt(b, r, c)
Filled(g, b, A, B, v) ==
    \A r \in Lines, c \in Con!Cols :
        /\ A <= r /\ r < B => CellAt(g, r, c) = v
        /\ ~(A <= r /\ r < B) => CellAt(g, r, c) = CellAt(b, r, c)

LEMMA MemmoveRows ==
    ASSUME NEW b, NEW A \in Int, NEW B \in Int, NEW k \in Int
    PROVE  Shifted(Con!Memmove(b, Line(A), Line(A + k), Line(B) - Line(A)), b, A, B, k)
<1> SUFFICES ASSUME NEW r \in Lines, NEW c \in Con!Cols
             PROVE  LET g == Con!Memmove(b, Line(A), Line(A + k), Line(B) - Line(A)) IN
                    /\ A <= r /\ r < B => CellAt(g, r, c) = CellAt(b, r + k, c)
                    /\ ~(A <= r /\ r < B) => CellAt(g, r, c) = CellAt(b, r, c)
  BY DEF Shifted
<1>1. Line(r) + c \in Con!Cells /\ c \in Int /\ r \in Int
  BY CellOfPlace, Sizes
<1>2. Line(r) + c \in Line(A)..(Line(B) - 1) <=> A <= r /\ r < B
  BY <1>1, RowsBetween
<1>3. /\ Line(A) + (Line(B) - Line(A)) - 1 = Line(B) - 1
      /\ Line(A + k) + (Line(r) + c) - Line(A) = Line(r + k) + c
  <2>1. Line(A + k) = Line(A) + Line(k) /\ Line(r + k) = Line(r) + Line(k)
    BY <1>1, LineSum
  <2>2. Line(A) \in Int /\ Line(B) \in Int /\ Line(k) \in Int /\ Line(r) \in Int
    BY <1>1, LineInt
  <2> QED BY <1>1, <2>1, <2>2
<1> QED BY <1>1, <1>2, <1>3 DEF CellAt, Con!Memmove

LEMMA FillRows ==
    ASSUME NEW b, NEW A \in Int, NEW B \in Int, NEW v
    PROVE  Filled(Con!Fill(b, Line(A), Line(B) - Line(A), v), b, A, B, v)
<1> SUFFICES ASSUME NEW r \in Lines, NEW c \in Con!Cols
             PROVE  LET g == Con!Fill(b, Line(A), Line(B) - Line(A), v) IN
                    /\ A <= r /\ r < B => CellAt(g, r, c) = v
                    /\ ~(A <= r /\ r < B) => CellAt(g, r, c) = CellAt(b, r, c)
  BY DEF Filled
<1>1. Line(r) + c \in Con!Cells /\ c \in Int /\ r \in Int
  BY CellOfPlace, Sizes
<1>2. Line(r) + c \in Line(A)..(Line(B) - 1) <=> A <= r /\ r < B
  BY <1>1, RowsBetween
<1>3. Line(A) + (Line(B) - Line(A)) - 1 = Line(B) - 1
  BY LineInt
<1> QED BY <1>1, <1>2, <1>3 DEF CellAt, Con!Fill

\* The region of a scroll, its products taken as rows.
LEMMA Region ==
    ASSUME NEW m, NEW t \in Con!Rows, NEW e \in (t + 1)..Y, NEW n \in 1..(e - t - 1),
           m.top = t, m.bottom = e - 1, m.lines = n
    PROVE  /\ t \in Int /\ e \in Int /\ n \in Int /\ Top \in Int /\ MaxY \in Int
           /\ X * m.top = Line(t) /\ X * m.lines = Line(n)
           /\ X * (m.bottom + 1) = Line(e) /\ X * MaxY = Line(MaxY) /\ Con!ScreenAt = Line(Top)
           /\ Line(Top) \in Int /\ Line(t) \in Int /\ Line(n) \in Int /\ Line(e) \in Int /\ Line(MaxY) \in Int
           /\ m.top # 0 \/ m.bottom + 1 # Y <=> ~(t = 0 /\ e = Y)
<1>1. t \in Int /\ e \in Int /\ n \in Int /\ Top \in Int /\ MaxY \in Int
  BY Sizes
<1>2. m.bottom + 1 = e
  BY <1>1
<1>3. /\ Line(Top) \in Int /\ Line(t) \in Int /\ Line(n) \in Int /\ Line(e) \in Int /\ Line(MaxY) \in Int
      /\ X * t = Line(t) /\ X * n = Line(n) /\ X * e = Line(e) /\ X * MaxY = Line(MaxY)
  BY <1>1, LineInt
<1> QED BY <1>1, <1>2, <1>3, LineFacts

LEMMA ScrollUpAll ==
    ASSUME NEW b, NEW m, NEW n \in 1..(Y - 1), m.top = 0, m.bottom = Y - 1, m.lines = n,
           NEW r \in Lines, NEW c \in Con!Cols
    PROVE  /\ r < MaxY - n => CellAt(Con!ScrollUp(b, m), r, c) = CellAt(b, r + n, c)
           /\ ~(r < MaxY - n) => CellAt(Con!ScrollUp(b, m), r, c) = Con!Blank
<1> DEFINE B == MaxY - n
           moved == Con!Memmove(b, Line(0), Line(0 + n), Line(B) - Line(0))
<1>1. /\ n \in Int /\ MaxY \in Int /\ B \in Int /\ 0 \in Int /\ r \in Int
      /\ X * m.top = Line(0) /\ X * m.lines = Line(n) /\ X * MaxY = Line(MaxY)
      /\ m.top = 0 /\ m.bottom + 1 = Y
      /\ Line(n) \in Int /\ Line(MaxY) \in Int
  <2>1. n \in Int /\ MaxY \in Int /\ B \in Int /\ 0 \in Int /\ r \in Int /\ m.bottom + 1 = Y
    BY Sizes
  <2>2. /\ X * 0 = Line(0) /\ X * n = Line(n) /\ X * MaxY = Line(MaxY)
        /\ Line(n) \in Int /\ Line(MaxY) \in Int
    BY <2>1, LineInt
  <2> QED BY <2>1, <2>2
<1>2. Con!ScrollUp(b, m) = Con!Fill(moved, Line(B), Line(MaxY) - Line(B), Con!Blank)
  <2>1. Line(B) = Line(MaxY) - Line(n)
    BY <1>1, LineSum
  <2>2. 0 + n = n
    BY <1>1
  <2>3. /\ Line(0) = 0 /\ Line(0 + n) = Line(n) /\ Line(B) - Line(0) = Line(B)
        /\ Line(MaxY) - Line(n) = Line(B) /\ Line(n) = Line(MaxY) - Line(B)
    <3> HIDE DEF B
    <3> QED BY <1>1, <2>1, <2>2, LineFacts
  <2> HIDE DEF B
  <2> QED BY <1>1, <2>3 DEF Con!ScrollUp
<1>3. Shifted(moved, b, 0, B, n)
  <2> HIDE DEF B
  <2>1. n \in Int /\ B \in Int /\ 0 \in Int
    BY <1>1
  <2> QED BY <2>1, MemmoveRows
<1>4. Filled(Con!ScrollUp(b, m), moved, B, MaxY, Con!Blank)
  <2> HIDE DEF moved, B
  <2> QED BY <1>1, <1>2, FillRows
<1>5. 0 <= r /\ r < MaxY /\ (r < B <=> ~(B <= r))
  BY <1>1, Sizes
<1> HIDE DEF moved
<1> QED BY <1>3, <1>4, <1>5 DEF Shifted, Filled

LEMMA ScrollUpRows ==
    ASSUME NEW b, NEW m, NEW t \in Con!Rows, NEW e \in (t + 1)..Y, NEW n \in 1..(e - t - 1),
           m.top = t, m.bottom = e - 1, m.lines = n, ~(t = 0 /\ e = Y),
           NEW r \in Lines, NEW c \in Con!Cols
    PROVE  /\ Top + e - n <= r /\ r < Top + e => CellAt(Con!ScrollUp(b, m), r, c) = Con!Blank
           /\ Top + t <= r /\ r < Top + e - n => CellAt(Con!ScrollUp(b, m), r, c) = CellAt(b, r + n, c)
           /\ r < Top + t \/ Top + e <= r => CellAt(Con!ScrollUp(b, m), r, c) = CellAt(b, r, c)
<1> DEFINE A == Top + t
           B == Top + e - n
           E == Top + e
           moved == Con!Memmove(b, Line(A), Line(A + n), Line(B) - Line(A))
<1>1. A \in Int /\ B \in Int /\ E \in Int /\ B = E - n /\ r \in Int /\ A < B /\ B < E
  BY Region, Sizes
<1>2. Con!ScrollUp(b, m) = Con!Fill(moved, Line(B), Line(E) - Line(B), Con!Blank)
  <2>1. /\ Line(A) = Line(Top) + Line(t) /\ Line(A + n) = Line(A) + Line(n)
        /\ Line(E - n) = Line(E) - Line(n) /\ Line(E) = Line(Top) + Line(e)
    <3>1. A \in Int /\ E \in Int /\ n \in Int /\ Top \in Int /\ t \in Int /\ e \in Int
      BY <1>1, Region
    <3>2. Line(A + n) = Line(A) + Line(n) /\ Line(E - n) = Line(E) - Line(n)
      <4> HIDE DEF A, E
      <4> QED BY <3>1, LineSum
    <3> QED BY <3>1, <3>2, LineSum
  <2>2. /\ Line(Top) + Line(t) = Line(A)
        /\ Line(Top) + Line(t) + Line(n) = Line(A + n)
        /\ Line(e) - Line(n) - Line(t) = Line(B) - Line(A)
        /\ Line(Top) + (Line(e) - Line(n)) = Line(B)
        /\ Line(n) = Line(E) - Line(B)
    <3> HIDE DEF A, B, E
    <3> QED BY <1>1, <2>1, Region
  <2> HIDE DEF A, B, E
  <2> QED BY <2>2, Region DEF Con!ScrollUp
<1>3. Shifted(moved, b, A, B, n)
  <2>1. A \in Int /\ B \in Int /\ n \in Int
    BY <1>1, Region
  <2> HIDE DEF A, B
  <2> QED BY <2>1, MemmoveRows
<1>4. Filled(Con!ScrollUp(b, m), moved, B, E, Con!Blank)
  <2> HIDE DEF moved, A, B, E
  <2> QED BY <1>1, <1>2, FillRows
<1> HIDE DEF moved, A, B, E
<1>5. /\ r < B => ~(B <= r /\ r < E)
      /\ r < A => ~(B <= r /\ r < E) /\ ~(A <= r /\ r < B)
      /\ E <= r => ~(B <= r /\ r < E) /\ ~(A <= r /\ r < B)
  BY <1>1
<1> QED BY <1>3, <1>4, <1>5 DEF Shifted, Filled, A, B, E

LEMMA ScrollDownRows ==
    ASSUME NEW b, NEW m, NEW t \in Con!Rows, NEW e \in (t + 1)..Y, NEW n \in 1..(e - t - 1),
           m.top = t, m.bottom = e - 1, m.lines = n,
           NEW r \in Lines, NEW c \in Con!Cols
    PROVE  /\ Top + t <= r /\ r < Top + t + n => CellAt(Con!ScrollDown(b, m), r, c) = Con!Blank
           /\ Top + t + n <= r /\ r < Top + e => CellAt(Con!ScrollDown(b, m), r, c) = CellAt(b, r - n, c)
           /\ r < Top + t \/ Top + e <= r => CellAt(Con!ScrollDown(b, m), r, c) = CellAt(b, r, c)
<1> DEFINE S == Top + t
           A == Top + t + n
           B == Top + e
           k == -n
           moved == Con!Memmove(b, Line(A), Line(A + k), Line(B) - Line(A))
<1>1. /\ S \in Int /\ A \in Int /\ B \in Int /\ k \in Int /\ r \in Int /\ S < A /\ A < B
      /\ A = S + n /\ A + k = S /\ r + k = r - n
  BY Region, Sizes
<1>2. Con!ScrollDown(b, m) = Con!Fill(moved, Line(S), Line(A) - Line(S), Con!Blank)
  <2>1. /\ Line(S + n) = Line(S) + Line(n) /\ Line(S) = Line(Top) + Line(t)
        /\ Line(B) = Line(Top) + Line(e)
    <3>1. S \in Int /\ n \in Int /\ Top \in Int /\ t \in Int /\ e \in Int
      BY <1>1, Region
    <3>2. Line(S + n) = Line(S) + Line(n)
      <4> HIDE DEF S
      <4> QED BY <3>1, LineSum
    <3> QED BY <3>1, <3>2, LineSum
  <2>2. /\ Line(Top) + Line(t) = Line(S)
        /\ Line(Top) + Line(t) + Line(n) = Line(A)
        /\ Line(A + k) = Line(S)
        /\ Line(e) - Line(t) - Line(n) = Line(B) - Line(A)
        /\ Line(n) = Line(A) - Line(S)
    <3> HIDE DEF S, A, B, k
    <3> QED BY <1>1, <2>1, Region
  <2> HIDE DEF S, A, B, k
  <2> QED BY <2>2, Region DEF Con!ScrollDown
<1>3. Shifted(moved, b, A, B, k)
  <2>1. A \in Int /\ B \in Int /\ k \in Int
    BY <1>1
  <2> HIDE DEF A, B, k
  <2> QED BY <2>1, MemmoveRows
<1>4. Filled(Con!ScrollDown(b, m), moved, S, A, Con!Blank)
  <2> HIDE DEF moved, S, A, B
  <2> QED BY <1>1, <1>2, FillRows
<1> HIDE DEF moved, S, A, B, k
<1>5. /\ A <= r => ~(S <= r /\ r < A)
      /\ r < S => ~(S <= r /\ r < A) /\ ~(A <= r /\ r < B)
      /\ B <= r => ~(S <= r /\ r < A) /\ ~(A <= r /\ r < B)
  BY <1>1
<1>6. CellAt(b, r + k, c) = CellAt(b, r - n, c)
  BY <1>1
<1> QED BY <1>3, <1>4, <1>5, <1>6 DEF Shifted, Filled, S, A, B

LEMMA PutcsRows ==
    ASSUME NEW b, NEW m, NEW base \in Int, m.y \in Int, m.x \in Con!Cols, m.count \in 1..(X - m.x),
           NEW r \in Lines, NEW c \in Con!Cols
    PROVE  /\ r = base + m.y /\ c \in m.x..(m.x + m.count - 1) =>
                CellAt(Con!Putcs(b, Line(base), m), r, c) = m.data[c - m.x + 1]
           /\ ~(r = base + m.y /\ c \in m.x..(m.x + m.count - 1)) =>
                CellAt(Con!Putcs(b, Line(base), m), r, c) = CellAt(b, r, c)
<1> DEFINE a == base + m.y
           d == Line(base) + X * m.y + m.x
           j == m.x + m.count - 1
           i == Line(r) + c
<1>1. /\ X \in Nat /\ c \in Int /\ m.x \in Nat /\ m.count \in Nat /\ m.count <= X - m.x
      /\ r \in Int /\ i \in Con!Cells /\ j \in Int /\ j < X /\ a \in Int
  <2>1. i \in Con!Cells
    BY CellOfPlace
  <2> HIDE DEF i
  <2> QED BY <2>1, Sizes
<1>2. d = Line(a) + m.x /\ d + m.count - 1 = Line(a) + j /\ Line(a) \in Int /\ Line(r) \in Int
  <2>1. Line(a) = Line(base) + Line(m.y)
    BY LineSum
  <2>2. X * m.y = Line(m.y) /\ Line(base) \in Int /\ Line(m.y) \in Int /\ Line(r) \in Int
    BY <1>1, LineInt
  <2> HIDE DEF a
  <2> QED BY <1>1, <2>1, <2>2
<1>3. i \in d..(d + m.count - 1) <=> r = a /\ c \in m.x..j
  <2> HIDE DEF a, d, j
  <2>1. Line(r) + c \in (Line(a) + m.x)..(Line(a) + j) <=> r = a /\ c \in m.x..j
    BY <1>1, CellsInRow
  <2> QED BY <1>2, <2>1
<1>4. r = a => i - d + 1 = c - m.x + 1
  <2> HIDE DEF a, d
  <2> QED BY <1>1, <1>2
<1>5. /\ i \in d..(d + m.count - 1) => Con!Putcs(b, Line(base), m)[i] = m.data[i - d + 1]
      /\ i \notin d..(d + m.count - 1) => Con!Putcs(b, Line(base), m)[i] = b[i]
  <2>1. (IF m.count > X - m.x THEN X - m.x ELSE m.count) = m.count
    BY <1>1
  <2> HIDE DEF i
  <2> QED BY <1>1, <2>1 DEF Con!Putcs
<1> HIDE DEF d, i, a, j
<1> QED BY <1>3, <1>4, <1>5 DEF CellAt, i, a, j

LEMMA ClearRows ==
    ASSUME NEW b, NEW m, m.top \in Nat, m.bottom \in Nat, m.left \in Con!Cols, m.right \in Con!Cols,
           NEW r \in Lines, NEW c \in Con!Cols
    PROVE  LET at == Top + m.top <= r /\ r <= Top + m.bottom /\ c \in m.left..m.right
           IN  /\ at => CellAt(Con!Clear(b, m), r, c) = Con!Blank
               /\ ~at => CellAt(Con!Clear(b, m), r, c) = CellAt(b, r, c)
<1> DEFINE i == Line(r) + c
           Part(q) == (Con!ScreenAt + X * q + m.left)..(Con!ScreenAt + X * q + m.right)
<1>1. /\ X \in Nat /\ c \in Int /\ m.left \in Nat /\ m.right \in Int /\ m.right < X
      /\ r \in Int /\ Top \in Nat /\ i \in Con!Cells
  BY Sizes, CellOfPlace
<1>2. ASSUME NEW q \in m.top..m.bottom PROVE i \in Part(q) <=> r = Top + q /\ c \in m.left..m.right
  <2>1. q \in Int /\ Top + q \in Int
    BY <1>1
  <2>2. Line(Top) + Line(q) = Line(Top + q) /\ X * q = Line(q)
    <3>1. Top \in Int /\ q \in Int
      BY <1>1, <2>1
    <3> QED BY <3>1, LineSum, LineInt
  <2>3. Part(q) = (Line(Top + q) + m.left)..(Line(Top + q) + m.right)
    BY <2>2, LineFacts
  <2>4. Line(r) + c \in (Line(Top + q) + m.left)..(Line(Top + q) + m.right)
          <=> r = Top + q /\ c \in m.left..m.right
    <3> HIDE DEF i, Part
    <3>1. r \in Int /\ m.left \in Nat /\ m.right \in Int /\ m.right < X
      BY <1>1
    <3> QED BY <2>1, <3>1, CellsInRow
  <2> HIDE DEF Part
  <2> QED BY <2>3, <2>4
<1>3. (\E q \in m.top..m.bottom : i \in Part(q))
        <=> Top + m.top <= r /\ r <= Top + m.bottom /\ c \in m.left..m.right
  <2>1. (\E q \in m.top..m.bottom : r = Top + q) <=> Top + m.top <= r /\ r <= Top + m.bottom
    <3>1. ASSUME Top + m.top <= r, r <= Top + m.bottom PROVE r - Top \in m.top..m.bottom /\ r = Top + (r - Top)
      BY <1>1, <3>1
    <3> QED BY <1>1, <3>1
  <2> HIDE DEF i, Part
  <2> QED BY <1>2, <2>1
<1>4. /\ (\E q \in m.top..m.bottom : i \in Part(q)) => Con!Clear(b, m)[i] = Con!Blank
      /\ ~(\E q \in m.top..m.bottom : i \in Part(q)) => Con!Clear(b, m)[i] = b[i]
  <2> HIDE DEF i
  <2> QED BY <1>1 DEF Con!Clear
<1> HIDE DEF i, Part
<1> QED BY <1>3, <1>4 DEF CellAt, i

\* A region of the screen that fits in it at both places.
Moves(m, h, w) ==
    /\ m.row \in Con!Rows /\ m.top \in Con!Rows /\ m.column \in Con!Cols /\ m.left \in Con!Cols
    /\ h \in 1..Y /\ w \in 1..X /\ m.top + h <= Y /\ m.row + h <= Y
    /\ m.left + w <= X /\ m.column + w <= X
    /\ m.bottom = m.top + h - 1 /\ m.right = m.left + w - 1

\* Bmove copies row after row, and no row is written before it was read: after i rows those
\* that were written are what was there at first.
LEMMA BmoveRows ==
    ASSUME NEW b, b = [j \in Con!Cells |-> b[j]], NEW m, NEW h, NEW w, Moves(m, h, w),
           NEW r \in Lines, NEW c \in Con!Cols
    PROVE  LET at == Top + m.row <= r /\ r < Top + m.row + h /\ c \in m.column..(m.column + w - 1)
           IN  /\ at => CellAt(Con!Bmove(b, m), r, c) = CellAt(b, r - m.row + m.top, c - m.column + m.left)
               /\ ~at => CellAt(Con!Bmove(b, m), r, c) = CellAt(b, r, c)
               /\ Con!Bmove(b, m) = [j \in Con!Cells |-> Con!Bmove(b, m)[j]]
<1> DEFINE n == m.bottom - m.top + 1
           row(i) == IF m.row < m.top THEN i - 1 ELSE n - i
           to(i) == Con!ScreenAt + X * (m.row + row(i)) + m.column
           from(i) == Con!ScreenAt + X * (m.top + row(i)) + m.left
           len == m.right - m.left + 1
           Is(f) == f = [i \in 0..n |-> IF i = 0 THEN b
                                        ELSE Con!Memmove(f[i - 1], to(i), from(i), len)]
           ch == CHOOSE f : Is(f)
           delta == (Line(m.top) - Line(m.row)) + (m.left - m.column)
           Part(i) == to(i)..(to(i) + w - 1)
           Done(i, j) == \E k \in 1..i : j \in Part(k)
           g == [i \in 0..n |-> [j \in Con!Cells |-> IF Done(i, j) THEN b[j + delta] ELSE b[j]]]
<1>1. Con!Bmove(b, m) = ch[n]
  BY DEF Con!Bmove
<1>2. /\ n = h /\ len = w /\ n \in Nat /\ h \in Nat /\ w \in Nat /\ h > 0 /\ w > 0
      /\ m.row \in Nat /\ m.top \in Nat /\ m.column \in Nat /\ m.left \in Nat
      /\ m.row + h <= Y /\ m.top + h <= Y /\ m.column + w <= X /\ m.left + w <= X
      /\ Top \in Nat /\ X \in Nat /\ Y \in Nat /\ Top + Y = MaxY
  <2>1. /\ m.row \in 0..(Y - 1) /\ m.top \in 0..(Y - 1) /\ m.column \in 0..(X - 1) /\ m.left \in 0..(X - 1)
        /\ h \in 1..Y /\ w \in 1..X /\ m.bottom = m.top + h - 1 /\ m.right = m.left + w - 1
        /\ m.row + h <= Y /\ m.top + h <= Y /\ m.column + w <= X /\ m.left + w <= X
    BY Sizes DEF Moves
  <2>2. Top \in Nat /\ X \in Nat /\ Y \in Nat /\ Top + Y = MaxY
    BY Sizes
  <2>3. /\ m.row \in Nat /\ m.top \in Nat /\ m.column \in Nat /\ m.left \in Nat
        /\ h \in Nat /\ w \in Nat /\ h > 0 /\ w > 0
    BY <2>1, <2>2
  <2>4. m.top + h - 1 - m.top + 1 = h /\ m.left + w - 1 - m.left + 1 = w
    BY <2>3
  <2>5. n = h /\ len = w
    BY <2>1, <2>4
  <2> HIDE DEF n, len
  <2> QED BY <2>1, <2>2, <2>3, <2>5
<1>3. \A i \in 1..n : row(i) \in 0..(h - 1)
  <2> HIDE DEF len
  <2> QED BY <1>2
<1>4. ASSUME NEW i \in 1..n
      PROVE  /\ to(i) = Line(Top + m.row + row(i)) + m.column
             /\ from(i) = Line(Top + m.top + row(i)) + m.left
             /\ from(i) = to(i) + delta /\ to(i) \in Int /\ delta \in Int
  <2> DEFINE q == row(i)
  <2>1. q \in Int
    BY <1>3
  <2> HIDE DEF q
  <2>2. /\ Top + m.row \in Int /\ Top + m.top \in Int /\ m.row + q \in Int /\ m.top + q \in Int
        /\ Top \in Int /\ m.row \in Int /\ m.top \in Int
    BY <1>2, <2>1
  <2>3. /\ X * (m.row + q) = Line(m.row + q) /\ X * (m.top + q) = Line(m.top + q)
        /\ Line(Top) \in Int /\ Line(m.row) \in Int /\ Line(m.top) \in Int /\ Line(q) \in Int
    BY <2>1, <2>2, LineInt
  <2>4. /\ Line(m.row + q) = Line(m.row) + Line(q) /\ Line(m.top + q) = Line(m.top) + Line(q)
        /\ Line(Top + m.row) = Line(Top) + Line(m.row) /\ Line(Top + m.top) = Line(Top) + Line(m.top)
    BY <2>1, <2>2, LineSum
  <2>5. /\ Line(Top + m.row + q) = Line(Top + m.row) + Line(q)
        /\ Line(Top + m.top + q) = Line(Top + m.top) + Line(q)
    BY <2>1, <2>2, LineSum
  <2>6. /\ to(i) = Con!ScreenAt + X * (m.row + q) + m.column
        /\ from(i) = Con!ScreenAt + X * (m.top + q) + m.left
    BY DEF q
  <2>7. Con!ScreenAt = Line(Top)
    BY LineFacts
  <2> HIDE DEF to, from
  <2>8. /\ to(i) = Line(Top) + Line(m.row) + Line(q) + m.column
        /\ from(i) = Line(Top) + Line(m.top) + Line(q) + m.left
        /\ Line(Top + m.row + q) = Line(Top) + Line(m.row) + Line(q)
        /\ Line(Top + m.top + q) = Line(Top) + Line(m.top) + Line(q)
    BY <2>3, <2>4, <2>5, <2>6, <2>7, <1>2
  <2>9. m.column \in Int /\ m.left \in Int
    BY <1>2
  <2> QED BY <2>3, <2>8, <2>9 DEF q
<1> HIDE DEF to, from, len
<1>5. ASSUME NEW i \in 1..n, NEW j \in Part(i)
      PROVE  j \in Int /\ j + delta \in Con!Cells /\ ~Done(i - 1, j + delta)
  <2> DEFINE e == j - to(i)
             a == Top + m.top + row(i)
             d == m.left + e
  <2>1. e \in 0..(w - 1) /\ j \in Int /\ j = to(i) + e
    BY <1>2, <1>4
  <2>2. j + delta = Line(a) + d /\ a \in Lines /\ a \in Int /\ d \in Con!Cols /\ d \in Int
    <3>1. Line(a) \in Int /\ a \in Int /\ a \in 0..(MaxY - 1)
      <4>1. a \in Int /\ a \in 0..(MaxY - 1)
        <5> HIDE DEF row
        <5> QED BY <1>2, <1>3
      <4> QED BY <4>1, LineInt
    <3>2. d \in 0..(X - 1)
      BY <1>2, <2>1
    <3>3. to(i) + delta = Line(a) + m.left /\ to(i) \in Int /\ delta \in Int
      BY <1>4
    <3> HIDE DEF a, delta, Part, row
    <3>4. to(i) + e + delta = to(i) + delta + e
      BY <2>1, <3>3
    <3>5. j + delta = Line(a) + d
      <4>1. m.left \in Int /\ e \in Int
        BY <1>2, <2>1
      <4> HIDE DEF e
      <4> QED BY <2>1, <3>1, <3>3, <3>4, <4>1
    <3>6. a \in Lines /\ d \in Con!Cols
      <4> HIDE DEF d, e
      <4> QED BY <3>1, <3>2, Sizes
    <3> QED BY <1>2, <3>1, <3>2, <3>5, <3>6
  <2>3. Line(a) + d \in Con!Cells
    BY <2>2, CellOfPlace
  <2>4. ASSUME NEW k \in 1..(i - 1), j + delta \in Part(k) PROVE FALSE
    <3> DEFINE s == Top + m.row + row(k)
    <3>1. k \in 1..n /\ i \in 1..n
      BY <1>2
    <3>2. to(k) = Line(s) + m.column /\ s \in Int /\ Line(s) \in Int
      <4>1. s \in Int
        <5> HIDE DEF row
        <5> QED BY <1>2, <1>3, <3>1
      <4> QED BY <1>4, <3>1, <4>1, LineInt
    <3>3. Line(a) + d \in (Line(s) + m.column)..(Line(s) + (m.column + w - 1))
      <4> HIDE DEF a, d, s, delta, row
      <4> QED BY <1>2, <2>2, <2>4, <3>2
    <3>4. a = s
      <4>1. m.column + w - 1 \in Int /\ m.column + w - 1 < X /\ m.column \in Nat
        BY <1>2
      <4> HIDE DEF a, d, s
      <4> QED BY <2>2, <3>2, <3>3, <4>1, CellsInRow
    <3>5. m.top + row(i) = m.row + row(k)
      <4>1. row(i) \in Int /\ row(k) \in Int
        BY <1>3, <3>1
      <4>2. Top + m.top + row(i) = Top + m.row + row(k)
        BY <3>4
      <4>3. Top \in Int /\ m.top \in Int /\ m.row \in Int
        BY <1>2
      <4> DEFINE x == row(i)
                 z == row(k)
      <4>4. x \in Int /\ z \in Int /\ Top + m.top + x = Top + m.row + z
        BY <4>1, <4>2
      <4> HIDE DEF x, z, row
      <4>5. m.top + x = m.row + z
        <5>1. \A i1, i2, i3, i4, i5 \in Int : i1 + i2 + i3 = i1 + i4 + i5 => i2 + i3 = i4 + i5
          OBVIOUS
        <5> QED BY <4>3, <4>4, <5>1
      <4> QED BY <4>5 DEF x, z
    <3>6. CASE m.row < m.top
      BY <1>2, <3>1, <3>5, <3>6
    <3>7. CASE ~(m.row < m.top)
      BY <1>2, <3>1, <3>5, <3>7
    <3> QED BY <3>6, <3>7
  <2> HIDE DEF Part, a, d, delta
  <2> QED BY <2>1, <2>2, <2>3, <2>4
<1>6. Is(g)
  <2> SUFFICES ASSUME NEW i \in 0..n
               PROVE  g[i] = IF i = 0 THEN b ELSE Con!Memmove(g[i - 1], to(i), from(i), len)
    OBVIOUS
  <2>1. CASE i = 0
    <3>1. \A j : ~Done(0, j)
      <4>1. 1..0 = {}
        OBVIOUS
      <4> QED BY <4>1
    <3> HIDE DEF Done
    <3>2. g[0] = [j \in Con!Cells |-> b[j]]
      BY <2>1, <3>1
    <3> QED BY <2>1, <3>2
  <2>2. CASE i # 0
    <3>1. i \in 1..n /\ i - 1 \in 0..n
      BY <1>2, <2>2
    <3>2. \A j : Done(i, j) <=> Done(i - 1, j) \/ j \in Part(i)
      <4>1. 1..i = 1..(i - 1) \cup {i}
        BY <3>1
      <4> HIDE DEF Part
      <4> QED BY <4>1
    <3>3. g[i - 1] = [j \in Con!Cells |-> IF Done(i - 1, j) THEN b[j + delta] ELSE b[j]]
      BY <3>1
    <3>4. g[i] = [j \in Con!Cells |-> IF Done(i, j) THEN b[j + delta] ELSE b[j]]
      OBVIOUS
    <3>5. \A j \in Part(i) : from(i) + j - to(i) = j + delta
      <4> TAKE j \in Part(i)
      <4>1. j \in Int /\ to(i) \in Int /\ from(i) = to(i) + delta /\ delta \in Int
        BY <1>4, <1>5, <3>1
      <4> HIDE DEF delta
      <4> QED BY <4>1
    <3>6. \A j \in Part(i) : g[i - 1][from(i) + j - to(i)] = b[j + delta]
      <4> TAKE j \in Part(i)
      <4>1. j + delta \in Con!Cells /\ ~Done(i - 1, j + delta)
        BY <1>5, <3>1
      <4> HIDE DEF Done, delta, g, Part
      <4> QED BY <3>3, <3>5, <4>1
    <3>7. Con!Memmove(g[i - 1], to(i), from(i), len)
            = [j \in Con!Cells |-> IF j \in Part(i) THEN g[i - 1][from(i) + j - to(i)] ELSE g[i - 1][j]]
      BY <1>2 DEF Con!Memmove
    <3>8. ASSUME NEW j \in Con!Cells
          PROVE  (IF j \in Part(i) THEN g[i - 1][from(i) + j - to(i)] ELSE g[i - 1][j])
                   = IF Done(i, j) THEN b[j + delta] ELSE b[j]
      <4> HIDE DEF Done, delta, g, Part
      <4> QED BY <3>2, <3>3, <3>6
    <3> HIDE DEF Done, delta, g, Part
    <3> QED BY <2>2, <3>4, <3>7, <3>8
  <2> HIDE DEF g
  <2> QED BY <2>1, <2>2
<1> HIDE DEF g, Part, Done, delta
<1> DEFINE Step(f, q) == f[q] = Con!Memmove(f[q - 1], to(q), from(q), len)
<1>17. ASSUME NEW f, Is(f), NEW q \in 0..n, q # 0 PROVE Step(f, q)
  <2>1. f = [i \in 0..n |-> IF i = 0 THEN b ELSE Con!Memmove(f[i - 1], to(i), from(i), len)]
    BY <1>17
  <2>2. f[q] = IF q = 0 THEN b ELSE Con!Memmove(f[q - 1], to(q), from(q), len)
    BY <2>1, Zenon
  <2> QED BY <1>17, <2>2
<1>7. ASSUME NEW f, Is(f) PROVE f[n] = g[n]
  <2> DEFINE S == {i \in Nat : i <= n => f[i] = g[i]}
  <2>1. 0 \in S
    <3>1. 0 \in 0..n
      BY <1>2
    <3> QED BY <1>6, <1>7, <3>1
  <2>2. ASSUME NEW i \in Nat, i \in S PROVE i + 1 \in S
    <3> SUFFICES ASSUME i + 1 <= n PROVE f[i + 1] = g[i + 1]
      OBVIOUS
    <3>1. i + 1 \in 0..n /\ i + 1 # 0 /\ i + 1 - 1 = i /\ f[i] = g[i]
      BY <1>2, <2>2
    <3>2. Step(f, i + 1) /\ Step(g, i + 1)
      <4> HIDE DEF Is, Step
      <4> QED BY <1>6, <1>7, <1>17, <3>1
    <3>3. /\ f[i + 1] = Con!Memmove(f[i], to(i + 1), from(i + 1), len)
          /\ g[i + 1] = Con!Memmove(g[i], to(i + 1), from(i + 1), len)
      BY <3>1, <3>2
    <3> QED BY <3>1, <3>3
  <2> HIDE DEF S
  <2>3. Nat \subseteq S
    BY <2>1, <2>2, NatSets
  <2> QED BY <1>2, <2>3 DEF S
<1>8. Con!Bmove(b, m) = g[h]
  <2>1. Is(ch)
    BY <1>6
  <2> HIDE DEF Is, ch
  <2> QED BY <1>1, <1>2, <1>7, <2>1
<1> DEFINE j == Line(r) + c
<1>9. j \in Con!Cells /\ j \in Int /\ r \in Int /\ c \in Int /\ Line(r) \in Int
  <2>1. j \in Con!Cells /\ r \in Int /\ c \in Int
    BY CellOfPlace, Sizes
  <2>2. Line(r) \in Int
    BY <2>1, LineInt
  <2> QED BY <2>1, <2>2
<1>10. /\ Done(h, j) => Con!Bmove(b, m)[j] = b[j + delta]
       /\ ~Done(h, j) => Con!Bmove(b, m)[j] = b[j]
       /\ Con!Bmove(b, m) = [q \in Con!Cells |-> Con!Bmove(b, m)[q]]
  <2>1. g[h] = [q \in Con!Cells |-> IF Done(h, q) THEN b[q + delta] ELSE b[q]]
    <3>1. h \in 0..n
      BY <1>2
    <3> QED BY <3>1 DEF g
  <2> HIDE DEF j
  <2> QED BY <1>8, <1>9, <2>1
<1>11. ASSUME NEW k \in 1..h
       PROVE  j \in Part(k) <=> r = Top + m.row + row(k) /\ c \in m.column..(m.column + w - 1)
  <2> DEFINE s == Top + m.row + row(k)
  <2>1. k \in 1..n /\ row(k) \in Int /\ s \in Int
    <3>1. k \in 1..n /\ row(k) \in Int
      BY <1>2, <1>3
    <3> HIDE DEF row
    <3> QED BY <1>2, <3>1
  <2>2. to(k) = Line(s) + m.column /\ Line(s) \in Int
    BY <1>4, <2>1, LineInt
  <2>3. Line(r) + c \in (Line(s) + m.column)..(Line(s) + (m.column + w - 1)) <=> r = s /\ c \in m.column..(m.column + w - 1)
    <3>1. m.column + w - 1 \in Int /\ m.column + w - 1 < X /\ m.column \in Nat
      BY <1>2
    <3> HIDE DEF s
    <3> QED BY <1>9, <2>1, <3>1, CellsInRow
  <2>4. to(k) + w - 1 = Line(s) + (m.column + w - 1)
    <3> HIDE DEF s
    <3> QED BY <1>2, <2>2
  <2>5. j \in Part(k) <=> Line(r) + c \in to(k)..(to(k) + w - 1)
    BY DEF Part
  <2> HIDE DEF s, j
  <2>6. j \in Part(k) <=> r = s /\ c \in m.column..(m.column + w - 1)
    BY <2>2, <2>3, <2>4, <2>5
  <2> QED BY <2>6 DEF s
<1>12. (\E k \in 1..h : r = Top + m.row + row(k)) <=> Top + m.row <= r /\ r < Top + m.row + h
  <2>1. ASSUME NEW k \in 1..h, r = Top + m.row + row(k) PROVE Top + m.row <= r /\ r < Top + m.row + h
    <3>1. row(k) \in 0..(h - 1)
      BY <1>2, <1>3
    <3> HIDE DEF row
    <3> QED BY <1>2, <2>1, <3>1
  <2>2. ASSUME Top + m.row <= r, r < Top + m.row + h
        PROVE  \E k \in 1..h : r = Top + m.row + row(k)
    <3>1. CASE m.row < m.top
      <4> DEFINE k == r - Top - m.row + 1
      <4>1. k \in 1..h
        BY <1>2, <1>9, <2>2
      <4>2. r = Top + m.row + (k - 1)
        BY <1>2, <1>9
      <4> HIDE DEF k
      <4> QED BY <3>1, <4>1, <4>2
    <3>2. CASE ~(m.row < m.top)
      <4> DEFINE k == h - (r - Top - m.row)
      <4>1. k \in 1..h
        BY <1>2, <1>9, <2>2
      <4>2. r = Top + m.row + (n - k)
        BY <1>2, <1>9
      <4> HIDE DEF k, n
      <4> QED BY <3>2, <4>1, <4>2
    <3> QED BY <3>1, <3>2
  <2> HIDE DEF row
  <2> QED BY <2>1, <2>2
<1>13. Done(h, j) <=> Top + m.row <= r /\ r < Top + m.row + h /\ c \in m.column..(m.column + w - 1)
  <2> HIDE DEF j, row
  <2> QED BY <1>11, <1>12 DEF Done
<1>14. j + delta = Line(r - m.row + m.top) + (c - m.column + m.left)
  <2>1. Line(r - m.row + m.top) = Line(r) - Line(m.row) + Line(m.top) /\ Line(m.row) \in Int /\ Line(m.top) \in Int
    <3>1. r - m.row \in Int /\ m.row \in Int /\ m.top \in Int /\ r \in Int
      BY <1>2, <1>9
    <3>2. Line(r - m.row + m.top) = Line(r - m.row) + Line(m.top) /\ Line(r - m.row) = Line(r) - Line(m.row)
      BY <3>1, LineSum
    <3>3. Line(m.row) \in Int /\ Line(m.top) \in Int
      BY <3>1, LineInt
    <3> QED BY <3>2, <3>3
  <2>2. m.column \in Int /\ m.left \in Int
    BY <1>2
  <2> QED BY <1>9, <2>1, <2>2 DEF delta
<1>15. b[j + delta] = CellAt(b, r - m.row + m.top, c - m.column + m.left)
  <2> HIDE DEF j
  <2> QED BY <1>14 DEF CellAt
<1>16. Con!Bmove(b, m)[j] = CellAt(Con!Bmove(b, m), r, c) /\ b[j] = CellAt(b, r, c)
  BY DEF CellAt
<1> HIDE DEF j
<1> QED BY <1>10, <1>13, <1>15, <1>16

\* What the screen's part of a buffer shows, by rows of the buffer.
LEMMA DrawingAt ==
    ASSUME NEW b, NEW p \in Con!Places
    PROVE  /\ Con!Drawing(b)[p] = CellAt(b, Top + p[1], p[2])
           /\ p[1] \in Con!Rows /\ p[1] \in Int /\ p[2] \in Con!Cols /\ p[2] \in Int /\ p = <<p[1], p[2]>>
           /\ Top + p[1] \in Lines /\ Top + p[1] \in Int /\ Top <= Top + p[1] /\ p[1] >= 0 /\ p[1] < Y
<1>1. /\ p[1] \in 0..(Y - 1) /\ p[1] \in Con!Rows /\ p[2] \in Con!Cols /\ p = <<p[1], p[2]>>
  BY CellOfPlace, Sizes
<1>2. /\ p[1] \in Int /\ p[2] \in Int /\ Top \in Int /\ Top + p[1] \in 0..(MaxY - 1) /\ Top <= Top + p[1]
      /\ p[1] >= 0 /\ p[1] < Y
  <2>1. /\ p[1] \in 0..(Y - 1) /\ p[2] \in 0..(X - 1) /\ Top \in Nat /\ Y \in Nat /\ MaxY \in Nat
        /\ Top + Y = MaxY /\ X \in Nat
    BY <1>1, Sizes
  <2> QED BY <2>1
<1>3. Con!ScreenAt + p[1] * X + p[2] = Line(Top + p[1]) + p[2]
  <2>1. Line(Top + p[1]) = Line(Top) + Line(p[1]) /\ Con!ScreenAt = Line(Top) /\ Line(p[1]) = p[1] * X
    BY <1>2, LineSum, LineFacts DEF Line
  <2> QED BY <2>1
<1>4. Con!Drawing(b)[p] = b[Line(Top + p[1]) + p[2]]
  BY <1>3 DEF Con!Drawing
<1> QED BY <1>1, <1>2, <1>4, Sizes DEF CellAt

\* What is above the screen is not changed.
PastKept(b2, b) == \A r \in 0..(Top - 1), c \in Con!Cols : CellAt(b2, r, c) = CellAt(b, r, c)

LEMMA PastLines == \A r \in 0..(Top - 1) : r \in Lines /\ r \in Int /\ r < Top
  BY Sizes

LEMMA DrawPutcs ==
    ASSUME NEW b, NEW m, m.y \in Con!Rows, m.x \in Con!Cols, m.count \in 1..(X - m.x)
    PROVE  LET b2 == Con!Putcs(b, Con!ScreenAt, m)
           IN  Con!Drawing(b2) = Con!op_putcs(Con!Drawing(b), m) /\ PastKept(b2, b)
<1> DEFINE b2 == Con!Putcs(b, Line(Top), m)
<1>1. Con!ScreenAt = Line(Top) /\ Top \in Int /\ m.y \in Int /\ m.y >= 0
  BY Sizes, LineFacts
<1>2. ASSUME NEW r \in Lines, NEW c \in Con!Cols
      PROVE  /\ r = Top + m.y /\ c \in m.x..(m.x + m.count - 1) => CellAt(b2, r, c) = m.data[c - m.x + 1]
             /\ ~(r = Top + m.y /\ c \in m.x..(m.x + m.count - 1)) => CellAt(b2, r, c) = CellAt(b, r, c)
  BY <1>1, PutcsRows
<1> HIDE DEF b2
<1>3. ASSUME NEW p \in Con!Places PROVE Con!Drawing(b2)[p] = Con!op_putcs(Con!Drawing(b), m)[p]
  <2>1. /\ Con!Drawing(b2)[p] = CellAt(b2, Top + p[1], p[2]) /\ Con!Drawing(b)[p] = CellAt(b, Top + p[1], p[2])
        /\ Top + p[1] \in Lines /\ p[2] \in Con!Cols /\ p[1] \in Int
    BY DrawingAt
  <2>2. Top + p[1] = Top + m.y <=> p[1] = m.y
    BY <1>1, <2>1
  <2>3. Con!op_putcs(Con!Drawing(b), m)[p]
          = IF p[1] = m.y /\ p[2] \in m.x..(m.x + m.count - 1) THEN m.data[p[2] - m.x + 1] ELSE Con!Drawing(b)[p]
    BY DEF Con!op_putcs
  <2> QED BY <1>2, <2>1, <2>2, <2>3
<1>4. Con!Drawing(b2) = Con!op_putcs(Con!Drawing(b), m)
  BY <1>3 DEF Con!Drawing, Con!op_putcs
<1>5. PastKept(b2, b)
  <2>1. \A r \in 0..(Top - 1) : r # Top + m.y
    BY <1>1
  <2> QED BY <1>2, <2>1, PastLines DEF PastKept
<1> QED BY <1>1, <1>4, <1>5 DEF b2

LEMMA DrawClear ==
    ASSUME NEW b, NEW m, m.top \in Con!Rows, m.bottom \in Con!Rows, m.left \in Con!Cols, m.right \in Con!Cols
    PROVE  LET b2 == Con!Clear(b, m)
           IN  Con!Drawing(b2) = Con!op_clear(Con!Drawing(b), m) /\ PastKept(b2, b)
<1> DEFINE b2 == Con!Clear(b, m)
<1>1. Top \in Int /\ m.top \in Nat /\ m.bottom \in Nat
  BY Sizes
<1>2. ASSUME NEW r \in Lines, NEW c \in Con!Cols
      PROVE  /\ Top + m.top <= r /\ r <= Top + m.bottom /\ c \in m.left..m.right => CellAt(b2, r, c) = Con!Blank
             /\ ~(Top + m.top <= r /\ r <= Top + m.bottom /\ c \in m.left..m.right) => CellAt(b2, r, c) = CellAt(b, r, c)
  BY <1>1, ClearRows
<1> HIDE DEF b2
<1>3. ASSUME NEW p \in Con!Places PROVE Con!Drawing(b2)[p] = Con!op_clear(Con!Drawing(b), m)[p]
  <2>1. /\ Con!Drawing(b2)[p] = CellAt(b2, Top + p[1], p[2]) /\ Con!Drawing(b)[p] = CellAt(b, Top + p[1], p[2])
        /\ Top + p[1] \in Lines /\ p[2] \in Con!Cols /\ p[1] \in Int /\ p = <<p[1], p[2]>>
    BY DrawingAt
  <2>2. Top + m.top <= Top + p[1] /\ Top + p[1] <= Top + m.bottom <=> p[1] \in m.top..m.bottom
    BY <1>1, <2>1
  <2>3. p \in (m.top..m.bottom) \X (m.left..m.right) <=> p[1] \in m.top..m.bottom /\ p[2] \in m.left..m.right
    BY <2>1
  <2>4. Con!op_clear(Con!Drawing(b), m)[p]
          = IF p \in (m.top..m.bottom) \X (m.left..m.right) THEN Con!Blank ELSE Con!Drawing(b)[p]
    BY DEF Con!op_clear
  <2> QED BY <1>2, <2>1, <2>2, <2>3, <2>4
<1>4. Con!Drawing(b2) = Con!op_clear(Con!Drawing(b), m)
  BY <1>3 DEF Con!Drawing, Con!op_clear
<1>5. PastKept(b2, b)
  <2>1. \A r \in 0..(Top - 1) : ~(Top + m.top <= r)
    BY <1>1
  <2> QED BY <1>2, <2>1, PastLines DEF PastKept
<1> QED BY <1>4, <1>5 DEF b2

\* A window is scrolled as its buffer is; only the whole screen moves what is above it.
LEMMA DrawScrollUp ==
    ASSUME NEW b, NEW m, NEW t \in Con!Rows, NEW e \in (t + 1)..Y, NEW n \in 1..(e - t - 1),
           m.top = t, m.bottom = e - 1, m.lines = n
    PROVE  LET b2 == Con!ScrollUp(b, m)
           IN  /\ Con!Drawing(b2) = Con!op_scroll(Con!Drawing(b), m, m.lines)
               /\ ~(t = 0 /\ e = Y) => PastKept(b2, b)
               /\ t = 0 /\ e = Y =>
                    \A r \in 0..(Top - 1), c \in Con!Cols : CellAt(b2, r, c) = CellAt(b, r + n, c)
<1> DEFINE b2 == Con!ScrollUp(b, m)
<1>1. /\ t \in Int /\ e \in Int /\ n \in Int /\ Top \in Int /\ MaxY \in Int /\ t >= 0 /\ e <= Y /\ Y \in Int
      /\ Top + Y = MaxY /\ n > 0 /\ n < e - t
  BY Sizes
<1>2. ASSUME NEW r \in Lines, NEW c \in Con!Cols
      PROVE  /\ Top + e - n <= r /\ r < Top + e => CellAt(b2, r, c) = Con!Blank
             /\ Top + t <= r /\ r < Top + e - n => CellAt(b2, r, c) = CellAt(b, r + n, c)
             /\ ~(t = 0 /\ e = Y) /\ (r < Top + t \/ Top + e <= r) => CellAt(b2, r, c) = CellAt(b, r, c)
             /\ t = 0 /\ e = Y /\ r < Top => CellAt(b2, r, c) = CellAt(b, r + n, c)
  <2>1. CASE t = 0 /\ e = Y
    <3>1. /\ r < MaxY - n => CellAt(b2, r, c) = CellAt(b, r + n, c)
          /\ ~(r < MaxY - n) => CellAt(b2, r, c) = Con!Blank
      <4>1. n \in 1..(Y - 1) /\ m.top = 0 /\ m.bottom = Y - 1
        BY <1>1, <2>1
      <4> QED BY <4>1, ScrollUpAll
    <3>2. /\ r \in Int /\ (Top + e - n <= r => ~(r < MaxY - n)) /\ (r < Top + e - n => r < MaxY - n)
          /\ (r < Top => r < MaxY - n)
      BY <1>1, <2>1, Sizes
    <3> HIDE DEF b2
    <3> QED BY <2>1, <3>1, <3>2
  <2>2. CASE ~(t = 0 /\ e = Y)
    BY <2>2, ScrollUpRows
  <2> QED BY <2>1, <2>2
<1> HIDE DEF b2
<1>3. ASSUME NEW p \in Con!Places PROVE Con!Drawing(b2)[p] = Con!op_scroll(Con!Drawing(b), m, m.lines)[p]
  <2> DEFINE r == Top + p[1]
  <2>1. /\ Con!Drawing(b2)[p] = CellAt(b2, r, p[2]) /\ Con!Drawing(b)[p] = CellAt(b, r, p[2])
        /\ r \in Lines /\ r \in Int /\ p[2] \in Con!Cols /\ p[1] \in Con!Rows /\ p[1] \in Int /\ p[1] >= 0 /\ p[1] < Y
    BY DrawingAt
  <2>2. Con!op_scroll(Con!Drawing(b), m, m.lines)[p]
          = IF p[1] \notin t..(e - 1) THEN Con!Drawing(b)[p]
            ELSE IF p[1] + n \in t..(e - 1) THEN Con!Drawing(b)[<<p[1] + n, p[2]>>] ELSE Con!Blank
    BY DEF Con!op_scroll
  <2>3. CASE p[1] \notin t..(e - 1)
    <3>1. ~(t = 0 /\ e = Y) /\ (r < Top + t \/ Top + e <= r)
      BY <1>1, <2>1, <2>3
    <3> HIDE DEF r
    <3> QED BY <1>2, <2>1, <2>2, <2>3, <3>1
  <2>4. CASE p[1] \in t..(e - 1) /\ p[1] + n \in t..(e - 1)
    <3>1. /\ Top + t <= r /\ r < Top + e - n
          /\ p[1] + n \in Con!Rows /\ r + n = Top + (p[1] + n)
      <4>1. p[1] + n \in 0..(Y - 1)
        BY <1>1, <2>1, <2>4
      <4>2. Top + t <= r /\ r < Top + e - n /\ r + n = Top + (p[1] + n)
        BY <1>1, <2>1, <2>4
      <4> QED BY <4>1, <4>2, Sizes
    <3>2. Con!Drawing(b)[<<p[1] + n, p[2]>>] = CellAt(b, Top + (p[1] + n), p[2])
      <4> DEFINE q == <<p[1] + n, p[2]>>
      <4>1. q \in Con!Places /\ q[1] = p[1] + n /\ q[2] = p[2]
        BY <2>1, <3>1 DEF Con!Places
      <4> HIDE DEF q
      <4>2. Con!Drawing(b)[q] = CellAt(b, Top + q[1], q[2])
        BY <4>1, DrawingAt
      <4> QED BY <4>1, <4>2 DEF q
    <3> HIDE DEF r
    <3> QED BY <1>2, <2>1, <2>2, <2>4, <3>1, <3>2
  <2>5. CASE p[1] \in t..(e - 1) /\ p[1] + n \notin t..(e - 1)
    <3>1. Top + e - n <= r /\ r < Top + e
      BY <1>1, <2>1, <2>5
    <3> HIDE DEF r
    <3> QED BY <1>2, <2>1, <2>2, <2>5, <3>1
  <2> QED BY <2>3, <2>4, <2>5
<1>4. Con!Drawing(b2) = Con!op_scroll(Con!Drawing(b), m, m.lines)
  BY <1>3 DEF Con!Drawing, Con!op_scroll
<1>5. ~(t = 0 /\ e = Y) => PastKept(b2, b)
  <2>1. \A r \in 0..(Top - 1) : r < Top + t
    BY <1>1
  <2> QED BY <1>2, <2>1, PastLines DEF PastKept
<1>6. t = 0 /\ e = Y => \A r \in 0..(Top - 1), c \in Con!Cols : CellAt(b2, r, c) = CellAt(b, r + n, c)
  BY <1>2, PastLines
<1> QED BY <1>4, <1>5, <1>6 DEF b2

LEMMA DrawScrollDown ==
    ASSUME NEW b, NEW m, NEW t \in Con!Rows, NEW e \in (t + 1)..Y, NEW n \in 1..(e - t - 1),
           m.top = t, m.bottom = e - 1, m.lines = n
    PROVE  LET b2 == Con!ScrollDown(b, m)
           IN  Con!Drawing(b2) = Con!op_scroll(Con!Drawing(b), m, -m.lines) /\ PastKept(b2, b)
<1> DEFINE b2 == Con!ScrollDown(b, m)
<1>1. /\ t \in Int /\ e \in Int /\ n \in Int /\ Top \in Int /\ MaxY \in Int /\ t >= 0 /\ e <= Y /\ Y \in Int
      /\ Top + Y = MaxY /\ n > 0 /\ n < e - t
  BY Sizes
<1>2. ASSUME NEW r \in Lines, NEW c \in Con!Cols
      PROVE  /\ Top + t <= r /\ r < Top + t + n => CellAt(b2, r, c) = Con!Blank
             /\ Top + t + n <= r /\ r < Top + e => CellAt(b2, r, c) = CellAt(b, r - n, c)
             /\ r < Top + t \/ Top + e <= r => CellAt(b2, r, c) = CellAt(b, r, c)
  BY ScrollDownRows
<1> HIDE DEF b2
<1>3. ASSUME NEW p \in Con!Places PROVE Con!Drawing(b2)[p] = Con!op_scroll(Con!Drawing(b), m, -m.lines)[p]
  <2> DEFINE r == Top + p[1]
  <2>1. /\ Con!Drawing(b2)[p] = CellAt(b2, r, p[2]) /\ Con!Drawing(b)[p] = CellAt(b, r, p[2])
        /\ r \in Lines /\ r \in Int /\ p[2] \in Con!Cols /\ p[1] \in Con!Rows /\ p[1] \in Int /\ p[1] >= 0 /\ p[1] < Y
    BY DrawingAt
  <2>2. Con!op_scroll(Con!Drawing(b), m, -m.lines)[p]
          = IF p[1] \notin t..(e - 1) THEN Con!Drawing(b)[p]
            ELSE IF p[1] + (-n) \in t..(e - 1) THEN Con!Drawing(b)[<<p[1] + (-n), p[2]>>] ELSE Con!Blank
    BY DEF Con!op_scroll
  <2>3. CASE p[1] \notin t..(e - 1)
    <3>1. r < Top + t \/ Top + e <= r
      BY <1>1, <2>1, <2>3
    <3> HIDE DEF r
    <3> QED BY <1>2, <2>1, <2>2, <2>3, <3>1
  <2>4. CASE p[1] \in t..(e - 1) /\ p[1] + (-n) \in t..(e - 1)
    <3>1. /\ Top + t + n <= r /\ r < Top + e
          /\ p[1] + (-n) \in Con!Rows /\ r - n = Top + (p[1] + (-n))
      <4>1. p[1] + (-n) \in 0..(Y - 1)
        BY <1>1, <2>1, <2>4
      <4>2. Top + t + n <= r /\ r < Top + e /\ r - n = Top + (p[1] + (-n))
        BY <1>1, <2>1, <2>4
      <4> QED BY <4>1, <4>2, Sizes
    <3>2. Con!Drawing(b)[<<p[1] + (-n), p[2]>>] = CellAt(b, Top + (p[1] + (-n)), p[2])
      <4> DEFINE q == <<p[1] + (-n), p[2]>>
      <4>1. q \in Con!Places /\ q[1] = p[1] + (-n) /\ q[2] = p[2]
        BY <2>1, <3>1 DEF Con!Places
      <4> HIDE DEF q
      <4>2. Con!Drawing(b)[q] = CellAt(b, Top + q[1], q[2])
        BY <4>1, DrawingAt
      <4> QED BY <4>1, <4>2 DEF q
    <3> HIDE DEF r
    <3> QED BY <1>2, <2>1, <2>2, <2>4, <3>1, <3>2
  <2>5. CASE p[1] \in t..(e - 1) /\ p[1] + (-n) \notin t..(e - 1)
    <3>1. Top + t <= r /\ r < Top + t + n
      BY <1>1, <2>1, <2>5
    <3> HIDE DEF r
    <3> QED BY <1>2, <2>1, <2>2, <2>5, <3>1
  <2> QED BY <2>3, <2>4, <2>5
<1>4. Con!Drawing(b2) = Con!op_scroll(Con!Drawing(b), m, -m.lines)
  BY <1>3 DEF Con!Drawing, Con!op_scroll
<1>5. PastKept(b2, b)
  <2>1. \A r \in 0..(Top - 1) : r < Top + t
    BY <1>1
  <2> QED BY <1>2, <2>1, PastLines DEF PastKept
<1> QED BY <1>4, <1>5 DEF b2

\* The region of the screen that is moved, without the blanks it leaves in a window.
Bmoved(at, m) ==
    [p \in Con!Places |->
       IF p \in (m.row..(m.row + (m.bottom - m.top))) \X (m.column..(m.column + (m.right - m.left)))
         THEN at[<<p[1] - m.row + m.top, p[2] - m.column + m.left>>] ELSE at[p]]

LEMMA DrawBmove ==
    ASSUME NEW b, b = [j \in Con!Cells |-> b[j]], NEW m, NEW h, NEW w, Moves(m, h, w)
    PROVE  LET b2 == Con!Bmove(b, m)
           IN  /\ Con!Drawing(b2) = Bmoved(Con!Drawing(b), m) /\ PastKept(b2, b)
               /\ b2 = [j \in Con!Cells |-> b2[j]]
<1> DEFINE b2 == Con!Bmove(b, m)
<1>1. /\ m.row \in 0..(Y - 1) /\ m.top \in 0..(Y - 1) /\ m.column \in 0..(X - 1) /\ m.left \in 0..(X - 1)
      /\ h \in 1..Y /\ w \in 1..X /\ m.bottom = m.top + h - 1 /\ m.right = m.left + w - 1
      /\ m.row + h <= Y /\ m.top + h <= Y /\ m.column + w <= X /\ m.left + w <= X
      /\ Top \in Int /\ X \in Nat /\ Y \in Nat /\ X > 0 /\ Y > 0 /\ MaxY \in Nat /\ MaxY >= Y
  BY Sizes DEF Moves
<1>2. ASSUME NEW r \in Lines, NEW c \in Con!Cols
      PROVE  LET at == Top + m.row <= r /\ r < Top + m.row + h /\ c \in m.column..(m.column + w - 1)
             IN  /\ at => CellAt(b2, r, c) = CellAt(b, r - m.row + m.top, c - m.column + m.left)
                 /\ ~at => CellAt(b2, r, c) = CellAt(b, r, c)
                 /\ b2 = [j \in Con!Cells |-> b2[j]]
  BY BmoveRows
<1> HIDE DEF b2
<1>3. ASSUME NEW p \in Con!Places PROVE Con!Drawing(b2)[p] = Bmoved(Con!Drawing(b), m)[p]
  <2> DEFINE r == Top + p[1]
             q == <<p[1] - m.row + m.top, p[2] - m.column + m.left>>
             in == p[1] \in m.row..(m.row + h - 1) /\ p[2] \in m.column..(m.column + w - 1)
  <2>1. /\ Con!Drawing(b2)[p] = CellAt(b2, r, p[2]) /\ Con!Drawing(b)[p] = CellAt(b, r, p[2])
        /\ r \in Lines /\ r \in Int /\ p[2] \in Con!Cols /\ p[1] \in Con!Rows /\ p[1] \in Int /\ p[2] \in Int
        /\ p = <<p[1], p[2]>>
    BY DrawingAt
  <2>2. /\ m.row + (m.bottom - m.top) = m.row + h - 1
        /\ m.column + (m.right - m.left) = m.column + w - 1
    BY <1>1
  <2>3. Bmoved(Con!Drawing(b), m)[p] = IF in THEN Con!Drawing(b)[q] ELSE Con!Drawing(b)[p]
    <3>1. p \in (m.row..(m.row + h - 1)) \X (m.column..(m.column + w - 1)) <=> in
      BY <2>1
    <3>2. Bmoved(Con!Drawing(b), m)[p]
            = IF p \in (m.row..(m.row + h - 1)) \X (m.column..(m.column + w - 1))
                THEN Con!Drawing(b)[q] ELSE Con!Drawing(b)[p]
      BY <2>2 DEF Bmoved
    <3> HIDE DEF in, q
    <3> QED BY <3>1, <3>2
  <2>4. in <=> Top + m.row <= r /\ r < Top + m.row + h /\ p[2] \in m.column..(m.column + w - 1)
    BY <1>1, <2>1
  <2>5. CASE in
    <3>1. /\ q[1] = p[1] - m.row + m.top /\ q[2] = p[2] - m.column + m.left
          /\ r - m.row + m.top = Top + q[1] /\ q[1] \in 0..(Y - 1) /\ q[2] \in 0..(X - 1)
      BY <1>1, <2>1, <2>5
    <3>2. q = <<q[1], q[2]>>
      OBVIOUS
    <3> HIDE DEF q, r, in
    <3>3. q \in Con!Places
      BY <3>1, <3>2, Sizes DEF Con!Places
    <3>4. Con!Drawing(b)[q] = CellAt(b, Top + q[1], q[2])
      BY <3>3, DrawingAt
    <3> QED BY <1>2, <2>1, <2>3, <2>4, <2>5, <3>1, <3>4
  <2>6. CASE ~in
    <3> HIDE DEF q, r, in
    <3> QED BY <1>2, <2>1, <2>3, <2>4, <2>6
  <2> QED BY <2>5, <2>6
<1>4. Con!Drawing(b2) = Bmoved(Con!Drawing(b), m)
  BY <1>3 DEF Con!Drawing, Bmoved
<1>5. PastKept(b2, b)
  <2>1. \A r \in 0..(Top - 1) : ~(Top + m.row <= r)
    BY <1>1
  <2> QED BY <1>2, <2>1, PastLines DEF PastKept
<1>6. b2 = [j \in Con!Cells |-> b2[j]]
  <2>1. 0 \in Lines /\ 0 \in Con!Cols
    <3>1. 0 \in 0..(MaxY - 1) /\ 0 \in 0..(X - 1)
      BY <1>1
    <3> QED BY <3>1, Sizes
  <2> QED BY <1>2, <2>1
<1> QED BY <1>4, <1>5, <1>6 DEF b2

LEMMA DrawSwitch ==
    ASSUME NEW b
    PROVE  LET b2 == Con!Fill(b, 0, Con!ScreenAt, Con!Zero)
           IN  /\ Con!Drawing(b2) = Con!Drawing(b)
               /\ \A r \in 0..(Top - 1), c \in Con!Cols : CellAt(b2, r, c) = Con!Zero
<1> DEFINE b2 == Con!Fill(b, Line(0), Line(Top) - Line(0), Con!Zero)
<1>1. b2 = Con!Fill(b, 0, Con!ScreenAt, Con!Zero) /\ Top \in Int /\ 0 \in Int
  <2>1. Top \in Int /\ 0 \in Int /\ Line(Top) \in Int /\ Line(0) = 0 /\ Con!ScreenAt = Line(Top)
    BY Sizes, LineInt, LineFacts
  <2> QED BY <2>1
<1>2. Filled(b2, b, 0, Top, Con!Zero)
  BY <1>1, FillRows
<1> HIDE DEF b2
<1>3. ASSUME NEW p \in Con!Places PROVE Con!Drawing(b2)[p] = Con!Drawing(b)[p]
  <2>1. /\ Con!Drawing(b2)[p] = CellAt(b2, Top + p[1], p[2]) /\ Con!Drawing(b)[p] = CellAt(b, Top + p[1], p[2])
        /\ Top + p[1] \in Lines /\ p[2] \in Con!Cols /\ p[1] \in Int
        /\ Top <= Top + p[1] /\ Top + p[1] \in Int
    BY DrawingAt
  <2>2. ~(Top + p[1] < Top)
    BY <1>1, <2>1
  <2> QED BY <1>2, <2>1, <2>2 DEF Filled
<1>4. Con!Drawing(b2) = Con!Drawing(b)
  BY <1>3 DEF Con!Drawing
<1>5. \A r \in 0..(Top - 1), c \in Con!Cols : CellAt(b2, r, c) = Con!Zero
  <2>1. \A r \in 0..(Top - 1) : 0 <= r /\ r < Top /\ r \in Lines
    BY <1>1, PastLines
  <2> QED BY <1>2, <2>1 DEF Filled
<1> QED BY <1>1, <1>4, <1>5

\* An operation that the guest sends.
Drawable(m) ==
    \/ m.type = "cursor" \/ m.type = "switch"
    \/ /\ m.type = "putcs"
       /\ m.y \in Con!Rows /\ m.x \in Con!Cols /\ m.count \in 1..(X - m.x)
    \/ /\ m.type = "clear"
       /\ m.top \in Con!Rows /\ m.bottom \in Con!Rows /\ m.left \in Con!Cols /\ m.right \in Con!Cols
    \/ /\ m.type = "scroll_up" \/ m.type = "scroll_down"
       /\ \E t \in Con!Rows : \E e \in (t + 1)..Y : \E n \in 1..(e - t - 1) :
             m.top = t /\ m.bottom = e - 1 /\ m.lines = n
    \/ m.type = "bmove" /\ \E h, w : Moves(m, h, w)

\* What it does to a screen, to the lines above it and to the cursor.
ScreenOp(at, m) ==
    IF m.type = "putcs" THEN Con!op_putcs(at, m)
    ELSE IF m.type = "clear" THEN Con!op_clear(at, m)
    ELSE IF m.type = "scroll_up" THEN Con!op_scroll(at, m, m.lines)
    ELSE IF m.type = "scroll_down" THEN Con!op_scroll(at, m, -m.lines)
    ELSE IF m.type = "bmove" THEN Bmoved(at, m) ELSE at

Whole(m) == m.type = "scroll_up" /\ m.top = 0 /\ m.bottom = Y - 1

PastOp(h, at, m) ==
    IF Whole(m) THEN h \o [r \in 1..m.lines |-> [c \in Con!Cols |-> at[<<r - 1, c>>]]]
    ELSE IF m.type = "switch" THEN [r \in 1..(MaxY - Y) |-> [c \in Con!Cols |-> Con!Zero]] ELSE h

CursorOp(at, m) == IF m.type = "cursor" THEN m.at ELSE at

IsBuffer(b) == b = [i \in Con!Cells |-> b[i]]
IsConsole(k) == k = [buffer |-> k.buffer, cursor |-> k.cursor] /\ IsBuffer(k.buffer)

\* The lines above the screen are the last ones of those that left it.
Past(b, h) == \A r \in 0..(Top - 1), c \in Con!Cols : CellAt(b, r, c) = h[Len(h) - Top + r + 1][c]

LEMMA Buffers ==
    ASSUME NEW b, NEW m
    PROVE  /\ IsBuffer(Con!ScrollUp(b, m)) /\ IsBuffer(Con!ScrollDown(b, m)) /\ IsBuffer(Con!Clear(b, m))
           /\ \A base : IsBuffer(Con!Putcs(b, base, m))
           /\ \A a, n, v : IsBuffer(Con!Fill(b, a, n, v))
<1>1. \A f, a, n, v : IsBuffer(Con!Fill(f, a, n, v))
  BY DEF IsBuffer, Con!Fill
<1>2. IsBuffer(Con!ScrollUp(b, m)) /\ IsBuffer(Con!ScrollDown(b, m))
  BY <1>1 DEF Con!ScrollUp, Con!ScrollDown
<1>3. IsBuffer(Con!Clear(b, m))
  BY DEF IsBuffer, Con!Clear
<1>4. \A base : IsBuffer(Con!Putcs(b, base, m))
  BY DEF IsBuffer, Con!Putcs
<1> QED BY <1>1, <1>2, <1>3, <1>4

LEMMA ConsoleOps ==
    ASSUME NEW k, NEW m
    PROVE  /\ m.type = "scroll_up" => Con!ConsoleOp(k, m) = [k EXCEPT !.buffer = Con!ScrollUp(@, m)]
           /\ m.type = "scroll_down" => Con!ConsoleOp(k, m) = [k EXCEPT !.buffer = Con!ScrollDown(@, m)]
           /\ m.type = "putcs" => Con!ConsoleOp(k, m) = [k EXCEPT !.buffer = Con!Putcs(@, Con!ScreenAt, m)]
           /\ m.type = "init" => Con!ConsoleOp(k, m) = [k EXCEPT !.buffer = Con!Putcs(@, 0, m)]
           /\ m.type = "clear" => Con!ConsoleOp(k, m) = [k EXCEPT !.buffer = Con!Clear(@, m)]
           /\ m.type = "bmove" => Con!ConsoleOp(k, m) = [k EXCEPT !.buffer = Con!Bmove(@, m)]
           /\ m.type = "cursor" => Con!ConsoleOp(k, m) = [k EXCEPT !.cursor = m.at]
           /\ m.type = "switch" => Con!ConsoleOp(k, m) = [k EXCEPT !.buffer = Con!Fill(@, 0, Con!ScreenAt, Con!Zero)]
  BY DEF Con!ConsoleOp

LEMMA WithBuffer ==
    ASSUME NEW k, IsConsole(k), NEW k2, NEW b, k2 = [k EXCEPT !.buffer = b], IsBuffer(b)
    PROVE  IsConsole(k2) /\ k2.buffer = b /\ k2.cursor = k.cursor
  BY DEF IsConsole

\* The index arithmetic of an operation on a buffer is what the guest did to its screen.
OpDone(k2, k, m) ==
    /\ IsConsole(k2) /\ k2.cursor = CursorOp(k.cursor, m)
    /\ Con!Drawing(k2.buffer) = ScreenOp(Con!Drawing(k.buffer), m)
    /\ ~Whole(m) /\ m.type # "switch" => PastKept(k2.buffer, k.buffer)
    /\ m.type = "switch" => \A r \in 0..(Top - 1), c \in Con!Cols : CellAt(k2.buffer, r, c) = Con!Zero
    /\ Whole(m) =>
         /\ m.lines \in 1..(Y - 1)
         /\ \A r \in 0..(Top - 1), c \in Con!Cols : CellAt(k2.buffer, r, c) = CellAt(k.buffer, r + m.lines, c)

LEMMA OpDraws ==
    ASSUME NEW k, IsConsole(k), NEW m, Drawable(m)
    PROVE  OpDone(Con!ConsoleOp(k, m), k, m)
<1> DEFINE k2 == Con!ConsoleOp(k, m)
           b == k.buffer
<1> SUFFICES OpDone(k2, k, m)
  OBVIOUS
<1>1. CASE m.type = "cursor"
  <2>1. k2 = [k EXCEPT !.cursor = m.at]
    BY <1>1, ConsoleOps
  <2>2. IsConsole(k2) /\ k2.cursor = m.at /\ k2.buffer = b
    BY <2>1 DEF IsConsole
  <2>3. PastKept(b, b)
    BY DEF PastKept
  <2> HIDE DEF k2
  <2> QED BY <1>1, <2>2, <2>3 DEF OpDone, CursorOp, ScreenOp, Whole
<1>2. CASE m.type = "switch"
  <2>1. k2 = [k EXCEPT !.buffer = Con!Fill(b, 0, Con!ScreenAt, Con!Zero)]
    BY <1>2, ConsoleOps
  <2>2. IsConsole(k2) /\ k2.cursor = k.cursor /\ k2.buffer = Con!Fill(b, 0, Con!ScreenAt, Con!Zero)
    BY <2>1, Buffers, WithBuffer
  <2>3. /\ Con!Drawing(k2.buffer) = Con!Drawing(b)
        /\ \A r \in 0..(Top - 1), c \in Con!Cols : CellAt(k2.buffer, r, c) = Con!Zero
    BY <2>2, DrawSwitch
  <2> HIDE DEF k2
  <2> QED BY <1>2, <2>2, <2>3 DEF OpDone, CursorOp, ScreenOp, Whole
<1>3. CASE m.type = "putcs"
  <2>1. k2 = [k EXCEPT !.buffer = Con!Putcs(b, Con!ScreenAt, m)]
    BY <1>3, ConsoleOps
  <2>0. IsBuffer(Con!Putcs(b, Con!ScreenAt, m))
    BY Buffers, Zenon
  <2>2. IsConsole(k2) /\ k2.cursor = k.cursor /\ k2.buffer = Con!Putcs(b, Con!ScreenAt, m)
    BY <2>0, <2>1, WithBuffer
  <2>3. m.y \in Con!Rows /\ m.x \in Con!Cols /\ m.count \in 1..(X - m.x)
    BY <1>3 DEF Drawable
  <2>4. Con!Drawing(k2.buffer) = Con!op_putcs(Con!Drawing(b), m) /\ PastKept(k2.buffer, b)
    BY <2>2, <2>3, DrawPutcs
  <2> HIDE DEF k2
  <2> QED BY <1>3, <2>2, <2>4 DEF OpDone, CursorOp, ScreenOp, Whole
<1>4. CASE m.type = "clear"
  <2>1. k2 = [k EXCEPT !.buffer = Con!Clear(b, m)]
    BY <1>4, ConsoleOps
  <2>2. IsConsole(k2) /\ k2.cursor = k.cursor /\ k2.buffer = Con!Clear(b, m)
    BY <2>1, Buffers, WithBuffer
  <2>3. m.top \in Con!Rows /\ m.bottom \in Con!Rows /\ m.left \in Con!Cols /\ m.right \in Con!Cols
    BY <1>4 DEF Drawable
  <2>4. Con!Drawing(k2.buffer) = Con!op_clear(Con!Drawing(b), m) /\ PastKept(k2.buffer, b)
    BY <2>2, <2>3, DrawClear
  <2> HIDE DEF k2
  <2> QED BY <1>4, <2>2, <2>4 DEF OpDone, CursorOp, ScreenOp, Whole
<1>5. CASE m.type = "scroll_up"
  <2>1. k2 = [k EXCEPT !.buffer = Con!ScrollUp(b, m)]
    BY <1>5, ConsoleOps
  <2>2. IsConsole(k2) /\ k2.cursor = k.cursor /\ k2.buffer = Con!ScrollUp(b, m)
    BY <2>1, Buffers, WithBuffer
  <2>3. PICK t \in Con!Rows : \E e \in (t + 1)..Y : \E n \in 1..(e - t - 1) :
             m.top = t /\ m.bottom = e - 1 /\ m.lines = n
    BY <1>5 DEF Drawable
  <2>4. PICK e \in (t + 1)..Y : \E n \in 1..(e - t - 1) : m.top = t /\ m.bottom = e - 1 /\ m.lines = n
    BY <2>3
  <2>5. PICK n \in 1..(e - t - 1) : m.top = t /\ m.bottom = e - 1 /\ m.lines = n
    BY <2>4
  <2>6. /\ Con!Drawing(k2.buffer) = Con!op_scroll(Con!Drawing(b), m, m.lines)
        /\ ~(t = 0 /\ e = Y) => PastKept(k2.buffer, b)
        /\ t = 0 /\ e = Y =>
             \A r \in 0..(Top - 1), c \in Con!Cols : CellAt(k2.buffer, r, c) = CellAt(b, r + n, c)
    BY <2>2, <2>5, DrawScrollUp
  <2>7. Whole(m) <=> t = 0 /\ e = Y
    <3>1. m.bottom = Y - 1 <=> e = Y
      BY <2>5, Sizes
    <3> QED BY <1>5, <2>5, <3>1 DEF Whole
  <2>8. t = 0 /\ e = Y => m.lines \in 1..(Y - 1)
    BY <2>5, Sizes
  <2> HIDE DEF k2
  <2> QED BY <1>5, <2>2, <2>5, <2>6, <2>7, <2>8 DEF OpDone, CursorOp, ScreenOp
<1>6. CASE m.type = "scroll_down"
  <2>1. k2 = [k EXCEPT !.buffer = Con!ScrollDown(b, m)]
    BY <1>6, ConsoleOps
  <2>2. IsConsole(k2) /\ k2.cursor = k.cursor /\ k2.buffer = Con!ScrollDown(b, m)
    BY <2>1, Buffers, WithBuffer
  <2>3. PICK t \in Con!Rows : \E e \in (t + 1)..Y : \E n \in 1..(e - t - 1) :
             m.top = t /\ m.bottom = e - 1 /\ m.lines = n
    BY <1>6 DEF Drawable
  <2>4. PICK e \in (t + 1)..Y : \E n \in 1..(e - t - 1) : m.top = t /\ m.bottom = e - 1 /\ m.lines = n
    BY <2>3
  <2>5. PICK n \in 1..(e - t - 1) : m.top = t /\ m.bottom = e - 1 /\ m.lines = n
    BY <2>4
  <2>6. Con!Drawing(k2.buffer) = Con!op_scroll(Con!Drawing(b), m, -m.lines) /\ PastKept(k2.buffer, b)
    BY <2>2, <2>5, DrawScrollDown
  <2> HIDE DEF k2
  <2> QED BY <1>6, <2>2, <2>6 DEF OpDone, CursorOp, ScreenOp, Whole
<1>7. CASE m.type = "bmove"
  <2>1. k2 = [k EXCEPT !.buffer = Con!Bmove(b, m)]
    BY <1>7, ConsoleOps
  <2>2. PICK h, w : Moves(m, h, w)
    BY <1>7 DEF Drawable
  <2>3. /\ Con!Drawing(Con!Bmove(b, m)) = Bmoved(Con!Drawing(b), m) /\ PastKept(Con!Bmove(b, m), b)
        /\ IsBuffer(Con!Bmove(b, m))
    BY <2>2, DrawBmove DEF IsConsole, IsBuffer
  <2>4. IsConsole(k2) /\ k2.cursor = k.cursor /\ k2.buffer = Con!Bmove(b, m)
    BY <2>1, <2>3, WithBuffer
  <2> HIDE DEF k2
  <2> QED BY <1>7, <2>3, <2>4 DEF OpDone, CursorOp, ScreenOp, Whole
<1> HIDE DEF k2
<1> QED BY <1>1, <1>2, <1>3, <1>4, <1>5, <1>6, <1>7 DEF Drawable

LEMMA SequenceOf ==
    ASSUME NEW n \in Nat, NEW S, NEW s \in [1..n -> S]
    PROVE  s \in Seq(S) /\ Len(s) = n
<1>1. s \in Seq(S)
  BY SeqDef
<1>2. 1..n = 1..Len(s) /\ Len(s) \in Nat
  BY <1>1, LenProperties
<1> QED BY <1>1, <1>2

\* The rows that leave the screen are the last lines above it then.
LEMMA OpPast ==
    ASSUME NEW k, IsConsole(k), NEW m, Drawable(m), NEW h, NEW S, h \in Seq(S), Len(h) >= Top,
           Past(k.buffer, h)
    PROVE  Past(Con!ConsoleOp(k, m).buffer, PastOp(h, Con!Drawing(k.buffer), m))
<1> DEFINE b == k.buffer
           b2 == Con!ConsoleOp(k, m).buffer
<1>1. CASE ~Whole(m) /\ m.type # "switch"
  <2>1. PastKept(b2, b) /\ PastOp(h, Con!Drawing(b), m) = h
    BY <1>1, OpDraws DEF PastOp, OpDone
  <2> QED BY <2>1 DEF Past, PastKept
<1>2. CASE m.type = "switch"
  <2> DEFINE h2 == [r \in 1..(MaxY - Y) |-> [c \in Con!Cols |-> Con!Zero]]
  <2>1. PastOp(h, Con!Drawing(b), m) = h2
    BY <1>2 DEF PastOp, Whole
  <2>2. \A r \in 0..(Top - 1), c \in Con!Cols : CellAt(b2, r, c) = Con!Zero
    BY <1>2, OpDraws DEF OpDone
  <2>3. MaxY - Y = Top /\ Top \in Nat
    BY Sizes DEF Top
  <2>4. Len(h2) = Top
    <3>1. h2 = [r \in 1..Top |-> [c \in Con!Cols |-> Con!Zero]]
      BY <2>3
    <3> HIDE DEF h2
    <3> QED BY <2>3, <3>1
  <2>5. ASSUME NEW r \in 0..(Top - 1), NEW c \in Con!Cols PROVE h2[Len(h2) - Top + r + 1][c] = Con!Zero
    <3>1. Len(h2) - Top + r + 1 \in 1..(MaxY - Y)
      BY <2>3, <2>4
    <3> QED BY <3>1
  <2> HIDE DEF h2
  <2> QED BY <2>1, <2>2, <2>5 DEF Past
<1>3. CASE Whole(m)
  <2> DEFINE n == m.lines
             at == Con!Drawing(b)
             s == [r \in 1..n |-> [c \in Con!Cols |-> at[<<r - 1, c>>]]]
             h2 == h \o s
  <2>1. /\ n \in 1..(Y - 1)
        /\ \A r \in 0..(Top - 1), c \in Con!Cols : CellAt(b2, r, c) = CellAt(b, r + n, c)
    BY <1>3, OpDraws DEF OpDone
  <2>2. PastOp(h, at, m) = h2
    BY <1>3 DEF PastOp
  <2>3. n \in Nat /\ n <= Y - 1 /\ Y \in Nat /\ Top \in Nat /\ Len(h) \in Nat /\ Len(h) >= Top
    BY <2>1, Sizes
  <2> DEFINE V == [Con!Cols -> {at[<<r - 1, c>>] : r \in 1..n, c \in Con!Cols}]
  <2>4. Len(s) = n /\ s \in Seq(V)
    <3>1. s \in [1..n -> V]
      <4>1. ASSUME NEW r \in 1..n PROVE [c \in Con!Cols |-> at[<<r - 1, c>>]] \in V
        <5> HIDE DEF at, n
        <5>1. \A c \in Con!Cols : at[<<r - 1, c>>] \in {at[<<q - 1, d>>] : q \in 1..n, d \in Con!Cols}
          OBVIOUS
        <5> QED BY <5>1
      <4> HIDE DEF V, at, n
      <4> QED BY <4>1
    <3> HIDE DEF s, n, V
    <3> QED BY <2>3, <3>1, SequenceOf
  <2>5. /\ Len(h2) = Len(h) + n
        /\ \A i \in 1..(Len(h) + n) : h2[i] = IF i <= Len(h) THEN h[i] ELSE s[i - Len(h)]
    <3> HIDE DEF s, n, V
    <3>1. h \in Seq(S \cup V) /\ s \in Seq(S \cup V)
      BY <2>4, SeqMonotonic
    <3> QED BY <2>4, <3>1, ConcatProperties
  <2>6. ASSUME NEW r \in 0..(Top - 1), NEW c \in Con!Cols
        PROVE  CellAt(b2, r, c) = h2[Len(h2) - Top + r + 1][c]
    <3> DEFINE i == Len(h2) - Top + r + 1
    <3>1. i = Len(h) + n - Top + r + 1 /\ i \in 1..(Len(h) + n)
      <4> HIDE DEF n, h2
      <4> QED BY <2>3, <2>5
    <3>2. CellAt(b2, r, c) = CellAt(b, r + n, c)
      BY <2>1
    <3>3. CASE r + n < Top
      <4>1. i <= Len(h) /\ i = Len(h) - Top + (r + n) + 1 /\ r + n \in 0..(Top - 1)
        <5> HIDE DEF n, h2
        <5> QED BY <2>3, <3>1, <3>3
      <4>2. h2[i] = h[i]
        BY <2>5, <3>1, <4>1
      <4>3. CellAt(b, r + n, c) = h[Len(h) - Top + (r + n) + 1][c]
        <5> HIDE DEF n
        <5> QED BY <4>1 DEF Past
      <4> HIDE DEF n, h2, b2, i
      <4> QED BY <3>2, <4>1, <4>2, <4>3 DEF i
    <3>4. CASE ~(r + n < Top)
      <4> DEFINE q == r + n - Top
      <4>1. /\ q \in 0..(Y - 1) /\ q + 1 \in 1..n /\ i - Len(h) = q + 1 /\ ~(i <= Len(h)) /\ q + 1 - 1 = q
            /\ r + n = Top + q /\ q \in Int
        <5> HIDE DEF n, h2
        <5> QED BY <2>3, <3>1, <3>4
      <4>2. h2[i] = s[q + 1]
        <5> HIDE DEF s, h2, i, q
        <5> QED BY <2>5, <3>1, <4>1
      <4>3. s[q + 1][c] = at[<<q, c>>]
        <5> HIDE DEF q, at, n
        <5> QED BY <4>1
      <4>4. at[<<q, c>>] = CellAt(b, Top + q, c)
        <5> DEFINE p == <<q, c>>
        <5>1. p \in Con!Places /\ p[1] = q /\ p[2] = c
          <6> HIDE DEF q
          <6> QED BY <4>1, Sizes DEF Con!Places
        <5> HIDE DEF p, q
        <5>2. Con!Drawing(b)[p] = CellAt(b, Top + p[1], p[2])
          BY <5>1, DrawingAt
        <5> QED BY <5>1, <5>2 DEF p
      <4> HIDE DEF n, h2, b2, s, q, at, i
      <4> QED BY <3>2, <4>1, <4>2, <4>3, <4>4 DEF i
    <3> QED BY <3>3, <3>4
  <2> HIDE DEF h2
  <2> QED BY <2>2, <2>6 DEF Past
<1> QED BY <1>1, <1>2, <1>3

\* What the guest sends is what it did.
GuestSends(m) ==
    /\ Drawable(m) /\ Con!Send(m)
    /\ screen' = [at |-> ScreenOp(screen.at, m), cursor |-> CursorOp(screen.cursor, m)]
    /\ history' = PastOp(history, screen.at, m)

ScreenTypes ==
    /\ screen = [at |-> screen.at, cursor |-> screen.cursor] /\ screen.at \in [Con!Places -> Int]
    /\ history \in Seq([Con!Cols -> Int]) /\ Len(history) >= Top

\* The screens of the guest and of the monitor agree once the operation sent is done.
Agrees(k) ==
    /\ IsConsole(k) /\ Con!Drawing(k.buffer) = screen.at /\ k.cursor = screen.cursor
    /\ Past(k.buffer, history)

KernelInv ==
    /\ ScreenTypes
    /\ pending = Con!Nothing => Agrees(kernel)
    /\ pending # Con!Nothing => Drawable(pending) /\ Agrees(Con!ConsoleOp(kernel, pending))

LEMMA SentPutcs ==
    ASSUME ScreenTypes, NEW y \in Con!Rows, NEW x \in Con!Cols, NEW n \in 1..(X - x),
           Con!GuestPutcs(y, x, n)
    PROVE  (\E m : GuestSends(m)) /\ ScreenTypes'
<1> DEFINE m == [type |-> "putcs", x |-> x, y |-> y, count |-> n, data |-> [i \in 1..n |-> Con!Drawn]]
           at == [p \in Con!Places |-> IF p \in {<<y, c>> : c \in x..(x + n - 1)} THEN Con!Drawn ELSE screen.at[p]]
<1>1. screen' = [at |-> at, cursor |-> screen.cursor] /\ Con!Send(m) /\ history' = history
  BY DEF Con!GuestPutcs, Con!Draw, ScreenTypes
<1>2. ASSUME NEW p \in Con!Places PROVE at[p] = Con!op_putcs(screen.at, m)[p] /\ at[p] \in Int
  <2>1. p = <<p[1], p[2]>> /\ p[2] \in Int /\ x \in Int /\ n \in Int
    <3>1. X \in Nat /\ x \in 0..(X - 1)
      BY Sizes
    <3> QED BY <3>1, DrawingAt
  <2>2. p \in {<<y, c>> : c \in x..(x + n - 1)} <=> p[1] = y /\ p[2] \in x..(x + n - 1)
    BY <2>1
  <2>3. p[2] \in x..(x + n - 1) => [i \in 1..n |-> Con!Drawn][p[2] - x + 1] = Con!Drawn
    BY <2>1
  <2>4. Con!op_putcs(screen.at, m)[p] = IF p[1] = y /\ p[2] \in x..(x + n - 1)
                                          THEN [i \in 1..n |-> Con!Drawn][p[2] - x + 1] ELSE screen.at[p]
    BY DEF Con!op_putcs
  <2> QED BY <2>2, <2>3, <2>4 DEF ScreenTypes, Con!Drawn
<1>3. ScreenOp(screen.at, m) = at
  <2>1. ScreenOp(screen.at, m) = Con!op_putcs(screen.at, m)
    BY DEF ScreenOp
  <2> QED BY <1>2, <2>1 DEF Con!op_putcs
<1>4. at \in [Con!Places -> Int]
  BY <1>2
<1>5. Drawable(m) /\ CursorOp(screen.cursor, m) = screen.cursor /\ PastOp(history, screen.at, m) = history
  BY DEF Drawable, CursorOp, PastOp, Whole
<1> HIDE DEF m, at
<1> QED BY <1>1, <1>3, <1>4, <1>5 DEF GuestSends, ScreenTypes

LEMMA SentClear ==
    ASSUME ScreenTypes, NEW t \in Con!Rows, NEW l \in Con!Cols, NEW b \in t..(Y - 1), NEW r \in l..(X - 1),
           Con!GuestClear(t, b, l, r)
    PROVE  (\E m : GuestSends(m)) /\ ScreenTypes'
<1> DEFINE m == [type |-> "clear", top |-> t, left |-> l, bottom |-> b, right |-> r]
           at == [p \in Con!Places |-> IF p \in (t..b) \X (l..r) THEN Con!Blank ELSE screen.at[p]]
<1>1. screen' = [at |-> at, cursor |-> screen.cursor] /\ Con!Send(m) /\ history' = history
  BY DEF Con!GuestClear, Con!Draw, ScreenTypes
<1>2. ScreenOp(screen.at, m) = at
  BY DEF ScreenOp, Con!op_clear
<1>3. at \in [Con!Places -> Int]
  BY DEF ScreenTypes, Con!Blank
<1>4. b \in Con!Rows /\ r \in Con!Cols
  BY Sizes
<1>5. Drawable(m) /\ CursorOp(screen.cursor, m) = screen.cursor /\ PastOp(history, screen.at, m) = history
  BY <1>4 DEF Drawable, CursorOp, PastOp, Whole
<1> HIDE DEF m, at
<1> QED BY <1>1, <1>2, <1>3, <1>5 DEF GuestSends, ScreenTypes

LEMMA SentBmove ==
    ASSUME ScreenTypes, NEW sy \in Con!Rows, NEW dy \in Con!Rows, NEW sx \in Con!Cols, NEW dx \in Con!Cols,
           NEW h \in 1..Y, NEW w \in 1..X, sy + h <= Y, dy + h <= Y, sx + w <= X, dx + w <= X,
           Con!GuestBmove(sy, sx, dy, dx, h, w)
    PROVE  (\E m : GuestSends(m)) /\ ScreenTypes'
<1> DEFINE m == [type |-> "bmove", row |-> dy, column |-> dx, top |-> sy, left |-> sx,
                 bottom |-> sy + h - 1, right |-> sx + w - 1]
           at == [p \in Con!Places |->
                    IF p \in (dy..(dy + h - 1)) \X (dx..(dx + w - 1))
                      THEN screen.at[<<p[1] - dy + sy, p[2] - dx + sx>>] ELSE screen.at[p]]
<1>1. screen' = [at |-> at, cursor |-> screen.cursor] /\ Con!Send(m) /\ history' = history
  BY DEF Con!GuestBmove, ScreenTypes
<1>2. /\ sy \in 0..(Y - 1) /\ dy \in 0..(Y - 1) /\ sx \in 0..(X - 1) /\ dx \in 0..(X - 1)
      /\ X \in Nat /\ Y \in Nat /\ h \in Int /\ w \in Int
  BY Sizes
<1>3. dy + (sy + h - 1 - sy) = dy + h - 1 /\ dx + (sx + w - 1 - sx) = dx + w - 1
  BY <1>2
<1>4. ScreenOp(screen.at, m) = at
  <2>1. ScreenOp(screen.at, m) = Bmoved(screen.at, m)
    BY DEF ScreenOp
  <2>2. /\ m.row = dy /\ m.column = dx /\ m.top = sy /\ m.left = sx
        /\ m.row + (m.bottom - m.top) = dy + h - 1 /\ m.column + (m.right - m.left) = dx + w - 1
    <3>1. m.row = dy /\ m.column = dx /\ m.top = sy /\ m.left = sx
      OBVIOUS
    <3>2. m.bottom = sy + h - 1 /\ m.right = sx + w - 1
      OBVIOUS
    <3> HIDE DEF m
    <3> QED BY <1>2, <3>1, <3>2
  <2> HIDE DEF m
  <2>3. ASSUME NEW p \in Con!Places PROVE Bmoved(screen.at, m)[p] = at[p]
    <3> DEFINE R == (m.row..(m.row + (m.bottom - m.top))) \X (m.column..(m.column + (m.right - m.left)))
    <3>1. R = (dy..(dy + h - 1)) \X (dx..(dx + w - 1))
      BY <2>2
    <3>2. Bmoved(screen.at, m)[p]
            = IF p \in R THEN screen.at[<<p[1] - m.row + m.top, p[2] - m.column + m.left>>] ELSE screen.at[p]
      BY DEF Bmoved
    <3> HIDE DEF R
    <3> QED BY <2>2, <3>1, <3>2
  <2>4. Bmoved(screen.at, m) = at
    BY <2>3 DEF Bmoved
  <2> QED BY <2>1, <2>4
<1>5. ASSUME NEW p \in Con!Places PROVE at[p] \in Int
  <2>1. CASE p \in (dy..(dy + h - 1)) \X (dx..(dx + w - 1))
    <3> DEFINE q == <<p[1] - dy + sy, p[2] - dx + sx>>
    <3>1. p[1] \in dy..(dy + h - 1) /\ p[2] \in dx..(dx + w - 1)
      BY <2>1
    <3>2. p[1] - dy + sy \in 0..(Y - 1) /\ p[2] - dx + sx \in 0..(X - 1)
      BY <1>2, <3>1
    <3>3. q \in Con!Places
      BY <3>2, Sizes DEF Con!Places
    <3> HIDE DEF q
    <3>4. screen.at[q] \in Int
      BY <3>3 DEF ScreenTypes
    <3> QED BY <2>1, <3>4 DEF q
  <2>2. CASE ~(p \in (dy..(dy + h - 1)) \X (dx..(dx + w - 1)))
    BY <2>2 DEF ScreenTypes
  <2> QED BY <2>1, <2>2
<1>6. at \in [Con!Places -> Int]
  BY <1>5
<1>7. Drawable(m) /\ CursorOp(screen.cursor, m) = screen.cursor /\ PastOp(history, screen.at, m) = history
  <2>1. Moves(m, h, w)
    BY DEF Moves
  <2>2. m.type = "bmove"
    OBVIOUS
  <2> HIDE DEF m
  <2> QED BY <2>1, <2>2 DEF Drawable, CursorOp, PastOp, Whole
<1> HIDE DEF m, at
<1> QED BY <1>1, <1>4, <1>6, <1>7 DEF GuestSends, ScreenTypes

LEMMA SentScroll ==
    ASSUME ScreenTypes, NEW t \in Con!Rows, NEW b \in (t + 1)..Y, NEW n \in 1..(b - t - 1),
           NEW way \in {"scroll_up", "scroll_down"}, Con!GuestScroll(t, b, way, n)
    PROVE  (\E m : GuestSends(m)) /\ ScreenTypes'
<1> DEFINE m == [type |-> way, top |-> t, bottom |-> b - 1, lines |-> n]
           by == IF way = "scroll_up" THEN n ELSE -n
           from(p) == IF way = "scroll_up" THEN p[1] + n ELSE p[1] - n
           at == [p \in Con!Places |-> IF p[1] \notin t..(b - 1) THEN screen.at[p]
                                       ELSE IF from(p) \in t..(b - 1) THEN screen.at[<<from(p), p[2]>>] ELSE Con!Blank]
           s == [r \in 1..n |-> [c \in Con!Cols |-> screen.at[<<r - 1, c>>]]]
<1>1. /\ screen' = [at |-> at, cursor |-> screen.cursor] /\ Con!Send(m)
      /\ history' = IF way = "scroll_up" /\ t = 0 /\ b = Y THEN history \o s ELSE history
  BY DEF Con!GuestScroll, ScreenTypes
<1>2. t \in 0..(Y - 1) /\ X \in Nat /\ Y \in Nat /\ n \in Nat /\ b \in Int /\ b <= Y /\ n < b
  BY Sizes
<1>3. ASSUME NEW p \in Con!Places
      PROVE  from(p) = p[1] + by /\ (from(p) \in t..(b - 1) => <<from(p), p[2]>> \in Con!Places)
  <2>1. p[1] \in Int /\ p[2] \in Con!Cols
    BY DrawingAt
  <2>2. from(p) = p[1] + by
    BY <1>2, <2>1
  <2>3. from(p) \in t..(b - 1) => from(p) \in 0..(Y - 1)
    BY <1>2
  <2> QED BY <2>1, <2>2, <2>3, Sizes DEF Con!Places
<1>4. ScreenOp(screen.at, m) = at
  <2>1. ScreenOp(screen.at, m) = Con!op_scroll(screen.at, m, by)
    BY DEF ScreenOp
  <2>2. Con!op_scroll(screen.at, m, by)
          = [p \in Con!Places |-> IF p[1] \notin t..(b - 1) THEN screen.at[p]
                                  ELSE IF p[1] + by \in t..(b - 1) THEN screen.at[<<p[1] + by, p[2]>>] ELSE Con!Blank]
    BY DEF Con!op_scroll
  <2> HIDE DEF from, by
  <2> QED BY <1>3, <2>1, <2>2
<1>5. at \in [Con!Places -> Int]
  <2> HIDE DEF from
  <2> QED BY <1>3 DEF ScreenTypes, Con!Blank
<1>6. Whole(m) <=> way = "scroll_up" /\ t = 0 /\ b = Y
  <2>1. b - 1 = Y - 1 <=> b = Y
    BY <1>2
  <2> QED BY <2>1 DEF Whole
<1>7. Drawable(m) /\ CursorOp(screen.cursor, m) = screen.cursor
  <2>1. (m.type = "scroll_up" \/ m.type = "scroll_down") /\ m.top = t /\ m.bottom = b - 1 /\ m.lines = n
    OBVIOUS
  <2> HIDE DEF m
  <2> QED BY <2>1 DEF Drawable, CursorOp
<1>8. history' = PastOp(history, screen.at, m)
  <2>1. m.lines = n /\ m.type # "switch"
    OBVIOUS
  <2> HIDE DEF m
  <2> QED BY <1>1, <1>6, <2>1 DEF PastOp
<1>9. s \in Seq([Con!Cols -> Int]) /\ Len(s) = n
  <2>1. ASSUME NEW r \in 1..n, NEW c \in Con!Cols PROVE screen.at[<<r - 1, c>>] \in Int
    <3>1. r - 1 \in 0..(Y - 1)
      BY <1>2
    <3>2. <<r - 1, c>> \in Con!Places
      BY <3>1, Sizes DEF Con!Places
    <3> QED BY <3>2 DEF ScreenTypes
  <2>2. s \in [1..n -> [Con!Cols -> Int]]
    BY <2>1
  <2> HIDE DEF s
  <2> QED BY <1>2, <2>2, SequenceOf
<1>10. history' \in Seq([Con!Cols -> Int]) /\ Len(history') >= Top
  <2>1. history \o s \in Seq([Con!Cols -> Int]) /\ Len(history \o s) = Len(history) + n /\ Len(history) \in Nat
    <3> HIDE DEF s
    <3> QED BY <1>9, ConcatProperties, LenProperties DEF ScreenTypes
  <2> HIDE DEF s
  <2> QED BY <1>1, <1>2, <2>1, Sizes DEF ScreenTypes
<1> HIDE DEF m, at
<1>11. screen'.at = at /\ screen'.cursor = screen.cursor
  BY <1>1
<1> QED BY <1>1, <1>4, <1>5, <1>7, <1>8, <1>10, <1>11 DEF GuestSends, ScreenTypes

LEMMA SentCursor ==
    ASSUME ScreenTypes, NEW y, NEW x, Con!GuestCursor(y, x)
    PROVE  (\E m : GuestSends(m)) /\ ScreenTypes'
<1> DEFINE m == [type |-> "cursor", at |-> <<y, x>>]
<1>1. screen' = [at |-> screen.at, cursor |-> <<y, x>>] /\ Con!Send(m) /\ history' = history
  BY DEF Con!GuestCursor, ScreenTypes
<1>2. /\ Drawable(m) /\ CursorOp(screen.cursor, m) = <<y, x>> /\ PastOp(history, screen.at, m) = history
      /\ ScreenOp(screen.at, m) = screen.at
  BY DEF Drawable, CursorOp, PastOp, Whole, ScreenOp
<1> HIDE DEF m
<1> QED BY <1>1, <1>2 DEF GuestSends, ScreenTypes

LEMMA SentSwitch ==
    ASSUME ScreenTypes, Con!GuestSwitch
    PROVE  (\E m : GuestSends(m)) /\ ScreenTypes'
<1> DEFINE m == [type |-> "switch"]
           h == [r \in 1..(MaxY - Y) |-> [c \in Con!Cols |-> Con!Zero]]
<1>1. screen' = screen /\ Con!Send(m) /\ history' = h
  BY DEF Con!GuestSwitch
<1>2. /\ Drawable(m) /\ CursorOp(screen.cursor, m) = screen.cursor /\ PastOp(history, screen.at, m) = h
      /\ ScreenOp(screen.at, m) = screen.at
  BY DEF Drawable, CursorOp, PastOp, Whole, ScreenOp
<1>3. MaxY - Y = Top /\ Top \in Nat
  BY Sizes DEF Top
<1>4. h \in [1..Top -> [Con!Cols -> Int]]
  BY <1>3 DEF Con!Zero
<1> HIDE DEF m, h
<1>5. h \in Seq([Con!Cols -> Int]) /\ Len(h) >= Top
  <2>1. h \in Seq([Con!Cols -> Int]) /\ Len(h) = Top
    BY <1>3, <1>4, SequenceOf
  <2> QED BY <1>3, <2>1
<1> QED BY <1>1, <1>2, <1>5 DEF GuestSends, ScreenTypes

LEMMA GuestSent ==
    ASSUME ScreenTypes, Con!GuestDraws
    PROVE  /\ (\E m : GuestSends(m)) /\ ScreenTypes'
           /\ pending = Con!Nothing /\ UNCHANGED <<kernel, user, replay>>
<1> DEFINE Sent == (\E m : GuestSends(m)) /\ ScreenTypes'
<1>1. ASSUME NEW y \in Con!Rows, NEW x \in Con!Cols, Con!GuestCursor(y, x) PROVE Sent
  BY <1>1, SentCursor
<1>2. ASSUME NEW y \in Con!Rows, NEW x \in Con!Cols, NEW n \in 1..(X - x), Con!GuestPutcs(y, x, n) PROVE Sent
  BY <1>2, SentPutcs
<1>3. ASSUME NEW t \in Con!Rows, NEW l \in Con!Cols, NEW b \in t..(Y - 1), NEW r \in l..(X - 1),
             Con!GuestClear(t, b, l, r)
      PROVE  Sent
  BY <1>3, SentClear
<1>4. ASSUME NEW t \in Con!Rows, NEW b \in (t + 1)..Y, NEW n \in 1..(b - t - 1),
             NEW way \in {"scroll_up", "scroll_down"}, Con!GuestScroll(t, b, way, n)
      PROVE  Sent
  BY <1>4, SentScroll
<1>5. ASSUME NEW sy \in Con!Rows, NEW dy \in Con!Rows, NEW sx \in Con!Cols, NEW dx \in Con!Cols,
             NEW h \in 1..Y, NEW w \in 1..X, sy + h <= Y, dy + h <= Y, sx + w <= X, dx + w <= X,
             Con!GuestBmove(sy, sx, dy, dx, h, w)
      PROVE  Sent
  BY <1>5, SentBmove
<1>6. ASSUME Con!GuestSwitch PROVE Sent
  BY <1>6, SentSwitch
<1> HIDE DEF Sent
<1>7. Sent
  BY <1>1, <1>2, <1>3, <1>4, <1>5, <1>6 DEF Con!GuestDraws
<1> QED BY <1>7 DEF Sent, Con!GuestDraws

\* An operation is never the sign that there is none.
LEMMA DrawableIsSome == ASSUME NEW m, Drawable(m) PROVE m # Con!Nothing
  BY DEF Drawable, Con!Nothing

LEMMA KernelInvGuest == ASSUME KernelInv, Con!GuestDraws PROVE KernelInv'
<1>1. PICK m : GuestSends(m)
  BY GuestSent DEF KernelInv
<1>2. ScreenTypes' /\ pending = Con!Nothing /\ kernel' = kernel /\ pending' = m
  BY <1>1, GuestSent DEF KernelInv, GuestSends, Con!Send
<1>3. IsConsole(kernel) /\ Con!Drawing(kernel.buffer) = screen.at /\ kernel.cursor = screen.cursor
      /\ Past(kernel.buffer, history)
  BY <1>2 DEF KernelInv, Agrees
<1> DEFINE k == Con!ConsoleOp(kernel, m)
<1>4. Drawable(m) /\ m # Con!Nothing
  BY <1>1, DrawableIsSome DEF GuestSends
<1>5. OpDone(k, kernel, m)
  BY <1>3, <1>4, OpDraws
<1>6. Past(k.buffer, PastOp(history, screen.at, m))
  <2>1. Past(Con!ConsoleOp(kernel, m).buffer, PastOp(history, Con!Drawing(kernel.buffer), m))
    BY <1>3, <1>4, OpPast DEF KernelInv, ScreenTypes
  <2> QED BY <1>3, <2>1
<1> HIDE DEF k
<1>7. screen'.at = ScreenOp(screen.at, m) /\ screen'.cursor = CursorOp(screen.cursor, m)
      /\ history' = PastOp(history, screen.at, m)
  BY <1>1 DEF GuestSends
<1>8. /\ IsConsole(k) /\ Con!Drawing(k.buffer) = screen'.at /\ k.cursor = screen'.cursor
      /\ Past(k.buffer, history')
  BY <1>3, <1>5, <1>6, <1>7 DEF OpDone
<1>9. Con!ConsoleOp(kernel, pending)' = k
  BY <1>2 DEF k, Con!ConsoleOp, Con!ScrollUp, Con!ScrollDown, Con!Putcs, Con!Clear, Con!Bmove, Con!Fill, Con!Memmove
<1> QED BY <1>2, <1>4, <1>8, <1>9 DEF KernelInv, Agrees

IsWidget(u) ==
    /\ u = [buffer |-> u.buffer, cursor |-> u.cursor, window |-> u.window, moved |-> u.moved]
    /\ IsBuffer(u.buffer) /\ u.window = [p \in Con!Places |-> u.window[p]] /\ u.moved \in BOOLEAN

\* The window of a console does what its copy does, but for the blanks a moved region leaves.
WidgetDone(v, u, m) ==
    /\ IsWidget(v) /\ v.cursor = CursorOp(u.cursor, m)
    /\ Con!Drawing(v.buffer) = ScreenOp(Con!Drawing(u.buffer), m)
    /\ v.moved = (u.moved \/ m.type = "bmove")
    /\ m.type # "bmove" => v.window = ScreenOp(u.window, m)

LEMMA WindowOps ==
    ASSUME NEW u, NEW m
    PROVE  LET w == Con!WidgetEvent(u, m).window
           IN  /\ m.type = "scroll_up" => w = Con!op_scroll(u.window, m, m.lines)
               /\ m.type = "scroll_down" => w = Con!op_scroll(u.window, m, -m.lines)
               /\ m.type = "bmove" => w = Con!op_bmove(u.window, m)
               /\ m.type = "putcs" => w = Con!op_putcs(u.window, m)
               /\ m.type = "clear" => w = Con!op_clear(u.window, m)
               /\ m.type \in {"init", "cursor", "switch"} => w = u.window
  BY DEF Con!WidgetEvent

LEMMA WidgetFields ==
    ASSUME NEW u, NEW m
    PROVE  LET v == Con!WidgetEvent(u, m)
               c == Con!ConsoleOp([buffer |-> u.buffer, cursor |-> u.cursor], m)
           IN  /\ v = [buffer |-> v.buffer, cursor |-> v.cursor, window |-> v.window, moved |-> v.moved]
               /\ v.buffer = c.buffer /\ v.cursor = c.cursor /\ v.moved = (u.moved \/ m.type = "bmove")
  BY DEF Con!WidgetEvent

LEMMA WidgetDraws ==
    ASSUME NEW u, IsWidget(u), NEW m, Drawable(m)
    PROVE  WidgetDone(Con!WidgetEvent(u, m), u, m)
<1> DEFINE v == Con!WidgetEvent(u, m)
           k == [buffer |-> u.buffer, cursor |-> u.cursor]
           c == Con!ConsoleOp(k, m)
<1> SUFFICES WidgetDone(v, u, m)
  OBVIOUS
<1>1. IsConsole(k) /\ k.buffer = u.buffer /\ k.cursor = u.cursor
  BY DEF IsWidget, IsConsole
<1>2. OpDone(c, k, m)
  <2> HIDE DEF k
  <2> QED BY <1>1, OpDraws
<1>3. /\ v = [buffer |-> v.buffer, cursor |-> v.cursor, window |-> v.window, moved |-> v.moved]
      /\ v.buffer = c.buffer /\ v.cursor = c.cursor /\ v.moved = (u.moved \/ m.type = "bmove")
  BY WidgetFields
<1>4. /\ m.type = "scroll_up" => v.window = Con!op_scroll(u.window, m, m.lines)
      /\ m.type = "scroll_down" => v.window = Con!op_scroll(u.window, m, -m.lines)
      /\ m.type = "bmove" => v.window = Con!op_bmove(u.window, m)
      /\ m.type = "putcs" => v.window = Con!op_putcs(u.window, m)
      /\ m.type = "clear" => v.window = Con!op_clear(u.window, m)
      /\ m.type \in {"cursor", "switch"} => v.window = u.window
  BY WindowOps
<1> HIDE DEF v, k, c
<1>5. m.type \in {"cursor", "switch", "putcs", "clear", "scroll_up", "scroll_down", "bmove"}
  BY DEF Drawable
<1>6. m.type # "bmove" => v.window = ScreenOp(u.window, m)
  BY <1>4, <1>5 DEF ScreenOp
<1>7. v.window = [p \in Con!Places |-> v.window[p]]
  <2>1. \A w, d : /\ Con!op_scroll(w, m, d) = [p \in Con!Places |-> Con!op_scroll(w, m, d)[p]]
                  /\ Con!op_bmove(w, m) = [p \in Con!Places |-> Con!op_bmove(w, m)[p]]
                  /\ Con!op_putcs(w, m) = [p \in Con!Places |-> Con!op_putcs(w, m)[p]]
                  /\ Con!op_clear(w, m) = [p \in Con!Places |-> Con!op_clear(w, m)[p]]
    BY DEF Con!op_scroll, Con!op_bmove, Con!op_putcs, Con!op_clear
  <2>2. u.window = [p \in Con!Places |-> u.window[p]]
    BY DEF IsWidget
  <2> QED BY <1>4, <1>5, <2>1, <2>2
<1>8. v.moved \in BOOLEAN
  BY <1>3 DEF IsWidget
<1>9. IsBuffer(v.buffer)
  BY <1>2, <1>3 DEF OpDone, IsConsole
<1>10. v.cursor = CursorOp(u.cursor, m) /\ Con!Drawing(v.buffer) = ScreenOp(Con!Drawing(u.buffer), m)
  BY <1>1, <1>2, <1>3 DEF OpDone
<1>11. IsWidget(v)
  BY <1>3, <1>7, <1>8, <1>9 DEF IsWidget
<1> QED BY <1>3, <1>6, <1>10, <1>11 DEF WidgetDone

LEMMA WidgetLine ==
    ASSUME NEW u, IsWidget(u), NEW m, m.type = "init"
    PROVE  IsWidget(Con!WidgetEvent(u, m))
<1> DEFINE v == Con!WidgetEvent(u, m)
           k == [buffer |-> u.buffer, cursor |-> u.cursor]
           c == Con!ConsoleOp(k, m)
<1> SUFFICES IsWidget(v)
  OBVIOUS
<1>1. IsConsole(k) /\ c = [k EXCEPT !.buffer = Con!Putcs(u.buffer, 0, m)]
  BY ConsoleOps DEF IsWidget, IsConsole
<1>2. IsBuffer(Con!Putcs(u.buffer, 0, m))
  BY Buffers, Zenon
<1>3. IsBuffer(c.buffer)
  <2> HIDE DEF k
  <2> QED BY <1>1, <1>2, WithBuffer
<1>4. /\ v = [buffer |-> v.buffer, cursor |-> v.cursor, window |-> v.window, moved |-> v.moved]
      /\ v.buffer = c.buffer /\ v.moved = (u.moved \/ m.type = "bmove")
  BY WidgetFields
<1>5. v.window = u.window
  BY WindowOps
<1> HIDE DEF v, k, c
<1> QED BY <1>3, <1>4, <1>5 DEF IsWidget
-----------------------------------------------------------------------------
\* A console that has read all its messages is v: there are copies, one for each message.
Copies(tr, u, q) ==
    /\ tr[0] = u
    /\ \A i \in 1..Len(q) : tr[i] = Con!WidgetEvent(tr[i - 1], q[i])
Ends(v, u, q) == \E tr : Copies(tr, u, q) /\ v = tr[Len(q)]

LEMMA EndsEmpty == \A u, v : Ends(u, u, <<>>) /\ (Ends(v, u, <<>>) => v = u)
<1> TAKE u, v
<1>1. Len(<<>>) = 0 /\ 1..0 = {}
  OBVIOUS
<1>2. Ends(u, u, <<>>)
  <2> DEFINE tr == [i \in {0} |-> u]
  <2>1. tr[0] = u
    OBVIOUS
  <2> HIDE DEF tr
  <2> QED BY <1>1, <2>1 DEF Ends, Copies
<1> QED BY <1>1, <1>2 DEF Ends, Copies

LEMMA EndsAppend ==
    ASSUME NEW S, NEW q \in Seq(S), NEW u, NEW v, Ends(v, u, q), NEW m
    PROVE  /\ Ends(Con!WidgetEvent(v, m), u, Append(q, m))
           /\ Append(q, m) \in Seq(S \cup {m}) /\ Append(q, m) # <<>>
<1> DEFINE n == Len(q)
           a == Append(q, m)
<1>1. q \in Seq(S \cup {m}) /\ n \in Nat
  BY SeqMonotonic, LenProperties
<1>2. /\ a \in Seq(S \cup {m}) /\ Len(a) = n + 1 /\ a[n + 1] = m
      /\ \A i \in 1..n : a[i] = q[i]
  BY <1>1, AppendProperties
<1>3. PICK tr : Copies(tr, u, q) /\ v = tr[n]
  BY DEF Ends
<1> DEFINE e == Con!WidgetEvent(v, m)
           t == [i \in 0..(n + 1) |-> IF i = n + 1 THEN e ELSE tr[i]]
<1> HIDE DEF n, a, e
<1>4. Copies(t, u, a)
  <2>1. t[0] = u
    BY <1>1, <1>3 DEF Copies
  <2>2. ASSUME NEW i \in 1..(n + 1) PROVE t[i] = Con!WidgetEvent(t[i - 1], a[i])
    <3>1. CASE i = n + 1
      <4>1. t[i] = e /\ t[i - 1] = v /\ a[i] = m
        BY <1>1, <1>2, <1>3, <3>1
      <4> QED BY <4>1 DEF e
    <3>2. CASE i # n + 1
      <4>1. i \in 1..n /\ t[i] = tr[i] /\ t[i - 1] = tr[i - 1] /\ a[i] = q[i]
        BY <1>1, <1>2, <3>2
      <4>2. tr[i] = Con!WidgetEvent(tr[i - 1], q[i])
        BY <1>3, <4>1 DEF Copies, n
      <4> HIDE DEF t
      <4> QED BY <4>1, <4>2
    <3> QED BY <3>1, <3>2
  <2> HIDE DEF t
  <2> QED BY <1>2, <2>1, <2>2 DEF Copies
<1>5. e = t[Len(a)]
  BY <1>1, <1>2
<1>6. a # <<>>
  <2>1. Len(<<>>) = 0
    OBVIOUS
  <2> QED BY <1>1, <1>2, <2>1
<1> HIDE DEF t
<1> QED BY <1>2, <1>4, <1>5, <1>6 DEF Ends, e, a

LEMMA EndsTail ==
    ASSUME NEW S, NEW q \in Seq(S), q # <<>>, NEW u, NEW v, Ends(v, u, q)
    PROVE  Ends(v, Con!WidgetEvent(u, Head(q)), Tail(q)) /\ Tail(q) \in Seq(S)
<1> DEFINE n == Len(q)
           a == Tail(q)
<1>1. /\ a \in Seq(S) /\ Len(a) = n - 1 /\ \A i \in 1..(n - 1) : a[i] = q[i + 1]
  BY HeadTailProperties
<1>2. n \in Nat /\ n > 0 /\ Head(q) = q[1]
  <2>1. n \in Nat \ {0}
    BY EmptySeq
  <2>2. Head(q) = q[1]
    OBVIOUS
  <2> HIDE DEF n
  <2> QED BY <2>1, <2>2
<1>3. PICK tr : Copies(tr, u, q) /\ v = tr[n]
  BY DEF Ends
<1> DEFINE t == [i \in 0..(n - 1) |-> tr[i + 1]]
<1> HIDE DEF n, a
<1>4. Copies(t, Con!WidgetEvent(u, Head(q)), a)
  <2>1. t[0] = Con!WidgetEvent(u, Head(q))
    <3>1. 1 \in 1..n /\ 1 - 1 = 0 /\ t[0] = tr[1]
      BY <1>2
    <3> HIDE DEF t
    <3> QED BY <1>2, <1>3, <3>1 DEF Copies, n
  <2>2. ASSUME NEW i \in 1..(n - 1) PROVE t[i] = Con!WidgetEvent(t[i - 1], a[i])
    <3>1. i + 1 \in 1..n /\ i + 1 - 1 = i /\ t[i] = tr[i + 1] /\ t[i - 1] = tr[i] /\ a[i] = q[i + 1]
      BY <1>1, <1>2
    <3> HIDE DEF t
    <3> QED BY <1>3, <3>1 DEF Copies, n
  <2> HIDE DEF t
  <2> QED BY <1>1, <2>1, <2>2 DEF Copies
<1>5. v = t[Len(a)]
  BY <1>1, <1>2, <1>3
<1> HIDE DEF t
<1> QED BY <1>1, <1>4, <1>5 DEF Ends, a

\* The steps of a console that attaches.
ReplayTypes ==
    /\ \E S : queue \in Seq(S)
    /\ replay.at \in {"none", "buffer", "screen", "cursor", "done"} /\ drawn \in BOOLEAN
    /\ replay.at = "none" => user = Con!Nothing /\ queue = <<>>
    /\ replay.at # "none" => user # Con!Nothing
    /\ replay.at = "buffer" => replay = [at |-> "buffer", y |-> replay.y] /\ replay.y \in Y..MaxY
    /\ replay.at = "screen" => replay = [at |-> "screen", y |-> replay.y] /\ replay.y \in Con!Rows

\* What a console shows when it has read the messages that are on the way.
Shown(v, r, s) ==
    /\ IsWidget(v)
    /\ r.at = "screen" =>
         \A p \in Con!Places : p[1] < r.y =>
            Con!Drawing(v.buffer)[p] = s.at[p] /\ (v.moved \/ v.window[p] = s.at[p])
    /\ r.at \in {"cursor", "done"} =>
         Con!Drawing(v.buffer) = s.at /\ (v.moved \/ v.window = s.at)
    /\ r.at = "done" => v.cursor = s.cursor

ReplayInv == ~drawn /\ replay.at # "none" =>
    /\ replay.at # "done" => pending = Con!Nothing
    /\ \E v : Ends(v, user, queue) /\ Shown(v, replay, screen)

ConsolesInv == KernelInv /\ ReplayTypes /\ ReplayInv

LEMMA ConsolesInvInit == Con!Init => ConsolesInv
<1> SUFFICES ASSUME Con!Init PROVE ConsolesInv
  OBVIOUS
<1> USE DEF Con!Init
<1> DEFINE at == [p \in Con!Places |-> Con!ScreenAt + p[1] * X + p[2]]
           h == [r \in 1..(MaxY - Y) |-> [c \in Con!Cols |-> (r - 1) * X + c]]
           b == [i \in Con!Cells |-> i]
<1>1. MaxY - Y = Top /\ Top \in Nat /\ X \in Nat
  BY Sizes DEF Top
<1>2. ASSUME NEW p \in Con!Places PROVE Con!Drawing(b)[p] = at[p] /\ at[p] \in Int
  <2>1. /\ Line(Top + p[1]) + p[2] \in Con!Cells /\ p[1] \in Int /\ p[2] \in Int /\ Top \in Int
    BY CellOfPlace, DrawingAt, Sizes
  <2>2. Line(Top + p[1]) + p[2] = Con!ScreenAt + p[1] * X + p[2] /\ Line(Top + p[1]) + p[2] \in Int
    <3>1. Line(Top + p[1]) = Line(Top) + Line(p[1]) /\ Con!ScreenAt = Line(Top) /\ Line(p[1]) = p[1] * X
      BY <2>1, LineSum, LineFacts DEF Line
    <3>2. Line(Top) \in Int /\ Line(p[1]) \in Int
      BY <2>1, LineInt
    <3> QED BY <2>1, <3>1, <3>2
  <2>3. b[Con!ScreenAt + p[1] * X + p[2]] = Con!ScreenAt + p[1] * X + p[2]
    BY <2>1, <2>2
  <2> QED BY <2>2, <2>3 DEF Con!Drawing
<1>3. screen = [at |-> at, cursor |-> <<0, 0>>] /\ history = h /\ kernel = [buffer |-> b, cursor |-> <<0, 0>>]
  OBVIOUS
<1>4. Con!Drawing(b) = at /\ at \in [Con!Places -> Int]
  BY <1>2 DEF Con!Drawing
<1>5. ASSUME NEW r \in 0..(Top - 1), NEW c \in Con!Cols
      PROVE  CellAt(b, r, c) = Line(r) + c /\ Line(r) + c \in Int /\ h[r + 1][c] = Line(r) + c
  <2>1. Line(r) + c \in Con!Cells /\ r \in Int /\ c \in Int
    BY CellOfPlace, PastLines, Sizes
  <2>2. Line(r) \in Int
    BY <2>1, LineInt
  <2>3. r + 1 \in 1..(MaxY - Y) /\ r + 1 - 1 = r
    BY <1>1, <2>1
  <2>4. h[r + 1][c] = r * X + c
    BY <2>3
  <2> QED BY <2>1, <2>2, <2>4 DEF CellAt, Line
<1>6. h \in Seq([Con!Cols -> Int]) /\ Len(h) = Top
  <2>1. ASSUME NEW r \in 1..Top PROVE h[r] \in [Con!Cols -> Int]
    <3>1. r - 1 \in 0..(Top - 1) /\ r - 1 + 1 = r
      BY <1>1
    <3>2. \A c \in Con!Cols : h[r][c] \in Int
      <4> HIDE DEF h
      <4> QED BY <1>5, <3>1
    <3>3. h[r] = [c \in Con!Cols |-> h[r][c]]
      BY <1>1
    <3> HIDE DEF h
    <3> QED BY <3>2, <3>3
  <2>2. h = [r \in 1..Top |-> h[r]]
    BY <1>1
  <2> HIDE DEF h
  <2>3. h \in [1..Top -> [Con!Cols -> Int]]
    BY <2>1, <2>2
  <2> QED BY <1>1, <2>3, SequenceOf
<1>7. Past(b, h)
  <2>1. \A r \in 0..(Top - 1) : Len(h) - Top + r + 1 = r + 1
    BY <1>1, <1>6
  <2> HIDE DEF h, b
  <2> QED BY <1>5, <2>1 DEF Past
<1>8. IsConsole(kernel)
  BY DEF IsConsole, IsBuffer
<1>9. KernelInv
  <2> HIDE DEF Con!Init, at, h, b
  <2>1. screen.at = at /\ screen.cursor = <<0, 0>> /\ kernel.buffer = b /\ kernel.cursor = <<0, 0>>
    BY <1>3
  <2>2. pending = Con!Nothing
    BY DEF Con!Init
  <2>3. ScreenTypes
    BY <1>1, <1>3, <1>4, <1>6, <2>1 DEF ScreenTypes
  <2> QED BY <1>3, <1>4, <1>7, <1>8, <2>1, <2>2, <2>3 DEF KernelInv, Agrees
<1>10. ReplayTypes /\ ReplayInv
  <2>1. queue \in Seq({})
    BY EmptySeq
  <2>2. replay.at = "none" /\ drawn = FALSE /\ user = Con!Nothing /\ queue = <<>>
    OBVIOUS
  <2> QED BY <2>1, <2>2 DEF ReplayTypes, ReplayInv
<1> QED BY <1>9, <1>10 DEF ConsolesInv

LEMMA ConsolesInvGuest == ASSUME ConsolesInv, Con!GuestDraws PROVE ConsolesInv'
<1>1. PICK m : GuestSends(m)
  BY GuestSent DEF ConsolesInv, KernelInv
<1>2. KernelInv' /\ user' = user /\ replay' = replay
  BY KernelInvGuest, GuestSent DEF ConsolesInv, KernelInv
<1>3. /\ Drawable(m) /\ queue' = (IF user = Con!Nothing THEN queue ELSE Append(queue, m))
      /\ drawn' = (drawn \/ replay.at \in {"buffer", "screen", "cursor"})
      /\ screen'.at = ScreenOp(screen.at, m) /\ screen'.cursor = CursorOp(screen.cursor, m)
  BY <1>1 DEF GuestSends, Con!Send
<1>4. PICK S : queue \in Seq(S)
  BY DEF ConsolesInv, ReplayTypes
<1>5. \E T : queue' \in Seq(T)
  <2>1. CASE user = Con!Nothing
    BY <1>3, <1>4, <2>1
  <2>2. CASE user # Con!Nothing
    <3>1. queue \in Seq(S \cup {m})
      BY <1>4, SeqMonotonic
    <3>2. queue' \in Seq(S \cup {m})
      BY <1>3, <2>2, <3>1, AppendProperties
    <3> QED BY <3>2
  <2> QED BY <2>1, <2>2
<1>6. ReplayTypes'
  BY <1>2, <1>3, <1>5 DEF ConsolesInv, ReplayTypes
<1>7. ReplayInv'
  <2> SUFFICES ASSUME ~drawn', replay.at # "none"
               PROVE  replay.at = "done" /\ \E v : Ends(v, user, queue') /\ Shown(v, replay', screen')
    BY <1>2 DEF ReplayInv
  <2>1. replay.at = "done" /\ ~drawn /\ user # Con!Nothing
    BY <1>3 DEF ConsolesInv, ReplayTypes
  <2>2. PICK v : Ends(v, user, queue) /\ Shown(v, replay, screen)
    BY <2>1 DEF ConsolesInv, ReplayInv
  <2> DEFINE e == Con!WidgetEvent(v, m)
  <2>3. Ends(e, user, queue')
    BY <1>3, <1>4, <2>1, <2>2, EndsAppend
  <2>4. WidgetDone(e, v, m) /\ IsWidget(v)
    BY <1>3, <2>2, WidgetDraws DEF Shown
  <2> HIDE DEF e
  <2>5. v.moved \in BOOLEAN /\ e.moved = (v.moved \/ m.type = "bmove")
    BY <2>4 DEF IsWidget, WidgetDone
  <2>6. Con!Drawing(v.buffer) = screen.at /\ (v.moved \/ v.window = screen.at) /\ v.cursor = screen.cursor
    BY <2>1, <2>2 DEF Shown
  <2>7. /\ IsWidget(e) /\ Con!Drawing(e.buffer) = screen'.at /\ e.cursor = screen'.cursor
        /\ e.moved \/ e.window = screen'.at
    BY <1>3, <2>4, <2>5, <2>6 DEF WidgetDone
  <2>8. Shown(e, replay', screen')
    BY <1>2, <2>1, <2>7 DEF Shown
  <2> QED BY <2>1, <2>3, <2>8
<1> QED BY <1>2, <1>6, <1>7 DEF ConsolesInv

LEMMA ConsolesInvMonitor == ASSUME ConsolesInv, Con!MonitorDoes PROVE ConsolesInv'
<1> USE DEF Con!MonitorDoes
<1>1. KernelInv'
  BY DEF ConsolesInv, KernelInv, ScreenTypes, Agrees
<1>2. \A v : Shown(v, replay', screen') <=> Shown(v, replay, screen)
  BY DEF Shown
<1> QED BY <1>1, <1>2 DEF ConsolesInv, ReplayTypes, ReplayInv

\* The guest and the monitor do not know that a console attaches.
LEMMA KernelInvKept ==
    ASSUME ConsolesInv, UNCHANGED <<screen, history, kernel, pending>>
    PROVE  KernelInv'
<1>1. Agrees(kernel)' <=> Agrees(kernel)
  BY DEF Agrees
<1>2. Con!ConsoleOp(kernel, pending)' = Con!ConsoleOp(kernel, pending)
  BY DEF Con!ConsoleOp, Con!ScrollUp, Con!ScrollDown, Con!Putcs, Con!Clear, Con!Bmove, Con!Fill, Con!Memmove
<1>3. Agrees(Con!ConsoleOp(kernel, pending))' <=> Agrees(Con!ConsoleOp(kernel, pending))
  BY <1>2 DEF Agrees
<1> QED BY <1>1, <1>3 DEF ConsolesInv, KernelInv, ScreenTypes

LEMMA RecordIsSome ==
    ASSUME NEW b, NEW c, NEW w, NEW d, NEW u, u = [buffer |-> b, cursor |-> c, window |-> w, moved |-> d]
    PROVE  u # Con!Nothing
  BY DEF Con!Nothing

LEMMA ConsolesInvAttach == ASSUME ConsolesInv, Con!Attach PROVE ConsolesInv'
<1> DEFINE zeros == [i \in Con!Cells |-> Con!Zero]
<1> USE DEF Con!Attach
<1>1. KernelInv'
  BY KernelInvKept
<1>2. replay.at = "none" /\ queue = <<>> /\ queue' = <<>>
  BY DEF ConsolesInv, ReplayTypes
<1>3. user' = [buffer |-> zeros, cursor |-> <<0, 0>>, window |-> Con!Drawing(zeros), moved |-> FALSE]
  OBVIOUS
<1>4. user' # Con!Nothing
  BY <1>3, RecordIsSome
<1>5. replay' = [at |-> "buffer", y |-> Y] /\ Y \in Y..MaxY
  BY Sizes
<1>6. queue' \in Seq({}) /\ drawn' \in BOOLEAN
  BY <1>2, EmptySeq
<1>7. ReplayTypes'
  BY <1>2, <1>4, <1>5, <1>6 DEF ReplayTypes
<1>8. IsWidget(user')
  <2>1. IsBuffer(zeros) /\ Con!Drawing(zeros) = [p \in Con!Places |-> Con!Drawing(zeros)[p]]
    BY DEF IsBuffer, Con!Drawing
  <2> HIDE DEF zeros
  <2> QED BY <1>3, <2>1 DEF IsWidget
<1>9. ReplayInv'
  <2>1. Ends(user', user', queue')
    BY <1>2, EndsEmpty
  <2>2. Shown(user', replay', screen')
    BY <1>5, <1>8 DEF Shown
  <2>3. ~drawn' => pending' = Con!Nothing
    OBVIOUS
  <2> QED BY <2>1, <2>2, <2>3 DEF ReplayInv
<1> QED BY <1>1, <1>7, <1>9 DEF ConsolesInv

\* A message more, of the thread that replays.
LEMMA Replayed ==
    ASSUME ConsolesInv, NEW m, queue' = Append(queue, m), user' = user
    PROVE  /\ \E S : queue' \in Seq(S)
           /\ \A v : Ends(v, user, queue) => Ends(Con!WidgetEvent(v, m), user', queue')
<1>1. PICK S : queue \in Seq(S)
  BY DEF ConsolesInv, ReplayTypes
<1>2. queue \in Seq(S \cup {m})
  BY <1>1, SeqMonotonic
<1>3. queue' \in Seq(S \cup {m})
  BY <1>2, AppendProperties
<1> QED BY <1>1, <1>3, EndsAppend

LEMMA ConsolesInvBuffer == ASSUME ConsolesInv, Con!ReplayBuffer PROVE ConsolesInv'
<1> USE DEF Con!ReplayBuffer
<1>1. KernelInv' /\ user' = user /\ pending' = pending /\ drawn' = drawn
  BY KernelInvKept
<1>2. replay = [at |-> "buffer", y |-> replay.y] /\ replay.y \in Y..MaxY
  BY DEF ConsolesInv, ReplayTypes
<1>3. CASE replay.y = MaxY
  <2>1. replay' = [at |-> "screen", y |-> 0] /\ queue' = queue /\ 0 \in Con!Rows /\ user # Con!Nothing
    <3>1. user # Con!Nothing
      BY DEF ConsolesInv, ReplayTypes
    <3>2. 0 \in 0..(Y - 1)
      BY Sizes
    <3> QED BY <1>3, <3>1, <3>2, Sizes
  <2>2. ReplayTypes'
    BY <1>1, <2>1 DEF ConsolesInv, ReplayTypes
  <2>3. \A v : Shown(v, replay, screen) => Shown(v, replay', screen')
    <3>1. ASSUME NEW p \in Con!Places PROVE ~(p[1] < 0)
      <4>1. p[1] \in Int /\ p[1] >= 0
        BY DrawingAt
      <4> QED BY <4>1
    <3> QED BY <2>1, <3>1 DEF Shown
  <2>4. ReplayInv'
    BY <1>1, <2>1, <2>3 DEF ConsolesInv, ReplayInv
  <2> QED BY <1>1, <2>2, <2>4 DEF ConsolesInv
<1>4. CASE replay.y # MaxY
  <2> DEFINE m == [type |-> "init", x |-> 0, y |-> replay.y, count |-> X,
                   data |-> [c \in 1..X |-> kernel.buffer[X * replay.y + c - 1]]]
  <2>1. queue' = Append(queue, m) /\ replay' = [at |-> "buffer", y |-> replay.y + 1] /\ m.type = "init"
    BY <1>2, <1>4
  <2> HIDE DEF m
  <2>2. replay.y + 1 \in Y..MaxY
    BY <1>2, <1>4, Sizes
  <2>3. /\ \E S : queue' \in Seq(S)
        /\ \A v : Ends(v, user, queue) => Ends(Con!WidgetEvent(v, m), user', queue')
    BY <1>1, <2>1, Replayed
  <2>4. ReplayTypes'
    BY <1>1, <2>1, <2>2, <2>3 DEF ConsolesInv, ReplayTypes
  <2>5. ASSUME NEW v, Shown(v, replay, screen) PROVE Shown(Con!WidgetEvent(v, m), replay', screen')
    <3>1. IsWidget(Con!WidgetEvent(v, m))
      BY <2>1, <2>5, WidgetLine DEF Shown
    <3> QED BY <2>1, <3>1 DEF Shown
  <2>6. ReplayInv'
    BY <1>1, <2>1, <2>3, <2>5 DEF ConsolesInv, ReplayInv
  <2> QED BY <1>1, <2>4, <2>6 DEF ConsolesInv
<1> QED BY <1>3, <1>4

LEMMA ConsolesInvScreen == ASSUME ConsolesInv, Con!ReplayScreen PROVE ConsolesInv'
<1> USE DEF Con!ReplayScreen
<1> DEFINE y == replay.y
           m == [type |-> "putcs", x |-> 0, y |-> y, count |-> X, data |-> Con!ScreenLine(y)]
<1>1. KernelInv' /\ user' = user /\ pending' = pending /\ drawn' = drawn /\ screen' = screen
  BY KernelInvKept
<1>2. replay = [at |-> "screen", y |-> y] /\ y \in Con!Rows /\ y \in 0..(Y - 1) /\ user # Con!Nothing
      /\ Y \in Nat /\ X \in Nat /\ X > 0
  BY Sizes DEF ConsolesInv, ReplayTypes
<1>3. /\ queue' = Append(queue, m)
      /\ m.type = "putcs" /\ m.x = 0 /\ m.y = y /\ m.count = X /\ m.data = Con!ScreenLine(y)
  OBVIOUS
<1>4. Drawable(m)
  <2>1. 0 \in Con!Cols /\ X \in 1..(X - 0)
    <3>1. 0 \in 0..(X - 1)
      BY <1>2
    <3> QED BY <1>2, <3>1, Sizes
  <2> HIDE DEF m, y
  <2> QED BY <1>2, <1>3, <2>1 DEF Drawable
<1> HIDE DEF m
<1>5. /\ \E S : queue' \in Seq(S)
      /\ \A v : Ends(v, user, queue) => Ends(Con!WidgetEvent(v, m), user', queue')
  BY <1>1, <1>3, Replayed
<1>6. /\ y + 1 = Y => replay' = [at |-> "cursor"]
      /\ y + 1 # Y => replay' = [at |-> "screen", y |-> y + 1] /\ y + 1 \in Con!Rows
  <2>1. y + 1 # Y => y + 1 \in 0..(Y - 1)
    BY <1>2
  <2> QED BY <1>2, <2>1, Sizes
<1>7. ReplayTypes'
  <2>1. CASE y + 1 = Y
    BY <1>1, <1>2, <1>5, <1>6, <2>1 DEF ConsolesInv, ReplayTypes
  <2>2. CASE y + 1 # Y
    <3> HIDE DEF y
    <3>1. replay'.at = "screen" /\ replay'.y = y + 1
      BY <1>6, <2>2
    <3> QED BY <1>1, <1>2, <1>5, <1>6, <2>2, <3>1 DEF ConsolesInv, ReplayTypes
  <2> QED BY <2>1, <2>2
<1>8. ReplayInv'
  <2> SUFFICES ASSUME ~drawn PROVE pending = Con!Nothing /\ \E v : Ends(v, user', queue') /\ Shown(v, replay', screen')
    BY <1>1 DEF ReplayInv
  <2>1. pending = Con!Nothing
    BY <1>2 DEF ConsolesInv, ReplayInv
  <2>2. PICK v : Ends(v, user, queue) /\ Shown(v, replay, screen)
    BY <1>2 DEF ConsolesInv, ReplayInv
  <2> DEFINE e == Con!WidgetEvent(v, m)
  <2>3. WidgetDone(e, v, m)
    BY <1>4, <2>2, WidgetDraws DEF Shown
  <2>4. Ends(e, user', queue')
    BY <1>5, <2>2
  <2> HIDE DEF e
  <2>5. Con!Drawing(kernel.buffer) = screen.at
    BY <2>1 DEF ConsolesInv, KernelInv, Agrees
  <2>6. ASSUME NEW w, NEW p \in Con!Places
        PROVE  /\ p[1] = y => Con!op_putcs(w, m)[p] = screen.at[p]
               /\ p[1] # y => Con!op_putcs(w, m)[p] = w[p]
    <3>1. p[1] \in Int /\ p[2] \in 0..(X - 1) /\ p[2] \in Int
      BY DrawingAt, Sizes
    <3>2. /\ p[2] \in m.x..(m.x + m.count - 1) /\ p[2] - m.x + 1 = p[2] + 1 /\ p[2] + 1 \in 1..X
      BY <1>2, <1>3, <3>1
    <3>3. Con!op_putcs(w, m)[p] = IF p[1] = m.y /\ p[2] \in m.x..(m.x + m.count - 1)
                                   THEN m.data[p[2] - m.x + 1] ELSE w[p]
      BY DEF Con!op_putcs
    <3>4. Con!ScreenLine(y)[p[2] + 1] = kernel.buffer[Con!ScreenAt + X * y + (p[2] + 1) - 1]
      BY <3>2 DEF Con!ScreenLine
    <3>5. Con!ScreenAt + X * y + (p[2] + 1) - 1 = Con!ScreenAt + y * X + p[2]
      <4>1. X * y = Line(y) /\ Line(y) = y * X /\ Line(y) \in Int /\ y \in Int
        BY <1>2, LineInt DEF Line
      <4>2. Con!ScreenAt \in Int
        BY Sizes, LineInt, LineFacts
      <4> HIDE DEF y
      <4> QED BY <3>1, <4>1, <4>2
    <3>6. p[1] = y => Con!Drawing(kernel.buffer)[p] = kernel.buffer[Con!ScreenAt + y * X + p[2]]
      BY DEF Con!Drawing
    <3> HIDE DEF y
    <3> QED BY <1>3, <2>5, <3>2, <3>3, <3>4, <3>5, <3>6
  <2>7. /\ Con!Drawing(e.buffer) = Con!op_putcs(Con!Drawing(v.buffer), m)
        /\ e.window = Con!op_putcs(v.window, m) /\ e.moved = v.moved /\ v.moved \in BOOLEAN /\ IsWidget(e)
    <3>1. v.moved \in BOOLEAN
      BY <2>2 DEF Shown, IsWidget
    <3> QED BY <1>3, <2>3, <3>1 DEF WidgetDone, ScreenOp
  <2>8. ASSUME NEW p \in Con!Places, p[1] < y + 1
        PROVE  Con!Drawing(e.buffer)[p] = screen.at[p] /\ (e.moved \/ e.window[p] = screen.at[p])
    <3>1. CASE p[1] = y
      <4> HIDE DEF y
      <4> QED BY <2>6, <2>7, <3>1
    <3>2. CASE p[1] # y
      <4>1. p[1] < y
        <5>1. p[1] \in Int
          BY DrawingAt
        <5> QED BY <1>2, <2>8, <3>2, <5>1
      <4>2. Con!Drawing(v.buffer)[p] = screen.at[p] /\ (v.moved \/ v.window[p] = screen.at[p])
        BY <1>2, <2>2, <4>1 DEF Shown
      <4> HIDE DEF y
      <4> QED BY <2>6, <2>7, <3>2, <4>2
    <3> QED BY <3>1, <3>2
  <2>9. CASE y + 1 = Y
    <3>1. \A p \in Con!Places : p[1] < y + 1
      BY <2>9, DrawingAt
    <3>2. Con!Drawing(e.buffer) = screen.at
      <4>1. \A p \in Con!Places : Con!Drawing(e.buffer)[p] = screen.at[p]
        BY <2>8, <3>1
      <4>2. screen.at = [p \in Con!Places |-> screen.at[p]]
        BY DEF ConsolesInv, KernelInv, ScreenTypes
      <4>3. Con!Drawing(e.buffer) = [p \in Con!Places |-> Con!Drawing(e.buffer)[p]]
        BY DEF Con!Drawing
      <4> HIDE DEF y
      <4> QED BY <4>1, <4>2, <4>3
    <3>3. e.moved \/ e.window = screen.at
      <4> SUFFICES ASSUME ~e.moved PROVE e.window = screen.at
        OBVIOUS
      <4>1. \A p \in Con!Places : e.window[p] = screen.at[p]
        BY <2>8, <3>1
      <4>2. screen.at = [p \in Con!Places |-> screen.at[p]]
        BY DEF ConsolesInv, KernelInv, ScreenTypes
      <4>3. e.window = [p \in Con!Places |-> e.window[p]]
        BY <2>7 DEF IsWidget
      <4> HIDE DEF y
      <4> QED BY <4>1, <4>2, <4>3
    <3>4. replay'.at = "cursor"
      BY <1>6, <2>9
    <3>5. Shown(e, replay', screen')
      BY <1>1, <2>7, <3>2, <3>3, <3>4 DEF Shown
    <3> QED BY <2>1, <2>4, <3>5
  <2>10. CASE y + 1 # Y
    <3>1. replay'.at = "screen" /\ replay'.y = y + 1
      <4> HIDE DEF y
      <4> QED BY <1>6, <2>10
    <3> HIDE DEF y
    <3>2. Shown(e, replay', screen')
      BY <1>1, <2>7, <2>8, <3>1 DEF Shown
    <3> QED BY <2>1, <2>4, <3>2
  <2> QED BY <2>9, <2>10
<1> QED BY <1>1, <1>7, <1>8 DEF ConsolesInv

LEMMA ConsolesInvCursor == ASSUME ConsolesInv, Con!ReplayCursor PROVE ConsolesInv'
<1> USE DEF Con!ReplayCursor
<1> DEFINE m == [type |-> "cursor", at |-> kernel.cursor]
<1>1. KernelInv' /\ user' = user /\ pending' = pending /\ drawn' = drawn /\ screen' = screen
  BY KernelInvKept
<1>2. /\ queue' = Append(queue, m) /\ replay' = [at |-> "done"] /\ replay'.at = "done"
      /\ m.type = "cursor" /\ m.at = kernel.cursor /\ replay.at = "cursor"
  OBVIOUS
<1> HIDE DEF m
<1>3. /\ \E S : queue' \in Seq(S)
      /\ \A v : Ends(v, user, queue) => Ends(Con!WidgetEvent(v, m), user', queue')
  BY <1>1, <1>2, Replayed
<1>4. ReplayTypes'
  BY <1>1, <1>2, <1>3 DEF ConsolesInv, ReplayTypes
<1>5. ReplayInv'
  <2> SUFFICES ASSUME ~drawn PROVE \E v : Ends(v, user', queue') /\ Shown(v, replay', screen')
    BY <1>1, <1>2 DEF ReplayInv
  <2>1. pending = Con!Nothing /\ kernel.cursor = screen.cursor
    BY <1>2 DEF ConsolesInv, ReplayInv, KernelInv, Agrees
  <2>2. PICK v : Ends(v, user, queue) /\ Shown(v, replay, screen)
    BY <1>2 DEF ConsolesInv, ReplayInv
  <2> DEFINE e == Con!WidgetEvent(v, m)
  <2>3. WidgetDone(e, v, m)
    BY <1>2, <2>2, WidgetDraws DEF Shown, Drawable
  <2>4. Ends(e, user', queue')
    BY <1>3, <2>2
  <2> HIDE DEF e
  <2>5. /\ IsWidget(e) /\ e.cursor = screen.cursor /\ Con!Drawing(e.buffer) = Con!Drawing(v.buffer)
        /\ e.window = v.window /\ e.moved = (v.moved \/ FALSE)
    BY <1>2, <2>1, <2>3 DEF WidgetDone, CursorOp, ScreenOp
  <2>6. Con!Drawing(v.buffer) = screen.at /\ (v.moved \/ v.window = screen.at) /\ v.moved \in BOOLEAN
    BY <1>2, <2>2 DEF Shown, IsWidget
  <2>7. Shown(e, replay', screen')
    BY <1>1, <1>2, <2>5, <2>6 DEF Shown
  <2> QED BY <2>4, <2>7
<1> QED BY <1>1, <1>4, <1>5 DEF ConsolesInv

LEMMA ConsolesInvReads == ASSUME ConsolesInv, Con!ConsoleReads PROVE ConsolesInv'
<1> USE DEF Con!ConsoleReads
<1>1. KernelInv'
  BY KernelInvKept
<1>2. PICK S : queue \in Seq(S)
  BY DEF ConsolesInv, ReplayTypes
<1>3. /\ queue' \in Seq(S)
      /\ \A v : Ends(v, user, queue) => Ends(v, user', queue')
  <2>1. Tail(queue) \in Seq(S)
    BY <1>2, HeadTailProperties
  <2> QED BY <1>2, <2>1, EndsTail
<1>4. user' # Con!Nothing
  <2> DEFINE v == Con!WidgetEvent(user, Head(queue))
  <2>1. v = [buffer |-> v.buffer, cursor |-> v.cursor, window |-> v.window, moved |-> v.moved]
    BY WidgetFields
  <2>2. user' = v
    OBVIOUS
  <2> HIDE DEF v
  <2> QED BY <2>1, <2>2, RecordIsSome
<1>5. ReplayTypes'
  BY <1>3, <1>4 DEF ConsolesInv, ReplayTypes
<1>6. \A v : Shown(v, replay, screen) => Shown(v, replay', screen')
  BY DEF Shown
<1>7. ReplayInv'
  BY <1>3, <1>6 DEF ConsolesInv, ReplayInv
<1> QED BY <1>1, <1>5, <1>7 DEF ConsolesInv

LEMMA ConsolesInvDetach == ASSUME ConsolesInv, Con!Detach PROVE ConsolesInv'
<1> USE DEF Con!Detach
<1>1. KernelInv'
  BY KernelInvKept
<1>2. queue' \in Seq({}) /\ replay'.at = "none"
  BY EmptySeq
<1> QED BY <1>1, <1>2 DEF ConsolesInv, ReplayTypes, ReplayInv

LEMMA ConsolesInvNext == ConsolesInv /\ [Con!Next]_Con!conVars => ConsolesInv'
<1> SUFFICES ASSUME ConsolesInv, [Con!Next]_Con!conVars PROVE ConsolesInv'
  OBVIOUS
<1>1. CASE UNCHANGED Con!conVars
  <2> USE <1>1 DEF Con!conVars
  <2>1. KernelInv'
    BY KernelInvKept
  <2>2. \A v : Shown(v, replay, screen) <=> Shown(v, replay', screen')
    BY DEF Shown
  <2> QED BY <2>1, <2>2 DEF ConsolesInv, ReplayTypes, ReplayInv
<1> QED BY <1>1, ConsolesInvGuest, ConsolesInvMonitor, ConsolesInvAttach, ConsolesInvBuffer,
           ConsolesInvScreen, ConsolesInvCursor, ConsolesInvReads, ConsolesInvDetach DEF Con!Next

LEMMA ConsolesOk == ConsolesInv => Con!ConsolesExact
<1> SUFFICES ASSUME ConsolesInv, pending = Con!Nothing PROVE Con!KernelExact /\ Con!UserExact
  BY DEF Con!ConsolesExact, Con!KernelExact, Con!UserExact
<1>1. Con!KernelExact
  <2>1. Agrees(kernel)
    BY DEF ConsolesInv, KernelInv
  <2>2. ASSUME NEW r \in 1..(MaxY - Y), NEW c \in Con!Cols
        PROVE  kernel.buffer[(r - 1) * X + c] = history[Len(history) - (MaxY - Y) + r][c]
    <3>1. Top = MaxY - Y /\ Top \in Nat /\ Len(history) \in Nat
      BY Sizes, LenProperties DEF Top, ConsolesInv, KernelInv, ScreenTypes
    <3>2. r - 1 \in 0..(Top - 1) /\ Len(history) - Top + (r - 1) + 1 = Len(history) - (MaxY - Y) + r
      BY <3>1
    <3>3. CellAt(kernel.buffer, r - 1, c) = history[Len(history) - Top + (r - 1) + 1][c]
      BY <2>1, <3>2 DEF Agrees, Past
    <3> QED BY <3>2, <3>3 DEF CellAt, Line
  <2> QED BY <2>1, <2>2 DEF Con!KernelExact, Agrees
<1>2. Con!UserExact
  <2> SUFFICES ASSUME replay.at = "done", queue = <<>>, ~drawn
               PROVE  /\ Con!Drawing(user.buffer) = screen.at /\ user.cursor = screen.cursor
                      /\ user.moved \/ user.window = screen.at
    BY DEF Con!UserExact
  <2>1. PICK v : Ends(v, user, queue) /\ Shown(v, replay, screen)
    BY DEF ConsolesInv, ReplayInv
  <2>2. v = user
    BY <2>1, EndsEmpty
  <2> QED BY <2>1, <2>2 DEF Shown
<1> QED BY <1>1, <1>2

-----------------------------------------------------------------------------
(* ConsoleWidget.                                                          *)

\* What the mouse selects lies on the screen, or in the row and column after it.
AreaInv ==
    /\ area.sx \in 0..WindowX /\ area.wx \in 0..WindowX
    /\ area.sy \in 0..WindowY /\ area.wy \in 0..WindowY
    /\ area.start \in Int /\ area.end \in Int /\ area.start >= 0

\* The selection is there only while the mouse is down, and the marks are where it is.
WidgetInv ==
    /\ cell \in [Widget!Cells -> BOOLEAN]
    /\ mouse_copy \in BOOLEAN /\ rect \in BOOLEAN /\ beyond \in BOOLEAN /\ smeared \in BOOLEAN
    /\ anchor[1] \in 0..WindowX /\ anchor[2] \in 0..WindowY
    /\ scroll_lines \in (WindowY - WindowMaxY)..0
    /\ AreaInv
    /\ ~mouse_copy => area = Widget!NoArea
    /\ Widget!Runs => /\ \A i \in Widget!Cells : cell[i] <=> i \in Widget!Marked(rect)
                      /\ Widget!Marked(rect) \subseteq Widget!Cells

LEMMA WindowSizes ==
    /\ WindowX \in Nat /\ WindowX > 0 /\ WindowY \in Nat /\ WindowY > 0
    /\ WindowMaxY \in Nat /\ WindowMaxY >= WindowY
  BY HostPartsAssumption DEF HostPartsAssumption, Widget!SizesPositive

LEMMA NothingMarked ==
    ASSUME area = Widget!NoArea, scroll_lines \in Int, NEW drag \in BOOLEAN
    PROVE  Widget!Marked(drag) = {}
<1> DEFINE i == (WindowMaxY - WindowY + scroll_lines + 0) * WindowX + 0
<1>1. i \in Int
  BY WindowSizes
<1>2. Widget!Index(0, 0) = i
  BY DEF Widget!Index
<1> HIDE DEF i
<1>3. i..(i - 1) = {} /\ 0..(0 + 0 - 1) = {}
  BY <1>1
<1>4. CASE drag
  BY <1>3, <1>4 DEF Widget!Marked, Widget!NoArea
<1>5. CASE ~drag
  BY <1>2, <1>3, <1>5 DEF Widget!Marked, Widget!NoArea
<1> QED BY <1>4, <1>5

LEMMA NoAreaFits == area = Widget!NoArea => AreaInv
  BY WindowSizes DEF AreaInv, Widget!NoArea

LEMMA WidgetInvInit == Widget!Init => WidgetInv
<1> SUFFICES ASSUME Widget!Init PROVE WidgetInv
  OBVIOUS
<1> USE DEF Widget!Init
<1>1. scroll_lines \in (WindowY - WindowMaxY)..0 /\ scroll_lines \in Int
  BY WindowSizes
<1>2. Widget!Marked(rect) = {}
  BY <1>1, NothingMarked
<1>3. anchor[1] \in 0..WindowX /\ anchor[2] \in 0..WindowY
  BY WindowSizes
<1>4. AreaInv
  BY NoAreaFits
<1> QED BY <1>1, <1>2, <1>3, <1>4 DEF WidgetInv

LEMMA Differ ==
    ASSUME NEW S, NEW i, NEW v \in BOOLEAN
    PROVE  /\ ((i \in S) # v) \in BOOLEAN
           /\ ((i \in S) # v) = ~(i \in S <=> v)
<1>1. CASE v = TRUE /\ i \in S
  BY <1>1
<1>2. CASE v = TRUE /\ i \notin S
  BY <1>2
<1>3. CASE v = FALSE /\ i \in S
  BY <1>3
<1>4. CASE v = FALSE /\ i \notin S
  BY <1>4
<1> QED BY <1>1, <1>2, <1>3, <1>4

\* A selection that is taken away leaves no mark.
LEMMA Unmarked ==
    ASSUME WidgetInv, Widget!Runs
    PROVE  Widget!Inverted(cell, Widget!Marked(rect)) = [i \in Widget!Cells |-> FALSE]
<1>1. ASSUME NEW i \in Widget!Cells PROVE ((i \in Widget!Marked(rect)) # cell[i]) = FALSE
  <2>1. cell[i] \in BOOLEAN /\ (cell[i] <=> i \in Widget!Marked(rect))
    BY DEF WidgetInv
  <2> QED BY <2>1, Differ
<1> QED BY <1>1 DEF Widget!Inverted

\* With no selection the marks are right when no cell is marked.
LEMMA NothingSelected ==
    ASSUME area' = Widget!NoArea, scroll_lines' \in (WindowY - WindowMaxY)..0, rect' \in BOOLEAN,
           mouse_copy' \in BOOLEAN, beyond' \in BOOLEAN, smeared' \in BOOLEAN,
           anchor'[1] \in 0..WindowX, anchor'[2] \in 0..WindowY,
           Widget!Runs' => cell' = [i \in Widget!Cells |-> FALSE],
           cell' \in [Widget!Cells -> BOOLEAN]
    PROVE  WidgetInv'
<1>1. (area = Widget!NoArea => AreaInv)'
  BY NoAreaFits, PTL
<1>2. Widget!Marked(rect)' = {}
  <2> DEFINE i == (WindowMaxY - WindowY + scroll_lines' + 0) * WindowX + 0
  <2>1. i \in Int
    BY WindowSizes
  <2>2. Widget!Index(0, 0)' = i
    BY DEF Widget!Index
  <2> HIDE DEF i
  <2>3. i..(i - 1) = {} /\ 0..(0 + 0 - 1) = {}
    BY <2>1
  <2>4. CASE rect'
    BY <2>3, <2>4 DEF Widget!Marked, Widget!NoArea
  <2>5. CASE ~rect'
    BY <2>2, <2>3, <2>5 DEF Widget!Marked, Widget!NoArea
  <2> QED BY <2>4, <2>5
<1>3. Widget!Runs' => /\ \A i \in Widget!Cells : cell'[i] <=> i \in Widget!Marked(rect)'
                     /\ Widget!Marked(rect)' \subseteq Widget!Cells
  BY <1>2
<1> QED BY <1>1, <1>3 DEF WidgetInv, Widget!NoArea

LEMMA WidgetInvPush ==
    ASSUME WidgetInv, NEW x \in 0..WindowX, NEW y \in 0..WindowY, NEW drag \in BOOLEAN,
           Widget!MousePush(x, y, drag)
    PROVE  WidgetInv'
<1> USE DEF Widget!MousePush
<1>1. cell' = [i \in Widget!Cells |-> FALSE]
  BY Unmarked
<1>2. cell' \in [Widget!Cells -> BOOLEAN]
  BY <1>1
<1>3. anchor'[1] \in 0..WindowX /\ anchor'[2] \in 0..WindowY
  OBVIOUS
<1>4. /\ scroll_lines' \in (WindowY - WindowMaxY)..0 /\ rect' \in BOOLEAN
      /\ mouse_copy' \in BOOLEAN /\ beyond' \in BOOLEAN /\ smeared' \in BOOLEAN
  BY DEF WidgetInv
<1> QED BY <1>1, <1>2, <1>3, <1>4, NothingSelected

LEMMA AreaOf ==
    ASSUME WidgetInv, NEW x \in 0..WindowX, NEW y \in 0..WindowY, area' = Widget!Area(x, y)
    PROVE  AreaInv'
<1> USE WindowSizes
<1>1. CASE rect
  <2> DEFINE d == Widget!Distance(anchor[1], x)
             e == Widget!Distance(anchor[2], y)
             sx == Widget!Lesser(anchor[1], x)
             wx == IF d = 0 THEN 1 ELSE d
             sy == Widget!Lesser(anchor[2], y)
             wy == IF e = 0 THEN 1 ELSE e
  <2>1. d \in 0..WindowX /\ e \in 0..WindowY /\ sx \in 0..WindowX /\ sy \in 0..WindowY
    BY DEF WidgetInv, Widget!Distance, Widget!Lesser
  <2>2. area' = [area EXCEPT !.sx = sx, !.wx = IF sx + wx > WindowX THEN WindowX - sx ELSE wx,
                             !.sy = sy, !.wy = IF sy + wy > WindowY THEN WindowY ELSE wy]
    BY <1>1 DEF Widget!Area
  <2> HIDE DEF d, e, sx, sy
  <2>3. wx \in 1..WindowX /\ wy \in 1..WindowY
    BY <2>1
  <2> HIDE DEF wx, wy
  <2>4. /\ (IF sx + wx > WindowX THEN WindowX - sx ELSE wx) \in 0..WindowX
        /\ (IF sy + wy > WindowY THEN WindowY ELSE wy) \in 0..WindowY
    BY <2>1, <2>3
  <2> QED BY <2>1, <2>2, <2>4 DEF WidgetInv, AreaInv
<1>2. CASE ~rect
  <2> DEFINE from == anchor[1] + anchor[2] * WindowX
             to == x + y * WindowX
  <2>1. from \in Int /\ from >= 0 /\ to \in Int /\ to >= 0
    <3>1. \A r, n \in Nat : r * n \in Nat
      OBVIOUS
    <3>2. anchor[2] * WindowX \in Nat /\ y * WindowX \in Nat /\ anchor[1] \in Nat /\ x \in Nat
      <4>1. anchor[2] \in Nat /\ y \in Nat /\ anchor[1] \in Nat /\ x \in Nat
        BY DEF WidgetInv
      <4> QED BY <3>1, <4>1
    <3> QED BY <3>2
  <2>2. area' = [area EXCEPT !.start = Widget!Lesser(from, to), !.end = from + to - Widget!Lesser(from, to)]
    BY <1>2 DEF Widget!Area
  <2> HIDE DEF from, to
  <2>3. /\ Widget!Lesser(from, to) \in Int /\ Widget!Lesser(from, to) >= 0
        /\ from + to - Widget!Lesser(from, to) \in Int
    BY <2>1 DEF Widget!Lesser
  <2> QED BY <2>2, <2>3 DEF WidgetInv, AreaInv
<1> QED BY <1>1, <1>2 DEF WidgetInv

LEMMA WidgetInvDrag ==
    ASSUME WidgetInv, NEW x \in 0..WindowX, NEW y \in 0..WindowY, Widget!MouseDrag(x, y)
    PROVE  WidgetInv'
<1> USE DEF Widget!MouseDrag
<1>1. cell' = Widget!Inverted([i \in Widget!Cells |-> FALSE], Widget!Marked(rect)')
  BY Unmarked
<1>2. AreaInv'
  BY AreaOf
<1>3. /\ cell' \in [Widget!Cells -> BOOLEAN]
      /\ \A i \in Widget!Cells : cell'[i] <=> i \in Widget!Marked(rect)'
  <2> DEFINE S == Widget!Marked(rect)'
  <2>1. cell' = [i \in Widget!Cells |-> (i \in S) # FALSE]
    BY <1>1 DEF Widget!Inverted
  <2> HIDE DEF S
  <2>2. \A i \in Widget!Cells : ((i \in S) # FALSE) \in BOOLEAN /\ (((i \in S) # FALSE) = ~(i \in S <=> FALSE))
    BY Differ
  <2> QED BY <2>1, <2>2 DEF S
<1>4. Widget!Runs' => Widget!Marked(rect)' \subseteq Widget!Cells
  BY DEF Widget!Runs
<1>6. beyond' \in BOOLEAN
  OBVIOUS
<1>5. mouse_copy' /\ mouse_copy' \in BOOLEAN
  BY DEF WidgetInv
<1> QED BY <1>2, <1>3, <1>4, <1>5, <1>6 DEF WidgetInv

LEMMA WidgetInvScroll ==
    ASSUME WidgetInv, NEW delta \in Int, Widget!ScrollBack(delta)
    PROVE  WidgetInv'
<1> USE DEF Widget!ScrollBack
<1>1. scroll_lines' \in (WindowY - WindowMaxY)..0 /\ scroll_lines \in Int
  BY WindowSizes DEF WidgetInv
<1>2. area' = Widget!NoArea /\ cell' = [i \in Widget!Cells |-> FALSE] /\ mouse_copy' = FALSE
  <2>1. CASE mouse_copy
    BY <2>1, Unmarked DEF Widget!Clear
  <2>2. CASE ~mouse_copy
    <3>1. area = Widget!NoArea /\ rect \in BOOLEAN /\ mouse_copy = FALSE
      BY <2>2 DEF WidgetInv
    <3>2. Widget!Marked(rect) = {}
      BY <1>1, <3>1, NothingMarked
    <3>3. cell = [i \in Widget!Cells |-> FALSE]
      BY <3>2 DEF WidgetInv
    <3> QED BY <2>2, <3>1, <3>3
  <2> QED BY <2>1, <2>2 DEF WidgetInv
<1>3. cell' \in [Widget!Cells -> BOOLEAN]
  BY <1>2
<1>4. anchor'[1] \in 0..WindowX /\ anchor'[2] \in 0..WindowY
  BY WindowSizes DEF WidgetInv, Widget!Clear
<1>5. rect' \in BOOLEAN /\ beyond' \in BOOLEAN /\ smeared' \in BOOLEAN /\ mouse_copy' \in BOOLEAN
  BY <1>2 DEF WidgetInv
<1> QED BY <1>1, <1>2, <1>3, <1>4, <1>5, NothingSelected

LEMMA WidgetInvEvent ==
    ASSUME WidgetInv, NEW changed, Widget!Event(changed)
    PROVE  WidgetInv'
<1> USE DEF Widget!Event
<1> DEFINE written == [i \in Widget!Cells |-> IF i \in changed THEN FALSE ELSE cell[i]]
<1>1. scroll_lines' \in (WindowY - WindowMaxY)..0 /\ scroll_lines \in Int
  BY WindowSizes DEF WidgetInv
<1>2. /\ area' = Widget!NoArea /\ mouse_copy' = FALSE
      /\ cell' \in [Widget!Cells -> BOOLEAN]
      /\ anchor'[1] \in 0..WindowX /\ anchor'[2] \in 0..WindowY
      /\ ~smeared' => cell' = [i \in Widget!Cells |-> FALSE]
  <2>1. CASE mouse_copy
    <3>1. cell' = [i \in Widget!Cells |-> (i \in Widget!Marked(rect)) # written[i]]
      BY <2>1 DEF Widget!Inverted
    <3>2. ASSUME ~smeared', NEW i \in Widget!Cells
          PROVE  ~((i \in Widget!Marked(rect)) # written[i])
      <4>1. i \in Widget!Marked(rect) => i \notin changed
        BY <3>2
      <4>2. cell[i] <=> i \in Widget!Marked(rect)
        BY DEF WidgetInv
      <4>3. cell[i] \in BOOLEAN
        BY DEF WidgetInv
      <4>4. written[i] \in BOOLEAN /\ (written[i] <=> i \in Widget!Marked(rect))
        BY <4>1, <4>2, <4>3
      <4> HIDE DEF written
      <4> QED BY <4>4, Differ
    <3>3. ~smeared' => cell' = [i \in Widget!Cells |-> FALSE]
      <4> HIDE DEF written
      <4> QED BY <3>1, <3>2
    <3>4. cell' \in [Widget!Cells -> BOOLEAN]
      <4> HIDE DEF written
      <4> QED BY <3>1
    <3>5. area' = Widget!NoArea /\ mouse_copy' = FALSE /\ anchor' = <<0, 0>>
      BY <2>1
    <3> QED BY <3>3, <3>4, <3>5, WindowSizes
  <2>2. CASE ~mouse_copy
    <3>1. area = Widget!NoArea /\ rect \in BOOLEAN /\ mouse_copy = FALSE
      BY <2>2 DEF WidgetInv
    <3>2. Widget!Marked(rect) = {}
      BY <1>1, <3>1, NothingMarked
    <3>3. cell = [i \in Widget!Cells |-> FALSE]
      BY <3>2 DEF WidgetInv
    <3>4. cell' = written /\ area' = area /\ anchor' = anchor /\ mouse_copy' = mouse_copy
      BY <2>2
    <3>5. written = [i \in Widget!Cells |-> FALSE]
      BY <3>3
    <3> HIDE DEF written
    <3> QED BY <3>1, <3>4, <3>5 DEF WidgetInv
  <2> QED BY <2>1, <2>2 DEF WidgetInv
<1>3. rect' \in BOOLEAN /\ beyond' \in BOOLEAN /\ smeared' \in BOOLEAN /\ mouse_copy' \in BOOLEAN
  BY <1>2 DEF WidgetInv
<1>4. Widget!Runs' => ~smeared'
  BY DEF Widget!Runs
<1> QED BY <1>1, <1>2, <1>3, <1>4, NothingSelected

LEMMA WidgetInvSet == WidgetInv /\ Widget!SetConsole => WidgetInv'
<1> SUFFICES ASSUME WidgetInv, Widget!SetConsole PROVE WidgetInv'
  OBVIOUS
<1> USE DEF Widget!SetConsole
<1>1. Widget!Marked(rect)' = Widget!Marked(rect) /\ AreaInv' = AreaInv
  BY DEF Widget!Marked, Widget!Index, AreaInv
<1>2. Widget!Runs' => Widget!Marked(rect) = {}
  BY DEF Widget!Runs
<1> QED BY <1>1, <1>2 DEF WidgetInv

LEMMA WidgetInvNext == WidgetInv /\ [Widget!Next]_Widget!widgetVars => WidgetInv'
<1> SUFFICES ASSUME WidgetInv, [Widget!Next]_Widget!widgetVars PROVE WidgetInv'
  OBVIOUS
<1>1. ASSUME NEW x \in 0..WindowX, NEW y \in 0..WindowY, Widget!MouseDrag(x, y) PROVE WidgetInv'
  BY <1>1, WidgetInvDrag
<1>2. ASSUME NEW x \in 0..WindowX, NEW y \in 0..WindowY, NEW drag \in BOOLEAN, Widget!MousePush(x, y, drag)
      PROVE WidgetInv'
  BY <1>2, WidgetInvPush
<1>3. ASSUME NEW delta \in {-WindowY, -1, 1, WindowY}, Widget!ScrollBack(delta) PROVE WidgetInv'
  <2>1. delta \in Int
    BY WindowSizes
  <2> QED BY <1>3, <2>1, WidgetInvScroll
<1>4. ASSUME NEW changed, Widget!Event(changed) PROVE WidgetInv'
  BY <1>4, WidgetInvEvent
<1>5. CASE Widget!SetConsole
  BY <1>5, WidgetInvSet
<1>6. CASE UNCHANGED Widget!widgetVars
  <2> USE <1>6 DEF Widget!widgetVars
  <2>1. Widget!Marked(rect)' = Widget!Marked(rect) /\ AreaInv' = AreaInv /\ Widget!Runs' = Widget!Runs
    BY DEF Widget!Marked, Widget!Index, AreaInv, Widget!Runs
  <2> QED BY <2>1 DEF WidgetInv
<1> QED BY <1>1, <1>2, <1>3, <1>4, <1>5, <1>6 DEF Widget!Next

\* Products of numbers that are not more than the sizes of the screen.
LEMMA Products ==
    ASSUME NEW a \in Nat, NEW b \in Nat, NEW c \in Nat, NEW d \in Nat, a <= c, b <= d
    PROVE  a * b <= c * d
<1> DEFINE k == c - a
           l == d - b
<1>1. k \in Nat /\ l \in Nat /\ c = a + k /\ d = b + l
  OBVIOUS
<1> HIDE DEF k, l
<1>2. c * d = a * b + a * l + k * b + k * l
  BY <1>1
<1>3. a * b \in Nat /\ a * l \in Nat /\ k * b \in Nat /\ k * l \in Nat
  <2>1. \A p, q \in Nat : p * q \in Nat
    OBVIOUS
  <2> QED BY <1>1, <2>1
<1> QED BY <1>2, <1>3

LEMMA TextFits ==
    ASSUME WidgetInv
    PROVE  Widget!Copied <= Widget!screen_size_bytes \/ (~rect /\ area.end > WindowX * WindowY)
<1>1. CASE rect
  <2>1. /\ area.wx + 2 \in Nat /\ area.wy \in Nat /\ WindowX + 2 \in Nat /\ WindowY \in Nat
        /\ area.wx + 2 <= WindowX + 2 /\ area.wy <= WindowY
    BY WindowSizes DEF WidgetInv, AreaInv
  <2>2. (area.wx + 2) * area.wy <= (WindowX + 2) * WindowY
    BY <2>1, Products
  <2> QED BY <1>1, <2>2 DEF Widget!Copied, Widget!screen_size_bytes
<1>2. CASE ~rect
  <2>1. area.start \in Nat /\ area.end \in Int
    BY DEF WidgetInv, AreaInv
  <2>2. WindowX * WindowY <= (WindowX + 2) * WindowY
    BY WindowSizes, Products
  <2>3. WindowX * WindowY \in Int /\ (WindowX + 2) * WindowY \in Int
    BY WindowSizes
  <2>4. area.end <= WindowX * WindowY => area.end - area.start <= (WindowX + 2) * WindowY
    <3> DEFINE p == WindowX * WindowY
               q == (WindowX + 2) * WindowY
    <3>1. p \in Int /\ q \in Int /\ p <= q
      BY <2>2, <2>3
    <3> HIDE DEF p, q
    <3>2. area.end <= p => area.end - area.start <= q
      BY <2>1, <3>1
    <3> QED BY <3>2 DEF p, q
  <2>5. area.end <= WindowX * WindowY \/ area.end > WindowX * WindowY
    <3> DEFINE p == WindowX * WindowY
    <3>1. p \in Int
      BY <2>3
    <3> HIDE DEF p
    <3>2. area.end <= p \/ area.end > p
      BY <2>1, <3>1
    <3> QED BY <3>2 DEF p
  <2> QED BY <1>2, <2>4, <2>5 DEF Widget!Copied, Widget!screen_size_bytes
<1> QED BY <1>1, <1>2 DEF WidgetInv

LEMMA MarksOk == WidgetInv => Widget!MarksExact
<1> SUFFICES ASSUME WidgetInv, Widget!Runs PROVE Widget!MarksExact
  BY DEF Widget!MarksExact
<1>1. {i \in Widget!Cells : cell[i]} = Widget!Marked(rect)
  BY DEF WidgetInv
<1>2. (~mouse_copy => area = Widget!NoArea) /\ scroll_lines \in (WindowY - WindowMaxY)..0
  BY DEF WidgetInv
<1>3. Widget!Copied <= Widget!screen_size_bytes \/ (~rect /\ area.end > WindowX * WindowY)
  BY TextFits
<1> QED BY <1>1, <1>2, <1>3 DEF Widget!MarksExact

\* Whatever the guest draws, and however often a console attaches: the monitor's console is the
\* guest's screen with the lines that left it above, and a console that has read its messages
\* shows it too, unless the guest drew while the lines were sent; the marks in its window are
\* those of the selection.
THEOREM ScreensStayExact == Con!Spec /\ Widget!Spec => []ScreensExact
<1>1. Con!Spec => []Con!ConsolesExact
  BY ConsolesInvInit, ConsolesInvNext, ConsolesOk, PTL DEF Con!Spec
<1>2. Widget!Spec => []Widget!MarksExact
  BY WidgetInvInit, WidgetInvNext, MarksOk, PTL DEF Widget!Spec
<1>3. Con!ConsolesExact /\ Widget!MarksExact => ScreensExact
  BY DEF ScreensExact
<1> QED BY <1>1, <1>2, <1>3, PTL
=============================================================================
