---------------------------- MODULE NetDaemons -----------------------------
(***************************************************************************)
(* The programs that serve the network cards and serial ports of a VM:     *)
(* what they attach to, and the bridge, whose thread stops itself when its *)
(* adapter goes away and is started again by the main loop.                *)
(***************************************************************************)
EXTENDS Integers, Sequences, SequencesExt, FiniteSets, FiniteSetsExt

CONSTANTS
    MaxUnits,       \* units of a kind
    MaxTries,       \* bound: how often the adapter is opened again (20)
    Starts          \* the programs, their parameters and the adapters looked at

Absent == -1
Bridges == {"bridged", "ndis"}

\* An adapter has a connection "none", "unnamed" or "named"; its name is the one asked for
\* ("exact"), contains it ("partial") or neither; it may have an address and may be a TAP.
Adapters ==
    [connection : {"none", "unnamed", "named"}, name : {"exact", "partial", "other"},
     address : BOOLEAN, tap : BOOLEAN]
Params == [inst : Int, unit : Int, mac : BOOLEAN, name : BOOLEAN]
Kinds == Bridges \cup {"tap", "linux tap", "serial", "linux serial", "slirp"}

StartsAssumption ==
    /\ MaxUnits \in Nat \ {0} /\ MaxTries \in Nat \ {0}
    /\ \A s \in Starts : s.kind \in Kinds /\ s.params \in Params /\ s.adapters \in Seq(Adapters)

VARIABLES
    kind, params, adapters,
    pc,             \* where the program is
    chosen,         \* the adapter it uses, or 0
    adhandle,       \* is the adapter open
    attached,       \* the instance and the unit it is attached as, or <<>>
    raw,            \* the terminal is in raw mode
    thread,         \* where pcap2Daemon is
    suspended,      \* what it told the main loop
    tries,
    stale           \* the main loop saw the word of a thread it had already resumed

netdVars == <<kind, params, adapters, pc, chosen, adhandle, attached, raw, thread, suspended,
              tries, stale>>

Init ==
    /\ \E s \in Starts : kind = s.kind /\ params = s.params /\ adapters = s.adapters
    /\ pc = "parse" /\ chosen = 0 /\ adhandle = FALSE /\ attached = <<>> /\ raw = FALSE
    /\ thread = "none" /\ suspended = FALSE /\ tries = 0 /\ stale = FALSE

Fixed == UNCHANGED <<kind, params, adapters>>
NoBridge == UNCHANGED <<thread, suspended, tries, stale>>
-----------------------------------------------------------------------------
\* handle_parameters of each program: the bridges want all three, the serial ones take the unit 0
\* when there is none and refuse the instance 0, those of one base class take the unit 0.
UnitFits == params.unit \in 0..(MaxUnits - 1) \cup {Absent}
BridgedAccepts == UnitFits /\ params.unit # Absent /\ params.inst # Absent /\ params.mac
NdisAccepts == BridgedAccepts
SlirpAccepts == UnitFits /\ params.unit # Absent /\ params.inst # Absent
BaseAccepts == UnitFits /\ params.inst # Absent
SerialAccepts == BaseAccepts /\ params.inst # 0
LinuxSerialAccepts == SerialAccepts

Accepts ==
    CASE kind = "bridged"      -> BridgedAccepts
      [] kind = "ndis"         -> NdisAccepts
      [] kind = "slirp"        -> SlirpAccepts
      [] kind = "serial"       -> SerialAccepts
      [] kind = "linux serial" -> LinuxSerialAccepts
      [] OTHER                 -> BaseAccepts

Unit == IF params.unit = Absent THEN 0 ELSE params.unit

Parse ==
    /\ pc = "parse"
    /\ pc' = IF ~Accepts THEN "done"
             ELSE IF kind \in Bridges \cup {"tap", "linux tap"} THEN "search" ELSE "attach"
    /\ UNCHANGED <<chosen, adhandle, attached, raw>> /\ NoBridge /\ Fixed

\* One more adapter of the list. Scans stop at what they look for, and two of them
\* fail at a connection without a name.
Found(i, stop) == [found |-> i, stop |-> stop, failed |-> FALSE]

Failed == [found |-> 0, stop |-> TRUE, failed |-> TRUE]

Bridged(scan, i) ==
    LET a == adapters[i] IN
    IF a.connection # "named" THEN scan
    ELSE IF params.name
         THEN IF a.name = "exact" THEN Found(i, TRUE)
              ELSE IF a.name = "partial" /\ scan.found = 0 THEN Found(i, FALSE)
              ELSE scan
         ELSE IF a.address THEN Found(i, TRUE) ELSE scan

\* Mutant of Ndis: a later adapter whose name contains the one asked for is taken.
Ndis_LastPartial(scan, i) ==
    LET a == adapters[i] IN
    IF a.connection = "none" THEN scan
    ELSE IF a.connection = "unnamed" THEN Failed
    ELSE IF ~params.name \/ a.name = "exact" THEN Found(i, TRUE)
    ELSE IF a.name = "partial" THEN Found(i, FALSE)
    ELSE scan

\* It takes the first without a name, with an address or not.
Ndis(scan, i) ==
    LET a == adapters[i] IN
    IF a.connection = "none" THEN scan
    ELSE IF a.connection = "unnamed" THEN Failed
    ELSE IF ~params.name \/ a.name = "exact" THEN Found(i, TRUE)
    ELSE IF a.name = "partial" /\ scan.found = 0 THEN Found(i, FALSE)
    ELSE scan

Tap(scan, i) ==
    LET a == adapters[i] IN
    IF a.connection = "none" THEN scan
    ELSE IF a.connection = "unnamed" THEN Failed
    ELSE IF a.tap /\ (~params.name \/ a.name = "exact") THEN Found(i, TRUE)
    ELSE scan

Look(scan, i) ==
    IF scan.stop THEN scan
    ELSE CASE kind = "bridged" -> Bridged(scan, i)
           [] kind = "ndis"    -> Ndis(scan, i)
           [] OTHER            -> Tap(scan, i)

\* What the scan of the first adapters came to.
Scanned[n \in 0..Len(adapters)] == IF n = 0 THEN Found(0, FALSE) ELSE Look(Scanned[n - 1], n)

\* A TAP of Linux is made, not looked for.
Selected == IF kind = "linux tap" THEN 1 ELSE Scanned[Len(adapters)].found

\* The adapter is opened before the program attaches; the bridge in the driver opens it itself.
Search ==
    /\ pc = "search"
    /\ chosen' = Selected
    /\ \/ chosen' # 0 /\ adhandle' = (kind # "ndis") /\ pc' = "attach"
       \/ /\ chosen' = 0 \/ kind # "ndis"
          /\ UNCHANGED adhandle /\ pc' = "done"
    /\ UNCHANGED <<attached, raw>> /\ NoBridge /\ Fixed

\* co_user_monitor_open
Attach ==
    /\ pc = "attach"
    /\ \/ attached' = <<params.inst, Unit>> /\ pc' = "ready"
       \/ UNCHANGED attached /\ pc' = "done"
    /\ UNCHANGED <<chosen, adhandle, raw>> /\ NoBridge /\ Fixed

\* What each does between. The serial daemon of Windows opens its port, that of Linux takes its
\* terminal, the bridge starts its thread; what binding the bridge of the driver returns is not
\* looked at.
Serves(runs) == pc' = IF runs THEN "run" ELSE "done"

SerialReady(runs) == kind = "serial" /\ UNCHANGED <<raw, thread>>
LinuxSerialReady(runs) == kind = "linux serial" /\ raw' = runs /\ UNCHANGED thread
BridgedReady(runs) ==
    kind = "bridged" /\ thread' = (IF runs THEN "read" ELSE "none") /\ UNCHANGED raw
NdisReady(runs) == kind = "ndis" /\ runs /\ UNCHANGED <<raw, thread>>
SlirpReady(runs) == kind = "slirp" /\ runs /\ UNCHANGED <<raw, thread>>
TapReady(runs) == kind \in {"tap", "linux tap"} /\ runs /\ UNCHANGED <<raw, thread>>

Ready ==
    /\ pc = "ready"
    /\ \E runs \in BOOLEAN :
         /\ Serves(runs)
         /\ \/ SerialReady(runs) \/ LinuxSerialReady(runs) \/ BridgedReady(runs)
            \/ NdisReady(runs) \/ SlirpReady(runs) \/ TapReady(runs)
    /\ UNCHANGED <<chosen, adhandle, attached, suspended, tries, stale>> /\ Fixed

\* The VM is gone: co_reactor_select fails. The terminal is set back.
Leave ==
    /\ pc = "run"
    /\ pc' = "done" /\ raw' = FALSE /\ adhandle' = FALSE
    /\ UNCHANGED <<chosen, attached>> /\ NoBridge /\ Fixed
-----------------------------------------------------------------------------
\* pcap2Daemon. A frame goes to the guest; an error makes the thread stop itself.
ThreadReads ==
    /\ thread = "read" /\ thread' = "mark"
    /\ UNCHANGED <<pc, chosen, adhandle, attached, raw, suspended, tries, stale>> /\ Fixed

ThreadMarks ==
    /\ thread = "mark" /\ suspended' = TRUE /\ thread' = "suspend"
    /\ UNCHANGED <<pc, chosen, adhandle, attached, raw, tries, stale>> /\ Fixed

ThreadSuspends ==
    /\ thread = "suspend" /\ thread' = "stopped"
    /\ UNCHANGED <<pc, chosen, adhandle, attached, raw, suspended, tries, stale>> /\ Fixed

ThreadClears ==
    /\ thread = "clear" /\ suspended' = FALSE /\ thread' = "read"
    /\ UNCHANGED <<pc, chosen, adhandle, attached, raw, tries, stale>> /\ Fixed

\* After a message of the guest the main loop looks whether the thread stopped, and closes
\* the adapter. A thread it resumed may not have said so yet.
Offline ==
    /\ pc = "run" /\ kind = "bridged" /\ suspended
    /\ adhandle' = FALSE /\ tries' = 0 /\ pc' = "reopen"
    /\ stale' = (thread = "clear")
    /\ UNCHANGED <<chosen, attached, raw, thread, suspended>> /\ Fixed

\* co_pcap_open, again and again
Reopen ==
    /\ pc = "reopen"
    /\ \/ adhandle' = TRUE /\ pc' = "resume" /\ UNCHANGED tries
       \/ /\ UNCHANGED adhandle /\ tries' = tries + 1
          /\ pc' = IF tries' = MaxTries THEN "done" ELSE "reopen"
    /\ UNCHANGED <<chosen, attached, raw, thread, suspended, stale>> /\ Fixed

\* ResumeThread does nothing to a thread that has not stopped yet: it stops after.
Resume ==
    /\ pc = "resume" /\ pc' = "run"
    /\ thread' = IF thread = "stopped" THEN "clear" ELSE thread
    /\ stale' = FALSE
    /\ UNCHANGED <<chosen, adhandle, attached, raw, suspended, tries>> /\ Fixed

Next ==
    \/ Parse \/ Search \/ Attach \/ Ready \/ Leave
    \/ ThreadReads \/ ThreadMarks \/ ThreadSuspends \/ ThreadClears
    \/ Offline \/ Reopen \/ Resume

Spec == Init /\ [][Next]_netdVars
-----------------------------------------------------------------------------
\* The adapters a program may use: of the kind it serves, with the name asked for before one
\* that contains it.
Suited ==
    {i \in DOMAIN adapters :
        LET a == adapters[i] IN
        /\ a.connection = "named"
        /\ kind = "tap" => a.tap
        /\ params.name => a.name = "exact" \/ (kind \in Bridges /\ a.name = "partial")
        /\ kind = "bridged" /\ ~params.name => a.address}

Exact == {i \in Suited : adapters[i].name = "exact"}

\* A program that serves a VM uses the adapter a user would expect: one that suits, the first, and
\* never one that only contains the name while another has it; the bridge's thread reads
\* an adapter that is open, and its main loop waits for the guest with the adapter open, but for
\* a thread that had not yet said that it runs again; the terminal is as it was
\* when the program ends.
NetExact ==
    /\ attached # <<>> /\ kind \in Bridges \cup {"tap"} =>
         chosen = IF params.name /\ Exact # {} THEN Min(Exact) ELSE Min(Suited)
    /\ attached # <<>> => attached[1] # Absent /\ attached[2] \in 0..(MaxUnits - 1)
    /\ thread = "read" /\ pc # "done" => adhandle \/ stale
    /\ thread = "stopped" => suspended
    /\ pc = "run" /\ kind \in {"bridged", "tap", "linux tap"} => adhandle
    /\ pc = "done" => ~raw
=============================================================================
