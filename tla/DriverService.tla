--------------------------- MODULE DriverService ---------------------------
(***************************************************************************)
(* colinux-daemon and the service control manager of Windows: the driver   *)
(* is installed and removed by runs of the program, while another run of   *)
(* it, from a console or as a service, brings a VM up and ends it.         *)
(***************************************************************************)
EXTENDS Integers, FiniteSets

CONSTANTS
    Tools,          \* runs of the program that install or remove
    MaxRestarts     \* how often Windows starts a service that died again

Daemon == "daemon"

ToolsAssumption == Daemon \notin Tools

VARIABLES
    svc,            \* the driver's service: "none", "there", or "deleted" once it stops
    driver,         \* "none", "running", or "stopping" once nobody has it open
    version,        \* was the driver built from the same sources
    open,           \* who has the driver open
    tool,           \* what each run works on and where it is
    entry,          \* the service of the VM: "none", "there" or "deleted"
    dpc, service,   \* where the daemon is, and whether it runs as the service
    status,         \* what the service reported
    g_daemon, port, \* the daemon's structure and its message_monitor: "null", "made", "freed"
    living,         \* is there a monitor
    execs,          \* do the programs run that the daemon started
    restarts,
    ended,          \* how the daemon ended last
    late, forced,   \* the monitor came after a remover's question; it did not mind
    mixed, failed   \* runs overlapped; Windows refused something

daeVars == <<dpc, service, status, g_daemon, port, living, execs, restarts, ended>>
svcVars == <<svc, driver, version, open, tool, entry, late, forced, mixed, failed,
             dpc, service, status, g_daemon, port, living, execs, restarts, ended>>

Idle == [op |-> "none", pc |-> "idle"]

Init ==
    /\ \/ svc = "none" /\ driver = "none"
       \/ svc = "there" /\ driver = "running"
    /\ version \in {"same", "other"}
    /\ open = {} /\ tool = [t \in Tools |-> Idle]
    /\ entry \in {"none", "there"}
    /\ dpc = "off" /\ service = FALSE /\ status = "stopped"
    /\ g_daemon = "null" /\ port = "null" /\ living = FALSE /\ execs = FALSE
    /\ restarts = 0 /\ ended = "none"
    /\ late = FALSE /\ forced = FALSE /\ mixed = FALSE /\ failed = FALSE
-----------------------------------------------------------------------------
\* Windows. A driver that was told to stop is unloaded (driver_unload) when the last handle
\* is closed, a service that was deleted is gone when it stops.
Close(p) ==
    /\ open' = open \ {p}
    /\ IF driver = "stopping" /\ open' = {}
       THEN driver' = "none" /\ svc' = IF svc = "deleted" THEN "none" ELSE svc
       ELSE UNCHANGED <<driver, svc>>

\* co_os_manager_open: CreateFile, and memory for the handle.
CanOpen == driver = "running"
Opened(p) == CanOpen /\ open' = open \cup {p} /\ UNCHANGED <<driver, svc>>

DeleteService ==
    svc' = IF svc = "there" THEN IF driver = "none" THEN "none" ELSE "deleted" ELSE svc
-----------------------------------------------------------------------------
\* The runs with --install-driver and --remove-driver.
At(t, op, pc) == tool[t].op = op /\ tool[t].pc = pc
Goto(t, pc) == tool' = [tool EXCEPT ![t].pc = pc]
Finish(t) == tool' = [tool EXCEPT ![t] = Idle]

ToolFrame == UNCHANGED <<version, entry, mixed, late>> /\ UNCHANGED daeVars

Begin(t) ==
    /\ tool[t] = Idle
    /\ \E op \in {"install", "remove"} : tool' = [tool EXCEPT ![t] = [op |-> op, pc |-> "ask"]]
    /\ mixed' = (mixed \/ \E u \in Tools : tool[u] # Idle)
    /\ UNCHANGED <<svc, driver, version, open, entry, late, forced, failed>>
    /\ UNCHANGED daeVars

\* OpenSCManager, which each part calls again.
NoManager(t) ==
    /\ tool[t].pc \in {"ask", "create", "stop"}
    /\ Finish(t) /\ failed' = TRUE
    /\ UNCHANGED <<svc, driver, open, forced>> /\ ToolFrame

\* co_win32_manager_is_installed
Ask(t) ==
    /\ tool[t].pc = "ask"
    /\ \/ tool[t].op = "install" /\ svc = "none" /\ Goto(t, "create")
       \/ tool[t].op = "install" /\ svc # "none" /\ Finish(t)
       \/ tool[t].op = "remove" /\ svc = "none" /\ Finish(t)
       \/ tool[t].op = "remove" /\ svc # "none" /\ Goto(t, "open")
    /\ UNCHANGED <<svc, driver, open, forced, failed>> /\ ToolFrame

\* co_winnt_install_driver_lowlevel: another run may have created it.
Create(t) ==
    /\ At(t, "install", "create")
    /\ IF svc = "none" THEN svc' = "there" /\ Goto(t, "start") ELSE UNCHANGED svc /\ Finish(t)
    /\ UNCHANGED <<driver, open, forced, failed>> /\ ToolFrame

\* co_winnt_start_driver_lowlevel
Start(t) ==
    /\ At(t, "install", "start")
    /\ \/ svc = "there" /\ driver = "none" /\ driver' = "running" /\ Goto(t, "check")
       \/ UNCHANGED driver /\ Goto(t, "undo")
    /\ UNCHANGED <<svc, open, forced, failed>> /\ ToolFrame

Undo(t) ==
    /\ At(t, "install", "undo")
    /\ DeleteService /\ Finish(t)
    /\ UNCHANGED <<driver, open, forced, failed>> /\ ToolFrame

\* The handle of the check is closed when the program ends.
Check(t) ==
    /\ At(t, "install", "check")
    /\ \/ Opened(t) /\ Goto(t, "exit")
       \/ UNCHANGED <<svc, driver, open>> /\ Finish(t)
    /\ UNCHANGED <<forced, failed>> /\ ToolFrame

Exit(t) ==
    /\ tool[t].pc = "exit"
    /\ Close(t) /\ Finish(t)
    /\ UNCHANGED <<forced, failed>> /\ ToolFrame

\* co_winnt_remove_driver: a driver that cannot be opened is removed anyway.
Open(t) ==
    /\ At(t, "remove", "open")
    /\ \/ Opened(t) /\ Goto(t, "count") /\ UNCHANGED forced
       \/ UNCHANGED <<svc, driver, open>> /\ Goto(t, "stop") /\ forced' = (forced \/ CanOpen)
    /\ UNCHANGED failed /\ ToolFrame

\* Mutant of Count: the driver is removed whatever the number of monitors is.
Count_Anyway(t) ==
    /\ At(t, "remove", "count")
    /\ Goto(t, "close") /\ forced' = (forced \/ version = "other")
    /\ UNCHANGED <<svc, driver, open, failed>> /\ ToolFrame

\* One of another version is removed, too, whatever runs in it.
Count(t) ==
    /\ At(t, "remove", "count")
    /\ \/ version = "other" /\ Goto(t, "close") /\ forced' = TRUE
       \/ version = "same" /\ Goto(t, IF living THEN "exit" ELSE "close") /\ UNCHANGED forced
    /\ UNCHANGED <<svc, driver, open, failed>> /\ ToolFrame

CloseCount(t) ==
    /\ At(t, "remove", "close")
    /\ Close(t) /\ Goto(t, "stop")
    /\ UNCHANGED <<forced, failed>> /\ ToolFrame

\* co_winnt_unload_driver_lowlevel_by_name: what stopping led to is not looked at.
Stop(t) ==
    /\ At(t, "remove", "stop")
    /\ driver' = IF svc # "none" /\ driver = "running"
                 THEN IF open = {} THEN "none" ELSE "stopping" ELSE driver
    /\ svc' = IF svc = "deleted" /\ driver' = "none" THEN "none" ELSE svc
    /\ Goto(t, "delete")
    /\ UNCHANGED <<open, forced, failed>> /\ ToolFrame

Delete(t) ==
    /\ At(t, "remove", "delete")
    /\ DeleteService /\ Finish(t)
    /\ UNCHANGED <<driver, open, forced, failed>> /\ ToolFrame

\* --install-service and --remove-service
Services ==
    /\ \/ entry = "none" /\ entry' = "there"
       \/ entry = "there" /\ entry' = IF service THEN "deleted" ELSE "none"
    /\ UNCHANGED <<svc, driver, version, open, tool, late, forced, mixed, failed>>
    /\ UNCHANGED daeVars
-----------------------------------------------------------------------------
\* A run of the daemon. The service depends on the driver.
DaeFrame == UNCHANGED <<version, tool, forced, mixed, failed>>
NoDriver == UNCHANGED <<svc, driver, open>>

DaemonStarts ==
    /\ dpc = "off"
    /\ service' \in BOOLEAN
    /\ service' => entry = "there" /\ driver = "running"
    /\ dpc' = "create" /\ execs' = FALSE
    /\ status' = IF service' THEN "running" ELSE status
    /\ UNCHANGED <<entry, late, g_daemon, port, living, restarts, ended>>
    /\ NoDriver /\ DaeFrame

\* co_daemon_create: no memory, no configuration.
DaemonCreates ==
    /\ dpc = "create"
    /\ \/ g_daemon' = "made" /\ dpc' = "open" /\ UNCHANGED ended
       \/ UNCHANGED g_daemon /\ dpc' = "exit" /\ ended' = "config"
    /\ UNCHANGED <<entry, late, service, status, port, living, execs, restarts>>
    /\ NoDriver /\ DaeFrame

\* co_daemon_monitor_create, to the version of the driver.
DaemonOpens ==
    /\ dpc = "open"
    /\ \/ Opened(Daemon) /\ dpc' = "status" /\ UNCHANGED ended
       \/ NoDriver /\ dpc' = "destroy" /\ ended' = "driver"
    /\ UNCHANGED <<entry, late, service, status, g_daemon, port, living, execs, restarts>>
    /\ DaeFrame

\* Without a monitor the handle is closed; when the initrd cannot be loaded it is not, and
\* the monitor stays until the program ends; when the kernel cannot be, both are closed.
DaemonMonitor ==
    /\ dpc = "status"
    /\ \/ /\ version = "same"
          /\ living' = TRUE /\ NoDriver
          /\ late' = (\/ driver = "stopping"
                      \/ \E t \in Tools : tool[t].op = "remove" /\ tool[t].pc \in {"close", "stop"})
          /\ \/ dpc' = "run" /\ UNCHANGED ended
             \/ dpc' = "destroy" /\ ended' = "initrd"
       \/ /\ Close(Daemon)
          /\ dpc' = "destroy" /\ ended' = "monitor" /\ UNCHANGED <<living, late>>
    /\ UNCHANGED <<entry, service, status, g_daemon, port, execs, restarts>>
    /\ DaeFrame

\* co_daemon_run: without its messages or its console it does not boot.
DaemonAttaches ==
    /\ dpc = "run"
    /\ \/ CanOpen /\ port' = "made" /\ dpc' = "launch" /\ UNCHANGED ended
       \/ UNCHANGED port /\ dpc' = "end" /\ ended' = "attach"
    /\ UNCHANGED <<entry, late, service, status, g_daemon, living, execs, restarts>>
    /\ NoDriver /\ DaeFrame

DaemonLaunches ==
    /\ dpc = "launch"
    /\ \/ execs' = TRUE /\ dpc' = "boot" /\ UNCHANGED ended
       \/ UNCHANGED execs /\ dpc' = "end" /\ ended' = "console"
    /\ UNCHANGED <<entry, late, service, status, g_daemon, port, living, restarts>>
    /\ NoDriver /\ DaeFrame

\* co_user_monitor_start, at the first boot or a later one: a failure leaves the programs.
DaemonBoots ==
    /\ dpc = "boot"
    /\ \/ dpc' = "running" /\ UNCHANGED ended
       \/ dpc' = "end" /\ ended' = "start"
    /\ UNCHANGED <<entry, late, service, status, g_daemon, port, living, execs, restarts>>
    /\ NoDriver /\ DaeFrame

DaemonReboots ==
    /\ dpc = "running" /\ dpc' = "boot"
    /\ UNCHANGED <<entry, late, service, status, g_daemon, port, living, execs, restarts, ended>>
    /\ NoDriver /\ DaeFrame

\* The VM ended: the programs are killed, the messages closed.
DaemonKills ==
    /\ dpc = "running"
    /\ execs' = FALSE /\ port' = "freed" /\ dpc' = "end" /\ ended' = "ok"
    /\ UNCHANGED <<entry, late, service, status, g_daemon, living, restarts>>
    /\ NoDriver /\ DaeFrame

\* co_daemon_end_monitor: the messages keep the monitor when they were not closed.
DaemonEnds ==
    /\ dpc = "end"
    /\ living' = (port = "made") /\ dpc' = "destroy"
    /\ IF port = "made" THEN NoDriver ELSE Close(Daemon)
    /\ UNCHANGED <<entry, late, service, status, g_daemon, port, execs, restarts, ended>>
    /\ DaeFrame

DaemonDestroys ==
    /\ dpc = "destroy"
    /\ g_daemon' = "freed" /\ dpc' = "exit"
    /\ UNCHANGED <<entry, late, service, status, port, living, execs, restarts, ended>>
    /\ NoDriver /\ DaeFrame

\* The program is gone, with its handles and what they kept.
Gone ==
    /\ Close(Daemon)
    /\ living' = FALSE /\ g_daemon' = "null" /\ port' = "null"
    /\ entry' = IF service /\ entry = "deleted" THEN "none" ELSE entry
    /\ UNCHANGED <<late, execs>> /\ DaeFrame

DaemonExits ==
    /\ dpc = "exit"
    /\ Gone /\ dpc' = "off" /\ service' = FALSE /\ status' = "stopped"
    /\ UNCHANGED <<restarts, ended>>

\* co_winnt_daemon_stop, called for the service and for the window: before there is a daemon
\* it does nothing, before its port is open and after that is closed it uses what is not
\* there, which can kill the daemon. Windows starts a service that died again.
StopRequest ==
    /\ dpc # "off"
    /\ status' = IF service THEN "pending" ELSE status
    /\ UNCHANGED <<late, execs, version, tool, forced, mixed, failed>>
    /\ g_daemon = "null" \/ port # "null"
    /\ NoDriver /\ UNCHANGED <<entry, dpc, service, g_daemon, port, living, restarts, ended>>

StopKills ==
    /\ dpc # "off" /\ g_daemon # "null" /\ port # "made"
    /\ Gone
    /\ ended' = "killed"
    /\ IF service /\ entry = "there" /\ restarts < MaxRestarts
       THEN dpc' = "create" /\ status' = "running" /\ restarts' = restarts + 1 /\ UNCHANGED service
       ELSE dpc' = "off" /\ status' = "stopped" /\ service' = FALSE /\ UNCHANGED restarts

Next ==
    \/ \E t \in Tools :
         \/ Begin(t) \/ NoManager(t) \/ Ask(t) \/ Create(t) \/ Start(t) \/ Undo(t) \/ Check(t)
         \/ Exit(t) \/ Open(t) \/ Count(t) \/ CloseCount(t) \/ Stop(t) \/ Delete(t)
    \/ Services
    \/ DaemonStarts \/ DaemonCreates \/ DaemonOpens \/ DaemonMonitor \/ DaemonAttaches
    \/ DaemonLaunches \/ DaemonBoots \/ DaemonReboots \/ DaemonKills \/ DaemonEnds
    \/ DaemonDestroys \/ DaemonExits \/ StopRequest \/ StopKills

Spec == Init /\ [][Next]_svcVars
-----------------------------------------------------------------------------
Quiet == dpc = "off" /\ \A t \in Tools : tool[t] = Idle

\* The driver is not stopped under a VM that ran when the remover asked, unless it could not ask or
\* the driver was not its own; when one run at a time installs or removes and Windows refuses
\* nothing, what is installed runs and nothing that was removed is left; a VM that boots is
\* reachable, and the programs the daemon started end with it, unless a boot failed.
DriverExact ==
    /\ driver = "stopping" /\ living => late \/ forced
    /\ Quiet /\ ~mixed /\ ~failed /\ ~forced =>
         svc # "deleted" /\ (svc = "there" <=> driver = "running")
    /\ dpc = "off" /\ execs => ended = "start"
=============================================================================
