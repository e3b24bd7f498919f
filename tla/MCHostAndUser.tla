---------------------------- MODULE MCHostAndUser ----------------------------
(* The parts of Host and those of the programs of coLinux: the words of a    *)
(* command line and what colinux-daemon makes of them.  None meets another,  *)
(* and one of them has steps in a behaviour.                                 *)
EXTENDS Host

CONSTANTS d1, d2, d3, f, g, e1, e2, e3, t1, t2, MaxText

EntrySize == e1 :> 1 @@ e2 :> 2 @@ e3 :> 1

VARIABLES
    part,          \* the part that has steps in this behaviour
    words, wpc, slots, wargv, scanned, short,
    windows, args, argv, stage, rc, outcome, opt, single, dev, alias, boot

hostParts == <<vars, listVars, rightsVars, conVars, widgetVars, keyVars>>
lineVars == <<words, wpc, slots, wargv, scanned, short>>
confVars == <<windows, args, argv, stage, rc, outcome, opt, single, dev, alias, boot>>

Line == INSTANCE CommandLine WITH args <- words, pc <- wpc, argv <- wargv
-----------------------------------------------------------------------------
\* Three arguments: block devices with their names; buses; other devices and settings; switches.
Arg(name, key, value, unit) == [name |-> name, key |-> key, value |-> value, unit |-> unit]
Word == Arg("word", -1, "", 0)
Kernel == Arg("kernel", -1, "ok", 0)

Blocks ==
    {Arg("cobd", k, "ok", 0) : k \in {-1, 0, 1, 2}} \cup {Word, Arg("sd", -2, "path", 0)}
      \cup {Arg(p, 0, ":cobd", u) : p \in {"sd", "hd"}, u \in {0, 1}}
      \cup {Arg(p, 0, "path", 0) : p \in {"sd", "hd"}}
Buses ==
    {Arg(d, k, "ok", 0) : d \in {"scsi", "eth"}, k \in {0, 1}}
      \cup {Arg("pci", k, v, 0) : k \in {0, 1}, v \in {"network", "scsi"}}
      \cup {Arg("scsi", 0, "bad", 0), Arg("pci", -1, "noacpi", 0), Arg("eth", -2, "ok", 0)}
Others ==
    {Arg(d, 1, "ok", 0) : d \in {"cofs", "ttys", "exec"}}
      \cup {Arg(s, -1, v, 0) : s \in {"initrd", "color", "mem"}, v \in {"ok", ""}}
      \cup {Arg(s, -1, "ok", 0) : s \in {"setcobd", "cocon", "cursor"}}
      \cup {Arg("kernel", -3, "ok", 0), Kernel, Word}
Switched ==
    {Word, Kernel}
      \cup {Arg(s, -1, "", 0) :
              s \in {"--install-service", "--remove-service", "--run-service", "--install-driver",
                     "--remove-driver", "--status-driver", "-c", "-p", "-t", "-v", "-d", "-k", "-h"}}

CommandLines ==
    {<<Kernel, a, b, c>> : a, b, c \in Blocks} \cup {<<Kernel, a, b, c>> : a, b, c \in Buses}
      \cup {<<Kernel, a, b, c>> : a, b, c \in Others} \cup {<<a, b, c>> : a, b, c \in Switched}

Conf == INSTANCE Configuration
-----------------------------------------------------------------------------
Params == [inst : {-1, 0, 1}, unit : {-1, 0, MaxUnits}, mac : BOOLEAN, name : BOOLEAN]

IdleParams == [inst |-> 0, unit |-> 0, mac |-> FALSE, name |-> FALSE]

MCAdapters == [connection : {"none", "unnamed", "named"}, name : {"exact", "partial", "other"},
               address : BOOLEAN, tap : BOOLEAN]

\* Every set of parameters with one adapter, and the good ones with two.
MCStarts ==
    [kind : {"bridged", "ndis", "tap", "linux tap", "serial", "linux serial", "slirp"},
     params : Params,
     adapters : {<<[connection |-> "named", name |-> "exact", address |-> TRUE, tap |-> TRUE]>>}]
    \cup [kind : {"bridged", "ndis", "tap"},
          params : {p \in Params : p.inst = 1 /\ p.unit = 0 /\ p.mac},
          adapters : {<<a, b>> : a, b \in MCAdapters}]
-----------------------------------------------------------------------------
HostParts == {"files", "list", "rights", "con", "widget", "keys"}

\* Of a part without steps, one initial state.
HostInit ==
    /\ (part # "files" => disk = {}) /\ Init /\ (<<g>> \in disk => <<f>> \in disk)
    /\ (part # "list" => dir = {}) /\ List!Init
    /\ (part # "rights" => attrib = TRUE) /\ Rights!Init
    /\ Con!Init
    /\ Widget!Init
    /\ (part # "keys" => program = "nt" /\ altgr = TRUE) /\ Kbd!Init

\* A new dentry is the first unused one of d1, d2, d3; one file or directory is open at a time;
\* a program of the host makes and removes f, while there is an unused dentry.
Files ==
    /\ Next
    /\ guestVars' = guestVars /\ hostVars' = hostVars => (<<g>> \in disk') = (<<g>> \in disk) /\ ~Used(d3)
    /\ Cardinality({d \in Dentries : dentry'[d].open > 0}) <= 1
    /\ ~Used(d1) => ~Used(d2)' \/ Used(d2)
    /\ ~Used(d1) \/ ~Used(d2) => ~Used(d3)' \/ Used(d3)

\* The guest may read e2, which is not there when the host keeps no attributes.
Keeps == Rights!Next /\ "r" \in mode'[e2] /\ (~attrib => ~file'[e2].there)

\* Of two operations of the guest, the second scrolls.
Draws == Con!Next /\ (ops' = 2 /\ ops = 1 => pending'.type = "scroll_up" /\ pending'.lines = 2)

HostNext ==
    \/ part = "files" /\ Files /\ UNCHANGED <<listVars, rightsVars, conVars, widgetVars, keyVars>>
    \/ part = "list" /\ List!Next /\ UNCHANGED <<vars, rightsVars, conVars, widgetVars, keyVars>>
    \/ part = "rights" /\ Keeps /\ UNCHANGED <<vars, listVars, conVars, widgetVars, keyVars>>
    \/ part = "con" /\ Draws /\ UNCHANGED <<vars, listVars, rightsVars, widgetVars, keyVars>>
    \/ part = "widget" /\ Widget!Next /\ UNCHANGED <<vars, listVars, rightsVars, conVars, keyVars>>
    \/ part = "keys" /\ Kbd!Next /\ UNCHANGED <<vars, listVars, rightsVars, conVars, widgetVars>>
-----------------------------------------------------------------------------
\* Of a part without steps, one initial state.
IdleLine == words = <<Line!File(<<>>)>> /\ Line!Init
IdleConf == windows = TRUE /\ args = <<Word, Word, Word>> /\ Conf!Init
IdleNet  == kind = "slirp" /\ params = IdleParams /\ Net!Init
IdleDrv  == svc = "none" /\ version = "same" /\ entry = "none" /\ Drv!Init

\* Two runs of the program overlap only where there is no daemon, then or later; the second is t2.
\* The service of the VM is installed and removed while none does the driver, and for a driver of
\* its version.
Serves ==
    /\ Drv!Next
    /\ dpc' # "off" => Drv!Idle \in {tool'[t1], tool'[t2]} /\ ~mixed'
    /\ entry' # entry =>
         entry = "deleted" \/ (version = "same" /\ {tool[t1], tool[t2]} = {Drv!Idle})
    /\ tool[t2] = Drv!Idle /\ tool'[t2] # Drv!Idle => tool[t1] # Drv!Idle

MCInit ==
    \/ part = "line"   /\ HostInit /\ IdleConf /\ IdleNet /\ IdleDrv /\ Line!Init
    \/ part = "config" /\ HostInit /\ IdleLine /\ IdleNet /\ IdleDrv /\ Conf!Init
    \/ part = "net"    /\ HostInit /\ IdleLine /\ IdleConf /\ IdleDrv /\ Net!Init
    \/ part = "driver" /\ HostInit /\ IdleLine /\ IdleConf /\ IdleNet /\ Drv!Init
                       /\ (version = "other" => entry = "none")
    \/ part \in HostParts /\ IdleLine /\ IdleConf /\ IdleNet /\ IdleDrv /\ HostInit

MCNext ==
    /\ UNCHANGED part
    /\ \/ HostNext /\ UNCHANGED <<lineVars, confVars, netdVars, svcVars>>
       \/ part = "line" /\ Line!Next /\ UNCHANGED <<hostParts, confVars, netdVars, svcVars>>
       \/ part = "config" /\ Conf!Next /\ UNCHANGED <<hostParts, lineVars, netdVars, svcVars>>
       \/ part = "net" /\ Net!Next /\ UNCHANGED <<hostParts, lineVars, confVars, svcVars>>
       \/ part = "driver" /\ Serves /\ UNCHANGED <<hostParts, lineVars, confVars, netdVars>>

MCSpec == MCInit /\ [][MCNext]_<<part, hostParts, lineVars, confVars, netdVars, svcVars>>

\* A program gets the parameters its files say (cmdline.c).
WordsExact == part = "line" => Line!WordsExact
\* Every argument of colinux-daemon is used once (config.c).
ConfigExact == part = "config" => Conf!ConfigExact
=============================================================================
