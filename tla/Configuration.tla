--------------------------- MODULE Configuration ---------------------------
(***************************************************************************)
(* How colinux-daemon reads its command line: switches and settings are    *)
(* taken out of the list one kind after another, what is left becomes the  *)
(* boot line of the guest, and what was asked for is done.                 *)
(***************************************************************************)
EXTENDS Integers, Sequences, SequencesExt, FiniteSets, FiniteSetsExt

CONSTANTS
    MaxUnits,       \* the number of devices of a kind
    CommandLines    \* the command lines looked at

\* An argument is [name, key, value, unit]: "cobd0=..." has the name "cobd" and the key 0,
\* ":cobd1" and the unit of a pci slot are units. Keys that are no index:
NoKey == -1         \* nothing stands between the name and the "="
LongKey == -2       \* more than there is room for
NotNumber == -3

VARIABLES
    windows,        \* is it the daemon of Windows or of Linux
    args,           \* the command line
    argv,           \* what is left of it: 0 where an argument was taken
    stage, rc, outcome,
    opt,            \* the arguments each switch took
    single,         \* the argument that gave each setting, or 0
    dev,            \* the argument that defined each device, or 0
    alias,          \* the argument that is the alias of each cobd, or 0
    boot            \* boot_parameters_line

confVars == <<windows, args, argv, stage, rc, outcome, opt, single, dev, alias, boot>>

Services == {"--install-service", "--remove-service", "--run-service"}
Drivers == {"--install-driver", "--remove-driver", "--status-driver"}
Valued == {"-c", "-p", "-t", "-v"}
Flags == {"-d", "-k", "-h"}
Switches == Services \cup Drivers \cup Valued \cup Flags
Settings == {"kernel", "mem", "setcobd", "initrd", "color", "cocon", "cursor"}
Devices == {"scsi", "cobd", "eth", "cofs", "pci", "ttys", "exec"}
AliasNames == {"sd", "hd"}
Index == 0..(MaxUnits - 1)

\* The order the kinds are looked for in: co_winnt_daemon_parse_args, co_daemon_parse_args,
\* parse_config_args.
WindowsStages == <<"--install-service", "--remove-service", "--run-service", "--install-driver",
                   "--remove-driver", "--status-driver">>
DaemonStages == <<"-c", "-p", "-t", "-d", "-k", "-v", "-h", "kernel">>

ConfigStages == <<"mem", "scsi", "setcobd", "cobd", "sd", "hd", "eth", "cofs", "pci",
                  "initrd", "ttys", "exec", "color", "cocon", "cursor">>

Stages == WindowsStages \o DaemonStages \o ConfigStages
FirstStage == IF windows THEN 1 ELSE Len(WindowsStages) + 1
LastStage == IF single["kernel"] # 0 THEN Len(Stages) ELSE Len(WindowsStages \o DaemonStages)

\* The first argument of a name that was not taken yet.
Matches(name) == {i \in DOMAIN argv : argv[i] # 0 /\ args[i].name = name}

Init ==
    /\ windows \in BOOLEAN
    /\ args \in CommandLines
    /\ argv = [i \in DOMAIN args |-> i]
    /\ stage = FirstStage /\ rc = "ok" /\ outcome = "none"
    /\ opt = [s \in Switches |-> {}]
    /\ single = [s \in Settings |-> 0]
    /\ dev = [d \in Devices |-> [i \in Index |-> 0]]
    /\ alias = [i \in Index |-> 0]
    /\ boot = <<>>
-----------------------------------------------------------------------------
\* What parsing one argument at stage s leads to.
Error(s) == rc' = "error" /\ stage' = s
Again(s) == stage' = s /\ UNCHANGED rc
NextStage(s) == stage' = s + 1 /\ UNCHANGED rc
NoDevice == UNCHANGED <<opt, single, dev, alias>>

Take(taken) == argv' = [i \in DOMAIN argv |-> IF i \in taken THEN 0 ELSE argv[i]]

\* one_arugment_parameter: the next argument is the switch's, unless it begins with a "-".
Argument(i) == i < Len(argv) /\ argv[i + 1] # 0 /\ args[i + 1].name \notin Switches

\* An int that does not parse, or the argument "-v" lacks, are no errors: rc is overwritten.
OneArgument(i, s) ==
    LET name == Stages[s]
        taken == IF Argument(i) THEN {i, i + 1} ELSE {i}
    IN
    /\ UNCHANGED <<single, dev, alias>>
    /\ \/ /\ Argument(i) \/ name \in Services
          /\ Take(taken) /\ opt' = [opt EXCEPT ![name] = taken]
          /\ NextStage(s)
       \/ /\ ~Argument(i) /\ name \in Valued
          /\ UNCHANGED <<argv, opt>>
          /\ IF name = "-v" THEN NextStage(s) ELSE Error(s)

\* co_cmdline_params_argumentless_parameter
Flag(i, s) ==
    /\ Take({i}) /\ opt' = [opt EXCEPT ![Stages[s]] = {i}] /\ NextStage(s)
    /\ UNCHANGED <<single, dev, alias>>

\* co_cmdline_get_next_equality: what can be taken as the value of a setting.
HasValue(a) == a.key = NoKey /\ a.value # ""

\* The settings there is one of: a second one stays in the list. The value fits when it is a
\* number, a path, a known word, or sizes and colors the screen can have.
Set(name, i, s) ==
    /\ Stages[s] = name
    /\ Take({i}) /\ UNCHANGED <<opt, alias>>
    /\ IF HasValue(args[i]) /\ args[i].value # "bad"
       THEN single' = [single EXCEPT ![name] = i] /\ NextStage(s)
       ELSE UNCHANGED single /\ Error(s)

Kernel(i, s) == Set("kernel", i, s) /\ UNCHANGED dev
Memory(i, s) == Set("mem", i, s) /\ UNCHANGED dev
SetCobd(i, s) == Set("setcobd", i, s) /\ UNCHANGED dev
Cocon(i, s) == Set("cocon", i, s) /\ UNCHANGED dev
Cursor(i, s) == Set("cursor", i, s) /\ UNCHANGED dev

\* The directory of the initrd becomes the last cofs, when there is none.
Initrd(i, s) ==
    /\ Set("initrd", i, s)
    /\ dev' = IF HasValue(args[i]) /\ dev["cofs"][MaxUnits - 1] = 0
              THEN [dev EXCEPT !["cofs"][MaxUnits - 1] = i] ELSE dev

\* A color that is missing or too long is dropped: rc is overwritten.
Color(i, s) ==
    \/ HasValue(args[i]) /\ Set("color", i, s) /\ UNCHANGED dev
    \/ Stages[s] = "color" /\ ~HasValue(args[i]) /\ Take({i}) /\ NextStage(s) /\ NoDevice

\* co_cmdline_get_next_equality_int_prefix: without a key the index is read from a buffer
\* nobody wrote.
Keys(i) == IF args[i].key = NoKey THEN Index \cup {MaxUnits, NotNumber} ELSE {args[i].key}

\* A pci slot refers to devices that were defined.
Refers(a) ==
    \/ a.value = "network" /\ a.unit \in Index /\ dev["eth"][a.unit] # 0
    \/ a.value = "scsi" /\ \E u \in Index : dev["scsi"][u] # 0

\* A device of each kind: its number is one of those its parameter fits.
Define(name, i, s, fits) ==
    /\ Stages[s] = name
    /\ Take({i}) /\ UNCHANGED <<opt, single, alias>>
    /\ \E k \in Keys(i) :
         IF args[i].value # "" /\ k \in fits
         THEN dev' = [dev EXCEPT ![name][k] = i] /\ Again(s)
         ELSE UNCHANGED dev /\ Error(s)

Parses(a) == a.value # "bad"

Unset(name) == {k \in Index : dev[name][k] = 0}

Cobd(i, s) == Define("cobd", i, s, Unset("cobd"))
Scsi(i, s) == Define("scsi", i, s, IF Parses(args[i]) THEN Unset("scsi") ELSE {})
Cofs(i, s) == Define("cofs", i, s, Unset("cofs"))
Serial(i, s) == Define("ttys", i, s, IF Parses(args[i]) THEN Unset("ttys") ELSE {})
Execute(i, s) == Define("exec", i, s, IF Parses(args[i]) THEN Unset("exec") ELSE {})

\* A tuntap, slirp or a bridge, whose MAC address and mode are right.
Transport(a) == Parses(a)
Networking(i, s) == Define("eth", i, s, IF Transport(args[i]) THEN Unset("eth") ELSE {})

\* A slot of the bus may be given again.
Pci(i, s) == Define("pci", i, s, IF Refers(args[i]) THEN Index ELSE {})

\* Mutant of Aliased: a cobd may have two aliases.
Aliased_Twice(a) == a.unit \in Index /\ dev["cobd"][a.unit] # 0

\* ":cobdN" names a cobd that is defined and has no alias yet.
Aliased(a) == a.unit \in Index /\ dev["cobd"][a.unit] # 0 /\ alias[a.unit] = 0

\* allocate_by_alias: a path gets the first cobd that is free.
Alias(i, s) ==
    LET a == args[i] IN
    /\ Take({i}) /\ UNCHANGED <<opt, single>>
    /\ \/ /\ a.key # LongKey /\ a.value = ":cobd" /\ Aliased(a)
          /\ alias' = [alias EXCEPT ![a.unit] = i]
          /\ UNCHANGED dev /\ Again(s)
       \/ /\ a.key # LongKey /\ a.value = "path" /\ Unset("cobd") # {}
          /\ dev' = [dev EXCEPT !["cobd"][Min(Unset("cobd"))] = i]
          /\ alias' = [alias EXCEPT ![Min(Unset("cobd"))] = i]
          /\ Again(s)
       \/ /\ \/ a.key = LongKey
             \/ a.value = ""
             \/ a.value = ":cobd" /\ ~Aliased(a)
             \/ a.value = "path" /\ Unset("cobd") = {}
          /\ UNCHANGED <<dev, alias>> /\ Error(s)

\* The next stage that finds something; after the last one what is left is the boot line.
Parse ==
    /\ outcome = "none" /\ rc = "ok" /\ stage <= LastStage
    /\ UNCHANGED <<windows, args, outcome, boot>>
    /\ LET found == {s \in stage..LastStage : Matches(Stages[s]) # {}} IN
       IF found = {} THEN NextStage(LastStage) /\ NoDevice /\ UNCHANGED argv
       ELSE LET s == Min(found)
                i == Min(Matches(Stages[s]))
            IN  \/ Stages[s] \in Services \cup Valued /\ OneArgument(i, s)
                \/ Stages[s] \in Flags \cup Drivers /\ Flag(i, s)
                \/ Kernel(i, s) \/ Memory(i, s) \/ SetCobd(i, s) \/ Initrd(i, s)
                \/ Cocon(i, s) \/ Cursor(i, s) \/ Color(i, s)
                \/ Cobd(i, s) \/ Scsi(i, s) \/ Networking(i, s) \/ Cofs(i, s)
                \/ Pci(i, s) \/ Serial(i, s) \/ Execute(i, s)
                \/ Stages[s] \in AliasNames /\ Alias(i, s)

Remaining == SelectSeq(argv, LAMBDA a : a # 0)

\* Was a configuration read, also one with an error, and are arguments left.
Formats ==
    /\ single["kernel"] # 0 /\ Remaining # <<>>
    /\ stage > LastStage \/ (rc = "error" /\ stage > Len(WindowsStages \o DaemonStages))

\* co_cmdline_params_format_remaining_parameters; the line has room for them.
Format ==
    /\ outcome = "none" /\ Formats
    /\ boot' = Remaining /\ Take(DOMAIN argv)
    /\ UNCHANGED <<windows, args, stage, rc, outcome>> /\ NoDevice

Given(s) == opt[s] # {}
config_specified == Given("-c") \/ single["kernel"] # 0

\* co_winnt_main
WindowsDoes ==
    IF rc = "error" \/ Given("-h") \/ Remaining # <<>> THEN "usage"
    ELSE IF Given("--status-driver")   THEN "status"
    ELSE IF Given("--install-driver")  THEN "install driver"
    ELSE IF Given("--install-service") THEN IF config_specified THEN "install service" ELSE "usage"
    ELSE IF Given("--remove-service")  THEN "remove service"
    ELSE IF Given("--remove-driver")   THEN "remove driver"
    ELSE IF Given("--run-service")     THEN "service"
    ELSE "run"

\* main of the Linux daemon
LinuxDoes == IF rc = "error" \/ Given("-h") \/ ~config_specified THEN "usage" ELSE "run"

\* co_load_config_file: a VM needs a configuration on the command line.
Loaded(does) == IF does \in {"run", "service"} /\ single["kernel"] = 0 THEN "usage" ELSE does

Decide ==
    /\ outcome = "none" /\ ~Formats
    /\ rc = "error" \/ stage > LastStage
    /\ outcome' = Loaded(IF windows THEN WindowsDoes ELSE LinuxDoes)
    /\ UNCHANGED <<windows, args, argv, stage, rc, boot>> /\ NoDevice

Next == Parse \/ Format \/ Decide

Spec == Init /\ [][Next]_confVars
-----------------------------------------------------------------------------
\* Where an argument ended up.
Places(i) ==
    {<<"switch", s>> : s \in {s \in Switches : i \in opt[s]}}
      \cup {<<"setting", s>> : s \in {s \in Settings : single[s] = i}}
      \cup {p \in Devices \X Index : dev[p[1]][p[2]] = i}
      \cup {<<"alias", k>> : k \in {k \in Index : alias[k] = i}}
      \cup {<<"boot", p>> : p \in {p \in DOMAIN boot : boot[p] = i}}

\* The arguments the code drops without a word: a slot of the pci bus given again, a color
\* without a value.
Dropped(i) ==
    \/ args[i].name = "pci" /\ \E j \in (i + 1)..Len(args) : args[j].name = "pci"
    \/ args[i].name = "color" /\ (args[i].key # NoKey \/ args[i].value = "")

\* A configuration of devices and settings nobody would object to.
Sound ==
    /\ \E i \in DOMAIN args : args[i].name = "kernel"
    /\ \A i \in DOMAIN args :
         LET a == args[i] IN
         /\ a.name \in Settings \cup Devices \cup {"word"} /\ a.value \notin {"", "bad"}
         /\ a.name \in Settings => a.key = NoKey
         /\ a.name \in Devices =>
              a.key \in Index /\ \A j \in DOMAIN args \ {i} : args[j].name = a.name => args[j].key # a.key
         /\ a.name = "pci" =>
              \E j \in DOMAIN args : \/ a.value = "network" /\ args[j].name = "eth" /\ args[j].key = a.unit
                                     \/ a.value = "scsi" /\ args[j].name = "scsi"

\* When the daemon goes on with a configuration, every argument was used once: by a switch, as
\* the device of its number, as the alias of the one cobd it names or was given, or in the
\* boot line, in the order of the command line; and a slot of the pci bus holds a device that
\* is defined. No two arguments define one device and no cobd has two names. It goes on whatever
\* the order the devices are given in.
ConfigExact ==
    /\ Sound => outcome # "usage"
    /\ outcome \notin {"none", "usage"} /\ single["kernel"] # 0 =>
      /\ \A i \in DOMAIN args :
           LET places == Places(i)
               name == args[i].name
           IN  CASE name \in AliasNames /\ args[i].value = ":cobd" -> places = {<<"alias", args[i].unit>>}
                 [] name \in AliasNames /\ args[i].value = "path" ->
                      \E k \in Index : places = {<<"alias", k>>, <<"cobd", k>>}
                 [] name = "initrd" -> \/ places = {<<"setting", name>>, <<"cofs", MaxUnits - 1>>}
                                       \/ Cardinality(places) = 1
                 [] Dropped(i) -> Cardinality(places) <= 1
                 [] OTHER -> Cardinality(places) = 1
      /\ \A d \in Devices, k \in Index :
           dev[d][k] # 0 /\ args[dev[d][k]].name = d => args[dev[d][k]].key \in {k, NoKey}
      /\ \A p, q \in DOMAIN boot : p < q => boot[p] < boot[q]
      /\ \A k \in Index : alias[k] # 0 => dev["cobd"][k] # 0
      /\ \A k \in Index : dev["pci"][k] # 0 => Refers(args[dev["pci"][k]])
=============================================================================
