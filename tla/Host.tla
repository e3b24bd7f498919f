-------------------------------- MODULE Host --------------------------------
(* Parts of the host that do not meet: the file system of a guest, the      *)
(* listing of one of its directories, the rights of its files; the copies   *)
(* of its screen, the selection in a console, the user's keys; the driver   *)
(* and the service of Windows; the network and serial daemons.              *)
EXTENDS FileSystem

CONSTANTS
    Readers, Entries, Size, BufSize,           \* DirListing
    RightsFiles,                               \* FileRights
    X, Y, MaxY, MaxOps,                        \* Console
    WindowX, WindowY, WindowMaxY,              \* ConsoleWidget
    MaxDown,                                   \* Keyboard
    Tools, MaxRestarts,                        \* DriverService
    MaxUnits, MaxTries, Starts                 \* NetDaemons

VARIABLES
    dir, names, refcount, reader,
    file, attrib, mode, deceived,
    screen, history, kernel, pending, queue, user, replay, drawn, ops,
    cell, area, anchor, mouse_copy, rect, scroll_lines, beyond, smeared,
    program, altgr, keys, down, focused, twins, missed,
    svc, driver, version, open, tool, entry, late, forced, mixed, failed,
    dpc, service, status, g_daemon, port, living, execs, restarts, ended,
    kind, params, adapters, npc, chosen, adhandle, attached, raw, thread, suspended, tries, stale

listVars   == <<dir, names, refcount, reader>>
rightsVars == <<file, attrib, mode, deceived>>
conVars    == <<screen, history, kernel, pending, queue, user, replay, drawn, ops>>
widgetVars == <<cell, area, anchor, mouse_copy, rect, scroll_lines, beyond, smeared>>
keyVars    == <<program, altgr, keys, down, focused, twins, missed>>
svcVars    == <<svc, driver, version, open, tool, entry, late, forced, mixed, failed,
                dpc, service, status, g_daemon, port, living, execs, restarts, ended>>
netdVars   == <<kind, params, adapters, npc, chosen, adhandle, attached, raw, thread, suspended,
                tries, stale>>

List   == INSTANCE DirListing WITH Files <- Entries
Rights == INSTANCE FileRights WITH Files <- RightsFiles
Con    == INSTANCE Console WITH raced <- drawn
Widget == INSTANCE ConsoleWidget WITH X <- WindowX, Y <- WindowY, MaxY <- WindowMaxY
Kbd    == INSTANCE Keyboard
Drv    == INSTANCE DriverService
Net    == INSTANCE NetDaemons WITH pc <- npc

ASSUME HostPartsAssumption ==
    /\ List!SizesFit /\ Con!SizesPositive /\ Widget!SizesPositive /\ Kbd!MaxDownNat
    /\ Drv!ToolsAssumption /\ Net!StartsAssumption

\* The names of two directories' files reach their readers once, each file under a number of
\* its own (filesystem.c).
NamesExact == FilesExact /\ List!ListingExact
\* A file has the rights the guest was told (fileio.c).
RightsExact == Rights!RightsExact
\* The monitor's console, the attached one and its window show what the guest drew, with the
\* cells of the selection, and no others, inverted (console.c, widget.cpp).
ScreensExact == Con!ConsolesExact /\ Widget!MarksExact
\* The guest holds down what the user does (head.cpp, console-nt/widget.cpp).
KeysExact == Kbd!KeysExact
\* What installs and removes the driver and the service does not stop a VM (os/winnt/user).
DriverExact == Drv!DriverExact
\* A network daemon uses the adapter asked for, open (user/daemons).
NetExact == Net!NetExact
=============================================================================
