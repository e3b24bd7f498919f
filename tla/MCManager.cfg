SPECIFICATION MCSpec
CONSTANTS
    vm = vm
    con = con
    con2 = con2
    console = console
    conet = conet
    None = None
    Owners = {vm}
    Daemons = {con, con2}
    Modules = {console, conet}
    Console = console
    Claims <- ClaimsTwo
    AtomicCount = TRUE
INVARIANT TypeOK RefCountExact ClosesSafe MonitorSafe 
PROPERTY NoSilentDisconnect HandlesEnd
