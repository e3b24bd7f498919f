CONSTANTS
    vm = vm
    con = con
    None = None
    Senders = {vm, con}
    MaxSends = 2
    Limit = 1
SPECIFICATION LinuxHost
INVARIANT LinuxSafe
PROPERTY LinuxImplementsPipe LinuxNothingStuck
