CONSTANTS
    vm = vm
    con = con
    None = None
    Senders = {vm, con}
    MaxSends = 2
    Limit = 1
SPECIFICATION FairSpec
INVARIANT RequestsExact
PROPERTIES
    ImplementsPipe
    NothingStuck
