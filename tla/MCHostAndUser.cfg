SPECIFICATION MCSpec
CONSTANTS
    d1 = d1
    d2 = d2
    d3 = d3
    Dentries = {d1, d2, d3}
    f = f
    g = g
    FileNames = {f, g}
    DirNames = {dd}
    MaxIno = 3
    MaxOpens = 1
    Root = Root
    None = None
    e1 = e1
    e2 = e2
    e3 = e3
    t1 = t1
    t2 = t2
    Readers = {r1, r2}
    Entries = {e1, e2, e3}
    Size <- EntrySize
    BufSize = 2
    RightsFiles = {e1, e2}
    X = 2
    Y = 3
    MaxY = 5
    MaxOps = 2
    WindowX = 2
    WindowY = 2
    WindowMaxY = 4
    MaxDown = 3
    Tools = {t1, t2}
    MaxRestarts = 1
    MaxText = 5
    MaxUnits = 2
    MaxTries = 2
    Starts <- MCStarts
INVARIANT    KeysExact WordsExact ConfigExact NetExact 
CHECK_DEADLOCK FALSE
