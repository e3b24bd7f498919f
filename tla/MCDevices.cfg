CONSTANTS
    None = None
    Vms = {v1}
    Bdevs = {cobd0, hda}
    Requests = {r1, r2}
    Segments = 2
    MaxOpens = 2
    MaxBoots = 2
    ScsiVms = {v1, v2}
    Commands = {c1}
    Vectors = 1
    IO_QUEUE_SIZE = 1
    ScsiOpens = 1
    ScsiBoots = 1
SPECIFICATION DevicesSpec
CHECK_DEADLOCK FALSE
INVARIANT BlocksExact ScsiExact
PROPERTY DisksAnswer
