CONSTANTS
    s1 = s1
    Senders = {s1}
    MaxMessages = 0
    MaxBoots = 2
    Room = 1
    Malformed = {}
    Sticky = FALSE
    EarlyStop = TRUE
SPECIFICATION FairSpec
CHECK_DEADLOCK FALSE
PROPERTIES
    StopEnds
