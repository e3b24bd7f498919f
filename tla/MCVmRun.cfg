CONSTANTS
    s1 = s1
    Senders = {s1}
    MaxMessages = 2
    MaxBoots = 2
    Room = 2
    Malformed <- MCMalformed
    Sticky = FALSE
    EarlyStop = FALSE
SPECIFICATION FairSpec
CHECK_DEADLOCK FALSE
INVARIANT TypeOK ResourcesMatchState MessagesExact
PROPERTY ShutdownIsFinal VmAnswers
