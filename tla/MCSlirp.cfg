SPECIFICATION MCSpec
CONSTANTS
    MaxBytes = 2
    RcvSpace = 2
    SndSpace = 2
    Retries = 1
    MaxOpens = 1
INVARIANT StreamExact 
 
CHECK_DEADLOCK FALSE
