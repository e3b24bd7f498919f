SPECIFICATION NetworkSpec
CONSTANTS
    Daemons = {d1, d2}
    Packets = {p1, p2}
    Messages = {m1, m2}
    Irps = {i1, i2}
    Threads = {t1, t2}
    PACKET_QUEUE_SIZE = 1
    IRP_QUEUE_SIZE = 2
    MaxOpens = 2
INVARIANT TapExact 
PROPERTY AdaptersClose
CHECK_DEADLOCK FALSE
