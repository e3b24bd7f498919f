CONSTANTS
    t1 = t1
    t2 = t2
    h = h
    driver = driver
    None = None
    Threads = {t1, t2}
    Processes = {h}
    MaxRecords <- MCMaxRecords
    Capacity = 1
    MaxFill = 1
    UserSizes = {1, 4}
SPECIFICATION FairSpec
 
PROPERTY RecordsRead
