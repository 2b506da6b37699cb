SPECIFICATION FairSpec
CONSTANTS
    s1 = s1
    s2 = s2
    s3 = s3
    u1 = u1
    u2 = u2
    NoJob = NoJob
    Saves = {s1, s3}
    Users = {u1, u2}
    UserOf <- MCUserOf
    MaxReceives = 1
    Faults = {}
PROPERTIES
    WatcherIsServed
CHECK_DEADLOCK FALSE
