SPECIFICATION FairSpec
CONSTANTS
    Replica = {r1, r2}
    Nobody = nobody
    LeaseDuration = 3
    RenewDeadline = 2
    StartUpDelay = 2
    Stall = 1
    MaxFaults = 2
INVARIANT OneRepairer
PROPERTY LeaseReclaimed
