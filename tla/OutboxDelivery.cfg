SPECIFICATION FairSpec
CONSTANTS
    Rows = {r1, r2}
    Publishers = {p1, p2}
    MaxPublishAttempts = 1
    MaxStalled = 1
    MaxEvictions = 1
INVARIANTS TypeOK NoRowLost DedupeHolds
PROPERTIES Delivered
CHECK_DEADLOCK FALSE
