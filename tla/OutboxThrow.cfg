SPECIFICATION FairSpec
CONSTANTS
    Rows = {r1}
    Publishers = {p1}
    MaxPublishAttempts = 1
    MaxStalled = 1
    MaxEvictions = 1
PROPERTIES ThrowRedelivered
CHECK_DEADLOCK FALSE
