SPECIFICATION FairSpec
CONSTANTS
    Execs = {e1}
    Cancels = {k1}
    None = None
    Contained = {}
    Slow = {e1}
    Moves = TRUE
    GateFaults = TRUE
    MaxRestarts = 1
PROPERTIES Concludes
CHECK_DEADLOCK FALSE
