SPECIFICATION Spec
CONSTANTS
    Execs = {e1, e2}
    Cancels = {}
    None = None
    Contained = {e1, e2}
    Slow = {}
    Moves = FALSE
    GateFaults = FALSE
    MaxRestarts = 0
INVARIANTS BatchCloses
CHECK_DEADLOCK FALSE
