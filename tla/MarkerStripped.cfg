SPECIFICATION Spec
CONSTANTS
    Execs = {e1}
    Cancels = {k1}
    None = None
    Contained = {e1}
    Slow = {}
    Moves = FALSE
    GateFaults = FALSE
    MaxRestarts = 0
PROPERTIES MarkerCloses
CHECK_DEADLOCK FALSE
