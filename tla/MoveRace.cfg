SPECIFICATION Spec
CONSTANTS
    Execs = {e1}
    Cancels = {}
    None = None
    Contained = {e1}
    Slow = {}
    Moves = TRUE
    GateFaults = FALSE
    MaxRestarts = 0
INVARIANTS HonestCancel
CHECK_DEADLOCK FALSE
