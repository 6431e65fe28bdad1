SPECIFICATION Spec
CONSTANTS
    Execs = {e1, e2}
    Cancels = {k1}
    None = None
    Contained = {e1}
    Slow = {e1}
    Moves = FALSE
    GateFaults = FALSE
    MaxRestarts = 0
INVARIANTS SlotOnce HonestCancel
CHECK_DEADLOCK FALSE
