SPECIFICATION Spec
CONSTANTS
    Execs = {e1}
    Cancels = {k1, k2}
    None = None
    Contained = {e1}
    Slow = {e1}
    Moves = FALSE
    GateFaults = FALSE
    MaxRestarts = 1
INVARIANTS TypeOK HonestCancel CreditedStop
PROPERTIES DecidedStays
SYMMETRY StopSymmetry
CHECK_DEADLOCK FALSE
