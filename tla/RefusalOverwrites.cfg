SPECIFICATION Spec
CONSTANTS
    Approvers = {a1}
    Workers = {w1, w2}
    Session = Session
    Trigger = Trigger
    Kinds = {"task"}
    Modes = {"human"}
    Faults = {}
    MaxServes <- ReleaseServes
    None = None
INVARIANTS FailedUnsent
CHECK_DEADLOCK FALSE
