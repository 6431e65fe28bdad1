SPECIFICATION Spec
CONSTANTS
    Approvers = {a1}
    Workers = {w1}
    Session = Session
    Trigger = Trigger
    Kinds = {"agent"}
    Modes = {"policy"}
    Faults = {}
    MaxServes <- ReleaseServes
    None = None
PROPERTIES DecidedKept
CHECK_DEADLOCK FALSE
