SPECIFICATION Spec
CONSTANTS
    Approvers = {a1, a2}
    Workers = {w1}
    Session = Session
    Trigger = Trigger
    Kinds = {"chat"}
    Modes = {"human"}
    Faults = {}
    MaxServes <- EachOnce
    None = None
INVARIANTS OutcomeUnobserved
CHECK_DEADLOCK FALSE
