SPECIFICATION FairSpec
CONSTANTS
    Approvers = {a1}
    Workers = {w1, w2}
    Session = Session
    Trigger = Trigger
    Kinds = {"chat"}
    Modes = {"human"}
    Faults = {"crash"}
    MaxServes <- ApprovalTwice
    None = None
PROPERTIES FailureTold
CHECK_DEADLOCK FALSE
