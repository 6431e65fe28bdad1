SPECIFICATION FairSpec
CONSTANTS
    Approvers = {a1}
    Workers = {w1}
    Session = Session
    Trigger = Trigger
    Kinds = {"chat", "agent", "task"}
    Modes = {"human", "policy", "ticket_autonomy", "script_reviewer"}
    Faults = {"crash", "throw", "ledger"}
    MaxServes <- EachOnce
    None = None
PROPERTIES Settles Told
CHECK_DEADLOCK FALSE
