SPECIFICATION Spec
CONSTANTS
    Approvers = {a1, a2}
    Workers = {w1, w2}
    Session = Session
    Trigger = Trigger
    Kinds = {"chat", "task"}
    Modes = {"human", "policy", "ticket_autonomy", "script_reviewer"}
    Faults = {"crash"}
    MaxServes <- ReleaseServes
    None = None
INVARIANTS TypeOK CalledOnce CallSettles DenialHolds EndingPublished NothingSent OutcomeKept
SYMMETRY PeerSymmetry
VIEW ReleaseView
CHECK_DEADLOCK FALSE
