\* One script whose timeout the agent itself enforces and reports.
SPECIFICATION Spec
CONSTANTS
    c1 = c1
    c2 = c2
    heartbeat = heartbeat
    poll = poll
    Commands = {c1}
    Power = {}
    Diagnostic = {}
    QueuedBackup = {}
    Rearmable = {}
    Sensitive = {}
    Scripts = {c1}
    Interactive = {}
    Claimers = {heartbeat}
    Routes = {"dispatch"}
    GhostSends = FALSE
    ExecTimeout = 1
    DeliverWithin = 1
    EnqueueUntil = 1
    ClaimUntil = 2
    MaxTime = 3
    MaxRearms = 0
    MaxCopies = 2
    MaxTimeouts = 2
INVARIANTS
    HandledOnce
CHECK_DEADLOCK FALSE
