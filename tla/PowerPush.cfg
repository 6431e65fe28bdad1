\* A reboot and another command, both pushed at enqueue.
SPECIFICATION Spec
CONSTANTS
    c1 = c1
    c2 = c2
    heartbeat = heartbeat
    poll = poll
    Commands = {c1, c2}
    Power = {c1}
    Diagnostic = {}
    QueuedBackup = {}
    Rearmable = {}
    Sensitive = {}
    Scripts = {}
    Interactive = {}
    Claimers = {heartbeat}
    Routes = {"dispatch"}
    GhostSends = FALSE
    ExecTimeout = 1
    DeliverWithin = 1
    EnqueueUntil = 1
    ClaimUntil = 2
    MaxTime = 3
    MaxRearms = 0
    MaxCopies = 2
    MaxTimeouts = 1
PROPERTIES
    PowerClaimedAlone
CHECK_DEADLOCK FALSE
