\* Push, poll, reaper and a caller that waits compete for a script with a secret
\* payload, beside an idempotent desktop stop that is re-armed.
SPECIFICATION Spec
CONSTANTS
    c1 = c1
    c2 = c2
    heartbeat = heartbeat
    poll = poll
    Commands = {c1, c2}
    Power = {}
    Diagnostic = {}
    QueuedBackup = {}
    Rearmable = {c2}
    Sensitive = {c1}
    Scripts = {c1}
    Interactive = {}
    Claimers = {heartbeat}
    Routes = {"dispatch", "execute", "queue"}
    GhostSends = FALSE
    ExecTimeout = 1
    DeliverWithin = 1
    EnqueueUntil = 1
    ClaimUntil = 2
    MaxTime = 3
    MaxRearms = 1
    MaxCopies = 2
    MaxTimeouts = 1
INVARIANTS
    TypeOK
    AtMostOnceDelivery
    NeverReceived
    AnswerStands
    ErasedNotDeliverable
CHECK_DEADLOCK FALSE
