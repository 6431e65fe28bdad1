\* One command, two claimers and every route; a send that reports failure may
\* have reached the agent, so results can come in twice.  Fair schedulers.
SPECIFICATION FairSpec
CONSTANTS
    c1 = c1
    c2 = c2
    heartbeat = heartbeat
    poll = poll
    Commands = {c1}
    Power = {c1}
    Diagnostic = {}
    QueuedBackup = {c1}
    Rearmable = {}
    Sensitive = {c1}
    Scripts = {c1}
    Interactive = {c1}
    Claimers = {heartbeat, poll}
    Routes = {"dispatch", "execute", "queue"}
    GhostSends = TRUE
    ExecTimeout = 2
    DeliverWithin = 1
    EnqueueUntil = 1
    ClaimUntil = 3
    MaxTime = 6
    MaxRearms = 0
    MaxCopies = 2
    MaxTimeouts = 1
INVARIANTS
    ResultOnce
PROPERTIES
    KeepsPromise
    Settles
    CallerAnswered
CHECK_DEADLOCK FALSE
