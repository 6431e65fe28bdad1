SPECIFICATION FewCalls
CONSTANTS
    Runs = {r1, r2}
    Cancels = {c1, c2}
    Id = s1
    Ids <- OneId
    IdOf <- SameId
    Graced = {c1}
    None = None
INVARIANTS TypeOK StoppedForGood KilledWholeGroup KillIsMarked RefusalObeyed OneProcessPerId
PROPERTIES RunEnds CancelAnswered RefusalForgotten
CHECK_DEADLOCK FALSE
