SPECIFICATION Spec
CONSTANTS
    Runs = {r1, r2}
    Cancels = {c1, c2}
    Id = s1
    Ids <- OneId
    IdOf <- SameId
    Graced = {c1}
    None = None
INVARIANTS TypeOK StoppedForGood KilledWholeGroup KillIsMarked RefusalObeyed OneProcessPerId
SYMMETRY RunSymmetry
CHECK_DEADLOCK FALSE
