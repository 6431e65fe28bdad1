SPECIFICATION Spec
CONSTANTS
    Runs = {r1}
    Cancels = {c1}
    Id = s1
    Ids <- OneId
    IdOf <- SameId
    Graced = {}
    None = None
PROPERTIES NotFoundNeverStarts
CHECK_DEADLOCK FALSE
