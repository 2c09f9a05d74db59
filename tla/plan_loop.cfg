SPECIFICATION FairSpec
CONSTANTS
    Plan = {p, q}
    Verb = {}
    None = None
    Modes = {}
    MaxSave = 3
    SameSecond = TRUE
    Faults = {"vault", "read", "write", "auth"}
    Restarts = FALSE
INVARIANT TypeOK
PROPERTY CopiesConverge
