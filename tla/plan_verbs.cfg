SPECIFICATION Spec
CONSTANTS
    Plan = {p, q}
    Verb = {v}
    None = None
    Modes = {{}, {"refresh"}, {"refresh", "missing"}, {"backfill"}}
    MaxSave = 1
    SameSecond = TRUE
    Faults = {"vault", "read", "write", "auth"}
    Restarts = TRUE
INVARIANT OneDenialPerSweep
PROPERTY GateSkipsFreshOnly OnlyPopulateCreates
