SPECIFICATION FairSpec
CONSTANTS
    File = {a, b}
    None = None
    Writer = {w1, w2}
    Ops = {"put", "delete", "move"}
    MaxChange = 2
    Push = TRUE
    Lag = TRUE
    Fails = FALSE
    Human = TRUE
    Remote = FALSE
    Crashes = FALSE
INVARIANT CheckpointHoldsText
PROPERTY DiskIsCaptured
