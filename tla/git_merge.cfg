SPECIFICATION Spec
CONSTANTS
    File = {a, b}
    None = None
    Writer = {w1}
    Ops = {"put", "delete"}
    MaxChange = 3
    Push = TRUE
    Lag = TRUE
    Fails = TRUE
    Human = TRUE
    Remote = TRUE
    Crashes = TRUE
INVARIANT TypeOK
PROPERTY MergeKeepsDisk HistoryOnlyGrows
SYMMETRY Symmetry
