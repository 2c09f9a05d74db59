SPECIFICATION FairSpec
CONSTANTS
    Calls = {c, d}
    Edits = {e, l}
    Loose = {l}
    None = None
    Attempts = 2
    MaxFail = 2
    Writers = {c}
    MaxCalls = 1
INVARIANT TypeOK RetriesDoNotDuplicate
PROPERTY OkMeansVisible CallsEnd HealthRecovers
