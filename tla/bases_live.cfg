SPECIFICATION FairSpec
CONSTANTS
    Files = {f}
    Front = {open, closed}
    Maps = {apart, joint}
    None = None
    Sessions = {s1, s2}
    Handles = {h1, h2}
    Matching <- MCMatching
    MaxChanges = 5
    f = f
    open = open
    closed = closed
    apart = apart
    joint = joint
INVARIANT TypeOK HashesAreCurrent OwnersAreTold
PROPERTY NoticesEnd
CHECK_DEADLOCK FALSE
