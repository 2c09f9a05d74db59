SPECIFICATION FairSpec
CONSTANTS
    Files = {f}
    Front = {open}
    Maps = {joint}
    None = None
    Sessions = {s1}
    Handles = {h1}
    Matching <- MCMatching
    MaxChanges = 1
    f = f
    open = open
    closed = closed
    apart = apart
    joint = joint
PROPERTY ChangesAreTold
CHECK_DEADLOCK FALSE
