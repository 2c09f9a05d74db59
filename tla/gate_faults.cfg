SPECIFICATION Spec
CONSTANTS
    Dir = {"open", "kept"}
    Name = {"n"}
    Rule <- RuleVoice
    AtomDir = "open"
    AtomNames <- NoAtoms
    Worker = {w1}
    None = None
    HumanKinds <- Kinds
    MaxVer = 2
    TrashTries = 1
    Ops = {"write", "compute", "delete", "move", "audit"}
    Actors = {"agent", "human"}
    ReadFaults = TRUE
    WriteFaults = TRUE
    PutLies = FALSE
    HumanActs = TRUE
    Crashes = TRUE
    LintOnCompute = TRUE
INVARIANT TypeOK
PROPERTY NothingSeenIsLost ProtectionHolds
