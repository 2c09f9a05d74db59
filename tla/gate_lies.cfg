SPECIFICATION FairSpec
CONSTANTS
    Dir = {"open"}
    Name = {"a0", "a1"}
    Rule <- RuleOpen
    AtomDir = "open"
    AtomNames <- AtomSeq
    Worker = {w1}
    None = None
    HumanKinds <- KindsHuman
    MaxVer = 2
    TrashTries = 1
    Ops = {"write", "atom", "delete", "move", "audit"}
    Actors = {"agent"}
    ReadFaults = FALSE
    WriteFaults = TRUE
    PutLies = TRUE
    HumanActs = FALSE
    Crashes = TRUE
    LintOnCompute = TRUE
PROPERTY MoveSurvivesLies RequestsEnd
