SPECIFICATION Spec
CONSTANTS
    Dir = {"open", "kept"}
    Name = {"n"}
    Rule <- RuleBody
    AtomDir = "open"
    AtomNames <- NoAtoms
    Worker = {w1, w2}
    None = None
    HumanKinds <- Kinds
    MaxVer = 1
    TrashTries = 1
    Ops = {"write", "delete", "move", "audit"}
    Actors = {"agent"}
    ReadFaults = FALSE
    WriteFaults = FALSE
    PutLies = FALSE
    HumanActs = FALSE
    Crashes = FALSE
    LintOnCompute = TRUE
INVARIANT ViewsFit
PROPERTY AgentKeepsGuardedBodies
SYMMETRY WorkerSymmetry
