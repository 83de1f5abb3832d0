SPECIFICATION Spec
CONSTANTS
    p1 = p1
    p2 = p2
    infra = infra
    self = self
    hosted = hosted
    Process <- TwoProcesses
    Key <- Keys
    Runs <- SelfAndHosted
    Window = 3
    MinSamples = 2
    Took <- Durations
    MaxRuns = 4
    MayFail = TRUE
SYMMETRY Symmetry
CHECK_DEADLOCK FALSE
INVARIANTS
    TypeOK
    NothingInvented
    IntactKeepsLastRuns
    EstimatesAreOfTheHistory
