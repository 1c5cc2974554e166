SPECIFICATION Spec
CONSTANTS
    w1 = w1
    w2 = w2
    a1 = a1
    a2 = a2
    Cases <- OneCase
    Agencies <- OneAgency
    Workers <- TwoWorkers
    Blocked <- NoCase
    Window = 1
    Retention = 1
    MaxRefs = 2
    MaxClock = 4
    MaxAborts = 1
CHECK_DEADLOCK FALSE
SYMMETRY WorkerSymmetry
INVARIANTS TypeOK ClosedCaseIsSettled OneActiveReferral ReviewedBeforeWork ClosedAtAgrees PromptDeleteIsRestorable PurgeLeavesNothing
PROPERTIES OutcomeIsFinal ImplementsBoard
