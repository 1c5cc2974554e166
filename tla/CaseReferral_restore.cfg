SPECIFICATION Spec
CONSTANTS
    w1 = w1
    w2 = w2
    a1 = a1
    a2 = a2
    Cases <- OneCase
    Agencies <- OneAgency
    Workers <- TwoWorkers
    Blocked <- NoCase
    Window = 1
    Retention = 1
    MaxRefs = 1
    MaxClock = 4
    MaxAborts = 0
CHECK_DEADLOCK FALSE
INVARIANTS ChildrenStayInWindow
