SPECIFICATION FairSpec
CONSTANTS
    w1 = w1
    w2 = w2
    a1 = a1
    a2 = a2
    Cases <- TwoCases
    Agencies <- NoAgency
    Workers <- OneWorker
    Blocked <- FirstBlocked
    Window = 0
    Retention = 1
    MaxRefs = 1
    MaxClock = 3
    MaxAborts = 1
CHECK_DEADLOCK FALSE
PROPERTIES ExpiredIsPurged
