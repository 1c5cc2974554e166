SPECIFICATION FairSpec
CONSTANTS
    u1 = u1
    u2 = u2
    Pages <- AllPages
    Users <- TwoUsers
    MaxClicks = 3
INVARIANTS OwnFiltersOnly CountIsOfExport
PROPERTIES FilterDuringTypingKept ComesToRest
CHECK_DEADLOCK FALSE
