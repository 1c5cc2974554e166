\* Every form of the pages with two texts and two subjects; every guarded form.
SPECIFICATION MCSpec
CONSTANTS
    s1 = s1
    s2 = s2
    Table <- AllForms
    Subjects <- TwoSubjects
    MaxTexts = 2
    Known <- KnownFaults
    GuardTable <- GuardedForms
    MaxGuarded = 3
    GuardKnown <- GuardFaults
INVARIANTS NothingLost StoredOnce GoesWhereMeant NeverStuck LeavingAsks
\* The person may stop once the texts are used up.
CHECK_DEADLOCK FALSE
