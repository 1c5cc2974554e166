SPECIFICATION Spec
CONSTANTS
    w1 = w1
    w2 = w2
    b1 = b1
    Workers <- TwoWorkers
    Browsers <- OneBrowser
    Lifetime = 1
    Dues <- NoDue
    MaxLinks = 1
    MaxClock = 1
    MaxUploads = 2
SYMMETRY WorkerSymmetry
INVARIANTS TypeOK OneLiveDocument
PROPERTIES RepliesInTime
