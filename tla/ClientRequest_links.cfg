SPECIFICATION Spec
CONSTANTS
    w1 = w1
    w2 = w2
    b1 = b1
    Workers <- TwoWorkers
    Browsers <- NoBrowser
    Lifetime = 1
    Dues <- SomeDue
    MaxLinks = 2
    MaxClock = 2
    MaxUploads = 0
SYMMETRY WorkerSymmetry
INVARIANTS OneUsableLink CancelledIsDark 
PROPERTIES FinishedStaysFinished
