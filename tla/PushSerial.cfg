SPECIFICATION Spec
\* Edits are bounded and deleted applications do not come back: the system may stop.
CHECK_DEADLOCK FALSE
CONSTANTS
    a1 = a1
    a2 = a2
    w1 = w1
    w2 = w2
    w3 = w3
    Shared = Shared
    Nobody = Nobody
    Apps <- MCOneApp
    Workers <- MCTwoWorkers
    Requests <- MCRewrites
    PushesAtOnce = 1
    Faults = TRUE
    MaxEdits = 1
    MaxMishaps = 1
SYMMETRY WorkerSymmetry
INVARIANT
    TypeOK

    
