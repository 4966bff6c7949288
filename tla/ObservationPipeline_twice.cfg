CONSTANTS
    Observations = {o1}
    Workers = {w1, w2}
    Sweeps = {s1}
    NoObservation = NoObservation
    MaxAttempts = 3
    TimeLimit = 2
    StuckThreshold = 2
    RetryDelay = 1
    MaxMessages = 2
SPECIFICATION Spec
INVARIANTS AtMostOnceApplied
SYMMETRY WorkerSymmetry
