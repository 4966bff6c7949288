CONSTANTS
    o1 = o1
    o2 = o2
    a = a
    b = b
    c = c
    e1 = e1
    e2 = e2
    Observations = {o1, o2}
    Signals = {a, b, c}
    Executions = {e1, e2}
    CreatedFrom <- OriginOf
    NoSignal = NoSignal
    PinLimit = 1
SPECIFICATION Spec
SYMMETRY Interchangeable
CHECK_DEADLOCK FALSE
INVARIANTS PinsLimited PendingOnlyWhileOpen InProgressHasWork ResolvedHasNoWork
PROPERTIES WorkDecides LifecycleSpec
