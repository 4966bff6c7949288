CONSTANTS
    l1 = l1
    p1 = p1
    e1 = e1
    Signals = {s1}
    LastContent = 1
    Patterns = {p1, p2}
    Labels = {l1, l2}
    FirstLabel <- OneLabel
    Establishments = {e1}
    Home <- OneHome
    Tasks = {w1}
    Directs = {d1}
    Owners = {o1}
    MaxProviderCalls = 2
    MaxMessages = 1
    MaxAttempts = 6
    NoPattern = NoPattern
    NoLabel = NoLabel
SPECIFICATION Spec
CHECK_DEADLOCK FALSE
PROPERTIES MergedLabelFollowed
