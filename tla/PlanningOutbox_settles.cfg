CONSTANTS
    first = first
    again = again
    other = other
    k = k
    e1 = e1
    e2 = e2
    notice = notice
    plan1 = plan1
    plan2 = plan2
    Requests = {first, again, other}
    Keys = {k}
    KeyOf <- Key
    IntentOf <- Intent
    Entries = {e1, e2}
    EntriesOf <- Effects
    Notices = {notice}
    NoticeOf <- Notice
    Workers = {w1, w2}
    MaxAttempts = 2
    BatchSize = 2
    NoRequest = NoRequest
    NoEntry = NoEntry
SPECIFICATION FairSpec
CHECK_DEADLOCK FALSE
INVARIANTS RepeatsReplayed ProcessedMeansTold
PROPERTIES OutcomeSpec EntriesSettle
