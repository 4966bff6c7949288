CONSTANTS
    LastDay = 2
    DayLength = 2
    Windows <- Moments
    Horizon = 1
    Owners = {a}
    Commands = {c1}
    Materializers = {m1}
SPECIFICATION FairSpec
CHECK_DEADLOCK FALSE
INVARIANTS FollowsSchedule
PROPERTIES CanceledByPersonStays OccurrenceSpec OccurrencesAppear
