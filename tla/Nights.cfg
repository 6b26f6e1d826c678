SPECIFICATION FairSpec
CONSTANTS
    LastDay = 3
    MaxEvents = 3
    MaxEntries = 3
    TailLines = 2
INVARIANTS DaysAreDoneOnce
PROPERTIES SelfIsForReflection OldestDayGetsDone
CHECK_DEADLOCK FALSE
