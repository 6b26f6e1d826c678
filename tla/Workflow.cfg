SPECIFICATION FairSpec
CONSTANTS
    t1 = t1
    t2 = t2
    None = None
    Tasks <- MCTasks
    Permits = 1
    MaxCommands = 2
    MaxFaults = 1
INVARIANTS NothingOutlivesItsCaller ResultIsHonest
PROPERTY KeepsItsWord
CHECK_DEADLOCK FALSE
