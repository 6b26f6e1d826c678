SPECIFICATION FairMomentsSpec
CONSTANTS
    Windows = {w1}
    Throttle = 2
    StuckFor = 2
    Threshold = 2
    AgendaGap = 1
    Full = 2
    Floor = 1
    MaxDrain = 2
    Window = 2
    DayEnd = 3
    MaxFlips = 2
    MaxStalls = 1
    MaxFaults = 1
    MaxRestarts = 1
    None = None
INVARIANTS WakesAreEarned EntriesFire
PROPERTY NothingIsDropped
