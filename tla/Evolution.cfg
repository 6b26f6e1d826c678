SPECIFICATION FairEvolutionSpec
CONSTANTS
    Absent = Absent
    a = a
    b = b
    Texts <- MCTexts
    Fit <- MCFit
    MaxSurfacings = 1
    RoundCap = 2
    ErrorBound = 2
    MaxPins = 1
    MaxFaults = 1
INVARIANTS HistoryTellsAll
PROPERTIES MeetsTheProposal SlotIsResolved
