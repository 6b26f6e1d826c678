SPECIFICATION FairBridgeSpec
CONSTANTS
    Unset = Unset
    MaxMessages = 3
    HistoryLimit = 2
    MaxCrashes = 1
    MaxFaults = 1
INVARIANTS NoGapNoRepeat
PROPERTIES SinkBeforeEvent ComesBack
CHECK_DEADLOCK FALSE
