SPECIFICATION FairSpec
CONSTANTS
    Channels = {private, guild}
    MaxArrivals = 3
    MaxCrashes = 2
    MaxFaults = 2
INVARIANTS TypeOK NothingForgotten ServedOnce
PROPERTIES ChannelOrder QueuedIsServed KeepsThePromise
