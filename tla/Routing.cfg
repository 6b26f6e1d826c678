SPECIFICATION Spec
CONSTANTS
    guild = guild
    None = None
    Links = {bridge}
    Serves <- MCServes
    Authors = {alice, bob}
    MaxSessionTurns = 2
    MaxConnections = 3
    MaxHandles = 5
SYMMETRY AuthorSymmetry
INVARIANTS NothingOutlivesItsConnection SteadyReplyArrives NoBystander
PROPERTY QuietAfterTheCap
