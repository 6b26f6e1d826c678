SPECIFICATION FairSpec
CONSTANTS
  Pids = {p1, p2, p3}
  None = None
  MaxConsecutive = 2
  MaxDeaths = 2
INVARIANTS TypeOK StoppedMeansGone OneChild
PROPERTY ComesToAnEnd
