SPECIFICATION FairSpec
CONSTANTS
  Waits = {w1, w2}
  MaxMessages = 3
  MaxWaits = 4
  MaxFaults = 2
INVARIANT GoTypeOK
INVARIANT NoneSkipped
INVARIANT GoSpentOnce
PROPERTY GoHeard
CHECK_DEADLOCK FALSE
