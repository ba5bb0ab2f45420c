SPECIFICATION FairSpec
CONSTANTS
  Triggers = {t1}
  Waiters = {w1, w2}
  Ops = {"create", "cron", "closure", "cancelPoll", "toggle"}
  MaxTriggers = 6
  MaxFaults = 2
  MaxCrashes = 2
INVARIANT AtMostOnce
PROPERTY GoWaitEnds
CHECK_DEADLOCK FALSE
