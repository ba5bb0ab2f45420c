SPECIFICATION FairSpec
CONSTANTS
  t1 = t1
  t2 = t2
  Tasks = {t1, t2}
  Ops = {"collect", "confirm", "cancel", "nextPoll"}
  Mishaps = {"refuse", "lose", "db", "crash"}
  MaxOps = 3
  MaxMishaps = 1
CHECK_DEADLOCK FALSE
INVARIANTS SentOnce CollectionSound
PROPERTY RecapUnpinned
