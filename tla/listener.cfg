SPECIFICATION FairListenerSpec
CONSTANTS
  g1 = g1
  all = all
  Groups = {g1, all}
  VincentAll = all
  PageGroup = g1
  EventKinds = {"vote", "message"}
  Mishaps = {"db", "refuse", "lose", "ack", "crash", "cut"}
  MaxEvents = 2
  MaxReads = 2
  MaxChanges = 2
  MaxMishaps = 1
CHECK_DEADLOCK FALSE
INVARIANT RelaySound
PROPERTIES EventuallyStored CopiesFollow
