SPECIFICATION FairSpec 
CONSTANTS   Writers = {w1, w2}   Provisional = {"p1", "p2"}   Final = {"f1"}   Ops = {"collect", "announce", "tick", "withdraw", "orphan", "cancel"}   Mishaps = {"refuse", "lose", "throw", "crash", "slow"}   PinEnabled = TRUE   MaxOps = 3   MaxMishaps = 2 
INVARIANT TypeOK INVARIANT OneWriter PROPERTY FinalStays
PROPERTY OrphanSettles
CHECK_DEADLOCK FALSE
