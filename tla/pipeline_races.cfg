SPECIFICATION Spec 
CONSTANTS   Triggers = {t1, t2}   Waiters = {w1, w2}   Ops = {"create", "send", "collect", "plan", "recompute", "retry", "go", "go-real", "cron","closure","cancelPoll"}   MaxTriggers = 4   MaxFaults = 0   MaxCrashes = 1 
SYMMETRY Symmetry INVARIANT TypeOK INVARIANT AnnouncedOnlyOnGo INVARIANT BookedOnlyOnRealGo
PROPERTY CancelledJobStaysStill
CHECK_DEADLOCK FALSE
