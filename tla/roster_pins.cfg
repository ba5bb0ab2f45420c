SPECIFICATION Spec
CONSTANTS
  Writers = {w1, w2}
  Provisional = {"p1", "p2"}
  Final = {"f1"}
  Ops = {"collect", "announce", "tick", "withdraw", "unpin", "stop", "retract", "orphan", "cancel"}
  Mishaps = {"refuse", "expire"}
  PinEnabled = TRUE
  MaxOps = 4
  MaxMishaps = 3
SYMMETRY Symmetry
INVARIANT PinsTracked
PROPERTY NoRepeat
PROPERTY CancelledStaysDown
CHECK_DEADLOCK FALSE
