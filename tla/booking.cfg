SPECIFICATION Spec
CONSTANTS
  Inputs <- MCInputs
  Mishaps <- MCMishaps
  MaxMishaps = 2
  MaxRuns = 2
CHECK_DEADLOCK FALSE
INVARIANTS BookingSound NamesSound
PROPERTIES NoRescueMissed KeepsPromise
