SPECIFICATION SteadySpec
CONSTANT Inputs <- AllInputs
CHECK_DEADLOCK FALSE
INVARIANTS CourtsSound PlayersSound CountIsTrueInWindow
PROPERTY TerminatesIfCovered
