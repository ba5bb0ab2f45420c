SPECIFICATION MCSpec
CONSTANTS
  Players = {1, 2, 3}
  Hours = {"h1", "h2"}
  Substitute = "lend"
  Options = {"h1", "h2"}
  NoVote = "none"
  Undated = {3}
  Blank = {2}
  Nobody = Nobody
  MaxCasts = 3
  MaxLate = 1
CHECK_DEADLOCK FALSE
INVARIANTS LedgerSound RosterSound OneMovePerEvent
