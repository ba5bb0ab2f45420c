SPECIFICATION Spec
CONSTANTS
  r1 = r1
  r2 = r2
  Rows <- MCRows
  Edited <- MCEdited
  Reloads = {r1, r2}
  Horizon <- MCHorizon
  MaxEdits = 2
  MaxRestarts = 1
  MaxFailures = 1
CHECK_DEADLOCK FALSE
INVARIANTS TasksSound DatesSound WeekInOrder
