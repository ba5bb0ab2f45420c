SPECIFICATION MCSpec
CONSTANTS
  Tel = {"tel"}
  Unmatched = {"jid"}
  Tasks = {1, 2}
  Mishaps = {"lookup", "refuse", "lose", "db", "crash"}
  MaxOps = 2
  MaxMishaps = 1
INVARIANTS OrganiserTold PlanKnowsIdentified
PROPERTY VotesSettled
