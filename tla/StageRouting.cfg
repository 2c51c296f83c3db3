CONSTANTS
  task = task
  plan = plan
  probe = probe
  lesson = lesson
  None = None
  Items = {task, lesson}
  PlaneOf <- MCPlaneOf
  Entry <- MCEntry
  Concurrent <- MCConcurrent
  Edges <- MCEdges
  Resume <- MCResume
  FixPolicy <- MCFixPolicy
  BlockPolicy <- MCBlockPolicy
  Takes <- MCTakes
  Reported = {}
  MaxFix = 1
  MaxRepair = 1
  MaxHelp = 4
  MaxFaults = 1
  MaxRequeues = 1
SPECIFICATION Spec
INVARIANTS RepairBudget FixBudget ExhaustionEarned IncidentOncePerRun
CHECK_DEADLOCK FALSE
