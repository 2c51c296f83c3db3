CONSTANTS
  task = task
  plan = plan
  probe = probe
  lesson = lesson
  None = None
  Items = {task, plan, probe, lesson}
  PlaneOf <- MCPlaneOf
  Entry <- MCEntry
  Concurrent <- MCConcurrent
  Edges <- MCEdges
  Resume <- MCResume
  FixPolicy <- MCFixPolicy
  BlockPolicy <- MCBlockPolicy
  Takes <- MCTakes
  Reported = {}
  MaxFix = 1
  MaxRepair = 1
  MaxHelp = 1
  MaxFaults = 1
  MaxRequeues = 0
SPECIFICATION Spec
PROPERTY RunsEnd
CHECK_DEADLOCK FALSE
