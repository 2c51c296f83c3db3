CONSTANTS
  task = task
  plan = plan
  probe = probe
  lesson = lesson
  o1 = o1
  None = None
  Items = {task, plan, probe, lesson}
  PlaneOf <- MCPlaneOf
  Probes = {probe}
  Concurrent <- MCConcurrent
  Governance = FALSE
  AutoResume = TRUE
  Operators = {o1}
  Commands <- EveryCommand
  MaxCommands = 1
  MaxFaults = 1
SPECIFICATION Spec
CONSTRAINT StillClean
INVARIANTS ExclusivePlanes RunOwnsItem RetriedOnce
PROPERTY PauseHeld
