CONSTANTS
  task = task
  plan = plan
  probe = probe
  lesson = lesson
  o1 = o1
  None = None
  Items = {probe}
  PlaneOf <- MCPlaneOf
  Probes = {probe}
  Concurrent <- MCConcurrent
  Governance = TRUE
  AutoResume = TRUE
  Operators = {o1}
  Commands <- StopCommands
  MaxCommands = 2
  MaxFaults = 1
SPECIFICATION Spec
INVARIANT MailboxKept
PROPERTY StopObserved
