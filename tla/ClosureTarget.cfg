\* Two roots, a task, an incident and a draft for each, one crash.
SPECIFICATION Spec
CONSTANTS
    RootCount = 2
    MaxCrashes = 1
INVARIANT JudgedInTurn
PROPERTIES
    RemediationEarned
    NewestServed
CHECK_DEADLOCK FALSE
