\* The bounds of the four modules.
SPECIFICATION MCSpec
CONSTANTS
    Ideas = {1, 2}
    Specs = {1, 2}
    SpecOf <- MCSpecOf
    Orders <- MCOrders
    MaxOrders = 2
    MaxWrites = 2
    MaxStops = 1
    MaxStages = 1
    Rules <- MCRules
    Quota = "off"
    AutoResume = TRUE
    Costs = {1, 2}
    Rolling = 2
    Week = 3
    MaxTime = 3
    MaxStarts = 2
    MaxSessions = 2
    MaxPauses = 1
    AssetCount = 3
    Versions = 3
    Shipped <- MCShipped
    MaxEdits = 1
    MaxCrashes = 1
    Epochs = 2
    MaxFaults = 1
INVARIANTS
    TypesOK
    NothingLostOrTwice
    FilesTellTheTruth
PROPERTIES
    NoStageOverBudget
    WritesInPlace
CHECK_DEADLOCK FALSE
