\* Two modes, two configs, three execution graphs in two places, two sets of
\* primitives, one edit; the bounds of the other modules are below.
SPECIFICATION MCSpec
CONSTANTS
    Modes = {"default", "shell"}
    DefaultMode = "shell"
    ConfigNames = {"usual", "denying"}
    GraphNames = {"good", "dangling", "illegal"}
    PrimNames = {"base", "doubled"}
    ModeDoc <- MCModeDoc
    ConfigDoc <- MCConfigDoc
    GraphDoc <- MCGraphDoc
    PrimDoc <- MCPrimDoc
    OtherGraphs <- MCOtherGraphs
    StageKinds <- MCStageKinds
    Lanes = {"foreground"}
    MaxEdits = 1
    Pids = {7}
    Nodes = {"build", "review"}
    GrantsOf <- MCGrantsOf
    RunnerOf <- MCRunnerOf
    Operators = {"ann", "bob"}
    MaxRequests = 2
    MaxDecisions = 2
    MaxStops = 1
    DraftCount = 2
    MaxRevision = 2
    TaskIds = {"t1", "t2", "t3"}
    MaxCrashes = 2
    Tasks = {1, 2, 3}
    DependsOn <- MCDependsOn
    RootOf <- MCRootOf
    MaxAuto = 1
    MaxBlocks = 3
    MaxDeaths = 1
    MaxRetries = 1
INVARIANTS
    TypesOK
    PlansSound
    RequestsKept
    DraftsAccounted
    RequeuesBooked
PROPERTIES
    ReloadNeverStale
    LaunchedAsDecided
    TransientOnly
CHECK_DEADLOCK FALSE
