SPECIFICATION Spec
CONSTANTS
    Component = {"loop"}
    Workflow = {"w1", "w2"}
    Root = "root"
    MaxSteps = 1
    MaxDepth = 2
    Client = {"a", "b"}
    MaxOps = 4
    MaxFaults = 2
    Proc = {"p", "q"}
    MaxEvents = 3
    MaxCrashes = 1
    MaxRename = 2
    Program <- MCProgram
    StartStep = "a"
    MaxTries = 2
    MaxTrail = 10
    MaxOpens = 2
    MaxCancels = 1
    Submitter = {"s", "t"}
    MaxRounds = 2
    MaxLaunch = 2
    TargetList <- MCTargetList
    StepTimeout = {0, 1, 28}
    MaxSpawn = 3
    SpawnTries = 2
    FormatTries = 2
    StoryCount = {2}
    FlowInput <- MCFlowInput
    MaxStrategy = 2
    MaxReviews = 2
    MaxValidations = 3
    DoctorAt = 2
    MaxCrash = 1
    PkgWorkflow = {"x", "y"}
    FileWorkflow = {"x"}
    Published = 2
    MaxCommands = 3
    MaxKills = 1
    FleetInput <- MCFleetInput
    DefaultTurns <- MCDefaultTurns
    ParentAnswer = {"yes", "no"}
    DelegateCrash = 1
    TrackConf <- MCTrackConf
    MaxSessions = 2
    MaxTrackCrash = 1
    SubConf <- MCSubConf
    DefaultLimit = 1
    MaxSubAttempts = 3
INVARIANT InvokedSettingsApply
CHECK_DEADLOCK FALSE
