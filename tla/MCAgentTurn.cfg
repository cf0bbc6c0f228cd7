CONSTANTS
    edit = edit
    run = run
    path = path
    NoPath = NoPath
    Calls <- MCCalls
    Attr <- MCAttr
    Paths <- MCPaths
    ToolNames = {"fs.edit", "shell.exec"}
    AllowNetwork = FALSE
    Approver = "tty"
    Replies <- MCReplies
    MaxIterations = 3
    MaxAttempts = 3
    LoopLimit = 2
    UserModes = {"agent"}
    MaxTurns = 1
    MaxCrashes = 0
    MaxFaults = 1
SPECIFICATION FairSpec
PROPERTY TurnEnds
