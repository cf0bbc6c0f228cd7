CONSTANTS
    edit = edit
    run = run
    path = path
    NoPath = NoPath
    Calls <- MCCalls
    Attr <- MCAttr
    Paths <- MCPaths
    ToolNames = {"fs.edit", "shell.exec"}
    AllowNetwork = FALSE
    Approver = "tty"
    Replies <- MCFewReplies
    MaxIterations = 2
    MaxAttempts = 2
    LoopLimit = 3
    UserModes = {"agent"}
    MaxTurns = 2
    MaxCrashes = 0
    MaxFaults = 0
SPECIFICATION AgentSpec
INVARIANT NoDanglingCall
