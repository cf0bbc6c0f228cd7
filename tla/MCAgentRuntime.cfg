CONSTANTS
    edit = edit
    run = run
    path = path
    NoPath = NoPath
    Calls <- MCCalls
    Attr <- MCAttr
    Paths <- MCPaths
    ToolNames = {"fs.edit", "shell.exec"}
    AllowNetwork = FALSE
    Approver = "tty"
    Replies <- MCFewReplies
    MaxIterations = 2
    MaxAttempts = 2
    LoopLimit = 2
    UserModes = {"workspace", "agent"}
    MaxTurns = 2
    MaxCrashes = 1
    MaxFaults = 1
SPECIFICATION AgentSpec
INVARIANT AgentTypeOK
INVARIANT ConversationsReadable
INVARIANT TurnsAreTruthful
INVARIANT FileKeepsUp
PROPERTY NothingStartsAfterCtrlC
PROPERTY ImplementsPipeline
