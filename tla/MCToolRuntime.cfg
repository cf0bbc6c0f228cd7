CONSTANTS
    editA = editA
    writeA = writeA
    editB = editB
    run = run
    escape = escape
    bogus = bogus
    badArgs = badArgs
    pathA = pathA
    pathB = pathB
    NoPath = NoPath
    Calls <- MCCalls
    Attr <- MCAttr
    Paths <- MCPaths
    ToolNames = {"fs.edit", "fs.write", "shell.exec", "no.tool"}
    AllowNetwork = FALSE
    MaxCalls = 2
    MaxOrphans = 1
    Approver = "tty"
SPECIFICATION ToolSpec
CONSTRAINT Bound
INVARIANT ToolTypeOK
INVARIANT ConsentIsKept
INVARIANT EffectsWithinCeiling
INVARIANT RefusedNeverLands
INVARIANT EffectsAudited
