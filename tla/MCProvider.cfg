CONSTANTS
    Sessions = {s1}
    Agents = {a1}
    Providers = {ollama, remote}
    Default = ollama
    MaxMessages = 3
    MaxFaults = 0
SPECIFICATION StoreSpec
CHECK_DEADLOCK FALSE
INVARIANT TurnsGoWhereShown
