CONSTANTS
    MaxChanges = 5
    MaxOrphans = 1
    MaxCrashes = 1
    Sessions = {s1}
    Agents = {a1, a2}
    Providers = {ollama}
    Default = ollama
    MaxMessages = 4
    MaxFaults = 2
SPECIFICATION StorageSpec
VIEW Remembered
SYMMETRY Terminals
CHECK_DEADLOCK FALSE
INVARIANT StorageTypeOK
INVARIANT EditsAreSafe
INVARIANT SessionsAreKept
PROPERTY ImplementsLog
PROPERTY EditsKeepEarlierSaves
