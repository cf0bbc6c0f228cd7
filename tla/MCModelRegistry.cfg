CONSTANTS
    Versions = {v1, v2}
    Procs = {api, cli}
SPECIFICATION MCSpec
SYMMETRY Symmetry
VIEW MCView
INVARIANT RegistryTypeOK
INVARIANT SingleProduction
INVARIANT ShippedHasCleared
