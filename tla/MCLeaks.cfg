CONSTANTS
    Scale = 10
    MaxTokens = 3
    MaxJobs = 2
    Ids = {1, 2, 3}
    Bucket <- BucketOf
    Fractions = {2, 6}
    MaxItems = 2
    MaxRuns = 2
    Ngram = 2
    Threshold = 60
    MaxTurns = 4
    Limits = {2, 5, 8, 20}
    Cap = 2
    TreeMax = 4
    Kids = {k1, k2}
    Leeway = 1
    MaxTime = 3
    Versions = {v1, v2}
SPECIFICATION RulesSpec
CHECK_DEADLOCK FALSE
INVARIANT LeaksFailTheGate
