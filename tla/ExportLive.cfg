CONSTANTS
    Jobs = {j1}
    Workers = {w1, w2}
    Tokens = {}
    Downloads = {}
    MaxAttempts = 2
    None = None
SPECIFICATION FairSpec
PROPERTIES QueuedEnds CompletedExpires
