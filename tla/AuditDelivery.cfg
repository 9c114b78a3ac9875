\* One worker under fairness, no poison.
CONSTANTS
    Events = {e1, e2}
    Poison = {}
    Workers = {w1}
    ChainBatch = 1
    SinkBatch = 2
    PageSize = 2
    MaxRuns = 0
    None = None
SPECIFICATION FairSpec
PROPERTY ChainedIsDelivered
PROPERTY CapturedIsFinalized
