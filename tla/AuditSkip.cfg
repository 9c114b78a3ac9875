\* Two transactions that commit in the other order than they took their positions.
CONSTANTS
    Events = {e1, e2}
    Poison = {}
    Workers = {w1}
    ChainBatch = 2
    SinkBatch = 1
    PageSize = 1
    MaxRuns = 0
    None = None
SPECIFICATION Spec
INVARIANT NothingSkipped
