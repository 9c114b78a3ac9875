\* Two workers that may crash anywhere, and a verifier; three events, one of them poison.
CONSTANTS
    Events = {e1, e2, e3}
    Poison = {e3}
    Workers = {w1, w2}
    ChainBatch = 2
    SinkBatch = 1
    PageSize = 1
    MaxRuns = 1
    None = None
SPECIFICATION Spec
SYMMETRY Symmetry
INVARIANT ChainLinked
PROPERTY ImplementsLog
INVARIANT PassedRangeMatches
INVARIANT OnlyLagIsReported
