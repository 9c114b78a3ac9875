CONSTANTS
    Jobs = {j1}
    Workers = {w1, w2}
    Tokens = {k1}
    Downloads = {d1, d2}
    MaxAttempts = 3
    None = None
SPECIFICATION Spec
SYMMETRY Symmetry
INVARIANTS LinkLeadsToFile
PROPERTIES HolderSettles ImplementsLifecycle
