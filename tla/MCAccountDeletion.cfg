SPECIFICATION Spec
CONSTANTS
    u1 = u1
    u2 = u2
    i1 = i1
    i2 = i2
    k1 = k1
    k2 = k2
    Users = {u1, u2}
    Workers = {k1, k2}
    Rows = {i1, i2}
SYMMETRY DeletionSymmetry
INVARIANT DueIsProcessed
CHECK_DEADLOCK FALSE
