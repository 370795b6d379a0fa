CONSTANTS
    a = a
    b = b
    c = c
    d = d
    Item <- MCItem
    Request = {r1, r2}
    Operations <- MCOperations
    MaxTarget = 4
    MaxBatch = 2
    Initial <- MCInitial
SYMMETRY Symmetry
SPECIFICATION Spec
INVARIANTS TypeOK LoneNeverCollides
PROPERTY KeepsRanks
