CONSTANTS
    Plan = {p1, p2}
    First = p1
    Request = {r1, r2}
    Operations <- MCOperations
    MaxAmount = 2
SYMMETRY Symmetry
SPECIFICATION Spec
INVARIANTS TypeOK OnlyDriftMisprices OnlyRepricingMisrecords
