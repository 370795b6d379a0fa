CONSTANTS
    Request = {r1, r2}
    Earlier = earlier
    Operations <- MCOperations
    Documents <- MCDocuments
    Rules <- MCRules
    EditedTo = {"PREMIUM"}
    Memberships <- MCMemberships
    MaxRules = 2
    MaxProgress = 1
SYMMETRY Symmetry
SPECIFICATION Spec
INVARIANTS TypeOK LoggingInLosesNothing OnlyOverlapKeepsPatrons
PROPERTIES OnlyOverlapReveals OnlyOverlapLosesProgress
