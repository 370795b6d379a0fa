CONSTANTS
    Request = {r1, r2}
    Earlier = earlier
    Operations = {"cancelSubscription", "handleCallback"}
    Documents <- MCDocuments
    Rules <- MCRules
    EditedTo = {"PREMIUM"}
    Memberships <- MCMemberships
    MaxRules = 2
    MaxProgress = 1
SYMMETRY Symmetry
SPECIFICATION Spec
PROPERTY SyncUnlocks
CHECK_DEADLOCK FALSE
