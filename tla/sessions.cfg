SPECIFICATION Spec
CONSTANTS
    Request = {r1, r2, r3}
    Earlier = earlier
    Letter = letter
    Operations = {"login", "handleGoogleCallback", "refreshToken", "forgotPassword", "resetPassword",
        "verifyEmailOtp", "toggleSuspendUser", "update", "deleteUser", "hardDeleteUser"}
    AdminStatus = {"ACTIVE", "PENDING_VERIFICATION", "DELETED"}
SYMMETRY Symmetry
CHECK_DEADLOCK FALSE
INVARIANTS
    TypeOK
    OnlyOverlapForksSession
    OnlyLateSavesOutlive
    OnlyOverlapReusesCode
PROPERTIES
    OnlyOvertakenSavesEvade
    OnlyStaleReadsRevive
