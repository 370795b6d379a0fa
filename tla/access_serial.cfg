CONSTANTS
    Request = {r1, r2, r3}
    User = {ann}
    Plan = {Free, Team}
    B2BPlan = {Team}
    FreePlan = {Free}
    CheckoutSession = {s1}
    Otp = {1}
    Accounts = {"registered", "member"}
    Signup = signup
    MaxInFlight = 1
    AdminStatus = {"ACTIVE"}
    Operations = {"createCheckoutSession", "verifySession", "assignCustomSubscription", "assignPlanManually", "cancelSubscription", "update", "updateUserSubscription", "toggleSuspendUser", "deleteUser", "register", "verifyEmailOtp", "login", "refreshToken", "handleGoogleCallback"}
SPECIFICATION Spec
SYMMETRY RequestSymmetry
INVARIANTS TypeOK SessionSettled
PROPERTIES
    OnlySuspensionUnbacksEnterprise
CHECK_DEADLOCK FALSE
