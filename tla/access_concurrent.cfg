CONSTANTS
    Request = {r1, r2}
    User = {ann}
    Plan = {Free, Team}
    B2BPlan = {Team}
    FreePlan = {Free}
    CheckoutSession = {s1}
    Otp = {1}
    Accounts = {"registered", "member", "superAdmin"}
    Signup = signup
    MaxInFlight = 2
    AdminStatus = {}
    Operations = {"createCheckoutSession", "verifySession", "assignCustomSubscription", "assignPlanManually", "cancelSubscription", "update", "updateUserSubscription", "toggleSuspendUser", "deleteUser", "verifyEmailOtp", "login", "handleGoogleCallback"}
SPECIFICATION Spec
SYMMETRY RequestSymmetry
PROPERTIES
    OnlySuspensionOrphans
    KeepsLedger
CHECK_DEADLOCK FALSE
