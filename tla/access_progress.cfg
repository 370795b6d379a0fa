CONSTANTS
    Request = {r1, r2}
    User = {ann}
    Plan = {Free}
    B2BPlan = {}
    FreePlan = {Free}
    CheckoutSession = {s1}
    Otp = {1, 2}
    Accounts = {"registered"}
    Signup = signup
    MaxInFlight = 2
    AdminStatus = {}
    Operations = {"register", "verifyEmailOtp", "login", "handleGoogleCallback"}
SPECIFICATION FairSpec
PROPERTY EveryRequestEnds
CHECK_DEADLOCK FALSE
