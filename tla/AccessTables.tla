----------------------------- MODULE AccessTables -----------------------------
(* The tables that decide what an account may use -- User, UserOtp, AuthProvider,
   UserRole, Subscription, Entitlement and CustomSubscriptionAssignment -- and
   the Prisma statements the services run on them.

   A row is <<table, user, key>>.  A request creates at most one subscription
   and one entitlement, so these rows are keyed by the request; Signup keys the
   pair a member got on the first login, before the run starts.               *)
EXTENDS ReadCommitted

CONSTANTS
    User,
    Plan,
    B2BPlan,     \* the plans whose targetAudience is B2B
    FreePlan,    \* the active plans whose priceAmount is 0
    CheckoutSession,
    Otp,         \* numbers of the verification codes a user can have been sent
    Accounts,    \* the kinds of account a run starts from, see InitialValue
    Signup       \* key of the subscription that predates the run

ASSUME PlanAssumption    == B2BPlan \subseteq Plan /\ FreePlan \subseteq Plan /\ FreePlan # {}
ASSUME RequestAssumption == Signup \notin Request /\ CheckoutSession \cap (Request \cup {Signup}) = {}
ASSUME AccountAssumption == Accounts \subseteq {"registered", "member", "superAdmin"}
ASSUME OtpAssumption     == Otp \subseteq Nat

Key == Request \cup {Signup}

RoleCode == {"SUPER_ADMIN", "STUDENT", "ENTERPRISE"}

UserStatus        == {"ACTIVE", "PENDING_VERIFICATION", "INACTIVE", "BLOCKED", "DELETED"}
LiveStatus        == {"ACTIVE", "TRIALING"}
SubscriptionState == {Absent, "ACTIVE", "TRIALING", "CANCELED", "EXPIRED"}
EntitlementState  == {Absent, "ACTIVE", "REVOKED"}
Switch            == {Absent, "off", "on"}                \* isActive, emailVerified, usedAt
AssignmentState   == {Absent, "PENDING", "PAID"}

Value == UserStatus \cup SubscriptionState \cup EntitlementState \cup Switch \cup AssignmentState

Status(u)    == <<"user", u, "status">>
Verified(u)  == <<"user", u, "emailVerified">>
Provider(u)  == <<"provider", u, "google">>
Code(u, i)   == <<"otp", u, i>>                           \* "on" until it is used
Role(u, c)   == <<"role", u, c>>
Sub(u, k)    == <<"sub", u, k>>
Ent(u, k)    == <<"ent", u, k>>
Assign(u, k) == <<"assign", u, k>>

Roles(u) == {Role(u, c) : c \in RoleCode}
Subs(u)  == {Sub(u, k) : k \in Key}
Ents(u)  == {Ent(u, k) : k \in Key}

Rows ==
    UNION {{Status(u), Verified(u), Provider(u)} \cup {Code(u, i) : i \in Otp}
           \cup Roles(u) \cup Subs(u) \cup Ents(u)
           \cup {Assign(u, k) : k \in Request \cup CheckoutSession} : u \in User}

\* Mutant: the audience stands for the role.
AudienceAsRole(p) == IF p \in B2BPlan THEN "B2B" ELSE "B2C"

TargetRole(p) == IF p \in B2BPlan THEN "ENTERPRISE" ELSE "STUDENT"

----------------------------------------------------------------------------
(* Prisma statements.                                                        *)
Statement(R, F, v) == [rows |-> R, from |-> F, to |-> v, unique |-> FALSE, unless |-> {}]

Create(r, v)        == Statement({r}, {Absent}, v)
Write(r, v)         == Statement({r}, Value \ {Absent}, v)
Upsert(r, v)        == Statement({r}, Value, v)
UpdateMany(R, F, v) == Statement(R, F, v)
CreateUnique(r, v) ==
    [rows |-> {r}, from |-> {Absent}, to |-> v, unique |-> TRUE, unless |-> {}]
CreateUnless(r, v, R) ==
    [rows |-> {r}, from |-> {Absent}, to |-> v, unique |-> FALSE, unless |-> R]

CloseSubscriptions(u, v) == UpdateMany(Subs(u), LiveStatus, v)
RevokeEntitlements(u)    == UpdateMany(Ents(u), {"ACTIVE"}, "REVOKED")
DeactivateRoles(u)       == UpdateMany(Roles(u), {"on"}, "off")

----------------------------------------------------------------------------
(* Reads of committed rows.                                                  *)
ActiveRoles(u) == {c \in RoleCode : db[Role(u, c)] = "on"}
HasLive(u)     == \E k \in Key : db[Sub(u, k)] \in LiveStatus
LiveSubs(u)    == {k \in Key : db[Sub(u, k)] \in LiveStatus}
ActiveEnts(u)  == {k \in Key : db[Ent(u, k)] = "ACTIVE"}

----------------------------------------------------------------------------
(* The accounts the runs start from.                                         *)
\* The rows that exist in an account of kind a; every other row is Absent.
InitialValue(a, r) ==
    CASE r[1] = "user" /\ r[3] = "status" ->
            IF a = "registered" THEN "PENDING_VERIFICATION" ELSE "ACTIVE"
      [] r[1] = "user" /\ r[3] = "emailVerified" ->
            IF a = "registered" THEN "off" ELSE "on"
      [] a = "registered" /\ r[1] = "otp" /\ r[3] = 1              -> "on"
      [] a = "member" /\ r[1] = "role" /\ r[3] = "STUDENT"         -> "on"
      [] a = "member" /\ r[1] \in {"sub", "ent"} /\ r[3] = Signup  -> "ACTIVE"
      [] a = "superAdmin" /\ r[1] = "role" /\ r[3] = "SUPER_ADMIN" -> "on"
      [] OTHER -> Absent
=============================================================================
