-------------------------------- MODULE Access --------------------------------
(* Account access: every request of the subscription, user-management and auth
   services that writes the tables of AccessTables.  A request reads what it
   needs before it opens its transaction, then runs the transaction's
   statements; login, Google login and e-mail verification go through several
   transactions.  Requests of any number of clients interleave between any two
   statements.                                                              *)
EXTENDS AccessTables, FiniteSets

CONSTANTS
    Operations,    \* the operations the clients call
    AdminStatus,   \* the values of dto.status an administrator sends to update()
    MaxInFlight    \* how many requests run at once

ASSUME OperationsAssumption == AdminStatus \subseteq UserStatus

VARIABLES
    req,       \* req[o]: the operation of request o, its arguments and what it has read
    stage,     \* stage[o]: the transaction request o runs, or the read it is about to do
    session,   \* Stripe's checkout sessions
    older      \* older[k]: the subscriptions with an earlier createdAt than k's

vars == <<dbVars, req, stage, session, older>>

None == "none"

\* A Stripe session id is never the mark for having none.
ASSUME SessionAssumption == None \notin CheckoutSession

NoRequest ==
    [op |-> None, user |-> None, plan |-> None, role |-> None, status |-> None,
     target |-> None, session |-> None, code |-> 0, baseline |-> FALSE]

NoSession == [user |-> None, plan |-> None, status |-> None]

Transactions ==
    {"linkAccount", "verifyCode", "activateFree", "addStudent", "resync", "checkout",
     "assignPurchaseOrder", "assignManually", "cancel", "update", "updateSubscription",
     "suspend", "restore", "delete"}

InFlight == {o \in Request : stage[o] \notin {"idle", "done"}}

PlanOf(k) == IF k = Signup THEN CHOOSE p \in FreePlan : TRUE ELSE req[k].plan

\* The newest ACTIVE subscription of u: findFirst, orderBy createdAt desc.
ActiveSubs(u) == {k \in Key : db[Sub(u, k)] = "ACTIVE"}
Newest(u)     == {k \in ActiveSubs(u) : ActiveSubs(u) \ {k} \subseteq older[k]}

----------------------------------------------------------------------------
(* The transaction bodies: q is the request, o its key.                    *)
ActivateFree(q, o) ==
    <<Create(Sub(q.user, o), "ACTIVE"),
      Create(Ent(q.user, o), "ACTIVE"),
      DeactivateRoles(q.user), Upsert(Role(q.user, q.role), "on")>>

Checkout(q, o) ==
    <<Create(Sub(q.user, o), q.status),
      Write(Assign(q.user, q.session), "PAID"),
      Create(Ent(q.user, o), "ACTIVE"),
      DeactivateRoles(q.user), Upsert(Role(q.user, q.role), "on")>>

AssignManually(q, o) ==
    <<CloseSubscriptions(q.user, "CANCELED"), RevokeEntitlements(q.user),
      Create(Sub(q.user, o), "ACTIVE"),
      Create(Ent(q.user, o), "ACTIVE"),
      DeactivateRoles(q.user), Upsert(Role(q.user, q.role), "on")>>

AssignPurchaseOrder(q, o) ==
    <<CloseSubscriptions(q.user, "CANCELED"), RevokeEntitlements(q.user),
      Create(Sub(q.user, o), q.status),
      Create(Assign(q.user, o), "PAID"),
      Create(Ent(q.user, o), "ACTIVE"),
      DeactivateRoles(q.user), Upsert(Role(q.user, q.role), "on")>>

\* Without dto.status the last statement changes no column of the user.
WriteStatus(q) ==
    Statement(IF q.status = None THEN {} ELSE {Status(q.user)}, UserStatus, q.status)

Update(q, o) ==
    IF q.plan = None THEN <<WriteStatus(q)>>
    ELSE <<CloseSubscriptions(q.user, "EXPIRED"),
           Create(Sub(q.user, o), "ACTIVE"),
           RevokeEntitlements(q.user),
           Create(Ent(q.user, o), "ACTIVE"),
           DeactivateRoles(q.user), Upsert(Role(q.user, q.role), "on"),
           WriteStatus(q)>>

\* Expires the one subscription the request has read, if any.
UpdateSubscription(q, o) ==
    <<Statement(IF q.target = None THEN {} ELSE {Sub(q.user, q.target)},
                Value \ {Absent}, "EXPIRED"),
      Create(Sub(q.user, o), "ACTIVE"),
      RevokeEntitlements(q.user),
      Create(Ent(q.user, o), "ACTIVE"),
      DeactivateRoles(q.user), Upsert(Role(q.user, q.role), "on")>>

\* Mutant: the roles outlive the subscription.
CancelKeepingRoles(q) ==
    <<Write(Sub(q.user, q.target), "CANCELED"), RevokeEntitlements(q.user)>>

Cancel(q) ==
    <<Write(Sub(q.user, q.target), "CANCELED"), RevokeEntitlements(q.user),
      DeactivateRoles(q.user)>>

Suspend(q) ==
    <<Write(Status(q.user), "BLOCKED"),
      UpdateMany(Subs(q.user), {"ACTIVE"}, "CANCELED")>>

\* Mutant: an account that is restored gets its canceled subscriptions back.
RestoreReopening(q, o) ==
    <<Write(Status(q.user), "ACTIVE"), UpdateMany(Subs(q.user), {"CANCELED"}, "ACTIVE")>>

Restore(q, o) ==
    <<Write(Status(q.user), "ACTIVE"),
      CreateUnless(Sub(q.user, o), "ACTIVE", Subs(q.user))>>

\* Mutant: entitlements are revoked before the subscriptions are closed.
DeleteRevokingFirst(q) ==
    <<Write(Status(q.user), "DELETED"), UpdateMany(Roles(q.user), {"on", "off"}, "off"),
      RevokeEntitlements(q.user), CloseSubscriptions(q.user, "CANCELED")>>

Delete(q) ==
    <<Write(Status(q.user), "DELETED"), UpdateMany(Roles(q.user), {"on", "off"}, "off"),
      CloseSubscriptions(q.user, "CANCELED"), RevokeEntitlements(q.user)>>

LinkAccount(q) ==
    <<Write(Status(q.user), q.status), Write(Verified(q.user), "on"),
      CreateUnique(Provider(q.user), "on")>>

VerifyCode(q) ==
    <<Write(Code(q.user, q.code), "off"), Write(Status(q.user), "ACTIVE"),
      Write(Verified(q.user), "on")>>

Resync(q) == <<DeactivateRoles(q.user), Upsert(Role(q.user, q.role), "on")>>

\* A password login creates the STUDENT role, Google login upserts it.
AddStudent(q) ==
    IF q.op = "handleGoogleCallback"
    THEN <<Upsert(Role(q.user, "STUDENT"), "on")>>
    ELSE <<CreateUnique(Role(q.user, "STUDENT"), "on")>>

Body(st, q, o) ==
    CASE st = "linkAccount"         -> LinkAccount(q)
      [] st = "verifyCode"          -> VerifyCode(q)
      [] st = "activateFree"        -> ActivateFree(q, o)
      [] st = "addStudent"          -> AddStudent(q)
      [] st = "resync"              -> Resync(q)
      [] st = "checkout"            -> Checkout(q, o)
      [] st = "assignPurchaseOrder" -> AssignPurchaseOrder(q, o)
      [] st = "assignManually"      -> AssignManually(q, o)
      [] st = "cancel"              -> Cancel(q)
      [] st = "update"              -> Update(q, o)
      [] st = "updateSubscription"  -> UpdateSubscription(q, o)
      [] st = "suspend"             -> Suspend(q)
      [] st = "restore"             -> Restore(q, o)
      [] st = "delete"              -> Delete(q)

Program(o) == Body(stage[o], req[o], o)

----------------------------------------------------------------------------
(* A request arrives, does its reads and opens its (first) transaction.      *)
Enter(o, st, q) ==
    /\ stage[o] \notin Transactions
    /\ stage' = [stage EXCEPT ![o] = st]
    /\ req'   = [req   EXCEPT ![o] = q]
    /\ IF st \in Transactions THEN StartTransaction(o) ELSE UNCHANGED dbVars
    /\ UNCHANGED <<session, older>>

Arrive(o, op, u, st, q) ==
    /\ op \in Operations
    /\ stage[o] = "idle"
    /\ Cardinality(InFlight) < MaxInFlight
    /\ Enter(o, st, [q EXCEPT !.op = op, !.user = u])

\* A plan that costs nothing is activated at once, any other gets a Stripe session.
CreateCheckoutSession(o, u) ==
    \E p \in FreePlan :
        Arrive(o, "createCheckoutSession", u, "activateFree",
               [NoRequest EXCEPT !.plan = p, !.role = TargetRole(p)])

OpenSession(s, u, p, status) ==
    /\ session[s] = NoSession
    /\ session' = [session EXCEPT ![s] = [user |-> u, plan |-> p, status |-> status]]

CreatePaidCheckoutSession(s, u) ==
    /\ "createCheckoutSession" \in Operations
    /\ \E p \in Plan \ FreePlan, status \in LiveStatus : OpenSession(s, u, p, status)
    /\ UNCHANGED <<dbVars, req, stage, older>>

\* The payment link variant: a session and its PENDING assignment.
AssignPaymentLink(s, u) ==
    /\ "assignCustomSubscription" \in Operations
    /\ \E p \in Plan \ FreePlan, status \in LiveStatus : OpenSession(s, u, p, status)
    /\ db' = [db EXCEPT ![Assign(u, s)] = "PENDING"]
    /\ UNCHANGED <<pend, snap, busy, pc, req, stage, older>>

\* The client comes back from Stripe, as often as it likes.
FulfilledBy(s) == {k \in Request : req[k].session = s /\ db[Sub(req[k].user, k)] # Absent}

\* Mutant: the subscription the session already has is not looked up.
VerifySessionUnchecked(o, s) ==
    /\ session[s] # NoSession
    /\ LET p == session[s].plan IN
       Arrive(o, "verifySession", session[s].user, "checkout",
              [NoRequest EXCEPT !.plan = p, !.role = TargetRole(p), !.session = s,
                                !.status = session[s].status])

VerifySession(o, s) ==
    /\ session[s] # NoSession
    /\ FulfilledBy(s) = {}
    /\ LET p == session[s].plan IN
       Arrive(o, "verifySession", session[s].user, "checkout",
              [NoRequest EXCEPT !.plan = p, !.role = TargetRole(p), !.session = s,
                                !.status = session[s].status])

AssignCustomSubscription(o, u) ==
    \E p \in Plan, status \in LiveStatus :
        Arrive(o, "assignCustomSubscription", u, "assignPurchaseOrder",
               [NoRequest EXCEPT !.plan = p, !.role = TargetRole(p), !.status = status])

AssignPlanManually(o, u) ==
    \E p \in Plan :
        Arrive(o, "assignPlanManually", u, "assignManually",
               [NoRequest EXCEPT !.plan = p, !.role = TargetRole(p)])

\* Any subscription by its id, whatever its status; without an id, the newest live one.
CancelSubscription(o, u) ==
    \E k \in Key :
        /\ db[Sub(u, k)] # Absent
        /\ Arrive(o, "cancelSubscription", u, "cancel", [NoRequest EXCEPT !.target = k])

UpdateUser(o, u) ==
    \E p \in Plan \cup {None}, status \in AdminStatus \cup {None} :
        /\ p # None \/ status # None
        /\ Arrive(o, "update", u, "update",
                  [NoRequest EXCEPT !.plan = p, !.status = status,
                                    !.role = IF p = None THEN None ELSE TargetRole(p)])

UpdateUserSubscription(o, u) ==
    \E p \in Plan, k \in IF ActiveSubs(u) = {} THEN {None} ELSE Newest(u) :
        Arrive(o, "updateUserSubscription", u, "updateSubscription",
               [NoRequest EXCEPT !.plan = p, !.role = TargetRole(p), !.target = k])

ToggleSuspendUser(o, u) ==
    IF db[Status(u)] = "BLOCKED"
    THEN \E p \in FreePlan :
            Arrive(o, "toggleSuspendUser", u, "restore", [NoRequest EXCEPT !.plan = p])
    ELSE Arrive(o, "toggleSuspendUser", u, "suspend", NoRequest)

DeleteUser(o, u) == Arrive(o, "deleteUser", u, "delete", NoRequest)

\* Registering an unverified address again sends one more code.
Register(u) ==
    /\ "register" \in Operations
    /\ db[Verified(u)] = "off"
    /\ \E i \in Otp :
        /\ \A j \in Otp : j < i => db[Code(u, j)] # Absent
        /\ db[Code(u, i)] = Absent
        /\ db' = [db EXCEPT ![Code(u, i)] = "on"]
    /\ UNCHANGED <<pend, snap, busy, pc, req, stage, session, older>>

\* The newest code that is not used; the roles are read before the code is marked.
VerifyEmailOtp(o, u) ==
    \E i \in Otp :
        /\ db[Code(u, i)] = "on"
        /\ \A j \in Otp : j > i => db[Code(u, j)] # "on"
        /\ Arrive(o, "verifyEmailOtp", u, "verifyCode",
                  [NoRequest EXCEPT !.code = i, !.baseline = (ActiveRoles(u) = {})])

SignedIn(u) == db[Verified(u)] = "on" /\ db[Status(u)] = "ACTIVE"

Login(o, u) ==
    /\ SignedIn(u)
    /\ Arrive(o, "login", u, IF ActiveRoles(u) = {} THEN "ensure" ELSE "sync", NoRequest)

RefreshToken(o, u) ==
    /\ SignedIn(u)
    /\ Arrive(o, "refreshToken", u, "sync", NoRequest)

MayEnter(status) == status \notin {"BLOCKED", "DELETED", "INACTIVE"}

\* The first Google login writes back the status it has read.
HandleGoogleCallback(o, u) ==
    LET read == db[Status(u)]
        status == IF read = "PENDING_VERIFICATION" THEN "ACTIVE" ELSE read
    IN  \/ /\ db[Provider(u)] = Absent
           /\ Arrive(o, "handleGoogleCallback", u, "linkAccount",
                     [NoRequest EXCEPT !.status = status, !.baseline = MayEnter(status)])
        \/ /\ db[Provider(u)] # Absent
           /\ MayEnter(read)
           /\ Arrive(o, "handleGoogleCallback", u, "ensure", NoRequest)

----------------------------------------------------------------------------
(* A request that has ended is remembered, if it created a subscription, by the
   userId, planId and providerSubscriptionId of that row.                    *)
Created(o) == db[Sub(req[o].user, o)] # Absent

Proceed(o, st, hasRow) ==
    LET q == req[o] IN
    /\ stage' = [stage EXCEPT ![o] = st]
    /\ req' = [req EXCEPT ![o] =
                 IF st # "done" THEN q
                 ELSE IF hasRow THEN [NoRequest EXCEPT !.user = q.user, !.plan = q.plan,
                                                       !.session = q.session]
                 ELSE NoRequest]

----------------------------------------------------------------------------
(* The reads of the multi-transaction requests.                              *)
EnsureFreePlanForUser(o) ==
    /\ stage[o] = "ensure"
    /\ IF HasLive(req[o].user)
       THEN Enter(o, "addStudent", req[o])
       ELSE \E p \in FreePlan :
              Enter(o, "activateFree", [req[o] EXCEPT !.plan = p, !.role = TargetRole(p)])

SyncRoleFromActiveSubscription(o) ==
    LET u == req[o].user
        Settled(role) == role \in ActiveRoles(u)
    IN  /\ stage[o] = "sync"
        /\ \/ /\ \/ Settled("SUPER_ADMIN")
                 \/ ActiveSubs(u) = {}
                 \/ \E k \in Newest(u) : Settled(TargetRole(PlanOf(k)))
              /\ Proceed(o, "done", Created(o))
              /\ UNCHANGED <<dbVars, session, older>>
           \/ /\ ~Settled("SUPER_ADMIN")
              /\ \E k \in Newest(u) :
                    LET role == TargetRole(PlanOf(k)) IN
                    /\ ~Settled(role)
                    /\ Enter(o, "resync", [req[o] EXCEPT !.role = role])

----------------------------------------------------------------------------
(* The statements of the open transaction, and what the request does after it. *)
CurrentStatement(o) == Program(o)[pc[o]]

StartStatement(o) ==
    /\ Open(o) /\ pc[o] \in DOMAIN Program(o)
    /\ Snapshot(o, CurrentStatement(o))
    /\ UNCHANGED <<req, stage, session, older>>

ApplyStatement(o) ==
    /\ Open(o) /\ pc[o] \in DOMAIN Program(o)
    /\ Apply(o, CurrentStatement(o))
    /\ older' = IF CurrentStatement(o).rows = {Sub(req[o].user, o)}
                THEN [older EXCEPT ![o] = {k \in Key : Exists(Sub(req[o].user, k))}]
                ELSE older
    /\ UNCHANGED <<req, stage, session>>

\* verifyEmailOtp ends after the baseline, the logins go on to the role's sync.
AfterBaseline(q) ==
    IF q.op \in {"login", "handleGoogleCallback"} THEN "sync" ELSE "done"

AfterCommit(q, st) ==
    CASE st \in {"linkAccount", "verifyCode"} /\ q.baseline              -> "ensure"
      [] st = "activateFree" /\ q.op # "createCheckoutSession"           -> "student"
      [] st = "addStudent"                                               -> AfterBaseline(q)
      [] OTHER                                                           -> "done"

CommitTransaction(o) ==
    /\ Open(o) /\ pc[o] = Len(Program(o)) + 1
    /\ Commit(o)
    /\ Proceed(o, AfterCommit(req[o], stage[o]), Seen(o, Sub(req[o].user, o)) # Absent)
    /\ UNCHANGED <<session, older>>

\* The free plan is in place: the STUDENT role is the next transaction.
AddStudentRole(o) ==
    /\ stage[o] = "student"
    /\ Enter(o, "addStudent", req[o])

\* Mutant: a failed activation of the free plan is tried again.
AfterAbortRetrying(q, st) ==
    CASE st = "activateFree" -> "ensure"
      [] st = "addStudent"   -> AfterBaseline(q)
      [] OTHER               -> "done"

\* An error of the baseline is caught and the login goes on; any other ends the request.
AfterAbort(q, st) == IF st \in {"activateFree", "addStudent"} THEN AfterBaseline(q) ELSE "done"

AbortTransaction(o) ==
    /\ Abort(o)
    /\ Proceed(o, AfterAbort(req[o], stage[o]), Created(o))
    /\ older' = IF Created(o) THEN older ELSE [older EXCEPT ![o] = {}]
    /\ UNCHANGED session

----------------------------------------------------------------------------
Init ==
    /\ \E account \in [User -> Accounts] :
           db = [r \in Rows |-> InitialValue(account[r[2]], r)]
    /\ DbInit
    /\ req     = [o \in Request |-> NoRequest]
    /\ stage   = [o \in Request |-> "idle"]
    /\ session = [s \in CheckoutSession |-> NoSession]
    /\ older   = [k \in Key |-> {}]

Call(o, u) ==
    \/ CreateCheckoutSession(o, u)
    \/ \E s \in CheckoutSession : session[s].user = u /\ VerifySession(o, s)
    \/ AssignCustomSubscription(o, u)
    \/ AssignPlanManually(o, u)
    \/ CancelSubscription(o, u)
    \/ UpdateUser(o, u)
    \/ UpdateUserSubscription(o, u)
    \/ ToggleSuspendUser(o, u)
    \/ DeleteUser(o, u)
    \/ VerifyEmailOtp(o, u)
    \/ Login(o, u)
    \/ RefreshToken(o, u)
    \/ HandleGoogleCallback(o, u)

Run(o) ==
    \/ EnsureFreePlanForUser(o)
    \/ SyncRoleFromActiveSubscription(o)
    \/ StartStatement(o)
    \/ ApplyStatement(o)
    \/ CommitTransaction(o)
    \/ AddStudentRole(o)
    \/ AbortTransaction(o)

Next ==
    \/ \E o \in Request, u \in User : Call(o, u)
    \/ \E o \in Request : Run(o)
    \/ \E u \in User : Register(u)
    \/ \E s \in CheckoutSession, u \in User :
           CreatePaidCheckoutSession(s, u) \/ AssignPaymentLink(s, u)

Spec == Init /\ [][Next]_vars

\* A request that runs goes on: its statements end, or the database or Prisma ends it.
FairSpec == Spec /\ \A o \in Request : WF_vars(Run(o))

----------------------------------------------------------------------------
(* Properties.                                                               *)
Stage == {"idle", "ensure", "student", "sync", "done"} \cup Transactions

Requests ==
    [op : Operations \cup {None}, user : User \cup {None}, plan : Plan \cup {None},
     role : RoleCode \cup {None}, status : Value \cup {None},
     target : Key \cup {None}, session : CheckoutSession \cup {None}, code : Nat,
     baseline : BOOLEAN]

Sessions == [user : User, plan : Plan, status : LiveStatus] \cup {NoSession}

\* The type invariant.
TypeOK ==
    /\ db      \in [Rows -> Value]
    /\ pend    \in [Request -> [Rows -> Value \cup {NoWrite}]]
    /\ snap    \in [Request -> SUBSET Rows]
    /\ busy    \in [Request -> BOOLEAN]
    /\ pc      \in [Request -> Nat]
    /\ req     \in [Request -> Requests]
    /\ stage   \in [Request -> Stage]
    /\ session \in [CheckoutSession -> Sessions]
    /\ older   \in [Key -> SUBSET Key]

\* The committed write of request o's transaction st.
Commits(o, st) == stage[o] = st /\ CommitTransaction(o)

Orphaned(u, k) == db[Ent(u, k)] = "ACTIVE" /\ db[Sub(u, k)] \notin LiveStatus

(* Whatever runs at the same time, an ACTIVE entitlement loses its live
   subscription in one way only: the account is suspended.  Every other
   transaction that closes a subscription revokes the entitlements, and does it
   after the closing (subscription.service.ts:629-650, 971-983).             *)
OnlySuspensionOrphans ==
    [][\A u \in User, k \in Key :
          Orphaned(u, k)' => Orphaned(u, k) \/ \E o \in Request : Commits(o, "suspend")]_vars

----------------------------------------------------------------------------
\* How far a subscription has come with the entitlement it pays for, see Ledger.
LifeOf(sub, ent) ==
    CASE sub \in LiveStatus /\ ent = "ACTIVE"                -> "backed"
      [] sub \in LiveStatus /\ ent # "ACTIVE"                -> "bare"
      [] sub \notin LiveStatus /\ ent = "ACTIVE"             -> "orphaned"
      [] sub \notin LiveStatus \cup {Absent} /\ ent # "ACTIVE" -> "ended"
      [] sub = Absent /\ ent # "ACTIVE"                      -> "none"

Life == [u \in User |-> [k \in Key |-> LifeOf(db[Sub(u, k)], db[Ent(u, k)])]]

Books == INSTANCE Ledger WITH life <- Life

(* The services keep the promise of Ledger, statement by statement and whatever
   overlaps: an entitlement comes and goes with the subscription that pays for
   it, only a suspension leaves one behind, and what has ended stays ended.   *)
KeepsLedger == Books!Spec

----------------------------------------------------------------------------
(* What holds while requests of an account do not overlap (MaxInFlight = 1). *)

EnterpriseBacked(u) ==
    "ENTERPRISE" \in ActiveRoles(u) => \E k \in LiveSubs(u) : PlanOf(k) \in B2BPlan

(* An active ENTERPRISE role stands on a live B2B subscription; only a
   suspension, which leaves the roles alone, breaks that.                    *)
OnlySuspensionUnbacksEnterprise ==
    [][\A u \in User :
          ~EnterpriseBacked(u)' =>
              ~EnterpriseBacked(u) \/ \E o \in Request : Commits(o, "suspend")]_vars

(* A Stripe session yields one subscription however often the client comes back,
   and the assignment behind a payment link is PAID from that moment on.     *)
SessionSettled ==
    \A s \in CheckoutSession :
        /\ Cardinality(FulfilledBy(s)) <= 1
        /\ session[s] # NoSession =>
              LET a == db[Assign(session[s].user, s)] IN
              a # Absent => (a = "PAID" <=> FulfilledBy(s) # {})

----------------------------------------------------------------------------
\* Every request ends (under FairSpec): a lock is always released.
EveryRequestEnds == \A o \in Request : stage[o] # "idle" ~> stage[o] = "done"
===============================================================================
