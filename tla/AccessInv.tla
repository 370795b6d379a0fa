------------------------------ MODULE AccessInv ------------------------------
(* The inductive invariants of Access: why a transaction that closes a
   subscription cannot commit while an entitlement of it stays ACTIVE, and what
   holds besides while requests do not overlap.                              *)
EXTENDS Access

\* The transactions that create the subscription and its entitlement.
Granting ==
    {"activateFree", "checkout", "assignPurchaseOrder", "assignManually", "update",
     "updateSubscription"}

\* The stages of a request that has not committed a subscription yet.
Fresh == {"idle", "linkAccount", "verifyCode", "ensure", "restore"} \cup Granting

\* The arguments each stage relies on.
ArgumentsOK(st, q) ==
    /\ st \notin {"idle", "done"} => q.user \in User
    /\ st \in (Granting \ {"update"}) \cup {"resync"} => q.role \in RoleCode
    /\ st = "update" /\ q.plan # None => q.role \in RoleCode
    /\ st \in {"checkout", "assignPurchaseOrder"} => q.status \in LiveStatus
    /\ st = "linkAccount" => q.status \in Value
    /\ st = "checkout" => q.session \in CheckoutSession
    /\ st = "cancel" => q.target \in Key
    /\ st = "updateSubscription" => q.target \in Key \cup {None}
    /\ st = "update" => q.status \in UserStatus \cup {None}
    /\ st = "verifyCode" => q.code \in Otp

Arguments(o) == ArgumentsOK(stage[o], req[o])

\* A request has a transaction in the stages that name one; between them it holds nothing.
Transactional(o) ==
    /\ Open(o) <=> stage[o] \in Transactions
    /\ ~Open(o) => pend[o] = [r \in Rows |-> NoWrite] /\ ~busy[o]

\* The running statement matched rows of its own; no statement runs without a snapshot.
Snapshots(o) ==
    IF busy[o] THEN pc[o] \in DOMAIN Program(o) /\ snap[o] \subseteq CurrentStatement(o).rows
               ELSE snap[o] = {}

\* What a transaction has written, one of its past statements has named.
WrittenByStatement(o) ==
    \A r \in Rows :
        pend[o][r] # NoWrite => \E i \in DOMAIN Program(o) : i < pc[o] /\ r \in Program(o)[i].rows

Creates(s, u, o) == Sub(u, o) \in s.rows /\ Absent \in s.from

HasCreated(o, u) == \E i \in DOMAIN Program(o) : i < pc[o] /\ Creates(Program(o)[i], u, o)

\* The subscription a granting transaction creates is live from its INSERT on.
CreatedLive(o) ==
    stage[o] \in Granting =>
        \A u \in User :
            /\ HasCreated(o, u)  => pend[o][Sub(u, o)] \in LiveStatus
            /\ ~HasCreated(o, u) => pend[o][Sub(u, o)] = NoWrite
            /\ busy[o] /\ Creates(CurrentStatement(o), u, o) => Sub(u, o) \in snap[o]

\* An uncommitted ACTIVE entitlement was inserted after its subscription.
GrantedAfterCreated(o) ==
    \A u \in User, k \in Key :
        pend[o][Ent(u, k)] = "ACTIVE" => k = o /\ stage[o] \in Granting /\ HasCreated(o, u)

\* Only its own request inserts a subscription row; it is absent while the request is fresh.
OwnRows(o) ==
    \A u \in User :
        /\ stage[o] \in Fresh => db[Sub(u, o)] = Absent
        /\ \A k \in Key \ {o} : pend[o][Sub(u, k)] # NoWrite => db[Sub(u, k)] # Absent
        /\ \A k \in Key : pend[o][Sub(u, k)] # Absent

Closing(o, u, k) == pend[o][Sub(u, k)] \notin LiveStatus \cup {NoWrite}

(* The heart: a transaction that has closed a subscription whose entitlement it
   still sees ACTIVE has the revocation ahead of it, or running on that row.  *)
RevocationAhead(o) ==
    \A u \in User, k \in Key :
        stage[o] # "suspend" /\ Closing(o, u, k) /\ Seen(o, Ent(u, k)) = "ACTIVE" =>
            \E i \in DOMAIN Program(o) :
                /\ i >= pc[o]
                /\ Program(o)[i] = RevokeEntitlements(u)
                /\ busy[o] /\ i = pc[o] => Ent(u, k) \in snap[o]

\* What concerns the request's own state alone, and what relates it to the committed rows.
Own(o) ==
    /\ Arguments(o)
    /\ Transactional(o)
    /\ Snapshots(o)
    /\ WrittenByStatement(o)
    /\ CreatedLive(o)
    /\ GrantedAfterCreated(o)

Committed(o) == OwnRows(o) /\ RevocationAhead(o)

IInv ==
    /\ TypeOK
    /\ LocksExclusive
    /\ \A o \in Request : Own(o) /\ Committed(o)

----------------------------------------------------------------------------
(* What holds while one request runs at a time (MaxInFlight = 1).            *)
Solo == \A o, p \in InFlight : o = p

\* Only a checkout has a session: an open one of its user that has yielded nothing yet.
HasSession(o) ==
    LET q == req[o] IN
    /\ q.session # None => stage[o] \in {"checkout", "done"} /\ q.user \in User
    /\ stage[o] = "checkout" =>
          /\ session[q.session] # NoSession /\ session[q.session].user = q.user
          /\ FulfilledBy(q.session) = {}

\* A checkout that is past its second statement has marked the assignment PAID.
Marks(o) ==
    LET a == Assign(req[o].user, req[o].session) IN
    stage[o] = "checkout" =>
        /\ pend[o][a] \in {NoWrite, "PAID"}
        /\ pc[o] < 3 => pend[o][a] = NoWrite
        /\ db[a] # Absent /\ pc[o] = 2 /\ busy[o] => a \in snap[o]
        /\ db[a] # Absent /\ pc[o] > 2 => pend[o][a] = "PAID"

\* A session that is not open has left no trace; one that is open yields one subscription.
Settled(s) ==
    /\ session[s] = NoSession =>
          FulfilledBy(s) = {} /\ \A u \in User : db[Assign(u, s)] = Absent
    /\ \A k, l \in FulfilledBy(s) : k = l
    /\ session[s] # NoSession =>
          LET a == db[Assign(session[s].user, s)] IN
          a # Absent => (a = "PAID" <=> FulfilledBy(s) # {})

SettledInv ==
    /\ Solo
    /\ \A o \in Request : HasSession(o) /\ Marks(o)
    /\ \A s \in CheckoutSession : Settled(s)

\* The row of a subscription is its request's, and says which plan that asked for.
Owns(o) == \A u \in User : db[Sub(u, o)] # Absent => req[o].user = u

\* The role a request is about to give is that of its plan; a resync has one to restore.
RoleOfPlan(o) ==
    LET q == req[o] IN
    /\ stage[o] \in Granting /\ ~(stage[o] = "update" /\ q.plan = None) =>
          q.role = TargetRole(q.plan)
    /\ stage[o] = "resync" =>
          \E k \in LiveSubs(q.user) : q.role = TargetRole(PlanOf(k))

Deactivates(s, u) ==
    Role(u, "ENTERPRISE") \in s.rows /\ s.to = "off" /\ "on" \in s.from /\ s.unless = {}

(* A transaction that has deactivated the roles sees the ENTERPRISE role on only
   if it has given that role itself since.                                    *)
DeactivatesFirst(o) ==
    \A u \in User, i \in DOMAIN Program(o) :
        Deactivates(Program(o)[i], u) /\ Seen(o, Role(u, "ENTERPRISE")) = "on" =>
            /\ i < pc[o] => \E j \in DOMAIN Program(o) :
                               j < pc[o] /\ Program(o)[j] = Upsert(Role(u, "ENTERPRISE"), "on")
            /\ i = pc[o] /\ busy[o] => Role(u, "ENTERPRISE") \in snap[o]

BackedInv ==
    /\ Solo
    /\ \A o \in Request : Owns(o) /\ RoleOfPlan(o) /\ (Open(o) => DeactivatesFirst(o))
----------------------------------------------------------------------------
(* What besides makes the services keep Ledger.                              *)
Entitles(s, u, o) == Ent(u, o) \in s.rows /\ Absent \in s.from

HasEntitled(o, u) == \E i \in DOMAIN Program(o) : i < pc[o] /\ Entitles(Program(o)[i], u, o)

\* A transaction makes no subscription live but the one it inserts; what it closes is there.
LiveByInsert(o) ==
    \A u \in User, k \in Key :
        /\ pend[o][Sub(u, k)] \in LiveStatus =>
              k = o /\ HasCreated(o, u) /\ stage[o] \in Granting \cup {"restore"}
        /\ Closing(o, u, k) => db[Sub(u, k)] # Absent

\* What it revokes is there.
RevokesGranted(o) ==
    \A u \in User, k \in Key :
        pend[o][Ent(u, k)] \notin {NoWrite, "ACTIVE"} => db[Ent(u, k)] # Absent

\* The entitlement a granting transaction inserts is ACTIVE from then on.
Entitled(o) ==
    stage[o] \in Granting =>
        \A u \in User :
            /\ HasEntitled(o, u)  => pend[o][Ent(u, o)] = "ACTIVE"
            /\ ~HasEntitled(o, u) => pend[o][Ent(u, o)] = NoWrite
            /\ busy[o] /\ Entitles(CurrentStatement(o), u, o) => Ent(u, o) \in snap[o]

\* There is no entitlement without its subscription.
Paired == \A u \in User, k \in Key : db[Sub(u, k)] = Absent => db[Ent(u, k)] = Absent

Granted(o) == LiveByInsert(o) /\ RevokesGranted(o) /\ Entitled(o)

LedgerInv == Paired /\ \A o \in Request : Granted(o)
===============================================================================
