----------------------------- MODULE AccessProofs -----------------------------
(* Proofs about Access for any number of requests, users, plans, codes and
   sessions: IInv is inductive, and what follows from it; then what holds
   besides while requests do not overlap; and last that Access implements
   Ledger, with LedgerInv beside IInv.                                       *)
EXTENDS AccessInv, FiniteSetTheorems, TLAPS

----------------------------------------------------------------------------
(* What the transaction bodies are made of.                                  *)

\* Every statement of a body names rows of the tables and writes values of them.
StatementOK(s) ==
    /\ s.rows \subseteq Rows
    /\ s.rows # {} => s.to \in Value
    /\ \A u \in User, k \in Key : Sub(u, k) \in s.rows => s.to # Absent

RowsOf ==
    \A u \in User :
        /\ Status(u) \in Rows /\ Verified(u) \in Rows /\ Provider(u) \in Rows
        /\ \A i \in Otp : Code(u, i) \in Rows
        /\ \A c \in RoleCode : Role(u, c) \in Rows
        /\ \A k \in Key : Sub(u, k) \in Rows /\ Ent(u, k) \in Rows
        /\ \A k \in Request \cup CheckoutSession : Assign(u, k) \in Rows

\* The tables' rows are rows of the database.
LEMMA RowsOfTables == RowsOf
BY SMT DEF RowsOf, Rows, Status, Verified, Provider, Code, Role, Sub, Ent, Assign, Roles, Subs, Ents

\* The column values the bodies write are values of the tables.
LEMMA Values ==
    /\ {"ACTIVE", "TRIALING", "CANCELED", "EXPIRED", "REVOKED", "BLOCKED", "DELETED", "PAID",
        "on", "off", Absent} \subseteq Value
    /\ LiveStatus \subseteq Value \ {Absent}
    /\ UserStatus \subseteq Value \ {Absent}
BY DEF Value, UserStatus, SubscriptionState, EntitlementState, Switch, AssignmentState,
       LiveStatus, Absent

\* Rows of different tables, or of different keys, are different.
LEMMA RowsDiffer ==
    \A u, v, k, j :
        /\ Sub(u, k) = Sub(v, j) <=> u = v /\ k = j
        /\ Ent(u, k) = Ent(v, j) <=> u = v /\ k = j
        /\ Sub(u, k) # Ent(v, j)
        /\ Role(u, k) # Sub(v, j) /\ Role(u, k) # Ent(v, j)
        /\ Assign(u, k) # Sub(v, j) /\ Assign(u, k) # Ent(v, j)
        /\ Code(u, k) # Sub(v, j) /\ Code(u, k) # Ent(v, j)
        /\ Status(u) # Sub(v, j) /\ Status(u) # Ent(v, j)
        /\ Verified(u) # Sub(v, j) /\ Verified(u) # Ent(v, j)
        /\ Provider(u) # Sub(v, j) /\ Provider(u) # Ent(v, j)
BY SMT DEF Sub, Ent, Role, Assign, Status, Verified, Provider, Code

USE DEF Statement, Create, Write, Upsert, UpdateMany, CreateUnique, CreateUnless,
        CloseSubscriptions, RevokeEntitlements, DeactivateRoles

\* The row sets of the updateMany statements.
LEMMA RowSets ==
    /\ \A v \in User : Subs(v) \subseteq Rows /\ Ents(v) \subseteq Rows /\ Roles(v) \subseteq Rows
    /\ \A u, v \in User, k \in Key :
        /\ Sub(u, k) \in Subs(v) <=> u = v
        /\ Sub(u, k) \notin Ents(v) /\ Sub(u, k) \notin Roles(v)
        /\ Ent(u, k) \notin Subs(v) /\ Ent(u, k) \notin Roles(v)
<1>1. ASSUME NEW v \in User
      PROVE  Subs(v) \subseteq Rows /\ Ents(v) \subseteq Rows /\ Roles(v) \subseteq Rows
  BY RowsOfTables DEF RowsOf, Subs, Ents, Roles
<1>2. ASSUME NEW u \in User, NEW v \in User, NEW k \in Key
      PROVE  /\ Sub(u, k) \in Subs(v) <=> u = v
             /\ Sub(u, k) \notin Ents(v) /\ Ent(u, k) \notin Subs(v)
  BY RowsDiffer DEF Subs, Ents
<1>3. ASSUME NEW u \in User, NEW v \in User, NEW k \in Key
      PROVE  Sub(u, k) \notin Roles(v) /\ Ent(u, k) \notin Roles(v)
  BY RowsDiffer DEF Roles
<1> QED BY <1>1, <1>2, <1>3

(* What the proof needs of the statement at place i of the body P of stage st,
   run by request o.                                                          *)
PlaceOK(st, P, o, i) ==
    LET s == P[i] IN
    /\ StatementOK(s)
    /\ \A u \in User, k \in Key : Sub(u, k) \in s.rows /\ k # o => Absent \notin s.from
    /\ \A u \in User :
          Creates(s, u, o) =>
             /\ s.rows = {Sub(u, o)} /\ s.from = {Absent} /\ s.to \in LiveStatus
             /\ st \in Granting => s.unless = {}
             /\ \A j \in DOMAIN P : j > i => Sub(u, o) \notin P[j].rows
    /\ \A u \in User, k \in Key :
          Ent(u, k) \in s.rows /\ s.to = "ACTIVE" =>
             /\ k = o /\ st \in Granting /\ s.rows = {Ent(u, o)}
             /\ \E j \in DOMAIN P : j < i /\ Creates(P[j], u, o)
    /\ \A u \in User, k \in Key :
          Sub(u, k) \in s.rows /\ s.to \notin LiveStatus /\ st # "suspend" =>
             \E j \in DOMAIN P : j > i /\ P[j] = RevokeEntitlements(u)
    /\ \A u \in User, k \in Key :
          st \in {"linkAccount", "verifyCode"} => Sub(u, k) \notin s.rows

BodyOK(st, q, o) == \A i \in DOMAIN Body(st, q, o) : PlaceOK(st, Body(st, q, o), o, i)

\* A statement that leaves subscriptions alone and activates no entitlement.
Quiet(s) ==
    \A u \in User, k \in Key :
        Sub(u, k) \notin s.rows /\ (Ent(u, k) \in s.rows => s.to # "ACTIVE")

LEMMA QuietPlace ==
    ASSUME NEW st, NEW P, NEW o \in Request, NEW i, StatementOK(P[i]), Quiet(P[i])
    PROVE  PlaceOK(st, P, o, i)
BY DEF PlaceOK, Quiet, Creates, Key

\* A statement on one row of another table is quiet.
LEMMA OtherRow ==
    ASSUME NEW s, NEW r \in Rows, s.rows = {r}, s.to \in Value,
           \A u, k : r # Sub(u, k) /\ r # Ent(u, k)
    PROVE  StatementOK(s) /\ Quiet(s)
BY DEF StatementOK, Quiet

LEMMA QuietStatements ==
    ASSUME NEW u \in User
    PROVE  /\ StatementOK(RevokeEntitlements(u)) /\ Quiet(RevokeEntitlements(u))
           /\ StatementOK(DeactivateRoles(u)) /\ Quiet(DeactivateRoles(u))
           /\ LET s == UpdateMany(Roles(u), {"on", "off"}, "off") IN StatementOK(s) /\ Quiet(s)
           /\ \A c \in RoleCode : \A s : s.rows = {Role(u, c)} /\ s.to = "on" => StatementOK(s) /\ Quiet(s)
           /\ \A k \in Request \cup CheckoutSession : \A s :
                 s.rows = {Assign(u, k)} /\ s.to = "PAID" => StatementOK(s) /\ Quiet(s)
           /\ \A s : s.rows = {Status(u)} /\ s.to \in Value => StatementOK(s) /\ Quiet(s)
           /\ \A s : s.rows \in {{Verified(u)}, {Provider(u)}} /\ s.to = "on" => StatementOK(s) /\ Quiet(s)
           /\ \A i \in Otp : \A s : s.rows = {Code(u, i)} /\ s.to = "off" => StatementOK(s) /\ Quiet(s)
<1>1. StatementOK(RevokeEntitlements(u)) /\ Quiet(RevokeEntitlements(u))
  <2> DEFINE s == RevokeEntitlements(u)
  <2>1. s.rows = Ents(u) /\ s.to = "REVOKED" OBVIOUS
  <2> HIDE DEF s
  <2>2. StatementOK(s) /\ Quiet(s)
    BY <2>1, RowSets, Values DEF StatementOK, Quiet
  <2> QED BY <2>2 DEF s
<1>2. StatementOK(DeactivateRoles(u)) /\ Quiet(DeactivateRoles(u))
  <2> DEFINE s == DeactivateRoles(u)
  <2>1. s.rows = Roles(u) /\ s.to = "off" OBVIOUS
  <2> HIDE DEF s
  <2>2. StatementOK(s) /\ Quiet(s)
    BY <2>1, RowSets, Values DEF StatementOK, Quiet
  <2> QED BY <2>2 DEF s
<1>3. LET s == UpdateMany(Roles(u), {"on", "off"}, "off") IN StatementOK(s) /\ Quiet(s)
  <2> DEFINE s == UpdateMany(Roles(u), {"on", "off"}, "off")
  <2>1. s.rows = Roles(u) /\ s.to = "off" OBVIOUS
  <2> HIDE DEF s
  <2>2. StatementOK(s) /\ Quiet(s)
    BY <2>1, RowSets, Values DEF StatementOK, Quiet
  <2> QED BY <2>2 DEF s
<1>4. \A c \in RoleCode : \A s : s.rows = {Role(u, c)} /\ s.to = "on" => StatementOK(s) /\ Quiet(s)
  <2> TAKE c \in RoleCode
  <2> TAKE s
  <2>1. Role(u, c) \in Rows
    BY RowsOfTables DEF RowsOf
  <2>2. \A v, j : Role(u, c) # Sub(v, j) /\ Role(u, c) # Ent(v, j)
    BY RowsDiffer
  <2> QED BY <2>1, <2>2, OtherRow, Values
<1>5. \A k \in Request \cup CheckoutSession : \A s :
         s.rows = {Assign(u, k)} /\ s.to = "PAID" => StatementOK(s) /\ Quiet(s)
  <2> TAKE k \in Request \cup CheckoutSession
  <2> TAKE s
  <2>1. Assign(u, k) \in Rows
    BY RowsOfTables DEF RowsOf
  <2>2. \A v, j : Assign(u, k) # Sub(v, j) /\ Assign(u, k) # Ent(v, j)
    BY RowsDiffer
  <2> QED BY <2>1, <2>2, OtherRow, Values
<1>6. \A s : s.rows = {Status(u)} /\ s.to \in Value => StatementOK(s) /\ Quiet(s)
  BY RowsOfTables, RowsDiffer, OtherRow DEF RowsOf
<1>7. \A s : s.rows \in {{Verified(u)}, {Provider(u)}} /\ s.to = "on" => StatementOK(s) /\ Quiet(s)
  <2>1. Verified(u) \in Rows /\ Provider(u) \in Rows
    BY RowsOfTables DEF RowsOf
  <2>2. \A v, j : Verified(u) # Sub(v, j) /\ Verified(u) # Ent(v, j)
    BY RowsDiffer
  <2>3. \A v, j : Provider(u) # Sub(v, j) /\ Provider(u) # Ent(v, j)
    BY RowsDiffer
  <2>4. ASSUME NEW s, s.rows = {Verified(u)}, s.to = "on"
        PROVE  StatementOK(s) /\ Quiet(s)
    BY <2>1, <2>2, <2>4, OtherRow, Values
  <2>5. ASSUME NEW s, s.rows = {Provider(u)}, s.to = "on"
        PROVE  StatementOK(s) /\ Quiet(s)
    BY <2>1, <2>3, <2>5, OtherRow, Values
  <2> QED BY <2>4, <2>5
<1>8. \A i \in Otp : \A s : s.rows = {Code(u, i)} /\ s.to = "off" => StatementOK(s) /\ Quiet(s)
  <2> TAKE i \in Otp
  <2> TAKE s
  <2>1. Code(u, i) \in Rows
    BY RowsOfTables DEF RowsOf
  <2>2. \A v, j : Code(u, i) # Sub(v, j) /\ Code(u, i) # Ent(v, j)
    BY RowsDiffer
  <2> QED BY <2>1, <2>2, OtherRow, Values
<1> QED BY <1>1, <1>2, <1>3, <1>4, <1>5, <1>6, <1>7, <1>8

\* The statements that follow the INSERT of a subscription leave it alone.
LEMMA LeaveSub ==
    ASSUME NEW u \in User, NEW k \in Key
    PROVE  /\ Sub(u, k) \notin DeactivateRoles(u).rows
           /\ Sub(u, k) \notin RevokeEntitlements(u).rows
           /\ \A c, v : Sub(u, k) \notin Upsert(Role(u, c), v).rows
           /\ \A j, v : Sub(u, k) \notin Create(Ent(u, j), v).rows
           /\ \A j, v : Sub(u, k) \notin Create(Assign(u, j), v).rows
           /\ \A j, v : Sub(u, k) \notin Write(Assign(u, j), v).rows
           /\ \A q : q.user = u => Sub(u, k) \notin WriteStatus(q).rows
<1>1. Sub(u, k) \notin DeactivateRoles(u).rows /\ Sub(u, k) \notin RevokeEntitlements(u).rows
  BY RowSets
<1>2. \A c, v : Sub(u, k) \notin Upsert(Role(u, c), v).rows
  BY RowsDiffer
<1>3. \A j, v : Sub(u, k) \notin Create(Ent(u, j), v).rows
  BY RowsDiffer
<1>4. \A j, v : Sub(u, k) \notin Create(Assign(u, j), v).rows /\ Sub(u, k) \notin Write(Assign(u, j), v).rows
  BY RowsDiffer
<1>5. \A q : q.user = u => Sub(u, k) \notin WriteStatus(q).rows
  BY RowsDiffer DEF WriteStatus
<1> QED BY <1>1, <1>2, <1>3, <1>4, <1>5

\* The INSERT of the request's own subscription.
LEMMA CreateSubPlace ==
    ASSUME NEW st, st \notin {"linkAccount", "verifyCode"}, NEW P, NEW o \in Request, NEW i,
           NEW u \in User, NEW v \in LiveStatus, P[i] = Create(Sub(u, o), v),
           \A j \in DOMAIN P : j > i => Sub(u, o) \notin P[j].rows
    PROVE  PlaceOK(st, P, o, i)
<1> USE RowsOfTables, RowsDiffer, RowSets, Values DEF RowsOf, Key
<1>1. P[i].rows = {Sub(u, o)} /\ P[i].from = {Absent} /\ P[i].to = v /\ P[i].unless = {}
  OBVIOUS
<1>2. StatementOK(P[i]) BY <1>1 DEF StatementOK
<1> QED BY <1>1, <1>2 DEF PlaceOK, Creates

\* The INSERT of the entitlement, after the one of the subscription.
LEMMA CreateEntPlace ==
    ASSUME NEW st \in Granting, NEW P, NEW o \in Request, NEW i, NEW u \in User,
           P[i] = Create(Ent(u, o), "ACTIVE"),
           NEW j \in DOMAIN P, j < i, NEW v, P[j] = Create(Sub(u, o), v)
    PROVE  PlaceOK(st, P, o, i)
<1> USE RowsOfTables, RowsDiffer, RowSets, Values DEF RowsOf, Key
<1>1. P[i].rows = {Ent(u, o)} /\ P[i].from = {Absent} /\ P[i].to = "ACTIVE"
  OBVIOUS
<1>2. StatementOK(P[i]) BY <1>1 DEF StatementOK
<1>3. Creates(P[j], u, o) BY DEF Creates
<1> QED BY <1>1, <1>2, <1>3 DEF PlaceOK, Creates, Granting

\* An UPDATE that closes subscriptions of u, before the revocation or in a suspension.
LEMMA ClosePlace ==
    ASSUME NEW st, st \notin {"linkAccount", "verifyCode"}, NEW P, NEW o \in Request, NEW i,
           NEW u \in User, P[i].rows \subseteq Subs(u), Absent \notin P[i].from,
           P[i].to \in {"CANCELED", "EXPIRED"},
           st # "suspend" => \E j \in DOMAIN P : j > i /\ P[j] = RevokeEntitlements(u)
    PROVE  PlaceOK(st, P, o, i)
<1> USE RowSets, Values DEF Key
<1>1. StatementOK(P[i]) BY DEF StatementOK, Absent
<1>2. \A v \in User, k \in Key :
         (Sub(v, k) \in P[i].rows => v = u) /\ Ent(v, k) \notin P[i].rows
  OBVIOUS
<1> QED BY <1>1, <1>2 DEF PlaceOK, Creates

\* The status an administrator may write, or none.
LEMMA WriteStatusQuiet ==
    ASSUME NEW q, q.user \in User, q.status \in UserStatus \cup {None}
    PROVE  StatementOK(WriteStatus(q)) /\ Quiet(WriteStatus(q))
<1>1. CASE q.status = None
  <2>1. WriteStatus(q).rows = {}
    BY <1>1 DEF WriteStatus
  <2> QED BY <2>1 DEF StatementOK, Quiet
<1>2. CASE q.status # None
  <2>1. WriteStatus(q).rows = {Status(q.user)} /\ WriteStatus(q).to \in Value
    BY <1>2, Values DEF WriteStatus
  <2> QED BY <2>1, QuietStatements
<1> QED BY <1>1, <1>2

\* A body of quiet statements.
LEMMA QuietBody ==
    ASSUME NEW st, NEW q, NEW o \in Request,
           \A i \in DOMAIN Body(st, q, o) :
              StatementOK(Body(st, q, o)[i]) /\ Quiet(Body(st, q, o)[i])
    PROVE  BodyOK(st, q, o)
BY QuietPlace DEF BodyOK

----------------------------------------------------------------------------
(* The bodies, one by one.                                                   *)
LEMMA PurchaseOrderBody ==
    ASSUME NEW q, NEW o \in Request, ArgumentsOK("assignPurchaseOrder", q)
    PROVE  BodyOK("assignPurchaseOrder", q, o)
<1> DEFINE u == q.user
           st == "assignPurchaseOrder"
           P == Body(st, q, o)
<1>1. u \in User /\ q.role \in RoleCode /\ o \in Key /\ q.status \in LiveStatus /\ st \in Granting
  BY DEF ArgumentsOK, Granting, Key
<1>2. DOMAIN P = 1..7
  BY DEF AssignPurchaseOrder, Body
<1>3. /\ P[1] = CloseSubscriptions(u, "CANCELED")
      /\ P[2] = RevokeEntitlements(u)
      /\ P[3] = Create(Sub(u, o), q.status)
      /\ P[4] = Create(Assign(u, o), "PAID")
      /\ P[5] = Create(Ent(u, o), "ACTIVE")
      /\ P[6] = DeactivateRoles(u)
      /\ P[7] = Upsert(Role(u, q.role), "on")
  BY DEF AssignPurchaseOrder, Body
<1> HIDE DEF P
<1>4. PlaceOK(st, P, o, 1)
  BY <1>1, <1>2, <1>3, ClosePlace DEF LiveStatus, Absent
<1>5. PlaceOK(st, P, o, 2) /\ PlaceOK(st, P, o, 4) /\ PlaceOK(st, P, o, 6) /\ PlaceOK(st, P, o, 7)
  BY <1>1, <1>3, QuietStatements, QuietPlace
<1>6. PlaceOK(st, P, o, 3)
  <2>1. /\ Sub(u, o) \notin P[4].rows
        /\ Sub(u, o) \notin P[5].rows
        /\ Sub(u, o) \notin P[6].rows
        /\ Sub(u, o) \notin P[7].rows
    BY <1>1, <1>3, LeaveSub DEF Key
  <2> QED BY <1>1, <1>2, <1>3, <2>1, CreateSubPlace DEF Granting
<1>7. PlaceOK(st, P, o, 5)
  <2>1. 3 \in DOMAIN P /\ 3 < 5
    BY <1>2
  <2> QED BY <1>1, <1>3, <2>1, CreateEntPlace
<1> QED BY <1>2, <1>4, <1>5, <1>6, <1>7 DEF BodyOK, P

LEMMA ActivateFreeBody ==
    ASSUME NEW q, NEW o \in Request, ArgumentsOK("activateFree", q)
    PROVE  BodyOK("activateFree", q, o)
<1> DEFINE u == q.user
           st == "activateFree"
           P == Body(st, q, o)
<1>1. u \in User /\ q.role \in RoleCode /\ st \in Granting /\ o \in Key
  BY DEF ArgumentsOK, Granting, Key
<1>2. DOMAIN P = 1..4
  BY DEF ActivateFree, Body
<1>3. /\ P[1] = Create(Sub(u, o), "ACTIVE")
      /\ P[2] = Create(Ent(u, o), "ACTIVE")
      /\ P[3] = DeactivateRoles(u)
      /\ P[4] = Upsert(Role(u, q.role), "on")
  BY DEF ActivateFree, Body
<1> HIDE DEF P
<1>4. PlaceOK(st, P, o, 3) /\ PlaceOK(st, P, o, 4)
  BY <1>1, <1>3, QuietStatements, QuietPlace
<1>5. PlaceOK(st, P, o, 1)
  <2>1. /\ Sub(u, o) \notin P[2].rows
        /\ Sub(u, o) \notin P[3].rows
        /\ Sub(u, o) \notin P[4].rows
    BY <1>1, <1>3, LeaveSub DEF Key
  <2>2. \A j \in DOMAIN P : j > 1 => Sub(u, o) \notin P[j].rows
    BY <1>2, <2>1
  <2>3. "ACTIVE" \in LiveStatus /\ st \notin {"linkAccount", "verifyCode"}
    BY DEF LiveStatus
  <2> QED BY <1>1, <1>3, <2>2, <2>3, CreateSubPlace
<1>6. PlaceOK(st, P, o, 2)
  <2>1. 1 \in DOMAIN P /\ 1 < 2
    BY <1>2
  <2> QED BY <1>1, <1>3, <2>1, CreateEntPlace
<1> QED BY <1>2, <1>4, <1>5, <1>6 DEF BodyOK, P

LEMMA CheckoutBody ==
    ASSUME NEW q, NEW o \in Request, ArgumentsOK("checkout", q)
    PROVE  BodyOK("checkout", q, o)
<1> DEFINE u == q.user
           st == "checkout"
           P == Body(st, q, o)
<1>1. u \in User /\ q.role \in RoleCode /\ st \in Granting /\ q.status \in LiveStatus /\ q.session \in CheckoutSession
  BY DEF ArgumentsOK, Granting, Key
<1>2. DOMAIN P = 1..5
  BY DEF Checkout, Body
<1>3. /\ P[1] = Create(Sub(u, o), q.status)
      /\ P[2] = Write(Assign(u, q.session), "PAID")
      /\ P[3] = Create(Ent(u, o), "ACTIVE")
      /\ P[4] = DeactivateRoles(u)
      /\ P[5] = Upsert(Role(u, q.role), "on")
  BY DEF Checkout, Body
<1> HIDE DEF P
<1>4. PlaceOK(st, P, o, 2) /\ PlaceOK(st, P, o, 4) /\ PlaceOK(st, P, o, 5)
  BY <1>1, <1>3, QuietStatements, QuietPlace
<1>5. PlaceOK(st, P, o, 1)
  <2>1. /\ Sub(u, o) \notin P[2].rows
        /\ Sub(u, o) \notin P[3].rows
        /\ Sub(u, o) \notin P[4].rows
        /\ Sub(u, o) \notin P[5].rows
    BY <1>1, <1>3, LeaveSub DEF Key
  <2>2. \A j \in DOMAIN P : j > 1 => Sub(u, o) \notin P[j].rows
    BY <1>2, <2>1
  <2>3. "ACTIVE" \in LiveStatus /\ st \notin {"linkAccount", "verifyCode"}
    BY DEF LiveStatus
  <2> QED BY <1>1, <1>3, <2>2, <2>3, CreateSubPlace
<1>6. PlaceOK(st, P, o, 3)
  <2>1. 1 \in DOMAIN P /\ 1 < 3
    BY <1>2
  <2> QED BY <1>1, <1>3, <2>1, CreateEntPlace
<1> QED BY <1>2, <1>4, <1>5, <1>6 DEF BodyOK, P

LEMMA AssignManuallyBody ==
    ASSUME NEW q, NEW o \in Request, ArgumentsOK("assignManually", q)
    PROVE  BodyOK("assignManually", q, o)
<1> DEFINE u == q.user
           st == "assignManually"
           P == Body(st, q, o)
<1>1. u \in User /\ q.role \in RoleCode /\ st \in Granting /\ o \in Key
  BY DEF ArgumentsOK, Granting, Key
<1>2. DOMAIN P = 1..6
  BY DEF AssignManually, Body
<1>3. /\ P[1] = CloseSubscriptions(u, "CANCELED")
      /\ P[2] = RevokeEntitlements(u)
      /\ P[3] = Create(Sub(u, o), "ACTIVE")
      /\ P[4] = Create(Ent(u, o), "ACTIVE")
      /\ P[5] = DeactivateRoles(u)
      /\ P[6] = Upsert(Role(u, q.role), "on")
  BY DEF AssignManually, Body
<1> HIDE DEF P
<1>4. PlaceOK(st, P, o, 1)
  BY <1>1, <1>2, <1>3, ClosePlace DEF LiveStatus, Absent
<1>5. PlaceOK(st, P, o, 2) /\ PlaceOK(st, P, o, 5) /\ PlaceOK(st, P, o, 6)
  BY <1>1, <1>3, QuietStatements, QuietPlace
<1>6. PlaceOK(st, P, o, 3)
  <2>1. /\ Sub(u, o) \notin P[4].rows
        /\ Sub(u, o) \notin P[5].rows
        /\ Sub(u, o) \notin P[6].rows
    BY <1>1, <1>3, LeaveSub DEF Key
  <2>2. \A j \in DOMAIN P : j > 3 => Sub(u, o) \notin P[j].rows
    BY <1>2, <2>1
  <2>3. "ACTIVE" \in LiveStatus /\ st \notin {"linkAccount", "verifyCode"}
    BY DEF LiveStatus
  <2> QED BY <1>1, <1>3, <2>2, <2>3, CreateSubPlace
<1>7. PlaceOK(st, P, o, 4)
  <2>1. 3 \in DOMAIN P /\ 3 < 4
    BY <1>2
  <2> QED BY <1>1, <1>3, <2>1, CreateEntPlace
<1> QED BY <1>2, <1>4, <1>5, <1>6, <1>7 DEF BodyOK, P

LEMMA UpdateSubscriptionBody ==
    ASSUME NEW q, NEW o \in Request, ArgumentsOK("updateSubscription", q)
    PROVE  BodyOK("updateSubscription", q, o)
<1> DEFINE u == q.user
           st == "updateSubscription"
           P == Body(st, q, o)
<1>1. u \in User /\ q.role \in RoleCode /\ st \in Granting /\ q.target \in Key \cup {None}
  BY DEF ArgumentsOK, Granting, Key
<1>2. DOMAIN P = 1..6
  BY DEF UpdateSubscription, Body
<1>3. /\ P[1] = Statement(IF q.target = None THEN {} ELSE {Sub(u, q.target)},
                         Value \ {Absent}, "EXPIRED")
      /\ P[2] = Create(Sub(u, o), "ACTIVE")
      /\ P[3] = RevokeEntitlements(u)
      /\ P[4] = Create(Ent(u, o), "ACTIVE")
      /\ P[5] = DeactivateRoles(u)
      /\ P[6] = Upsert(Role(u, q.role), "on")
  BY DEF UpdateSubscription, Body
<1> HIDE DEF P
<1>4. PlaceOK(st, P, o, 1)
  <2>1. P[1].rows \subseteq Subs(u) /\ Absent \notin P[1].from /\ P[1].to = "EXPIRED"
    BY <1>1, <1>3 DEF Subs
  <2>2. 3 \in DOMAIN P /\ 3 > 1 /\ P[3] = RevokeEntitlements(u)
    BY <1>2, <1>3
  <2> QED BY <1>1, <2>1, <2>2, ClosePlace
<1>5. PlaceOK(st, P, o, 3) /\ PlaceOK(st, P, o, 5) /\ PlaceOK(st, P, o, 6)
  BY <1>1, <1>3, QuietStatements, QuietPlace
<1>6. PlaceOK(st, P, o, 2)
  <2>1. /\ Sub(u, o) \notin P[3].rows
        /\ Sub(u, o) \notin P[4].rows
        /\ Sub(u, o) \notin P[5].rows
        /\ Sub(u, o) \notin P[6].rows
    BY <1>1, <1>3, LeaveSub DEF Key
  <2>2. \A j \in DOMAIN P : j > 2 => Sub(u, o) \notin P[j].rows
    BY <1>2, <2>1
  <2>3. "ACTIVE" \in LiveStatus /\ st \notin {"linkAccount", "verifyCode"}
    BY DEF LiveStatus
  <2> QED BY <1>1, <1>3, <2>2, <2>3, CreateSubPlace
<1>7. PlaceOK(st, P, o, 4)
  <2>1. 2 \in DOMAIN P /\ 2 < 4
    BY <1>2
  <2> QED BY <1>1, <1>3, <2>1, CreateEntPlace
<1> QED BY <1>2, <1>4, <1>5, <1>6, <1>7 DEF BodyOK, P

LEMMA UpdatePlanBody ==
    ASSUME NEW q, NEW o \in Request, ArgumentsOK("update", q), q.plan # None
    PROVE  BodyOK("update", q, o)
<1> DEFINE u == q.user
           st == "update"
           P == Body(st, q, o)
<1>1. u \in User /\ q.role \in RoleCode /\ st \in Granting /\ q.status \in UserStatus \cup {None}
  BY DEF ArgumentsOK, Granting, Key
<1>2. DOMAIN P = 1..7
  BY DEF Update, Body
<1>3. /\ P[1] = CloseSubscriptions(u, "EXPIRED")
      /\ P[2] = Create(Sub(u, o), "ACTIVE")
      /\ P[3] = RevokeEntitlements(u)
      /\ P[4] = Create(Ent(u, o), "ACTIVE")
      /\ P[5] = DeactivateRoles(u)
      /\ P[6] = Upsert(Role(u, q.role), "on")
      /\ P[7] = WriteStatus(q)
  BY DEF Update, Body
<1> HIDE DEF P
<1>4. PlaceOK(st, P, o, 1)
  BY <1>1, <1>2, <1>3, ClosePlace DEF LiveStatus, Absent
<1>5. PlaceOK(st, P, o, 3) /\ PlaceOK(st, P, o, 5) /\ PlaceOK(st, P, o, 6)
  BY <1>1, <1>3, QuietStatements, QuietPlace
<1>6. PlaceOK(st, P, o, 7)
  <2>1. StatementOK(WriteStatus(q)) /\ Quiet(WriteStatus(q))
    BY <1>1, WriteStatusQuiet
  <2> QED BY <1>3, <2>1, QuietPlace
<1>7. PlaceOK(st, P, o, 2)
  <2>1. /\ Sub(u, o) \notin P[3].rows
        /\ Sub(u, o) \notin P[4].rows
        /\ Sub(u, o) \notin P[5].rows
        /\ Sub(u, o) \notin P[6].rows
        /\ Sub(u, o) \notin P[7].rows
    BY <1>1, <1>3, LeaveSub DEF Key
  <2>2. \A j \in DOMAIN P : j > 2 => Sub(u, o) \notin P[j].rows
    BY <1>2, <2>1
  <2>3. "ACTIVE" \in LiveStatus /\ st \notin {"linkAccount", "verifyCode"}
    BY DEF LiveStatus
  <2> QED BY <1>1, <1>3, <2>2, <2>3, CreateSubPlace
<1>8. PlaceOK(st, P, o, 4)
  <2>1. 2 \in DOMAIN P /\ 2 < 4
    BY <1>2
  <2> QED BY <1>1, <1>3, <2>1, CreateEntPlace
<1> QED BY <1>2, <1>4, <1>5, <1>6, <1>7, <1>8 DEF BodyOK, P

LEMMA UpdateStatusBody ==
    ASSUME NEW q, NEW o \in Request, ArgumentsOK("update", q), q.plan = None
    PROVE  BodyOK("update", q, o)
<1>1. Body("update", q, o) = <<WriteStatus(q)>>
  BY DEF Body, Update
<1>2. StatementOK(WriteStatus(q)) /\ Quiet(WriteStatus(q))
  BY WriteStatusQuiet DEF ArgumentsOK
<1> QED BY <1>1, <1>2, QuietBody

LEMMA LinkAccountBody ==
    ASSUME NEW q, NEW o \in Request, ArgumentsOK("linkAccount", q)
    PROVE  BodyOK("linkAccount", q, o)
<1> DEFINE P == Body("linkAccount", q, o)
<1>1. q.user \in User /\ q.status \in Value
  BY DEF ArgumentsOK
<1>2. /\ DOMAIN P = 1..3
      /\ P[1].rows = {Status(q.user)} /\ P[1].to = q.status
      /\ P[2].rows = {Verified(q.user)} /\ P[2].to = "on"
      /\ P[3].rows = {Provider(q.user)} /\ P[3].to = "on"
  BY DEF Body, LinkAccount
<1> HIDE DEF P
<1>3. /\ StatementOK(P[1]) /\ Quiet(P[1])
      /\ StatementOK(P[2]) /\ Quiet(P[2])
      /\ StatementOK(P[3]) /\ Quiet(P[3])
  BY <1>1, <1>2, QuietStatements
<1> QED BY <1>2, <1>3, QuietBody DEF P

LEMMA VerifyCodeBody ==
    ASSUME NEW q, NEW o \in Request, ArgumentsOK("verifyCode", q)
    PROVE  BodyOK("verifyCode", q, o)
<1> DEFINE P == Body("verifyCode", q, o)
<1>1. q.user \in User /\ q.code \in Otp
  BY DEF ArgumentsOK
<1>2. /\ DOMAIN P = 1..3
      /\ P[1].rows = {Code(q.user, q.code)} /\ P[1].to = "off"
      /\ P[2].rows = {Status(q.user)} /\ P[2].to = "ACTIVE"
      /\ P[3].rows = {Verified(q.user)} /\ P[3].to = "on"
  BY DEF Body, VerifyCode
<1> HIDE DEF P
<1>3. /\ StatementOK(P[1]) /\ Quiet(P[1])
      /\ StatementOK(P[2]) /\ Quiet(P[2])
      /\ StatementOK(P[3]) /\ Quiet(P[3])
  <2>1. P[2].to \in Value
    BY <1>2, Values
  <2>2. StatementOK(P[1]) /\ Quiet(P[1])
    BY <1>1, <1>2, QuietStatements
  <2>3. StatementOK(P[2]) /\ Quiet(P[2])
    BY <1>1, <1>2, <2>1, QuietStatements
  <2>4. StatementOK(P[3]) /\ Quiet(P[3])
    BY <1>1, <1>2, QuietStatements
  <2> QED BY <2>2, <2>3, <2>4
<1> QED BY <1>2, <1>3, QuietBody DEF P

LEMMA ResyncBody ==
    ASSUME NEW q, NEW o \in Request, ArgumentsOK("resync", q)
    PROVE  BodyOK("resync", q, o)
<1> DEFINE P == Body("resync", q, o)
<1>1. q.user \in User /\ q.role \in RoleCode
  BY DEF ArgumentsOK
<1>2. /\ DOMAIN P = 1..2
      /\ P[1] = DeactivateRoles(q.user)
      /\ P[2].rows = {Role(q.user, q.role)} /\ P[2].to = "on"
  BY DEF Body, Resync
<1> HIDE DEF P
<1>3. /\ StatementOK(P[1]) /\ Quiet(P[1])
      /\ StatementOK(P[2]) /\ Quiet(P[2])
  BY <1>1, <1>2, QuietStatements
<1> QED BY <1>2, <1>3, QuietBody DEF P

LEMMA AddStudentBody ==
    ASSUME NEW q, NEW o \in Request, ArgumentsOK("addStudent", q)
    PROVE  BodyOK("addStudent", q, o)
<1> DEFINE P == Body("addStudent", q, o)
<1>1. q.user \in User /\ "STUDENT" \in RoleCode
  BY DEF ArgumentsOK, RoleCode
<1>2. /\ DOMAIN P = {1}
      /\ P[1].rows = {Role(q.user, "STUDENT")} /\ P[1].to = "on"
  BY DEF Body, AddStudent
<1> HIDE DEF P
<1>3. StatementOK(P[1]) /\ Quiet(P[1])
  BY <1>1, <1>2, QuietStatements
<1> QED BY <1>2, <1>3, QuietBody DEF P

LEMMA CancelBody ==
    ASSUME NEW q, NEW o \in Request, ArgumentsOK("cancel", q)
    PROVE  BodyOK("cancel", q, o)
<1> DEFINE u == q.user
           st == "cancel"
           P == Body(st, q, o)
<1>1. u \in User /\ q.target \in Key
  BY DEF ArgumentsOK
<1>2. DOMAIN P = 1..3
  BY DEF Body, Cancel
<1>3. /\ P[1] = Write(Sub(u, q.target), "CANCELED")
      /\ P[2] = RevokeEntitlements(u)
      /\ P[3] = DeactivateRoles(u)
  BY DEF Body, Cancel
<1> HIDE DEF P
<1>4. PlaceOK(st, P, o, 1)
  <2>1. P[1].rows \subseteq Subs(u) /\ Absent \notin P[1].from /\ P[1].to = "CANCELED"
    BY <1>1, <1>3 DEF Subs
  <2>2. 2 \in DOMAIN P /\ 2 > 1 /\ P[2] = RevokeEntitlements(u)
    BY <1>2, <1>3
  <2> QED BY <1>1, <2>1, <2>2, ClosePlace
<1>5. PlaceOK(st, P, o, 2) /\ PlaceOK(st, P, o, 3)
  BY <1>1, <1>3, QuietStatements, QuietPlace
<1> QED BY <1>2, <1>4, <1>5 DEF BodyOK, P

LEMMA SuspendBody ==
    ASSUME NEW q, NEW o \in Request, ArgumentsOK("suspend", q)
    PROVE  BodyOK("suspend", q, o)
<1> DEFINE u == q.user
           st == "suspend"
           P == Body(st, q, o)
<1>1. u \in User
  BY DEF ArgumentsOK
<1>2. /\ DOMAIN P = 1..2
      /\ P[1].rows = {Status(u)} /\ P[1].to = "BLOCKED"
      /\ P[2] = UpdateMany(Subs(u), {"ACTIVE"}, "CANCELED")
  BY DEF Body, Suspend
<1> HIDE DEF P
<1>3. PlaceOK(st, P, o, 1)
  BY <1>1, <1>2, Values, QuietStatements, QuietPlace
<1>4. PlaceOK(st, P, o, 2)
  BY <1>1, <1>2, ClosePlace DEF Absent
<1> QED BY <1>2, <1>3, <1>4 DEF BodyOK, P

LEMMA RestoreBody ==
    ASSUME NEW q, NEW o \in Request, ArgumentsOK("restore", q)
    PROVE  BodyOK("restore", q, o)
<1> DEFINE u == q.user
           st == "restore"
           P == Body(st, q, o)
<1>1. u \in User /\ o \in Key
  BY DEF ArgumentsOK, Key
<1>2. /\ DOMAIN P = 1..2
      /\ P[1].rows = {Status(u)} /\ P[1].to = "ACTIVE"
      /\ P[2].rows = {Sub(u, o)} /\ P[2].from = {Absent} /\ P[2].to = "ACTIVE"
  BY DEF Body, Restore
<1> HIDE DEF P
<1>3. PlaceOK(st, P, o, 1)
  <2>1. P[1].to \in Value
    BY <1>2, Values
  <2>2. StatementOK(P[1]) /\ Quiet(P[1])
    BY <1>1, <1>2, <2>1, QuietStatements
  <2> QED BY <2>2, QuietPlace
<1>4. PlaceOK(st, P, o, 2)
  <2>1. "ACTIVE" \in LiveStatus /\ "ACTIVE" # Absent /\ st \notin Granting
    BY DEF LiveStatus, Absent, Granting
  <2>2. StatementOK(P[2])
    BY <1>1, <1>2, <2>1, RowsOfTables, Values DEF StatementOK, RowsOf
  <2>3. \A v \in User, k \in Key :
           (Sub(v, k) \in P[2].rows => v = u /\ k = o) /\ Ent(v, k) \notin P[2].rows
    BY <1>2, RowsDiffer
  <2>4. \A j \in DOMAIN P : ~(j > 2)
    BY <1>2
  <2> QED BY <1>1, <1>2, <2>1, <2>2, <2>3, <2>4 DEF PlaceOK, Creates, Key
<1> QED BY <1>2, <1>3, <1>4 DEF BodyOK, P

LEMMA DeleteBody ==
    ASSUME NEW q, NEW o \in Request, ArgumentsOK("delete", q)
    PROVE  BodyOK("delete", q, o)
<1> DEFINE u == q.user
           st == "delete"
           P == Body(st, q, o)
<1>1. u \in User
  BY DEF ArgumentsOK
<1>2. DOMAIN P = 1..4
  BY DEF Body, Delete
<1>3. /\ P[1].rows = {Status(u)} /\ P[1].to = "DELETED"
      /\ P[2] = UpdateMany(Roles(u), {"on", "off"}, "off")
      /\ P[3] = CloseSubscriptions(u, "CANCELED")
      /\ P[4] = RevokeEntitlements(u)
  BY DEF Body, Delete
<1> HIDE DEF P
<1>4. PlaceOK(st, P, o, 1) /\ PlaceOK(st, P, o, 2) /\ PlaceOK(st, P, o, 4)
  BY <1>1, <1>3, Values, QuietStatements, QuietPlace
<1>5. PlaceOK(st, P, o, 3)
  BY <1>1, <1>2, <1>3, ClosePlace DEF LiveStatus, Absent
<1> QED BY <1>2, <1>4, <1>5 DEF BodyOK, P

(* Every transaction body is in order: an entitlement is inserted after its
   subscription, and whatever closes a subscription is followed by the
   revocation of the user's entitlements.                                    *)
LEMMA Bodies ==
    ASSUME NEW st \in Transactions, NEW q, NEW o \in Request, ArgumentsOK(st, q)
    PROVE  BodyOK(st, q, o)
BY ActivateFreeBody, CheckoutBody, AssignManuallyBody, PurchaseOrderBody, UpdateSubscriptionBody,
   UpdatePlanBody, UpdateStatusBody, LinkAccountBody, VerifyCodeBody, ResyncBody, AddStudentBody,
   CancelBody, SuspendBody, RestoreBody, DeleteBody DEF Transactions

----------------------------------------------------------------------------
(* What the steps of a request do.                                           *)

\* A body is a sequence of statements.
LEMMA BodyIsSequence ==
    ASSUME NEW st \in Transactions, NEW q, NEW o
    PROVE  Len(Body(st, q, o)) \in Nat /\ DOMAIN Body(st, q, o) = 1..Len(Body(st, q, o))
<1>1. CASE st = "linkAccount" BY <1>1 DEF Body, LinkAccount
<1>2. CASE st = "verifyCode" BY <1>2 DEF Body, VerifyCode
<1>3. CASE st = "activateFree" BY <1>3 DEF Body, ActivateFree
<1>4. CASE st = "addStudent" BY <1>4 DEF Body, AddStudent
<1>5. CASE st = "resync" BY <1>5 DEF Body, Resync
<1>6. CASE st = "checkout" BY <1>6 DEF Body, Checkout
<1>7. CASE st = "assignPurchaseOrder" BY <1>7 DEF Body, AssignPurchaseOrder
<1>8. CASE st = "assignManually" BY <1>8 DEF Body, AssignManually
<1>9. CASE st = "cancel" BY <1>9 DEF Body, Cancel
<1>10. CASE st = "update"
  <2>1. CASE q.plan = None BY <1>10, <2>1 DEF Body, Update
  <2>2. CASE q.plan # None BY <1>10, <2>2 DEF Body, Update
  <2> QED BY <2>1, <2>2
<1>11. CASE st = "updateSubscription" BY <1>11 DEF Body, UpdateSubscription
<1>12. CASE st = "suspend" BY <1>12 DEF Body, Suspend
<1>13. CASE st = "restore" BY <1>13 DEF Body, Restore
<1>14. CASE st = "delete" BY <1>14 DEF Body, Delete
<1> QED
  BY <1>1, <1>2, <1>3, <1>4, <1>5, <1>6, <1>7, <1>8, <1>9, <1>10, <1>11, <1>12, <1>13, <1>14
     DEF Transactions

LEMMA NoWriteIsNoValue == NoWrite \notin Value
BY DEF NoWrite, Value, UserStatus, SubscriptionState, EntitlementState, Switch, AssignmentState,
       Absent

\* The program of an open transaction, and its places.
LEMMA ProgramOK ==
    ASSUME NEW o \in Request, Own(o), Open(o)
    PROVE  /\ stage[o] \in Transactions
           /\ DOMAIN Program(o) = 1..Len(Program(o)) /\ Len(Program(o)) \in Nat
           /\ \A i \in DOMAIN Program(o) : PlaceOK(stage[o], Program(o), o, i)
<1>1. stage[o] \in Transactions /\ ArgumentsOK(stage[o], req[o])
  BY DEF Own, Transactional, Arguments
<1>2. BodyOK(stage[o], req[o], o)
  BY <1>1, Bodies
<1> QED BY <1>1, <1>2, BodyIsSequence DEF BodyOK, Program

----------------------------------------------------------------------------
(* Frames: what a step of one request leaves as it was for the others.       *)

\* The state of request x.
Kept(x) ==
    /\ pend'[x] = pend[x] /\ snap'[x] = snap[x] /\ busy'[x] = busy[x] /\ pc'[x] = pc[x]
    /\ stage'[x] = stage[x] /\ req'[x] = req[x]

\* The committed subscriptions and entitlements.
SameLedger ==
    \A u \in User, k \in Key : db'[Sub(u, k)] = db[Sub(u, k)] /\ db'[Ent(u, k)] = db[Ent(u, k)]

LEMMA OwnFrame ==
    ASSUME NEW x \in Request, Own(x), Kept(x)
    PROVE  Own(x)'
<1>1. Program(x)' = Program(x) BY DEF Program, Kept
<1>2. CurrentStatement(x)' = CurrentStatement(x) BY <1>1 DEF CurrentStatement, Kept
<1>3. \A u \in User : HasCreated(x, u)' = HasCreated(x, u) BY <1>1 DEF HasCreated, Kept
<1>4. Arguments(x)' BY DEF Own, Arguments, Kept
<1>5. Transactional(x)' BY DEF Own, Transactional, Open, Kept
<1>6. Snapshots(x)' BY <1>1, <1>2 DEF Own, Snapshots, Kept
<1>7. WrittenByStatement(x)' BY <1>1 DEF Own, WrittenByStatement, Kept
<1>8. CreatedLive(x)' BY <1>2, <1>3 DEF Own, CreatedLive, Kept
<1>9. GrantedAfterCreated(x)' BY <1>3 DEF Own, GrantedAfterCreated, Kept
<1> QED BY <1>4, <1>5, <1>6, <1>7, <1>8, <1>9 DEF Own

LEMMA CommittedFrame ==
    ASSUME NEW x \in Request, Committed(x), Kept(x), SameLedger
    PROVE  Committed(x)'
<1>1. Program(x)' = Program(x) BY DEF Program, Kept
<1>2. x \in Key BY DEF Key
<1>3. OwnRows(x)' BY <1>2 DEF Committed, OwnRows, Kept, SameLedger
<1>4. \A u \in User, k \in Key :
         /\ Closing(x, u, k)' = Closing(x, u, k)
         /\ Seen(x, Ent(u, k))' = Seen(x, Ent(u, k))
  BY DEF Closing, Seen, Kept, SameLedger
<1>5. RevocationAhead(x)' BY <1>1, <1>4 DEF Committed, RevocationAhead, Kept
<1> QED BY <1>3, <1>5 DEF Committed

----------------------------------------------------------------------------
(* A request that enters a stage, holding nothing.                           *)

Reset(o, st, q) ==
    /\ pend'  = [pend  EXCEPT ![o] = [r \in Rows |-> NoWrite]]
    /\ snap'  = [snap  EXCEPT ![o] = {}]
    /\ busy'  = [busy  EXCEPT ![o] = FALSE]
    /\ pc'    = [pc    EXCEPT ![o] = IF st \in Transactions THEN 1 ELSE 0]
    /\ stage' = [stage EXCEPT ![o] = st]
    /\ req'   = [req   EXCEPT ![o] = q]

\* The types of a request's own state.
OwnTypes ==
    /\ pend    \in [Request -> [Rows -> Value \cup {NoWrite}]]
    /\ snap    \in [Request -> SUBSET Rows]
    /\ busy    \in [Request -> BOOLEAN]
    /\ pc      \in [Request -> Nat]
    /\ req     \in [Request -> Requests]
    /\ stage   \in [Request -> Stage]

LEMMA ResetTypes ==
    ASSUME OwnTypes, NEW o \in Request, NEW st \in Stage, NEW q \in Requests, Reset(o, st, q)
    PROVE  OwnTypes'
<1>1. [r \in Rows |-> NoWrite] \in [Rows -> Value \cup {NoWrite}] OBVIOUS
<1>2. pend' \in [Request -> [Rows -> Value \cup {NoWrite}]] BY <1>1 DEF OwnTypes, Reset
<1>3. snap' \in [Request -> SUBSET Rows] BY DEF OwnTypes, Reset
<1>4. busy' \in [Request -> BOOLEAN] BY DEF OwnTypes, Reset
<1>5. pc' \in [Request -> Nat] BY DEF OwnTypes, Reset
<1>6. req' \in [Request -> Requests] BY DEF OwnTypes, Reset
<1>7. stage' \in [Request -> Stage] BY DEF OwnTypes, Reset
<1> QED BY <1>2, <1>3, <1>4, <1>5, <1>6, <1>7 DEF OwnTypes

LEMMA ResetOthers ==
    ASSUME OwnTypes, NEW o \in Request, NEW st, NEW q, Reset(o, st, q),
           NEW x \in Request, x # o
    PROVE  Kept(x)
BY DEF OwnTypes, Reset, Kept

\* The new state of the request itself.
LEMMA ResetSelf ==
    ASSUME OwnTypes, NEW o \in Request, NEW st, NEW q, Reset(o, st, q), ArgumentsOK(st, q)
    PROVE  Own(o)'
<1>1. /\ pend'[o] = [r \in Rows |-> NoWrite] /\ snap'[o] = {} /\ busy'[o] = FALSE
      /\ pc'[o] = IF st \in Transactions THEN 1 ELSE 0
      /\ stage'[o] = st /\ req'[o] = q
  BY DEF OwnTypes, Reset
<1>2. Arguments(o)' BY <1>1 DEF Arguments
<1>3. Transactional(o)' BY <1>1 DEF Transactional, Open
<1>4. Snapshots(o)' BY <1>1 DEF Snapshots
<1>5. \A r \in Rows : pend'[o][r] = NoWrite BY <1>1
<1>6. WrittenByStatement(o)' BY <1>5 DEF WrittenByStatement
<1>7. \A u \in User, k \in Key : Sub(u, k) \in Rows /\ Ent(u, k) \in Rows
  BY RowsOfTables DEF RowsOf
<1>8. GrantedAfterCreated(o)' BY <1>5, <1>7 DEF GrantedAfterCreated, NoWrite
<1>9. CreatedLive(o)'
  <2> SUFFICES ASSUME st \in Granting, NEW u \in User
               PROVE  ~HasCreated(o, u)' /\ pend'[o][Sub(u, o)] = NoWrite
    BY <1>1 DEF CreatedLive
  <2>1. st \in Transactions BY DEF Granting, Transactions
  <2>2. Program(o)' = Body(st, q, o) BY <1>1 DEF Program
  <2>3. \A i \in DOMAIN Body(st, q, o) : ~(i < 1)
    BY <2>1, BodyIsSequence
  <2>4. ~HasCreated(o, u)' BY <1>1, <2>1, <2>2, <2>3 DEF HasCreated
  <2> QED BY <1>5, <1>7, <2>4 DEF Key
<1> QED BY <1>2, <1>3, <1>4, <1>6, <1>8, <1>9 DEF Own

LEMMA ResetCommitted ==
    ASSUME OwnTypes, NEW o \in Request, NEW st, NEW q, Reset(o, st, q),
           st \in Fresh => \A u \in User : db'[Sub(u, o)] = Absent
    PROVE  Committed(o)'
<1>1. stage'[o] = st /\ \A r \in Rows : pend'[o][r] = NoWrite
  BY DEF OwnTypes, Reset
<1>2. \A u \in User, k \in Key : pend'[o][Sub(u, k)] = NoWrite
  BY <1>1, RowsOfTables DEF RowsOf
<1>3. OwnRows(o)' BY <1>1, <1>2 DEF OwnRows, NoWrite, Absent
<1>4. RevocationAhead(o)' BY <1>2 DEF RevocationAhead, Closing
<1> QED BY <1>3, <1>4 DEF Committed

LEMMA ResetLocks ==
    ASSUME OwnTypes, LocksExclusive, NEW o \in Request, NEW st, NEW q, Reset(o, st, q),
           db \in [Rows -> Value], db' \in [Rows -> Value]
    PROVE  LocksExclusive'
<1>1. Row = Rows /\ Row' = Rows BY DEF Row
<1>2. \A r \in Rows : pend'[o][r] = NoWrite BY DEF OwnTypes, Reset
<1>3. \A x \in Request : x # o => pend'[x] = pend[x] BY DEF OwnTypes, Reset
<1> QED BY <1>1, <1>2, <1>3 DEF LocksExclusive
----------------------------------------------------------------------------
(* The steps outside a transaction.                                          *)

\* A request that held nothing, or gives up what it held, and leaves the ledger alone.
LEMMA ResetInv ==
    ASSUME IInv, NEW o \in Request, NEW st \in Stage, NEW q \in Requests,
           Reset(o, st, q), ArgumentsOK(st, q), st \in Fresh => stage[o] \in Fresh,
           db' \in [Rows -> Value], SameLedger,
           session' \in [CheckoutSession -> Sessions], older' \in [Key -> SUBSET Key]
    PROVE  IInv'
<1>1. OwnTypes /\ db \in [Rows -> Value] BY DEF IInv, TypeOK, OwnTypes
<1>2. TypeOK' BY <1>1, ResetTypes DEF OwnTypes, TypeOK
<1>3. LocksExclusive' BY <1>1, ResetLocks DEF IInv
<1>4. ASSUME NEW x \in Request, x # o
      PROVE  Own(x)' /\ Committed(x)'
  BY <1>1, <1>4, ResetOthers, OwnFrame, CommittedFrame DEF IInv
<1>5. Own(o)' BY <1>1, ResetSelf
<1>6. st \in Fresh => \A u \in User : db'[Sub(u, o)] = Absent
  BY DEF IInv, Committed, OwnRows, SameLedger, Key
<1>7. Committed(o)' BY <1>1, <1>6, ResetCommitted
<1> QED BY <1>2, <1>3, <1>4, <1>5, <1>7 DEF IInv

\* A request between transactions holds nothing, so that entering a stage is a reset.
LEMMA EnterInv ==
    ASSUME IInv, NEW o \in Request, NEW st \in Stage, NEW q \in Requests,
           Enter(o, st, q), ArgumentsOK(st, q), st \in Fresh => stage[o] \in Fresh
    PROVE  IInv'
<1>1. OwnTypes /\ db \in [Rows -> Value] BY DEF IInv, TypeOK, OwnTypes
<1>2. stage[o] \notin Transactions /\ Own(o) BY DEF Enter, IInv
<1>3. pc[o] = 0 /\ pend[o] = [r \in Rows |-> NoWrite] /\ ~busy[o] /\ snap[o] = {}
  BY <1>2 DEF Own, Transactional, Snapshots, Open
<1>4. /\ pend' = pend /\ snap' = snap /\ busy' = busy /\ db' = db
      /\ session' = session /\ older' = older
      /\ pc' = [pc EXCEPT ![o] = IF st \in Transactions THEN 1 ELSE 0]
  <2>1. CASE st \in Transactions
    BY <2>1 DEF Enter, StartTransaction
  <2>2. CASE st \notin Transactions
    BY <2>2, <1>1, <1>3 DEF Enter, dbVars, OwnTypes
  <2> QED BY <2>1, <2>2
<1>5. Reset(o, st, q)
  BY <1>1, <1>3, <1>4 DEF Reset, Enter, OwnTypes
<1>6. SameLedger BY <1>4 DEF SameLedger
<1>7. /\ db' \in [Rows -> Value] /\ session' \in [CheckoutSession -> Sessions]
      /\ older' \in [Key -> SUBSET Key]
  BY <1>4 DEF IInv, TypeOK
<1> QED BY <1>5, <1>6, <1>7, ResetInv

\* A step that changes rows of other tables, or sessions, and no request.
LEMMA OtherTablesInv ==
    ASSUME IInv, UNCHANGED <<pend, snap, busy, pc, req, stage, older>>,
           db' \in [Rows -> Value], SameLedger, session' \in [CheckoutSession -> Sessions]
    PROVE  IInv'
<1>1. TypeOK' BY DEF IInv, TypeOK
<1>2. LocksExclusive' BY DEF IInv, LocksExclusive, Row, TypeOK
<1>3. ASSUME NEW x \in Request
      PROVE  Own(x)' /\ Committed(x)'
  <2>1. Kept(x) BY DEF Kept
  <2> QED BY <2>1, OwnFrame, CommittedFrame DEF IInv
<1> QED BY <1>1, <1>2, <1>3 DEF IInv

----------------------------------------------------------------------------
(* A statement of an open transaction.                                       *)

LEMMA StartStatementInv ==
    ASSUME IInv, NEW o \in Request, StartStatement(o)
    PROVE  IInv'
<1> DEFINE s == CurrentStatement(o)
           P == Program(o)
<1>1. /\ OwnTypes /\ db \in [Rows -> Value] /\ Own(o) /\ Committed(o) /\ Open(o)
      /\ pc[o] \in DOMAIN P /\ ~busy[o]
  BY DEF IInv, TypeOK, OwnTypes, StartStatement, Snapshot
<1>2. /\ snap' = [snap EXCEPT ![o] = IF Skipped(o, s) THEN {} ELSE Matching(o, s)]
      /\ busy' = [busy EXCEPT ![o] = TRUE]
      /\ db' = db /\ pend' = pend /\ pc' = pc /\ req' = req /\ stage' = stage
      /\ session' = session /\ older' = older
  BY DEF StartStatement, Snapshot
<1>3. snap'[o] = (IF Skipped(o, s) THEN {} ELSE Matching(o, s)) /\ busy'[o] = TRUE
  BY <1>1, <1>2 DEF OwnTypes
<1>4. Program(o)' = P /\ s' = s
  BY <1>2 DEF Program, CurrentStatement
<1>5. /\ stage[o] \in Transactions /\ DOMAIN P = 1..Len(P) /\ Len(P) \in Nat
      /\ PlaceOK(stage[o], P, o, pc[o]) /\ s = P[pc[o]]
  BY <1>1, ProgramOK DEF CurrentStatement
<1> HIDE DEF s, P
<1>6. s.rows \subseteq Rows BY <1>5 DEF PlaceOK, StatementOK
<1>7. snap'[o] \subseteq s.rows BY <1>3 DEF Matching
<1>8. TypeOK'
  <2>1. snap' \in [Request -> SUBSET Rows] BY <1>1, <1>2, <1>3, <1>6, <1>7 DEF OwnTypes
  <2>2. busy' \in [Request -> BOOLEAN] BY <1>1, <1>2 DEF OwnTypes
  <2> QED BY <1>2, <2>1, <2>2 DEF IInv, TypeOK
<1>9. LocksExclusive' BY <1>2 DEF IInv, LocksExclusive, Row
<1>10. ASSUME NEW x \in Request, x # o
       PROVE  Own(x)' /\ Committed(x)'
  <2>1. Kept(x) BY <1>1, <1>2, <1>10 DEF Kept, OwnTypes
  <2>2. SameLedger BY <1>2 DEF SameLedger
  <2> QED BY <2>1, <2>2, OwnFrame, CommittedFrame DEF IInv
<1>11. Own(o)'
  <2>1. Arguments(o)' BY <1>1, <1>2 DEF Own, Arguments
  <2>2. Transactional(o)' BY <1>1, <1>2, <1>3 DEF Own, Transactional, Open
  <2>3. Snapshots(o)' BY <1>1, <1>2, <1>3, <1>4, <1>7 DEF Snapshots, s, P
  <2>4. WrittenByStatement(o)' BY <1>1, <1>2, <1>4 DEF Own, WrittenByStatement, P
  <2>5. \A u \in User : HasCreated(o, u)' = HasCreated(o, u)
    BY <1>2, <1>4 DEF HasCreated, P
  <2>6. CreatedLive(o)'
    <3> SUFFICES ASSUME stage[o] \in Granting, NEW u \in User, Creates(s, u, o)
                 PROVE  Sub(u, o) \in snap'[o]
      BY <1>1, <1>2, <1>4, <2>5 DEF Own, CreatedLive, s
    <3>1. s.unless = {} /\ s.from = {Absent} /\ s.rows = {Sub(u, o)}
      BY <1>5 DEF PlaceOK
    <3>2. ASSUME NEW i \in DOMAIN P, i < pc[o] PROVE ~Creates(P[i], u, o)
      <4>1. PlaceOK(stage[o], P, o, i) BY <1>1, ProgramOK DEF P
      <4>2. Creates(P[i], u, o) => Sub(u, o) \notin P[pc[o]].rows
        BY <4>1, <3>2, <1>1 DEF PlaceOK
      <4> QED BY <4>2, <1>5 DEF Creates
    <3>3. ~HasCreated(o, u) BY <3>2 DEF HasCreated, P
    <3>4. pend[o][Sub(u, o)] = NoWrite BY <1>1, <3>3 DEF Own, CreatedLive
    <3>5. stage[o] \in Fresh BY DEF Fresh
    <3>6. db[Sub(u, o)] = Absent BY <1>1, <3>5 DEF Committed, OwnRows
    <3>7. Seen(o, Sub(u, o)) = Absent BY <3>4, <3>6 DEF Seen
    <3>8. ~Skipped(o, s) BY <3>1 DEF Skipped
    <3> QED BY <1>3, <3>1, <3>7, <3>8 DEF Matching
  <2>7. GrantedAfterCreated(o)' BY <1>1, <1>2, <2>5 DEF Own, GrantedAfterCreated
  <2> QED BY <2>1, <2>2, <2>3, <2>4, <2>6, <2>7 DEF Own
<1>12. Committed(o)'
  <2>1. OwnRows(o)' BY <1>1, <1>2 DEF Committed, OwnRows
  <2>2. RevocationAhead(o)'
    <3> SUFFICES ASSUME NEW u \in User, NEW k \in Key, stage[o] # "suspend",
                        Closing(o, u, k), Seen(o, Ent(u, k)) = "ACTIVE"
                 PROVE  \E i \in DOMAIN P :
                           /\ i >= pc[o] /\ P[i] = RevokeEntitlements(u)
                           /\ i = pc[o] => Ent(u, k) \in snap'[o]
      BY <1>2, <1>3, <1>4 DEF RevocationAhead, Closing, Seen
    <3>1. PICK i \in DOMAIN P : i >= pc[o] /\ P[i] = RevokeEntitlements(u)
      BY <1>1 DEF Committed, RevocationAhead, P
    <3>2. ASSUME i = pc[o] PROVE Ent(u, k) \in snap'[o]
      <4>1. s = RevokeEntitlements(u) BY <1>5, <3>1, <3>2
      <4>2. s.unless = {} /\ s.from = {"ACTIVE"} /\ s.rows = Ents(u) BY <4>1 DEF RevokeEntitlements, UpdateMany, Statement
      <4>3. Ent(u, k) \in s.rows BY <4>2 DEF Ents
      <4> QED BY <1>3, <4>2, <4>3 DEF Matching, Skipped
    <3> QED BY <3>1, <3>2
  <2> QED BY <2>1, <2>2 DEF Committed
<1> QED BY <1>8, <1>9, <1>10, <1>11, <1>12 DEF IInv

LEMMA ApplyStatementInv ==
    ASSUME IInv, NEW o \in Request, ApplyStatement(o)
    PROVE  IInv'
<1> DEFINE s == CurrentStatement(o)
           P == Program(o)
           p == pend[o]
<1>1. /\ OwnTypes /\ db \in [Rows -> Value] /\ Own(o) /\ Committed(o) /\ Open(o)
      /\ pc[o] \in DOMAIN P /\ busy[o]
  BY DEF IInv, TypeOK, OwnTypes, ApplyStatement, Apply
<1>2. /\ \A r \in snap[o] : ~Locked(o, r)
      /\ pend' = [pend EXCEPT ![o] =
                    [r \in Rows |-> IF r \in snap[o] /\ Seen(o, r) \in s.from THEN s.to ELSE p[r]]]
      /\ snap' = [snap EXCEPT ![o] = {}]
      /\ busy' = [busy EXCEPT ![o] = FALSE]
      /\ pc' = [pc EXCEPT ![o] = @ + 1]
      /\ db' = db /\ req' = req /\ stage' = stage /\ session' = session
  BY <1>1 DEF ApplyStatement, Apply, Row
<1>3. /\ \A r \in Rows : pend'[o][r] =
            IF r \in snap[o] /\ Seen(o, r) \in s.from THEN s.to ELSE p[r]
      /\ snap'[o] = {} /\ busy'[o] = FALSE /\ pc'[o] = pc[o] + 1
  BY <1>1, <1>2 DEF OwnTypes
<1>4. Program(o)' = P
  BY <1>2 DEF Program
<1>5. /\ stage[o] \in Transactions /\ DOMAIN P = 1..Len(P) /\ Len(P) \in Nat
      /\ \A i \in DOMAIN P : PlaceOK(stage[o], P, o, i)
      /\ s = P[pc[o]]
  BY <1>1, ProgramOK DEF CurrentStatement
<1>6. snap[o] \subseteq s.rows
  BY <1>1 DEF Own, Snapshots
<1> HIDE DEF s, P
<1>7. PlaceOK(stage[o], P, o, pc[o]) /\ StatementOK(s) /\ pc[o] \in Nat
  BY <1>1, <1>5 DEF PlaceOK
<1>8. ASSUME NEW r \in Rows, pend'[o][r] # p[r]
      PROVE  /\ r \in snap[o] /\ r \in s.rows /\ Seen(o, r) \in s.from /\ pend'[o][r] = s.to
             /\ s.to \in Value
  BY <1>3, <1>6, <1>7, <1>8 DEF StatementOK
<1>9. \A u \in User, k \in Key : Sub(u, k) \in Rows /\ Ent(u, k) \in Rows
  BY RowsOfTables DEF RowsOf
<1>10. o \in Key BY DEF Key
<1>11. TypeOK'
  <2>1. ASSUME NEW r \in Rows PROVE pend'[o][r] \in Value \cup {NoWrite}
    BY <1>1, <1>8 DEF OwnTypes
  <2>2. pend' \in [Request -> [Rows -> Value \cup {NoWrite}]]
    <3>1. DEFINE f == [r \in Rows |-> IF r \in snap[o] /\ Seen(o, r) \in s.from THEN s.to ELSE p[r]]
    <3>2. \A r \in Rows : f[r] \in Value \cup {NoWrite} BY <1>3, <2>1
    <3>3. f \in [Rows -> Value \cup {NoWrite}] BY <3>2
    <3> HIDE DEF f
    <3> QED BY <1>1, <1>2, <3>3 DEF OwnTypes, f
  <2>3. snap' \in [Request -> SUBSET Rows] BY <1>1, <1>2 DEF OwnTypes
  <2>4. busy' \in [Request -> BOOLEAN] BY <1>1, <1>2 DEF OwnTypes
  <2>5. pc' \in [Request -> Nat] BY <1>1, <1>2 DEF OwnTypes
  <2>6. older' \in [Key -> SUBSET Key] BY <1>10 DEF ApplyStatement, IInv, TypeOK
  <2> QED BY <1>2, <2>2, <2>3, <2>4, <2>5, <2>6 DEF IInv, TypeOK
<1>12. LocksExclusive'
  <2>1. Row = Rows /\ Row' = Rows BY <1>1, <1>2 DEF Row
  <2>2. \A x \in Request : x # o => pend'[x] = pend[x] BY <1>1, <1>2 DEF OwnTypes
  <2>3. ASSUME NEW x \in Request, x # o, NEW r \in Rows
        PROVE  pend'[o][r] = NoWrite \/ pend'[x][r] = NoWrite
    <3>1. CASE pend'[o][r] = p[r]
      BY <2>1, <2>2, <2>3, <3>1 DEF IInv, LocksExclusive
    <3>2. CASE pend'[o][r] # p[r]
      BY <1>2, <1>8, <2>2, <2>3, <3>2 DEF Locked
    <3> QED BY <3>1, <3>2
  <2>4. ASSUME NEW x \in Request, NEW y \in Request, x # o, y # o, x # y, NEW r \in Rows
        PROVE  pend'[x][r] = NoWrite \/ pend'[y][r] = NoWrite
    BY <2>1, <2>2, <2>4 DEF IInv, LocksExclusive
  <2> QED BY <2>1, <2>3, <2>4 DEF LocksExclusive
<1>13. ASSUME NEW x \in Request, x # o
       PROVE  Own(x)' /\ Committed(x)'
  <2>1. Kept(x) BY <1>1, <1>2, <1>13 DEF Kept, OwnTypes
  <2>2. SameLedger BY <1>2 DEF SameLedger
  <2> QED BY <2>1, <2>2, OwnFrame, CommittedFrame DEF IInv
<1>14. \A u \in User : HasCreated(o, u)' <=> HasCreated(o, u) \/ Creates(s, u, o)
  BY <1>1, <1>3, <1>4, <1>5 DEF HasCreated, P
<1>15. ASSUME NEW u \in User, HasCreated(o, u)
       PROVE  Sub(u, o) \notin s.rows /\ pend'[o][Sub(u, o)] = p[Sub(u, o)]
  <2>1. PICK i \in DOMAIN P : i < pc[o] /\ Creates(P[i], u, o)
    BY <1>15 DEF HasCreated, P
  <2>2. Sub(u, o) \notin s.rows
    BY <1>1, <1>5, <2>1 DEF PlaceOK
  <2> QED BY <1>8, <1>9, <1>10, <2>2
<1>16. Own(o)'
  <2>1. Arguments(o)' BY <1>1, <1>2 DEF Own, Arguments
  <2>2. Transactional(o)' BY <1>1, <1>2, <1>3, <1>7 DEF Own, Transactional, Open
  <2>3. Snapshots(o)' BY <1>3 DEF Snapshots
  <2>4. WrittenByStatement(o)'
    <3> SUFFICES ASSUME NEW r \in Rows, pend'[o][r] # NoWrite
                 PROVE  \E i \in DOMAIN P : i < pc[o] + 1 /\ r \in P[i].rows
      BY <1>3, <1>4 DEF WrittenByStatement
    <3>1. CASE pend'[o][r] = p[r]
      <4>1. PICK i \in DOMAIN P : i < pc[o] /\ r \in P[i].rows
        BY <1>1, <3>1 DEF Own, WrittenByStatement, P
      <4> QED BY <1>5, <1>7, <4>1
    <3>2. CASE pend'[o][r] # p[r]
      BY <1>1, <1>5, <1>7, <1>8, <3>2
    <3> QED BY <3>1, <3>2
  <2>5. CreatedLive(o)'
    <3> SUFFICES ASSUME stage[o] \in Granting, NEW u \in User
                 PROVE  /\ HasCreated(o, u)'  => pend'[o][Sub(u, o)] \in LiveStatus
                        /\ ~HasCreated(o, u)' => pend'[o][Sub(u, o)] = NoWrite
      BY <1>2, <1>3 DEF CreatedLive
    <3>1. CASE HasCreated(o, u)
      BY <1>1, <1>14, <1>15, <3>1 DEF Own, CreatedLive
    <3>2. CASE ~HasCreated(o, u) /\ Creates(s, u, o)
      <4>1. s.from = {Absent} /\ s.to \in LiveStatus
        BY <1>5, <1>7, <3>2 DEF PlaceOK
      <4>2. Sub(u, o) \in snap[o] /\ p[Sub(u, o)] = NoWrite
        BY <1>1, <3>2 DEF Own, CreatedLive, s
      <4>3. db[Sub(u, o)] = Absent
        BY <1>1 DEF Committed, OwnRows, Fresh
      <4>4. Seen(o, Sub(u, o)) = Absent BY <4>2, <4>3 DEF Seen
      <4>5. pend'[o][Sub(u, o)] = s.to BY <1>3, <1>9, <1>10, <4>1, <4>2, <4>4
      <4> QED BY <1>14, <3>2, <4>1, <4>5
    <3>3. CASE ~HasCreated(o, u) /\ ~Creates(s, u, o)
      <4>1. p[Sub(u, o)] = NoWrite
        BY <1>1, <3>3 DEF Own, CreatedLive
      <4>2. db[Sub(u, o)] = Absent
        BY <1>1 DEF Committed, OwnRows, Fresh
      <4>3. Seen(o, Sub(u, o)) = Absent BY <4>1, <4>2 DEF Seen
      <4>4. Sub(u, o) \in s.rows => Absent \notin s.from BY <3>3 DEF Creates
      <4>5. pend'[o][Sub(u, o)] = NoWrite BY <1>8, <1>9, <1>10, <4>1, <4>3, <4>4
      <4> QED BY <1>14, <3>3, <4>5
    <3> QED BY <3>1, <3>2, <3>3
  <2>6. GrantedAfterCreated(o)'
    <3> SUFFICES ASSUME NEW u \in User, NEW k \in Key, pend'[o][Ent(u, k)] = "ACTIVE"
                 PROVE  k = o /\ stage[o] \in Granting /\ HasCreated(o, u)'
      BY <1>2 DEF GrantedAfterCreated
    <3>1. CASE pend'[o][Ent(u, k)] = p[Ent(u, k)]
      BY <1>1, <1>14, <3>1 DEF Own, GrantedAfterCreated
    <3>2. CASE pend'[o][Ent(u, k)] # p[Ent(u, k)]
      <4>1. Ent(u, k) \in s.rows /\ s.to = "ACTIVE" BY <1>8, <1>9, <3>2
      <4>2. /\ k = o /\ stage[o] \in Granting
            /\ \E j \in DOMAIN P : j < pc[o] /\ Creates(P[j], u, o)
        BY <1>5, <1>7, <4>1 DEF PlaceOK
      <4> QED BY <1>14, <4>2 DEF HasCreated, P
    <3> QED BY <3>1, <3>2
  <2> QED BY <2>1, <2>2, <2>3, <2>4, <2>5, <2>6 DEF Own
<1>17. Committed(o)'
  <2>1. OwnRows(o)'
    <3>1. ASSUME NEW u \in User, NEW k \in Key \ {o}, pend'[o][Sub(u, k)] # NoWrite
          PROVE  db[Sub(u, k)] # Absent
      <4>1. CASE pend'[o][Sub(u, k)] = p[Sub(u, k)]
        BY <1>1, <3>1, <4>1 DEF Committed, OwnRows
      <4>2. CASE pend'[o][Sub(u, k)] # p[Sub(u, k)]
        <5>1. Sub(u, k) \in s.rows /\ Seen(o, Sub(u, k)) \in s.from
          BY <1>8, <1>9, <4>2
        <5>2. Absent \notin s.from
          BY <1>5, <1>7, <5>1 DEF PlaceOK
        <5> QED BY <1>1, <5>1, <5>2 DEF Seen, Committed, OwnRows
      <4> QED BY <4>1, <4>2
    <3>2. ASSUME NEW u \in User, NEW k \in Key PROVE pend'[o][Sub(u, k)] # Absent
      <4>1. CASE pend'[o][Sub(u, k)] = p[Sub(u, k)]
        BY <1>1, <4>1 DEF Committed, OwnRows
      <4>2. CASE pend'[o][Sub(u, k)] # p[Sub(u, k)]
        BY <1>7, <1>8, <1>9, <4>2 DEF StatementOK
      <4> QED BY <4>1, <4>2
    <3> QED BY <1>1, <1>2, <3>1, <3>2 DEF Committed, OwnRows
  <2>2. RevocationAhead(o)'
    <3> SUFFICES ASSUME NEW u \in User, NEW k \in Key, stage[o] # "suspend",
                        Closing(o, u, k)', Seen(o, Ent(u, k))' = "ACTIVE"
                 PROVE  \E i \in DOMAIN P : i >= pc[o] + 1 /\ P[i] = RevokeEntitlements(u)
      BY <1>2, <1>3, <1>4 DEF RevocationAhead
    <3>1. Sub(u, k) \in Rows /\ Ent(u, k) \in Rows BY <1>9
    <3>2. CASE pend'[o][Sub(u, k)] # p[Sub(u, k)]
      <4>1. Sub(u, k) \in s.rows /\ s.to \notin LiveStatus
        BY <1>8, <3>1, <3>2 DEF Closing
      <4>2. PICK j \in DOMAIN P : j > pc[o] /\ P[j] = RevokeEntitlements(u)
        BY <1>5, <1>7, <4>1 DEF PlaceOK
      <4>3. pc[o] \in Nat /\ j \in Nat BY <1>5, <1>7
      <4>4. j >= pc[o] + 1 BY <4>2, <4>3
      <4> QED BY <4>2, <4>4
    <3>3. CASE pend'[o][Sub(u, k)] = p[Sub(u, k)] /\ Seen(o, Ent(u, k)) = "ACTIVE"
      <4>1. Closing(o, u, k) BY <3>3 DEF Closing
      <4>2. PICK i \in DOMAIN P : /\ i >= pc[o] /\ P[i] = RevokeEntitlements(u)
                                  /\ i = pc[o] => Ent(u, k) \in snap[o]
        BY <1>1, <3>3, <4>1 DEF Committed, RevocationAhead, P
      <4>3. ASSUME i = pc[o] PROVE FALSE
        <5>1. s = RevokeEntitlements(u) /\ Ent(u, k) \in snap[o] BY <1>5, <4>2, <4>3
        <5>2. s.from = {"ACTIVE"} /\ s.to = "REVOKED"
          BY <5>1 DEF RevokeEntitlements, UpdateMany, Statement
        <5>3. pend'[o][Ent(u, k)] = "REVOKED" BY <1>3, <3>1, <3>3, <5>1, <5>2
        <5> QED BY <5>3 DEF Seen, NoWrite
      <4>4. pc[o] \in Nat /\ i \in Nat BY <1>5, <1>7
      <4>5. i >= pc[o] + 1 BY <4>2, <4>3, <4>4
      <4> QED BY <4>2, <4>5
    <3>4. CASE pend'[o][Sub(u, k)] = p[Sub(u, k)] /\ Seen(o, Ent(u, k)) # "ACTIVE"
      <4>1. pend'[o][Ent(u, k)] # p[Ent(u, k)]
        BY <1>2, <3>4 DEF Seen
      <4>2. pend'[o][Ent(u, k)] # NoWrite
        BY <1>8, <3>1, <4>1, NoWriteIsNoValue
      <4>3. pend'[o][Ent(u, k)] = "ACTIVE"
        BY <3>4, <4>2 DEF Seen
      <4>4. Ent(u, k) \in s.rows /\ s.to = "ACTIVE" BY <1>8, <3>1, <4>1, <4>3
      <4>5. /\ k = o /\ stage[o] \in Granting
            /\ \E j \in DOMAIN P : j < pc[o] /\ Creates(P[j], u, o)
        BY <1>5, <1>7, <4>4 DEF PlaceOK
      <4>6. HasCreated(o, u) BY <4>5 DEF HasCreated, P
      <4>7. p[Sub(u, k)] \in LiveStatus BY <1>1, <4>5, <4>6 DEF Own, CreatedLive
      <4> QED BY <3>4, <4>7 DEF Closing
    <3> QED BY <3>2, <3>3, <3>4
  <2> QED BY <2>1, <2>2 DEF Committed
<1> QED BY <1>11, <1>12, <1>13, <1>16, <1>17 DEF IInv
----------------------------------------------------------------------------
(* The end of a transaction.                                                 *)

\* What a request that has ended or moved on remembers is a request.
LEMMA ProceedTypes ==
    ASSUME IInv, NEW o \in Request, NEW st, NEW hasRow, Proceed(o, st, hasRow),
           st \in {"ensure", "student", "sync", "done", "addStudent"}
    PROVE  \E q \in Requests :
              /\ req' = [req EXCEPT ![o] = q] /\ stage' = [stage EXCEPT ![o] = st]
              /\ st # "done" => q = req[o]
<1>1. req[o] \in Requests BY DEF IInv, TypeOK
<1>2. NoRequest \in Requests BY DEF Requests, NoRequest
<1>3. [NoRequest EXCEPT !.user = req[o].user, !.plan = req[o].plan,
                        !.session = req[o].session] \in Requests
  BY <1>1, <1>2 DEF Requests, NoRequest
<1> QED BY <1>1, <1>2, <1>3 DEF Proceed

LEMMA AbortTransactionInv ==
    ASSUME IInv, NEW o \in Request, AbortTransaction(o)
    PROVE  IInv'
<1> DEFINE st == AfterAbort(req[o], stage[o])
<1>1. st \in {"sync", "done"} BY DEF AfterAbort, AfterBaseline
<1>2. PICK q \in Requests :
         /\ req' = [req EXCEPT ![o] = q] /\ stage' = [stage EXCEPT ![o] = st]
         /\ st # "done" => q = req[o]
  BY <1>1, ProceedTypes DEF AbortTransaction
<1>3. OwnTypes /\ db \in [Rows -> Value] /\ Own(o) /\ Open(o)
  BY DEF IInv, TypeOK, OwnTypes, AbortTransaction, Abort
<1>4. Reset(o, st, q)
  BY <1>1, <1>2, <1>3 DEF Reset, AbortTransaction, Abort, Finish, NoWrites, Row, Transactions
<1>5. req[o].user \in User
  BY <1>3, ProgramOK DEF Own, Arguments, ArgumentsOK, Transactions
<1>6. ArgumentsOK(st, q) BY <1>1, <1>2, <1>5 DEF ArgumentsOK, Granting
<1>7. st \in Stage /\ st \notin Fresh BY <1>1 DEF Stage, Fresh, Granting
<1>8. /\ db' = db /\ session' = session /\ older' \in [Key -> SUBSET Key]
  BY DEF AbortTransaction, Abort, IInv, TypeOK
<1>9. SameLedger /\ db' \in [Rows -> Value] /\ session' \in [CheckoutSession -> Sessions]
  BY <1>3, <1>8 DEF SameLedger, IInv, TypeOK
<1> HIDE DEF st
<1> QED BY <1>4, <1>6, <1>7, <1>8, <1>9, ResetInv

\* A commit writes what the transaction has pending.
LEMMA CommittedRows ==
    ASSUME IInv, NEW o \in Request, CommitTransaction(o)
    PROVE  /\ db' \in [Rows -> Value]
           /\ \A r \in Rows : db'[r] = IF pend[o][r] # NoWrite THEN pend[o][r] ELSE db[r]
<1>1. db' = [r \in Rows |-> IF pend[o][r] # NoWrite THEN pend[o][r] ELSE db[r]]
  BY DEF CommitTransaction, Commit, Seen, Row, IInv, TypeOK
<1>2. \A r \in Rows : pend[o][r] \in Value \cup {NoWrite} /\ db[r] \in Value
  BY DEF IInv, TypeOK
<1> QED BY <1>1, <1>2

\* A transaction that has inserted an entitlement holds its live subscription.
LEMMA GrantIsLive ==
    ASSUME IInv, NEW o \in Request, NEW u \in User, NEW k \in Key, pend[o][Ent(u, k)] = "ACTIVE"
    PROVE  k = o /\ pend[o][Sub(u, k)] \in LiveStatus
BY DEF IInv, Own, GrantedAfterCreated, CreatedLive

LEMMA CommitTransactionInv ==
    ASSUME IInv, NEW o \in Request, CommitTransaction(o)
    PROVE  IInv'
<1> DEFINE st == AfterCommit(req[o], stage[o])
<1>1. st \in {"ensure", "student", "sync", "done"} BY DEF AfterCommit, AfterBaseline
<1>2. PICK q \in Requests :
         /\ req' = [req EXCEPT ![o] = q] /\ stage' = [stage EXCEPT ![o] = st]
         /\ st # "done" => q = req[o]
  BY <1>1, ProceedTypes DEF CommitTransaction
<1>3. OwnTypes /\ db \in [Rows -> Value] /\ Own(o) /\ Committed(o) /\ Open(o)
  BY DEF IInv, TypeOK, OwnTypes, CommitTransaction, Commit
<1>4. Reset(o, st, q)
  BY <1>1, <1>2, <1>3 DEF Reset, CommitTransaction, Commit, Finish, NoWrites, Row, Transactions
<1>5. stage[o] \in Transactions /\ req[o].user \in User
  BY <1>3, ProgramOK DEF Own, Arguments, ArgumentsOK, Transactions
<1>6. ArgumentsOK(st, q) BY <1>1, <1>2, <1>5 DEF ArgumentsOK, Granting
<1>7. st \in Stage BY <1>1 DEF Stage
<1>8. \A u \in User, k \in Key : Sub(u, k) \in Rows /\ Ent(u, k) \in Rows
  BY RowsOfTables DEF RowsOf
<1>9. o \in Key BY DEF Key
<1>10. TypeOK'
  <2>1. OwnTypes' BY <1>3, <1>4, <1>7, ResetTypes
  <2>2. session' = session /\ older' = older BY DEF CommitTransaction
  <2> QED BY <2>1, <2>2, CommittedRows DEF OwnTypes, IInv, TypeOK
<1>11. LocksExclusive' BY <1>3, <1>4, CommittedRows, ResetLocks DEF IInv
<1>12. Own(o)' BY <1>3, <1>4, <1>6, ResetSelf
<1>13. Committed(o)'
  <2>1. ASSUME st \in Fresh, NEW u \in User PROVE db'[Sub(u, o)] = Absent
    <3>1. stage[o] \in {"linkAccount", "verifyCode"}
      BY <1>1, <2>1 DEF AfterCommit, AfterBaseline, Fresh, Granting
    <3>2. db[Sub(u, o)] = Absent BY <1>3, <3>1 DEF Committed, OwnRows, Fresh
    <3>3. \A i \in DOMAIN Program(o) : Sub(u, o) \notin Program(o)[i].rows
      BY <1>3, <1>9, <3>1, ProgramOK DEF PlaceOK
    <3>4. pend[o][Sub(u, o)] = NoWrite
      BY <1>3, <1>8, <1>9, <3>3 DEF Own, WrittenByStatement
    <3> QED BY <1>8, <1>9, <3>2, <3>4, CommittedRows
  <2> HIDE DEF st
  <2> QED BY <1>3, <1>4, <2>1, ResetCommitted
<1>14. ASSUME NEW x \in Request, x # o
       PROVE  Own(x)' /\ Committed(x)'
  <2>1. Kept(x) /\ x \in Key
    BY <1>3, <1>4, <1>14, ResetOthers DEF Key
  <2>2. Own(x) /\ Committed(x) BY DEF IInv
  <2>3. Own(x)' BY <2>1, <2>2, OwnFrame
  <2>4. OwnRows(x)'
    <3>1. ASSUME stage[x] \in Fresh, NEW u \in User PROVE db'[Sub(u, x)] = Absent
      <4>1. db[Sub(u, x)] = Absent BY <2>2, <3>1 DEF Committed, OwnRows
      <4>2. pend[o][Sub(u, x)] = NoWrite BY <1>3, <1>14, <2>1, <4>1 DEF Committed, OwnRows
      <4> QED BY <1>8, <2>1, <4>1, <4>2, CommittedRows
    <3>2. ASSUME NEW u \in User, NEW k \in Key \ {x}, pend[x][Sub(u, k)] # NoWrite
          PROVE  db'[Sub(u, k)] # Absent
      <4>1. db[Sub(u, k)] # Absent BY <2>2, <3>2 DEF Committed, OwnRows
      <4>2. pend[o][Sub(u, k)] # Absent BY <1>3 DEF Committed, OwnRows
      <4> QED BY <1>8, <4>1, <4>2, CommittedRows
    <3>3. \A u \in User, k \in Key : pend[x][Sub(u, k)] # Absent
      BY <2>2 DEF Committed, OwnRows
    <3> QED BY <2>1, <3>1, <3>2, <3>3 DEF OwnRows, Kept
  <2>5. RevocationAhead(x)'
    <3> SUFFICES ASSUME NEW u \in User, NEW k \in Key, stage[x] # "suspend",
                        Closing(x, u, k), Seen(x, Ent(u, k))' = "ACTIVE"
                 PROVE  Seen(x, Ent(u, k)) = "ACTIVE"
      <4>1. Program(x)' = Program(x) BY <2>1 DEF Program, Kept
      <4>2. \A u \in User, k \in Key : Closing(x, u, k)' = Closing(x, u, k)
        BY <2>1 DEF Closing, Kept
      <4> QED BY <2>1, <2>2, <4>1, <4>2 DEF Committed, RevocationAhead, Kept
    <3>1. CASE pend[x][Ent(u, k)] # NoWrite
      BY <2>1, <3>1 DEF Seen, Kept
    <3>2. CASE pend[x][Ent(u, k)] = NoWrite
      <4>1. db'[Ent(u, k)] = "ACTIVE" BY <2>1, <3>2 DEF Seen, Kept
      <4>2. pend[o][Sub(u, k)] = NoWrite
        BY <1>3, <1>8, <1>14 DEF Closing, IInv, LocksExclusive, Row
      <4>3. pend[o][Ent(u, k)] # "ACTIVE"
        BY <4>2, GrantIsLive DEF LiveStatus, NoWrite
      <4>4. db[Ent(u, k)] = "ACTIVE" BY <1>8, <4>1, <4>3, CommittedRows
      <4> QED BY <3>2, <4>4 DEF Seen
    <3> QED BY <3>1, <3>2
  <2> QED BY <2>3, <2>4, <2>5 DEF Committed
<1> QED BY <1>10, <1>11, <1>12, <1>13, <1>14 DEF IInv
----------------------------------------------------------------------------
(* The calls.                                                                *)

\* A new request of a user, whatever it asks for.
LEMMA ArriveInv ==
    ASSUME IInv, NEW o \in Request, NEW u \in User, NEW op, NEW st \in Stage, NEW q \in Requests,
           Arrive(o, op, u, st, q),
           ArgumentsOK(st, [q EXCEPT !.op = op, !.user = u])
    PROVE  IInv'
<1>1. op \in Operations /\ stage[o] = "idle" /\ Enter(o, st, [q EXCEPT !.op = op, !.user = u])
  BY DEF Arrive
<1>2. [q EXCEPT !.op = op, !.user = u] \in Requests BY <1>1 DEF Requests
<1>3. stage[o] \in Fresh BY <1>1 DEF Fresh
<1> QED BY <1>1, <1>2, <1>3, EnterInv

LEMMA TargetRoleType == \A p : TargetRole(p) \in RoleCode
BY DEF TargetRole, RoleCode

LEMMA CallInv ==
    ASSUME IInv, NEW o \in Request, NEW u \in User, Call(o, u)
    PROVE  IInv'
<1> USE PlanAssumption, TargetRoleType
<1>1. NoRequest \in Requests BY DEF NoRequest, Requests
<1>2. CASE CreateCheckoutSession(o, u)
  <2>1. PICK p \in FreePlan :
           Arrive(o, "createCheckoutSession", u, "activateFree",
                  [NoRequest EXCEPT !.plan = p, !.role = TargetRole(p)])
    BY <1>2 DEF CreateCheckoutSession
  <2> DEFINE q == [NoRequest EXCEPT !.plan = p, !.role = TargetRole(p)]
  <2>2. q \in Requests BY DEF NoRequest, Requests
  <2>3. ArgumentsOK("activateFree", [q EXCEPT !.op = "createCheckoutSession", !.user = u])
    BY <2>2 DEF ArgumentsOK, Granting, Requests, NoRequest
  <2> QED BY <2>1, <2>2, <2>3, ArriveInv DEF Stage, Transactions
<1>3. CASE \E s \in CheckoutSession : session[s].user = u /\ VerifySession(o, s)
  <2>1. PICK s \in CheckoutSession : session[s].user = u /\ VerifySession(o, s) BY <1>3
  <2> DEFINE p == session[s].plan
             q == [NoRequest EXCEPT !.plan = p, !.role = TargetRole(p), !.session = s,
                                    !.status = session[s].status]
  <2>2. session[s] \in [user : User, plan : Plan, status : LiveStatus]
    BY <2>1 DEF VerifySession, IInv, TypeOK, Sessions
  <2>3. p \in Plan /\ session[s].status \in LiveStatus /\ session[s].status \in Value
    BY <2>2, Values
  <2>4. Arrive(o, "verifySession", u, "checkout", q)
    BY <2>1 DEF VerifySession
  <2> HIDE DEF p
  <2>5. q \in Requests BY <2>3 DEF NoRequest, Requests
  <2>6. ArgumentsOK("checkout", [q EXCEPT !.op = "verifySession", !.user = u])
    BY <2>3, <2>5 DEF ArgumentsOK, Granting, Requests, NoRequest
  <2> QED BY <2>4, <2>5, <2>6, ArriveInv DEF Stage, Transactions
<1>4. CASE AssignCustomSubscription(o, u)
  <2>1. PICK p \in Plan, status \in LiveStatus :
           Arrive(o, "assignCustomSubscription", u, "assignPurchaseOrder",
                  [NoRequest EXCEPT !.plan = p, !.role = TargetRole(p), !.status = status])
    BY <1>4 DEF AssignCustomSubscription
  <2> DEFINE q == [NoRequest EXCEPT !.plan = p, !.role = TargetRole(p), !.status = status]
  <2>2. status \in Value BY Values
  <2>3. q \in Requests BY <2>2 DEF NoRequest, Requests
  <2>4. ArgumentsOK("assignPurchaseOrder", [q EXCEPT !.op = "assignCustomSubscription", !.user = u])
    BY <2>3 DEF ArgumentsOK, Granting, Requests, NoRequest
  <2> QED BY <2>1, <2>3, <2>4, ArriveInv DEF Stage, Transactions
<1>5. CASE AssignPlanManually(o, u)
  <2>1. PICK p \in Plan :
           Arrive(o, "assignPlanManually", u, "assignManually",
                  [NoRequest EXCEPT !.plan = p, !.role = TargetRole(p)])
    BY <1>5 DEF AssignPlanManually
  <2> DEFINE q == [NoRequest EXCEPT !.plan = p, !.role = TargetRole(p)]
  <2>2. q \in Requests BY DEF NoRequest, Requests
  <2>3. ArgumentsOK("assignManually", [q EXCEPT !.op = "assignPlanManually", !.user = u])
    BY <2>2 DEF ArgumentsOK, Granting, Requests, NoRequest
  <2> QED BY <2>1, <2>2, <2>3, ArriveInv DEF Stage, Transactions
<1>6. CASE CancelSubscription(o, u)
  <2>1. PICK k \in Key :
           Arrive(o, "cancelSubscription", u, "cancel", [NoRequest EXCEPT !.target = k])
    BY <1>6 DEF CancelSubscription
  <2> DEFINE q == [NoRequest EXCEPT !.target = k]
  <2>2. q \in Requests BY DEF NoRequest, Requests
  <2>3. ArgumentsOK("cancel", [q EXCEPT !.op = "cancelSubscription", !.user = u])
    BY <2>2 DEF ArgumentsOK, Granting, Requests, NoRequest
  <2> QED BY <2>1, <2>2, <2>3, ArriveInv DEF Stage, Transactions
<1>7. CASE UpdateUser(o, u)
  <2>1. PICK p \in Plan \cup {None}, status \in AdminStatus \cup {None} :
           Arrive(o, "update", u, "update",
                  [NoRequest EXCEPT !.plan = p, !.status = status,
                                    !.role = IF p = None THEN None ELSE TargetRole(p)])
    BY <1>7 DEF UpdateUser
  <2> DEFINE role == IF p = None THEN None ELSE TargetRole(p)
             q == [NoRequest EXCEPT !.plan = p, !.status = status, !.role = role]
  <2>2. /\ status \in UserStatus \cup {None} /\ status \in Value \cup {None}
        /\ role \in RoleCode \cup {None} /\ (p # None => role \in RoleCode)
    BY OperationsAssumption, Values
  <2>3. Arrive(o, "update", u, "update", q) BY <2>1
  <2> HIDE DEF role
  <2>4. q \in Requests BY <2>2 DEF NoRequest, Requests
  <2>5. ArgumentsOK("update", [q EXCEPT !.op = "update", !.user = u])
    BY <2>2, <2>4 DEF ArgumentsOK, Granting, Requests, NoRequest
  <2> QED BY <2>3, <2>4, <2>5, ArriveInv DEF Stage, Transactions
<1>8. CASE UpdateUserSubscription(o, u)
  <2>1. PICK p \in Plan, k \in Key \cup {None} :
           Arrive(o, "updateUserSubscription", u, "updateSubscription",
                  [NoRequest EXCEPT !.plan = p, !.role = TargetRole(p), !.target = k])
    BY <1>8 DEF UpdateUserSubscription, Newest, ActiveSubs
  <2> DEFINE q == [NoRequest EXCEPT !.plan = p, !.role = TargetRole(p), !.target = k]
  <2>2. q \in Requests BY DEF NoRequest, Requests
  <2>3. ArgumentsOK("updateSubscription", [q EXCEPT !.op = "updateUserSubscription", !.user = u])
    BY <2>2 DEF ArgumentsOK, Granting, Requests, NoRequest
  <2> QED BY <2>1, <2>2, <2>3, ArriveInv DEF Stage, Transactions
<1>9. CASE ToggleSuspendUser(o, u)
  <2>1. CASE db[Status(u)] = "BLOCKED"
    <3>1. PICK p \in FreePlan :
             Arrive(o, "toggleSuspendUser", u, "restore", [NoRequest EXCEPT !.plan = p])
      BY <1>9, <2>1 DEF ToggleSuspendUser
    <3> DEFINE q == [NoRequest EXCEPT !.plan = p]
    <3>2. q \in Requests BY DEF NoRequest, Requests
    <3>3. ArgumentsOK("restore", [q EXCEPT !.op = "toggleSuspendUser", !.user = u])
      BY <3>2 DEF ArgumentsOK, Granting, Requests, NoRequest
    <3> QED BY <3>1, <3>2, <3>3, ArriveInv DEF Stage, Transactions
  <2>2. CASE db[Status(u)] # "BLOCKED"
    <3>1. Arrive(o, "toggleSuspendUser", u, "suspend", NoRequest)
      BY <1>9, <2>2 DEF ToggleSuspendUser
    <3>2. ArgumentsOK("suspend", [NoRequest EXCEPT !.op = "toggleSuspendUser", !.user = u])
      BY DEF ArgumentsOK, Granting, NoRequest
    <3> QED BY <1>1, <3>1, <3>2, ArriveInv DEF Stage, Transactions
  <2> QED BY <2>1, <2>2
<1>10. CASE DeleteUser(o, u)
  <2>1. Arrive(o, "deleteUser", u, "delete", NoRequest) BY <1>10 DEF DeleteUser
  <2>2. ArgumentsOK("delete", [NoRequest EXCEPT !.op = "deleteUser", !.user = u])
    BY DEF ArgumentsOK, Granting, NoRequest
  <2> QED BY <1>1, <2>1, <2>2, ArriveInv DEF Stage, Transactions
<1>11. CASE VerifyEmailOtp(o, u)
  <2>1. PICK i \in Otp :
           Arrive(o, "verifyEmailOtp", u, "verifyCode",
                  [NoRequest EXCEPT !.code = i, !.baseline = (ActiveRoles(u) = {})])
    BY <1>11 DEF VerifyEmailOtp
  <2> DEFINE b == (ActiveRoles(u) = {})
             q == [NoRequest EXCEPT !.code = i, !.baseline = b]
  <2>2. b \in BOOLEAN /\ i \in Nat BY OtpAssumption
  <2>3. Arrive(o, "verifyEmailOtp", u, "verifyCode", q) BY <2>1
  <2> HIDE DEF b
  <2>4. q \in Requests BY <2>2 DEF NoRequest, Requests
  <2>5. ArgumentsOK("verifyCode", [q EXCEPT !.op = "verifyEmailOtp", !.user = u])
    BY <2>4 DEF ArgumentsOK, Granting, Requests, NoRequest
  <2> QED BY <2>3, <2>4, <2>5, ArriveInv DEF Stage, Transactions
<1>12. CASE Login(o, u)
  <2>1. PICK st \in {"ensure", "sync"} : Arrive(o, "login", u, st, NoRequest)
    BY <1>12 DEF Login
  <2>2. ArgumentsOK(st, [NoRequest EXCEPT !.op = "login", !.user = u])
    BY DEF ArgumentsOK, Granting, NoRequest
  <2> QED BY <1>1, <2>1, <2>2, ArriveInv DEF Stage
<1>13. CASE RefreshToken(o, u)
  <2>1. Arrive(o, "refreshToken", u, "sync", NoRequest) BY <1>13 DEF RefreshToken
  <2>2. ArgumentsOK("sync", [NoRequest EXCEPT !.op = "refreshToken", !.user = u])
    BY DEF ArgumentsOK, Granting, NoRequest
  <2> QED BY <1>1, <2>1, <2>2, ArriveInv DEF Stage
<1>14. CASE HandleGoogleCallback(o, u)
  <2> DEFINE status == IF db[Status(u)] = "PENDING_VERIFICATION" THEN "ACTIVE" ELSE db[Status(u)]
             b == MayEnter(status)
             q == [NoRequest EXCEPT !.status = status, !.baseline = b]
  <2>1. status \in Value /\ b \in BOOLEAN
    <3>1. db[Status(u)] \in Value BY RowsOfTables DEF RowsOf, IInv, TypeOK
    <3> QED BY <3>1, Values DEF MayEnter
  <2>2. \/ Arrive(o, "handleGoogleCallback", u, "linkAccount", q)
        \/ Arrive(o, "handleGoogleCallback", u, "ensure", NoRequest)
    BY <1>14 DEF HandleGoogleCallback
  <2> HIDE DEF status, b
  <2>3. q \in Requests BY <2>1 DEF NoRequest, Requests
  <2>4. ArgumentsOK("linkAccount", [q EXCEPT !.op = "handleGoogleCallback", !.user = u])
    BY <2>1, <2>3 DEF ArgumentsOK, Granting, Requests, NoRequest
  <2>5. ArgumentsOK("ensure", [NoRequest EXCEPT !.op = "handleGoogleCallback", !.user = u])
    BY DEF ArgumentsOK, Granting, NoRequest
  <2> QED BY <1>1, <2>2, <2>3, <2>4, <2>5, ArriveInv DEF Stage, Transactions
<1> QED
  BY <1>2, <1>3, <1>4, <1>5, <1>6, <1>7, <1>8, <1>9, <1>10, <1>11, <1>12, <1>13, <1>14 DEF Call
----------------------------------------------------------------------------
(* The other steps.                                                          *)

LEMMA RegisterInv ==
    ASSUME IInv, NEW u \in User, Register(u)
    PROVE  IInv'
<1>1. PICK i \in Otp : db' = [db EXCEPT ![Code(u, i)] = "on"] BY DEF Register
<1>2. Code(u, i) \in Rows /\ "on" \in Value BY RowsOfTables, Values DEF RowsOf
<1>3. \A v, k : Code(u, i) # Sub(v, k) /\ Code(u, i) # Ent(v, k) BY RowsDiffer
<1>4. db \in [Rows -> Value] BY DEF IInv, TypeOK
<1>5. db' \in [Rows -> Value] BY <1>1, <1>2, <1>4
<1>6. \A r \in Rows : r # Code(u, i) => db'[r] = db[r] BY <1>1, <1>4
<1>7. SameLedger BY <1>3, <1>6, RowsOfTables DEF SameLedger, RowsOf
<1>8. session' \in [CheckoutSession -> Sessions] BY DEF Register, IInv, TypeOK
<1> QED BY <1>5, <1>7, <1>8, OtherTablesInv DEF Register

LEMMA SessionsInv ==
    ASSUME IInv, NEW s \in CheckoutSession, NEW u \in User,
           CreatePaidCheckoutSession(s, u) \/ AssignPaymentLink(s, u)
    PROVE  IInv'
<1>1. session' \in [CheckoutSession -> Sessions]
  <2>1. PICK p \in Plan, status \in LiveStatus : OpenSession(s, u, p, status)
    BY DEF CreatePaidCheckoutSession, AssignPaymentLink
  <2>2. [user |-> u, plan |-> p, status |-> status] \in Sessions BY DEF Sessions
  <2> QED BY <2>1, <2>2 DEF OpenSession, IInv, TypeOK
<1>2. db \in [Rows -> Value] BY DEF IInv, TypeOK
<1>3. CASE CreatePaidCheckoutSession(s, u)
  <2>1. db' = db /\ UNCHANGED <<pend, snap, busy, pc, req, stage, older>>
    BY <1>3 DEF CreatePaidCheckoutSession, dbVars
  <2>2. SameLedger BY <2>1 DEF SameLedger
  <2> QED BY <1>1, <1>2, <2>1, <2>2, OtherTablesInv
<1>4. CASE AssignPaymentLink(s, u)
  <2>1. db' = [db EXCEPT ![Assign(u, s)] = "PENDING"] BY <1>4 DEF AssignPaymentLink
  <2>2. Assign(u, s) \in Rows BY RowsOfTables DEF RowsOf
  <2>3. "PENDING" \in Value BY DEF Value, AssignmentState
  <2>4. \A v, k : Assign(u, s) # Sub(v, k) /\ Assign(u, s) # Ent(v, k) BY RowsDiffer
  <2>5. db' \in [Rows -> Value] BY <1>2, <2>1, <2>2, <2>3
  <2>6. \A r \in Rows : r # Assign(u, s) => db'[r] = db[r] BY <1>2, <2>1
  <2>7. SameLedger BY <2>4, <2>6, RowsOfTables DEF SameLedger, RowsOf
  <2> QED BY <1>1, <1>4, <2>5, <2>7, OtherTablesInv DEF AssignPaymentLink
<1> QED BY <1>3, <1>4

LEMMA BaselineInv ==
    ASSUME IInv, NEW o \in Request,
           EnsureFreePlanForUser(o) \/ AddStudentRole(o)
    PROVE  IInv'
<1> USE PlanAssumption, TargetRoleType
<1>1. req[o] \in Requests /\ req[o].user \in User
  BY DEF IInv, TypeOK, Own, Arguments, ArgumentsOK, EnsureFreePlanForUser, AddStudentRole
<1>2. CASE Enter(o, "addStudent", req[o])
  <2>1. ArgumentsOK("addStudent", req[o]) BY <1>1 DEF ArgumentsOK, Granting
  <2>2. "addStudent" \in Stage /\ "addStudent" \notin Fresh
    BY DEF Stage, Transactions, Fresh, Granting
  <2> QED BY <1>1, <1>2, <2>1, <2>2, EnterInv
<1>3. CASE stage[o] = "ensure" /\ \E p \in FreePlan :
              Enter(o, "activateFree", [req[o] EXCEPT !.plan = p, !.role = TargetRole(p)])
  <2>1. PICK p \in FreePlan :
           Enter(o, "activateFree", [req[o] EXCEPT !.plan = p, !.role = TargetRole(p)])
    BY <1>3
  <2> DEFINE q == [req[o] EXCEPT !.plan = p, !.role = TargetRole(p)]
  <2>2. q \in Requests BY <1>1 DEF Requests
  <2>3. q.user = req[o].user /\ q.role = TargetRole(p) BY <1>1 DEF Requests
  <2>4. Enter(o, "activateFree", q) BY <2>1
  <2> HIDE DEF q
  <2>5. ArgumentsOK("activateFree", q) BY <1>1, <2>3 DEF ArgumentsOK, Granting
  <2>6. "activateFree" \in Stage /\ stage[o] \in Fresh
    BY <1>3 DEF Stage, Transactions, Fresh
  <2> QED BY <2>2, <2>4, <2>5, <2>6, EnterInv
<1> QED BY <1>2, <1>3 DEF EnsureFreePlanForUser, AddStudentRole

LEMMA SyncInv ==
    ASSUME IInv, NEW o \in Request, SyncRoleFromActiveSubscription(o)
    PROVE  IInv'
<1>1. stage[o] = "sync" /\ req[o] \in Requests /\ req[o].user \in User
  BY DEF IInv, TypeOK, Own, Arguments, ArgumentsOK, SyncRoleFromActiveSubscription
<1>2. CASE Proceed(o, "done", Created(o)) /\ UNCHANGED <<dbVars, session, older>>
  <2>1. PICK q \in Requests :
           req' = [req EXCEPT ![o] = q] /\ stage' = [stage EXCEPT ![o] = "done"]
    BY <1>2, ProceedTypes
  <2>2. OwnTypes /\ Own(o) BY DEF IInv, TypeOK, OwnTypes
  <2>3. pc[o] = 0 /\ pend[o] = [r \in Rows |-> NoWrite] /\ ~busy[o] /\ snap[o] = {}
    BY <1>1, <2>2 DEF Own, Transactional, Snapshots, Open, Transactions
  <2>4. Reset(o, "done", q)
    BY <1>2, <2>1, <2>2, <2>3 DEF Reset, OwnTypes, dbVars, Transactions
  <2>5. ArgumentsOK("done", q) BY DEF ArgumentsOK, Granting
  <2>6. "done" \in Stage /\ "done" \notin Fresh BY DEF Stage, Fresh, Granting
  <2>7. /\ db' \in [Rows -> Value] /\ session' \in [CheckoutSession -> Sessions]
        /\ older' \in [Key -> SUBSET Key] /\ SameLedger
    BY <1>2 DEF IInv, TypeOK, dbVars, SameLedger
  <2> QED BY <2>4, <2>5, <2>6, <2>7, ResetInv
<1>3. CASE \E role \in RoleCode : Enter(o, "resync", [req[o] EXCEPT !.role = role])
  <2>1. PICK role \in RoleCode : Enter(o, "resync", [req[o] EXCEPT !.role = role])
    BY <1>3
  <2> DEFINE q == [req[o] EXCEPT !.role = role]
  <2>2. q \in Requests /\ q.user = req[o].user /\ q.role = role BY <1>1 DEF Requests
  <2>3. Enter(o, "resync", q) BY <2>1
  <2> HIDE DEF q
  <2>4. ArgumentsOK("resync", q) BY <1>1, <2>2 DEF ArgumentsOK, Granting
  <2>5. "resync" \in Stage /\ "resync" \notin Fresh
    BY DEF Stage, Transactions, Fresh, Granting
  <2> QED BY <2>2, <2>3, <2>4, <2>5, EnterInv
<1> QED BY <1>2, <1>3, TargetRoleType DEF SyncRoleFromActiveSubscription

LEMMA RunInv ==
    ASSUME IInv, NEW o \in Request, Run(o)
    PROVE  IInv'
BY BaselineInv, SyncInv, StartStatementInv, ApplyStatementInv, CommitTransactionInv,
   AbortTransactionInv DEF Run

LEMMA StepInv ==
    ASSUME IInv, [Next]_vars
    PROVE  IInv'
<1>1. CASE \E o \in Request, u \in User : Call(o, u) BY <1>1, CallInv
<1>2. CASE \E o \in Request : Run(o) BY <1>2, RunInv
<1>3. CASE \E u \in User : Register(u) BY <1>3, RegisterInv
<1>4. CASE \E s \in CheckoutSession, u \in User :
               CreatePaidCheckoutSession(s, u) \/ AssignPaymentLink(s, u)
  BY <1>4, SessionsInv
<1>5. CASE UNCHANGED vars
  <2>1. /\ UNCHANGED <<pend, snap, busy, pc, req, stage, older>> /\ db' = db
        /\ session' = session
    BY <1>5 DEF vars, dbVars
  <2>2. SameLedger BY <2>1 DEF SameLedger
  <2>3. db' \in [Rows -> Value] /\ session' \in [CheckoutSession -> Sessions]
    BY <2>1 DEF IInv, TypeOK
  <2> QED BY <2>1, <2>2, <2>3, OtherTablesInv
<1> QED BY <1>1, <1>2, <1>3, <1>4, <1>5 DEF Next

LEMMA InitialValueType ==
    ASSUME NEW a, NEW r
    PROVE  InitialValue(a, r) \in Value
BY Values DEF InitialValue, Value, UserStatus

\* The account kinds have rows of their own, and no subscription of a request.
LEMMA InitInv ==
    ASSUME Init
    PROVE  IInv
<1>1. PICK account \in [User -> Accounts] : db = [r \in Rows |-> InitialValue(account[r[2]], r)]
  BY DEF Init
<1>2. db \in [Rows -> Value] BY <1>1, InitialValueType
<1>3. /\ pend = [o \in Request |-> [r \in Rows |-> NoWrite]]
      /\ snap = [o \in Request |-> {}] /\ busy = [o \in Request |-> FALSE]
      /\ pc = [o \in Request |-> 0]
      /\ req = [o \in Request |-> NoRequest] /\ stage = [o \in Request |-> "idle"]
      /\ session = [s \in CheckoutSession |-> NoSession] /\ older = [k \in Key |-> {}]
  BY <1>2 DEF Init, DbInit, NoWrites, Row
<1>4. NoRequest \in Requests BY DEF NoRequest, Requests
<1>5. NoSession \in Sessions /\ "idle" \in Stage BY DEF Sessions, Stage
<1>6. TypeOK
  <2>1. pend \in [Request -> [Rows -> Value \cup {NoWrite}]] BY <1>3
  <2> QED BY <1>2, <1>3, <1>4, <1>5, <2>1 DEF TypeOK
<1>7. LocksExclusive BY <1>2, <1>3 DEF LocksExclusive, Row
<1>8. \A u \in User, k \in Key : Sub(u, k) \in Rows /\ Ent(u, k) \in Rows
  BY RowsOfTables DEF RowsOf
<1>9. ASSUME NEW o \in Request
      PROVE  Own(o) /\ Committed(o)
  <2>1. /\ pend[o] = [r \in Rows |-> NoWrite] /\ snap[o] = {} /\ busy[o] = FALSE /\ pc[o] = 0
        /\ stage[o] = "idle" /\ \A r \in Rows : pend[o][r] = NoWrite
    BY <1>3
  <2>2. Arguments(o) BY <2>1 DEF Arguments, ArgumentsOK, Granting
  <2>3. Transactional(o) BY <2>1 DEF Transactional, Open, Transactions
  <2>4. Snapshots(o) BY <2>1 DEF Snapshots
  <2>5. WrittenByStatement(o) BY <2>1 DEF WrittenByStatement
  <2>6. CreatedLive(o) BY <2>1 DEF CreatedLive, Granting
  <2>7. GrantedAfterCreated(o) BY <1>8, <2>1 DEF GrantedAfterCreated, NoWrite
  <2>8. ASSUME NEW u \in User PROVE db[Sub(u, o)] = Absent
    <3>1. o \in Key /\ o # Signup BY RequestAssumption DEF Key
    <3>2. db[Sub(u, o)] = InitialValue(account[Sub(u, o)[2]], Sub(u, o)) BY <1>1, <1>8, <3>1
    <3>3. Sub(u, o)[1] = "sub" /\ Sub(u, o)[3] = o BY DEF Sub
    <3> QED BY <3>1, <3>2, <3>3 DEF InitialValue
  <2>9. OwnRows(o) BY <1>8, <2>1, <2>8 DEF OwnRows, NoWrite, Absent
  <2>10. RevocationAhead(o) BY <1>8, <2>1 DEF RevocationAhead, Closing
  <2> QED BY <2>2, <2>3, <2>4, <2>5, <2>6, <2>7, <2>9, <2>10 DEF Own, Committed
<1> QED BY <1>6, <1>7, <1>9 DEF IInv

----------------------------------------------------------------------------
(* The theorems.                                                             *)

\* IInv holds in every reachable state.
THEOREM Inductive == Spec => []IInv
<1>1. Init => IInv BY InitInv
<1>2. IInv /\ [Next]_vars => IInv' BY StepInv
<1> QED BY <1>1, <1>2, PTL DEF Spec

\* Every variable keeps its type: no step leaves the tables, the stages or the arguments.
THEOREM TypeCorrect == Spec => []TypeOK
<1>1. IInv => TypeOK BY DEF IInv
<1> QED BY <1>1, Inductive, PTL

\* Two transactions never hold uncommitted writes to one row: the row locks of
\* the database exclude each other however the services' statements interleave.
THEOREM LocksExclude == Spec => []LocksExclusive
<1>1. IInv => LocksExclusive BY DEF IInv
<1> QED BY <1>1, Inductive, PTL

\* Only the commit of another body than a suspension keeps entitlements on live subscriptions.
LEMMA CommitOrphansNothing ==
    ASSUME IInv, NEW o \in Request, CommitTransaction(o), stage[o] # "suspend",
           NEW u \in User, NEW k \in Key, ~Orphaned(u, k)
    PROVE  ~Orphaned(u, k)'
<1>1. Own(o) /\ Committed(o) /\ Open(o) /\ pc[o] = Len(Program(o)) + 1
  BY DEF IInv, CommitTransaction
<1>2. DOMAIN Program(o) = 1..Len(Program(o)) /\ Len(Program(o)) \in Nat
  BY <1>1, ProgramOK
<1>3. Sub(u, k) \in Rows /\ Ent(u, k) \in Rows BY RowsOfTables DEF RowsOf
<1> SUFFICES ASSUME db'[Ent(u, k)] = "ACTIVE", db'[Sub(u, k)] \notin LiveStatus
             PROVE  FALSE
  BY DEF Orphaned
<1>4. Seen(o, Ent(u, k)) = "ACTIVE" /\ Seen(o, Sub(u, k)) \notin LiveStatus
  BY <1>3, CommittedRows DEF Seen
<1>5. CASE Closing(o, u, k)
  <2>1. PICK i \in DOMAIN Program(o) : i >= pc[o]
    BY <1>1, <1>4, <1>5 DEF Committed, RevocationAhead
  <2> QED BY <1>1, <1>2, <2>1
<1>6. CASE ~Closing(o, u, k)
  <2>1. pend[o][Sub(u, k)] = NoWrite /\ db[Sub(u, k)] \notin LiveStatus
    BY <1>4, <1>6 DEF Closing, Seen
  <2>2. db[Ent(u, k)] # "ACTIVE" BY <2>1 DEF Orphaned
  <2>3. pend[o][Ent(u, k)] = "ACTIVE" BY <1>4, <2>2 DEF Seen
  <2> QED BY <2>1, <2>3, GrantIsLive DEF LiveStatus, NoWrite
<1> QED BY <1>5, <1>6

\* A step that commits nothing leaves the subscriptions and entitlements as they are.
LEMMA LedgerChangesByCommit ==
    ASSUME IInv, [Next]_vars, \A o \in Request : ~CommitTransaction(o)
    PROVE  SameLedger
<1>1. db \in [Rows -> Value] BY DEF IInv, TypeOK
<1>2. CASE db' = db BY <1>2 DEF SameLedger
<1>3. CASE \E u \in User : Register(u)
  <2>1. PICK u \in User, i \in Otp : db' = [db EXCEPT ![Code(u, i)] = "on"]
    BY <1>3 DEF Register
  <2>2. \A v, k : Code(u, i) # Sub(v, k) /\ Code(u, i) # Ent(v, k) BY RowsDiffer
  <2>3. \A r \in Rows : r # Code(u, i) => db'[r] = db[r] BY <1>1, <2>1
  <2> QED BY <2>2, <2>3, RowsOfTables DEF SameLedger, RowsOf
<1>4. CASE \E s \in CheckoutSession, u \in User : AssignPaymentLink(s, u)
  <2>1. PICK s \in CheckoutSession, u \in User : db' = [db EXCEPT ![Assign(u, s)] = "PENDING"]
    BY <1>4 DEF AssignPaymentLink
  <2>2. \A v, k : Assign(u, s) # Sub(v, k) /\ Assign(u, s) # Ent(v, k) BY RowsDiffer
  <2>3. \A r \in Rows : r # Assign(u, s) => db'[r] = db[r] BY <1>1, <2>1
  <2> QED BY <2>2, <2>3, RowsOfTables DEF SameLedger, RowsOf
<1>5. CASE \E o \in Request, u \in User : Call(o, u)
  <2>1. \A o \in Request : \A st, q : Enter(o, st, q) => db' = db
    BY DEF Enter, StartTransaction, dbVars
  <2>2. \A o \in Request : \A op, u, st, q : Arrive(o, op, u, st, q) => db' = db
    BY <2>1 DEF Arrive
  <2>3. PICK o \in Request, u \in User : Call(o, u) BY <1>5
  <2>4. CASE CreateCheckoutSession(o, u) BY <1>2, <2>2, <2>4 DEF CreateCheckoutSession
  <2>5. CASE AssignCustomSubscription(o, u) BY <1>2, <2>2, <2>5 DEF AssignCustomSubscription
  <2>6. CASE AssignPlanManually(o, u) BY <1>2, <2>2, <2>6 DEF AssignPlanManually
  <2>7. CASE CancelSubscription(o, u) BY <1>2, <2>2, <2>7 DEF CancelSubscription
  <2>8. CASE UpdateUser(o, u) BY <1>2, <2>2, <2>8 DEF UpdateUser
  <2>9. CASE UpdateUserSubscription(o, u) BY <1>2, <2>2, <2>9 DEF UpdateUserSubscription
  <2>10. CASE ToggleSuspendUser(o, u) BY <1>2, <2>2, <2>10 DEF ToggleSuspendUser
  <2>11. CASE DeleteUser(o, u) BY <1>2, <2>2, <2>11 DEF DeleteUser
  <2>12. CASE VerifyEmailOtp(o, u) BY <1>2, <2>2, <2>12 DEF VerifyEmailOtp
  <2>13. CASE Login(o, u) BY <1>2, <2>2, <2>13 DEF Login
  <2>14. CASE RefreshToken(o, u) BY <1>2, <2>2, <2>14 DEF RefreshToken
  <2>15. CASE HandleGoogleCallback(o, u) BY <1>2, <2>2, <2>15 DEF HandleGoogleCallback
  <2>16. CASE \E c \in CheckoutSession : VerifySession(o, c) BY <1>2, <2>2, <2>16 DEF VerifySession
  <2> QED
    BY <1>2, <2>3, <2>4, <2>5, <2>6, <2>7, <2>8, <2>9, <2>10, <2>11, <2>12, <2>13, <2>14, <2>15, <2>16
       DEF Call
<1>6. CASE \E o \in Request : Run(o)
  <2>1. \A o \in Request : \A st, q : Enter(o, st, q) => db' = db
    BY DEF Enter, StartTransaction, dbVars
  <2>2. PICK o \in Request : Run(o) BY <1>6
  <2>3. CASE EnsureFreePlanForUser(o) \/ AddStudentRole(o)
    BY <1>2, <2>1, <2>3 DEF EnsureFreePlanForUser, AddStudentRole
  <2>4. CASE SyncRoleFromActiveSubscription(o)
    BY <1>2, <2>1, <2>4 DEF SyncRoleFromActiveSubscription, dbVars
  <2>5. CASE StartStatement(o) BY <1>2, <2>5 DEF StartStatement, Snapshot
  <2>6. CASE ApplyStatement(o) BY <1>2, <2>6 DEF ApplyStatement, Apply
  <2>7. CASE AbortTransaction(o) BY <1>2, <2>7 DEF AbortTransaction, Abort
  <2> QED BY <2>2, <2>3, <2>4, <2>5, <2>6, <2>7 DEF Run
<1> QED BY <1>2, <1>3, <1>4, <1>5, <1>6 DEF Next, CreatePaidCheckoutSession, vars, dbVars

(* Whatever transactions of whatever requests overlap, the only commit that
   takes the live subscription from an ACTIVE entitlement is a suspension's
   (user-management.service.ts:409-443).                                     *)
THEOREM SuspensionAloneOrphans == Spec => OnlySuspensionOrphans
<1> DEFINE A == \A u \in User, k \in Key :
                  Orphaned(u, k)' => Orphaned(u, k) \/ \E o \in Request : Commits(o, "suspend")
<1>1. IInv /\ [Next]_vars => A
  <2> SUFFICES ASSUME IInv, [Next]_vars, NEW u \in User, NEW k \in Key,
                      Orphaned(u, k)', ~Orphaned(u, k)
               PROVE  \E o \in Request : Commits(o, "suspend")
    OBVIOUS
  <2>1. PICK o \in Request : CommitTransaction(o)
    BY LedgerChangesByCommit DEF SameLedger, Orphaned
  <2>2. stage[o] = "suspend" BY <2>1, CommitOrphansNothing
  <2> QED BY <2>1, <2>2 DEF Commits
<1>2. IInv /\ [Next]_vars => [A]_vars BY <1>1
<1> QED BY <1>2, Inductive, PTL DEF Spec, OnlySuspensionOrphans

----------------------------------------------------------------------------
(* One request at a time (MaxInFlight = 1).  First, which rows of subscriptions,
   assignments and roles the bodies name.                                    *)

\* The transactions that touch no subscription and not the ENTERPRISE role.
Plain(st, q) ==
    st \in {"linkAccount", "verifyCode", "addStudent"} \/ (st = "update" /\ q.plan = None)

NamesOK(st, q, o, s) ==
    /\ \A u, k : Sub(u, k) \in s.rows =>
          u = q.user /\ ~Plain(st, q) /\ st # "resync" /\ (st = "restore" => k = o)
    /\ \A u, c : c \in CheckoutSession /\ Assign(u, c) \in s.rows =>
          st = "checkout" /\ s = Write(Assign(q.user, q.session), "PAID")
    /\ \A u : Role(u, "ENTERPRISE") \in s.rows =>
          /\ u = q.user /\ ~Plain(st, q) /\ st # "restore"
          /\ \/ s.to = "off"
             \/ /\ s = Upsert(Role(u, "ENTERPRISE"), "on")
                /\ q.role = "ENTERPRISE" /\ st \in Granting \cup {"resync"}

\* Rows of the other tables, and of other keys.
LEMMA OtherTables ==
    /\ \A u, v, k, j :
        /\ Role(u, k) = Role(v, j) <=> u = v /\ k = j
        /\ Assign(u, k) = Assign(v, j) <=> u = v /\ k = j
        /\ Role(u, k) # Assign(v, j) /\ Role(u, k) # Code(v, j)
        /\ Assign(u, k) # Code(v, j)
        /\ Role(u, k) # Status(v) /\ Role(u, k) # Verified(v) /\ Role(u, k) # Provider(v)
        /\ Assign(u, k) # Status(v) /\ Assign(u, k) # Verified(v) /\ Assign(u, k) # Provider(v)
    /\ \A u, v, k :
        /\ Sub(u, k) \in Subs(v) => u = v
        /\ Role(u, k) \in Roles(v) => u = v
        /\ Sub(u, k) \notin Ents(v) /\ Sub(u, k) \notin Roles(v)
        /\ Assign(u, k) \notin Ents(v) /\ Assign(u, k) \notin Subs(v) /\ Assign(u, k) \notin Roles(v)
        /\ Role(u, k) \notin Ents(v) /\ Role(u, k) \notin Subs(v)
<1>1. \A u, v, k, j :
        /\ Role(u, k) = Role(v, j) <=> u = v /\ k = j
        /\ Assign(u, k) = Assign(v, j) <=> u = v /\ k = j
        /\ Role(u, k) # Assign(v, j) /\ Role(u, k) # Code(v, j)
        /\ Assign(u, k) # Code(v, j)
        /\ Role(u, k) # Status(v) /\ Role(u, k) # Verified(v) /\ Role(u, k) # Provider(v)
        /\ Assign(u, k) # Status(v) /\ Assign(u, k) # Verified(v) /\ Assign(u, k) # Provider(v)
  BY SMT DEF Role, Assign, Status, Verified, Provider, Code
<1>2. \A u, v, k :
        /\ Sub(u, k) \in Subs(v) => u = v
        /\ Assign(u, k) \notin Subs(v) /\ Role(u, k) \notin Subs(v)
  BY RowsDiffer DEF Subs
<1>3. \A u, v, k : Sub(u, k) \notin Ents(v) /\ Assign(u, k) \notin Ents(v) /\ Role(u, k) \notin Ents(v)
  BY RowsDiffer DEF Ents
<1>4. \A u, v, k :
        /\ Role(u, k) \in Roles(v) => u = v
        /\ Sub(u, k) \notin Roles(v) /\ Assign(u, k) \notin Roles(v)
  BY <1>1, RowsDiffer DEF Roles
<1> QED BY <1>1, <1>2, <1>3, <1>4

\* A statement on none of these rows, on subscriptions, or on roles.
LEMMA NamesAside ==
    ASSUME NEW st, NEW q, NEW o, NEW s,
           \A u, k : Sub(u, k) \notin s.rows,
           \A u, c : c \in CheckoutSession => Assign(u, c) \notin s.rows,
           \A u : Role(u, "ENTERPRISE") \notin s.rows
    PROVE  NamesOK(st, q, o, s)
BY DEF NamesOK

LEMMA NamesEnts ==
    ASSUME NEW st, NEW q, NEW o
    PROVE  /\ NamesOK(st, q, o, RevokeEntitlements(q.user))
           /\ NamesOK(st, q, o, Create(Ent(q.user, o), "ACTIVE"))
<1>1. NamesOK(st, q, o, RevokeEntitlements(q.user))
  <2> DEFINE s == RevokeEntitlements(q.user)
  <2>1. s.rows = Ents(q.user) OBVIOUS
  <2> HIDE DEF s
  <2>2. NamesOK(st, q, o, s) BY <2>1, OtherTables, NamesAside
  <2> QED BY <2>2 DEF s
<1>2. NamesOK(st, q, o, Create(Ent(q.user, o), "ACTIVE"))
  <2> DEFINE s == Create(Ent(q.user, o), "ACTIVE")
  <2>1. s.rows = {Ent(q.user, o)} OBVIOUS
  <2> HIDE DEF s
  <2>2. NamesOK(st, q, o, s) BY <2>1, RowsDiffer, NamesAside
  <2> QED BY <2>2 DEF s
<1> QED BY <1>1, <1>2

LEMMA NamesUser ==
    ASSUME NEW st, NEW q, NEW o, NEW s,
           s.rows \in {{}, {Status(q.user)}, {Verified(q.user)}, {Provider(q.user)},
                       {Code(q.user, q.code)}}
    PROVE  NamesOK(st, q, o, s)
BY RowsDiffer, OtherTables, NamesAside

LEMMA NamesSubs ==
    ASSUME NEW st, NEW q, NEW o, NEW s, s.rows \subseteq Subs(q.user),
           ~Plain(st, q), st \notin {"resync", "restore"}
    PROVE  NamesOK(st, q, o, s)
BY OtherTables DEF NamesOK

LEMMA NamesRoles ==
    ASSUME NEW st, NEW q, NEW o, NEW s, s.rows = Roles(q.user), s.to = "off",
           ~Plain(st, q), st # "restore"
    PROVE  NamesOK(st, q, o, s)
BY OtherTables DEF NamesOK

LEMMA NamesGiven ==
    ASSUME NEW st \in Granting \cup {"resync"}, NEW q, NEW o, ~Plain(st, q)
    PROVE  NamesOK(st, q, o, Upsert(Role(q.user, q.role), "on"))
<1> DEFINE s == Upsert(Role(q.user, q.role), "on")
<1>1. s.rows = {Role(q.user, q.role)} OBVIOUS
<1>2. \A u : Role(u, "ENTERPRISE") = Role(q.user, q.role) => u = q.user /\ "ENTERPRISE" = q.role
  BY OtherTables
<1>3. st # "restore" BY DEF Granting
<1>4. \A u : Role(u, "ENTERPRISE") \in s.rows =>
         u = q.user /\ q.role = "ENTERPRISE" /\ s = Upsert(Role(u, "ENTERPRISE"), "on")
  BY <1>1, <1>2
<1> HIDE DEF s
<1>5. (\A u, k : Sub(u, k) \notin s.rows) /\ (\A u, c : Assign(u, c) \notin s.rows)
  BY <1>1, RowsDiffer, OtherTables
<1>6. NamesOK(st, q, o, s)
  BY <1>3, <1>4, <1>5 DEF NamesOK
<1> QED BY <1>6 DEF s

----------------------------------------------------------------------------
(* The bodies again.                                                         *)

\* Every statement names what NamesOK allows; who touches the ENTERPRISE role deactivates it first.
NamesBody(st, q, o) ==
    LET P == Body(st, q, o) IN
    /\ \A i \in DOMAIN P : NamesOK(st, q, o, P[i])
    /\ st \notin {"suspend", "restore"} /\ ~Plain(st, q) =>
          \E i \in DOMAIN P : Deactivates(P[i], q.user)

LEMMA RolesDeactivate ==
    ASSUME NEW u
    PROVE  /\ Deactivates(DeactivateRoles(u), u)
           /\ Deactivates(UpdateMany(Roles(u), {"on", "off"}, "off"), u)
<1>1. Role(u, "ENTERPRISE") \in Roles(u) BY DEF Roles, RoleCode
<1> QED BY <1>1 DEF Deactivates

LEMMA NamesStatements ==
    ASSUME NEW st, NEW q, NEW o \in Request, ~Plain(st, q)
    PROVE  /\ st \notin {"resync", "restore"} => \A v \in Value :
                 /\ NamesOK(st, q, o, CloseSubscriptions(q.user, v))
                 /\ NamesOK(st, q, o, UpdateMany(Subs(q.user), {"ACTIVE"}, v))
                 /\ NamesOK(st, q, o, Create(Sub(q.user, o), v))
                 /\ \A k \in Key : NamesOK(st, q, o, Write(Sub(q.user, k), v))
           /\ st # "restore" =>
                 /\ NamesOK(st, q, o, DeactivateRoles(q.user))
                 /\ NamesOK(st, q, o, UpdateMany(Roles(q.user), {"on", "off"}, "off"))
<1>1. o \in Key BY DEF Key
<1>2. \A k \in Key : {Sub(q.user, k)} \subseteq Subs(q.user) BY DEF Subs
<1>3. ASSUME st \notin {"resync", "restore"}, NEW v \in Value
      PROVE  /\ NamesOK(st, q, o, CloseSubscriptions(q.user, v))
             /\ NamesOK(st, q, o, UpdateMany(Subs(q.user), {"ACTIVE"}, v))
             /\ NamesOK(st, q, o, Create(Sub(q.user, o), v))
             /\ \A k \in Key : NamesOK(st, q, o, Write(Sub(q.user, k), v))
  <2>1. \A s : s.rows = Subs(q.user) => NamesOK(st, q, o, s) BY <1>3, NamesSubs
  <2>2. \A k \in Key : \A s : s.rows = {Sub(q.user, k)} => NamesOK(st, q, o, s)
    BY <1>2, <1>3, NamesSubs
  <2>3. NamesOK(st, q, o, CloseSubscriptions(q.user, v)) BY <2>1
  <2>4. NamesOK(st, q, o, UpdateMany(Subs(q.user), {"ACTIVE"}, v)) BY <2>1
  <2>5. NamesOK(st, q, o, Create(Sub(q.user, o), v)) BY <1>1, <2>2
  <2>6. \A k \in Key : NamesOK(st, q, o, Write(Sub(q.user, k), v)) BY <2>2
  <2> QED BY <2>3, <2>4, <2>5, <2>6
<1>4. ASSUME st # "restore"
      PROVE  /\ NamesOK(st, q, o, DeactivateRoles(q.user))
             /\ NamesOK(st, q, o, UpdateMany(Roles(q.user), {"on", "off"}, "off"))
  <2>1. \A s : s.rows = Roles(q.user) /\ s.to = "off" => NamesOK(st, q, o, s) BY <1>4, NamesRoles
  <2> QED BY <2>1
<1> QED BY <1>3, <1>4

LEMMA GrantingNames ==
    ASSUME NEW st \in Granting, NEW q, NEW o \in Request, ArgumentsOK(st, q), ~Plain(st, q)
    PROVE  NamesBody(st, q, o)
<1> DEFINE u == q.user
           P == Body(st, q, o)
           N(i) == NamesOK(st, q, o, P[i])
<1>1. st \notin {"resync", "restore"} BY DEF Granting
<1>2. /\ NamesOK(st, q, o, CloseSubscriptions(u, "CANCELED"))
      /\ NamesOK(st, q, o, CloseSubscriptions(u, "EXPIRED"))
      /\ NamesOK(st, q, o, Create(Sub(u, o), "ACTIVE"))
      /\ q.status \in Value => NamesOK(st, q, o, Create(Sub(u, o), q.status))
      /\ NamesOK(st, q, o, DeactivateRoles(u))
  BY <1>1, NamesStatements, Values
<1>3. /\ NamesOK(st, q, o, RevokeEntitlements(u))
      /\ NamesOK(st, q, o, Create(Ent(u, o), "ACTIVE"))
      /\ NamesOK(st, q, o, Upsert(Role(u, q.role), "on"))
  BY NamesEnts, NamesGiven
<1>4. Deactivates(DeactivateRoles(u), u) BY RolesDeactivate
<1>5. st \in {"checkout", "assignPurchaseOrder"} => q.status \in Value
  BY Values DEF ArgumentsOK
<1>6. CASE st = "activateFree"
  <2>1. /\ DOMAIN P = 1..4
        /\ P[1] = Create(Sub(u, o), "ACTIVE") /\ P[2] = Create(Ent(u, o), "ACTIVE")
        /\ P[3] = DeactivateRoles(u) /\ P[4] = Upsert(Role(u, q.role), "on")
    BY <1>6 DEF ActivateFree, Body
  <2> HIDE DEF P
  <2>2. N(1) /\ N(2) /\ N(3) /\ N(4) BY <1>2, <1>3, <2>1
  <2>3. 3 \in DOMAIN P /\ Deactivates(P[3], u) BY <1>4, <2>1
  <2>4. \A i \in DOMAIN P : N(i)
    <3>1. DOMAIN P = 1..4 BY <2>1
    <3> QED BY <3>1, <2>2
  <2> QED BY <2>3, <2>4 DEF NamesBody, P
<1>7. CASE st = "checkout"
  <2>1. /\ DOMAIN P = 1..5
        /\ P[1] = Create(Sub(u, o), q.status) /\ P[2] = Write(Assign(u, q.session), "PAID")
        /\ P[3] = Create(Ent(u, o), "ACTIVE")
        /\ P[4] = DeactivateRoles(u) /\ P[5] = Upsert(Role(u, q.role), "on")
    BY <1>7 DEF Checkout, Body
  <2> HIDE DEF P
  <2>2. N(1) /\ N(3) /\ N(4) /\ N(5) BY <1>2, <1>3, <1>5, <1>7, <2>1
  <2>3. N(2)
    <3>1. P[2].rows = {Assign(u, q.session)} BY <2>1
    <3>2. /\ \A v, k : Sub(v, k) \notin P[2].rows
          /\ \A v : Role(v, "ENTERPRISE") \notin P[2].rows
      BY <3>1, RowsDiffer, OtherTables
    <3> QED BY <1>7, <2>1, <3>2 DEF NamesOK
  <2>4. 4 \in DOMAIN P /\ Deactivates(P[4], u) BY <1>4, <2>1
  <2>5. \A i \in DOMAIN P : N(i)
    <3>1. DOMAIN P = 1..5 BY <2>1
    <3> QED BY <3>1, <2>2, <2>3
  <2> QED BY <2>4, <2>5 DEF NamesBody, P
<1>8. CASE st = "assignManually"
  <2>1. /\ DOMAIN P = 1..6
        /\ P[1] = CloseSubscriptions(u, "CANCELED") /\ P[2] = RevokeEntitlements(u)
        /\ P[3] = Create(Sub(u, o), "ACTIVE") /\ P[4] = Create(Ent(u, o), "ACTIVE")
        /\ P[5] = DeactivateRoles(u) /\ P[6] = Upsert(Role(u, q.role), "on")
    BY <1>8 DEF AssignManually, Body
  <2> HIDE DEF P
  <2>2. N(1) /\ N(2) /\ N(3) /\ N(4) /\ N(5) /\ N(6) BY <1>2, <1>3, <2>1
  <2>3. 5 \in DOMAIN P /\ Deactivates(P[5], u) BY <1>4, <2>1
  <2>4. \A i \in DOMAIN P : N(i)
    <3>1. DOMAIN P = 1..6 BY <2>1
    <3> QED BY <3>1, <2>2
  <2> QED BY <2>3, <2>4 DEF NamesBody, P
<1>9. CASE st = "assignPurchaseOrder"
  <2>1. /\ DOMAIN P = 1..7
        /\ P[1] = CloseSubscriptions(u, "CANCELED") /\ P[2] = RevokeEntitlements(u)
        /\ P[3] = Create(Sub(u, o), q.status) /\ P[4] = Create(Assign(u, o), "PAID")
        /\ P[5] = Create(Ent(u, o), "ACTIVE")
        /\ P[6] = DeactivateRoles(u) /\ P[7] = Upsert(Role(u, q.role), "on")
    BY <1>9 DEF AssignPurchaseOrder, Body
  <2> HIDE DEF P
  <2>2. N(1) /\ N(2) /\ N(3) /\ N(5) /\ N(6) /\ N(7) BY <1>2, <1>3, <1>5, <1>9, <2>1
  <2>3. N(4)
    <3>1. P[4].rows = {Assign(u, o)} /\ o \notin CheckoutSession BY <2>1, RequestAssumption
    <3> QED BY <3>1, RowsDiffer, OtherTables, NamesAside
  <2>4. 6 \in DOMAIN P /\ Deactivates(P[6], u) BY <1>4, <2>1
  <2>5. \A i \in DOMAIN P : N(i)
    <3>1. DOMAIN P = 1..7 BY <2>1
    <3> QED BY <3>1, <2>2, <2>3
  <2> QED BY <2>4, <2>5 DEF NamesBody, P
<1>10. CASE st = "updateSubscription"
  <2>1. /\ DOMAIN P = 1..6
        /\ P[1].rows = (IF q.target = None THEN {} ELSE {Sub(u, q.target)})
        /\ P[2] = Create(Sub(u, o), "ACTIVE") /\ P[3] = RevokeEntitlements(u)
        /\ P[4] = Create(Ent(u, o), "ACTIVE")
        /\ P[5] = DeactivateRoles(u) /\ P[6] = Upsert(Role(u, q.role), "on")
    BY <1>10 DEF UpdateSubscription, Body
  <2> HIDE DEF P
  <2>2. N(2) /\ N(3) /\ N(4) /\ N(5) /\ N(6) BY <1>2, <1>3, <2>1
  <2>3. N(1)
    <3>1. q.target \in Key \cup {None} BY <1>10 DEF ArgumentsOK
    <3>2. P[1].rows \subseteq Subs(u) BY <2>1, <3>1 DEF Subs
    <3> QED BY <1>1, <3>2, NamesSubs
  <2>4. 5 \in DOMAIN P /\ Deactivates(P[5], u) BY <1>4, <2>1
  <2>5. \A i \in DOMAIN P : N(i)
    <3>1. DOMAIN P = 1..6 BY <2>1
    <3> QED BY <3>1, <2>2, <2>3
  <2> QED BY <2>4, <2>5 DEF NamesBody, P
<1>11. CASE st = "update"
  <2>1. q.plan # None BY <1>11 DEF Plain
  <2>2. /\ DOMAIN P = 1..7
        /\ P[1] = CloseSubscriptions(u, "EXPIRED") /\ P[2] = Create(Sub(u, o), "ACTIVE")
        /\ P[3] = RevokeEntitlements(u) /\ P[4] = Create(Ent(u, o), "ACTIVE")
        /\ P[5] = DeactivateRoles(u) /\ P[6] = Upsert(Role(u, q.role), "on")
        /\ P[7] = WriteStatus(q)
    BY <1>11, <2>1 DEF Update, Body
  <2> HIDE DEF P
  <2>3. N(1) /\ N(2) /\ N(3) /\ N(4) /\ N(5) /\ N(6) BY <1>2, <1>3, <2>2
  <2>4. N(7)
    <3>1. WriteStatus(q).rows \in {{}, {Status(u)}} BY DEF WriteStatus
    <3> QED BY <2>2, <3>1, NamesUser
  <2>5. 5 \in DOMAIN P /\ Deactivates(P[5], u) BY <1>4, <2>2
  <2>6. \A i \in DOMAIN P : N(i)
    <3>1. DOMAIN P = 1..7 BY <2>2
    <3> QED BY <3>1, <2>3, <2>4
  <2> QED BY <2>5, <2>6 DEF NamesBody, P
<1> QED BY <1>6, <1>7, <1>8, <1>9, <1>10, <1>11 DEF Granting

LEMMA OtherNames ==
    ASSUME NEW st \in Transactions, NEW q, NEW o \in Request, st \notin Granting \/ Plain(st, q),
           ArgumentsOK(st, q)
    PROVE  NamesBody(st, q, o)
<1> DEFINE u == q.user
           P == Body(st, q, o)
           N(i) == NamesOK(st, q, o, P[i])
<1>1. \A s : s.rows \in {{}, {Status(u)}, {Verified(u)}, {Provider(u)}, {Code(u, q.code)}} =>
         NamesOK(st, q, o, s)
  BY NamesUser
<1>2. NamesOK(st, q, o, RevokeEntitlements(u)) BY NamesEnts
<1>3. CASE st = "linkAccount"
  <2>1. /\ DOMAIN P = 1..3 /\ P[1].rows = {Status(u)} /\ P[2].rows = {Verified(u)}
        /\ P[3].rows = {Provider(u)}
    BY <1>3 DEF LinkAccount, Body
  <2> HIDE DEF P
  <2>2. N(1) /\ N(2) /\ N(3) BY <1>1, <2>1
  <2>3. DOMAIN P = 1..3 BY <2>1
  <2>4. \A i \in DOMAIN P : N(i) BY <2>2, <2>3
  <2> QED BY <1>3, <2>4 DEF NamesBody, P, Plain
<1>4. CASE st = "verifyCode"
  <2>1. /\ DOMAIN P = 1..3 /\ P[1].rows = {Code(u, q.code)} /\ P[2].rows = {Status(u)}
        /\ P[3].rows = {Verified(u)}
    BY <1>4 DEF VerifyCode, Body
  <2> HIDE DEF P
  <2>2. N(1) /\ N(2) /\ N(3) BY <1>1, <2>1
  <2>3. DOMAIN P = 1..3 BY <2>1
  <2>4. \A i \in DOMAIN P : N(i) BY <2>2, <2>3
  <2> QED BY <1>4, <2>4 DEF NamesBody, P, Plain
<1>5. CASE st = "addStudent"
  <2>1. DOMAIN P = 1..1 /\ P[1].rows = {Role(u, "STUDENT")}
    BY <1>5 DEF AddStudent, Body
  <2> HIDE DEF P
  <2>2. N(1) BY <2>1, RowsDiffer, OtherTables, NamesAside
  <2>3. DOMAIN P = 1..1 BY <2>1
  <2>4. \A i \in DOMAIN P : N(i) BY <2>2, <2>3
  <2> QED BY <1>5, <2>4 DEF NamesBody, P, Plain
<1>6. CASE st = "update"
  <2>1. q.plan = None BY <1>6 DEF Granting, Plain
  <2>2. DOMAIN P = 1..1 /\ P[1].rows \in {{}, {Status(u)}}
    BY <1>6, <2>1 DEF Update, WriteStatus, Body
  <2> HIDE DEF P
  <2>3. N(1) BY <1>1, <2>2
  <2>4. DOMAIN P = 1..1 BY <2>2
  <2>5. \A i \in DOMAIN P : N(i) BY <2>3, <2>4
  <2> QED BY <1>6, <2>1, <2>5 DEF NamesBody, P, Plain
<1>7. CASE st = "resync"
  <2>1. DOMAIN P = 1..2 /\ P[1] = DeactivateRoles(u) /\ P[2] = Upsert(Role(u, q.role), "on")
    BY <1>7 DEF Resync, Body
  <2> HIDE DEF P
  <2>2. ~Plain(st, q) BY <1>7 DEF Plain
  <2>3. N(1) /\ N(2) BY <1>7, <2>1, <2>2, NamesStatements, NamesGiven
  <2>4. DOMAIN P = 1..2 BY <2>1
  <2>5. \A i \in DOMAIN P : N(i) BY <2>3, <2>4
  <2>6. 1 \in DOMAIN P /\ Deactivates(P[1], u)
    <3>1. Deactivates(DeactivateRoles(u), u) BY RolesDeactivate
    <3>2. P[1] = DeactivateRoles(u) /\ 1 \in DOMAIN P BY <2>1
    <3> QED BY <3>1, <3>2
  <2> QED BY <2>5, <2>6 DEF NamesBody, P
<1>8. CASE st = "cancel"
  <2>1. /\ DOMAIN P = 1..3 /\ P[1] = Write(Sub(u, q.target), "CANCELED")
        /\ P[2] = RevokeEntitlements(u) /\ P[3] = DeactivateRoles(u)
    BY <1>8 DEF Cancel, Body
  <2> HIDE DEF P
  <2>2. ~Plain(st, q) /\ q.target \in Key BY <1>8 DEF Plain, ArgumentsOK
  <2>3. N(1)
    <3>1. NamesOK(st, q, o, Write(Sub(u, q.target), "CANCELED"))
      BY <1>8, <2>2, NamesStatements, Values
    <3>2. P[1] = Write(Sub(u, q.target), "CANCELED") BY <2>1
    <3> QED BY <3>1, <3>2
  <2>4. N(2) /\ N(3) BY <1>2, <1>8, <2>1, <2>2, NamesStatements
  <2>5. DOMAIN P = 1..3 BY <2>1
  <2>6. \A i \in DOMAIN P : N(i) BY <2>3, <2>4, <2>5
  <2>7. 3 \in DOMAIN P /\ Deactivates(P[3], u)
    <3>1. Deactivates(DeactivateRoles(u), u) BY RolesDeactivate
    <3>2. P[3] = DeactivateRoles(u) /\ 3 \in DOMAIN P BY <2>1
    <3> QED BY <3>1, <3>2
  <2> QED BY <2>6, <2>7 DEF NamesBody, P
<1>9. CASE st = "suspend"
  <2>1. /\ DOMAIN P = 1..2 /\ P[1].rows = {Status(u)}
        /\ P[2] = UpdateMany(Subs(u), {"ACTIVE"}, "CANCELED")
    BY <1>9 DEF Suspend, Body
  <2> HIDE DEF P
  <2>2. ~Plain(st, q) BY <1>9 DEF Plain
  <2>3. N(1) /\ N(2)
    <3>1. NamesOK(st, q, o, UpdateMany(Subs(u), {"ACTIVE"}, "CANCELED"))
      BY <1>9, <2>2, NamesStatements, Values
    <3>2. P[2] = UpdateMany(Subs(u), {"ACTIVE"}, "CANCELED") BY <2>1
    <3> QED BY <1>1, <2>1, <3>1, <3>2
  <2>4. DOMAIN P = 1..2 BY <2>1
  <2>5. \A i \in DOMAIN P : N(i) BY <2>3, <2>4
  <2> QED BY <1>9, <2>5 DEF NamesBody, P
<1>10. CASE st = "restore"
  <2>1. DOMAIN P = 1..2 /\ P[1].rows = {Status(u)} /\ P[2].rows = {Sub(u, o)}
    BY <1>10 DEF Restore, Body
  <2> HIDE DEF P
  <2>2. ~Plain(st, q) BY <1>10 DEF Plain
  <2>3. N(1) BY <1>1, <2>1
  <2>4. N(2)
    <3>1. /\ \A v, k : Sub(v, k) \in P[2].rows => v = u /\ k = o
          /\ \A v, k : Assign(v, k) \notin P[2].rows /\ Role(v, k) \notin P[2].rows
      BY <2>1, RowsDiffer
    <3> QED BY <1>10, <2>2, <3>1 DEF NamesOK
  <2>5. DOMAIN P = 1..2 BY <2>1
  <2>6. \A i \in DOMAIN P : N(i) BY <2>3, <2>4, <2>5
  <2> QED BY <1>10, <2>6 DEF NamesBody, P
<1>11. CASE st = "delete"
  <2>1. /\ DOMAIN P = 1..4 /\ P[1].rows = {Status(u)}
        /\ P[2] = UpdateMany(Roles(u), {"on", "off"}, "off")
        /\ P[3] = CloseSubscriptions(u, "CANCELED") /\ P[4] = RevokeEntitlements(u)
    BY <1>11 DEF Delete, Body
  <2> HIDE DEF P
  <2>2. ~Plain(st, q) BY <1>11 DEF Plain
  <2>3. N(1) BY <1>1, <2>1
  <2>4. N(2)
    <3>1. NamesOK(st, q, o, UpdateMany(Roles(u), {"on", "off"}, "off"))
      BY <1>11, <2>2, NamesStatements
    <3>2. P[2] = UpdateMany(Roles(u), {"on", "off"}, "off") BY <2>1
    <3> QED BY <3>1, <3>2
  <2>5. N(3)
    <3>1. NamesOK(st, q, o, CloseSubscriptions(u, "CANCELED"))
      BY <1>11, <2>2, NamesStatements, Values
    <3>2. P[3] = CloseSubscriptions(u, "CANCELED") BY <2>1
    <3> QED BY <3>1, <3>2
  <2>6. N(4) BY <1>2, <2>1
  <2>7. DOMAIN P = 1..4 BY <2>1
  <2>8. \A i \in DOMAIN P : N(i) BY <2>3, <2>4, <2>5, <2>6, <2>7
  <2>9. 2 \in DOMAIN P /\ Deactivates(P[2], u)
    <3>1. Deactivates(UpdateMany(Roles(u), {"on", "off"}, "off"), u) BY RolesDeactivate
    <3>2. P[2] = UpdateMany(Roles(u), {"on", "off"}, "off") /\ 2 \in DOMAIN P BY <2>1
    <3> QED BY <3>1, <3>2
  <2> QED BY <2>8, <2>9 DEF NamesBody, P
<1> QED
  BY <1>3, <1>4, <1>5, <1>6, <1>7, <1>8, <1>9, <1>10, <1>11
     DEF Granting, Transactions, Plain

\* Of an open transaction: what its statements name, and what it has written.
LEMMA Names ==
    ASSUME NEW o \in Request, Own(o), Open(o)
    PROVE  /\ NamesBody(stage[o], req[o], o)
           /\ \A r \in Rows : pend[o][r] # NoWrite =>
                 \E i \in DOMAIN Program(o) :
                    r \in Program(o)[i].rows /\ NamesOK(stage[o], req[o], o, Program(o)[i])
<1>1. stage[o] \in Transactions /\ ArgumentsOK(stage[o], req[o])
  BY DEF Own, Transactional, Arguments
<1>2. NamesBody(stage[o], req[o], o) BY <1>1, GrantingNames, OtherNames
<1> QED BY <1>2 DEF NamesBody, Program, Own, WrittenByStatement

----------------------------------------------------------------------------
(* What a call starts with.                                                  *)

\* The stage and the arguments of a request that has just arrived.
Asked(st, q) ==
    /\ st \notin {"idle", "done", "resync"}
    /\ st # "checkout" => q.session = None
    /\ st = "checkout" =>
          /\ q.session \in CheckoutSession /\ session[q.session] # NoSession
          /\ session[q.session].user = q.user /\ FulfilledBy(q.session) = {}
    /\ st \in Granting /\ ~Plain(st, q) => q.role = TargetRole(q.plan)

Arrived(o, u) ==
    /\ stage[o] = "idle" /\ Cardinality(InFlight) < MaxInFlight
    /\ \E st, q : Enter(o, st, q) /\ q.user = u /\ Asked(st, q)

LEMMA ArriveAsks ==
    ASSUME NEW o, NEW op, NEW u, NEW st, NEW q, Arrive(o, op, u, st, q),
           [q EXCEPT !.op = op, !.user = u].user = u, Asked(st, [q EXCEPT !.op = op, !.user = u])
    PROVE  Arrived(o, u)
BY DEF Arrive, Arrived

LEMMA Calls ==
    ASSUME NEW o \in Request, NEW u \in User, Call(o, u)
    PROVE  Arrived(o, u)
<1>1. CASE CreateCheckoutSession(o, u)
  <2>1. PICK p \in FreePlan :
           Arrive(o, "createCheckoutSession", u, "activateFree",
                  [NoRequest EXCEPT !.plan = p, !.role = TargetRole(p)])
    BY <1>1 DEF CreateCheckoutSession
  <2> DEFINE q == [[NoRequest EXCEPT !.plan = p, !.role = TargetRole(p)]
                     EXCEPT !.op = "createCheckoutSession", !.user = u]
  <2>2. q.user = u /\ q.session = None BY DEF NoRequest
  <2>3. q.plan = p /\ q.role = TargetRole(p) BY DEF NoRequest
  <2>4. Asked("activateFree", q)
    <3> HIDE DEF q
    <3> QED BY <2>2, <2>3 DEF Asked
  <2> QED BY <2>1, <2>2, <2>4, ArriveAsks
<1>2. CASE AssignCustomSubscription(o, u)
  <2>1. PICK p \in Plan, status \in LiveStatus :
           Arrive(o, "assignCustomSubscription", u, "assignPurchaseOrder",
                  [NoRequest EXCEPT !.plan = p, !.role = TargetRole(p), !.status = status])
    BY <1>2 DEF AssignCustomSubscription
  <2> DEFINE q == [[NoRequest EXCEPT !.plan = p, !.role = TargetRole(p), !.status = status]
                     EXCEPT !.op = "assignCustomSubscription", !.user = u]
  <2>2. q.user = u /\ q.session = None BY DEF NoRequest
  <2>3. q.plan = p /\ q.role = TargetRole(p) BY DEF NoRequest
  <2>4. Asked("assignPurchaseOrder", q)
    <3> HIDE DEF q
    <3> QED BY <2>2, <2>3 DEF Asked
  <2> QED BY <2>1, <2>2, <2>4, ArriveAsks
<1>3. CASE AssignPlanManually(o, u)
  <2>1. PICK p \in Plan :
           Arrive(o, "assignPlanManually", u, "assignManually",
                  [NoRequest EXCEPT !.plan = p, !.role = TargetRole(p)])
    BY <1>3 DEF AssignPlanManually
  <2> DEFINE q == [[NoRequest EXCEPT !.plan = p, !.role = TargetRole(p)]
                     EXCEPT !.op = "assignPlanManually", !.user = u]
  <2>2. q.user = u /\ q.session = None BY DEF NoRequest
  <2>3. q.plan = p /\ q.role = TargetRole(p) BY DEF NoRequest
  <2>4. Asked("assignManually", q)
    <3> HIDE DEF q
    <3> QED BY <2>2, <2>3 DEF Asked
  <2> QED BY <2>1, <2>2, <2>4, ArriveAsks
<1>4. CASE CancelSubscription(o, u)
  <2>1. PICK k \in Key :
           Arrive(o, "cancelSubscription", u, "cancel",
                  [NoRequest EXCEPT !.target = k])
    BY <1>4 DEF CancelSubscription
  <2> DEFINE q == [[NoRequest EXCEPT !.target = k]
                     EXCEPT !.op = "cancelSubscription", !.user = u]
  <2>2. q.user = u /\ q.session = None BY DEF NoRequest
  <2>3. Asked("cancel", q)
    <3> HIDE DEF q
    <3> QED BY <2>2 DEF Asked, Granting
  <2> QED BY <2>1, <2>2, <2>3, ArriveAsks
<1>5. CASE UpdateUser(o, u)
  <2>1. PICK p \in Plan \cup {None}, status \in AdminStatus \cup {None} :
           Arrive(o, "update", u, "update",
                  [NoRequest EXCEPT !.plan = p, !.status = status,
                                    !.role = IF p = None THEN None ELSE TargetRole(p)])
    BY <1>5 DEF UpdateUser
  <2> DEFINE q == [[NoRequest EXCEPT !.plan = p, !.status = status,
                                     !.role = IF p = None THEN None ELSE TargetRole(p)]
                     EXCEPT !.op = "update", !.user = u]
  <2>2. q.user = u /\ q.session = None BY DEF NoRequest
  <2>3. q.plan = p /\ (p # None => q.role = TargetRole(p)) BY DEF NoRequest
  <2>4. Asked("update", q)
    <3> HIDE DEF q
    <3> QED BY <2>2, <2>3 DEF Asked, Plain
  <2> QED BY <2>1, <2>2, <2>4, ArriveAsks
<1>6. CASE UpdateUserSubscription(o, u)
  <2>1. PICK p \in Plan, k \in IF ActiveSubs(u) = {} THEN {None} ELSE Newest(u) :
           Arrive(o, "updateUserSubscription", u, "updateSubscription",
                  [NoRequest EXCEPT !.plan = p, !.role = TargetRole(p), !.target = k])
    BY <1>6 DEF UpdateUserSubscription
  <2> DEFINE q == [[NoRequest EXCEPT !.plan = p, !.role = TargetRole(p), !.target = k]
                     EXCEPT !.op = "updateUserSubscription", !.user = u]
  <2>2. q.user = u /\ q.session = None BY DEF NoRequest
  <2>3. q.plan = p /\ q.role = TargetRole(p) BY DEF NoRequest
  <2>4. Asked("updateSubscription", q)
    <3> HIDE DEF q
    <3> QED BY <2>2, <2>3 DEF Asked
  <2> QED BY <2>1, <2>2, <2>4, ArriveAsks
<1>7. CASE VerifyEmailOtp(o, u)
  <2>1. PICK i \in Otp :
           Arrive(o, "verifyEmailOtp", u, "verifyCode",
                  [NoRequest EXCEPT !.code = i, !.baseline = (ActiveRoles(u) = {})])
    BY <1>7 DEF VerifyEmailOtp
  <2> DEFINE q == [[NoRequest EXCEPT !.code = i, !.baseline = (ActiveRoles(u) = {})]
                     EXCEPT !.op = "verifyEmailOtp", !.user = u]
  <2>2. q.user = u /\ q.session = None BY DEF NoRequest
  <2>3. Asked("verifyCode", q)
    <3> HIDE DEF q
    <3> QED BY <2>2 DEF Asked, Granting
  <2> QED BY <2>1, <2>2, <2>3, ArriveAsks
<1>8. CASE \E s \in CheckoutSession : session[s].user = u /\ VerifySession(o, s)
  <2>1. PICK s \in CheckoutSession : session[s].user = u /\ VerifySession(o, s) BY <1>8
  <2> DEFINE p == session[s].plan
             q == [[NoRequest EXCEPT !.plan = p, !.role = TargetRole(p), !.session = s,
                                     !.status = session[s].status]
                     EXCEPT !.op = "verifySession", !.user = u]
  <2>2. /\ session[s] # NoSession /\ FulfilledBy(s) = {}
        /\ Arrive(o, "verifySession", u, "checkout",
                  [NoRequest EXCEPT !.plan = p, !.role = TargetRole(p), !.session = s,
                                    !.status = session[s].status])
    BY <2>1 DEF VerifySession
  <2>3. q.user = u /\ q.session = s /\ q.plan = p /\ q.role = TargetRole(p) BY DEF NoRequest
  <2>4. Asked("checkout", q)
    <3> HIDE DEF q
    <3> QED BY <2>1, <2>2, <2>3 DEF Asked
  <2> QED BY <2>2, <2>3, <2>4, ArriveAsks
<1>9. ASSUME NEW op, NEW st \in {"suspend", "delete", "ensure", "sync"}, Arrive(o, op, u, st, NoRequest)
      PROVE  Arrived(o, u)
  <2> DEFINE q == [NoRequest EXCEPT !.op = op, !.user = u]
  <2>1. q.user = u /\ q.session = None BY DEF NoRequest
  <2>2. Asked(st, q)
    <3> HIDE DEF q
    <3> QED BY <2>1 DEF Asked, Granting
  <2> QED BY <1>9, <2>1, <2>2, ArriveAsks
<1>10. CASE ToggleSuspendUser(o, u)
  <2>1. CASE Arrive(o, "toggleSuspendUser", u, "suspend", NoRequest) BY <1>9, <2>1
  <2>2. CASE \E p \in FreePlan :
                Arrive(o, "toggleSuspendUser", u, "restore", [NoRequest EXCEPT !.plan = p])
    <3>1. PICK p \in FreePlan :
             Arrive(o, "toggleSuspendUser", u, "restore", [NoRequest EXCEPT !.plan = p])
      BY <2>2
    <3> DEFINE q == [[NoRequest EXCEPT !.plan = p] EXCEPT !.op = "toggleSuspendUser", !.user = u]
    <3>2. q.user = u /\ q.session = None BY DEF NoRequest
    <3>3. Asked("restore", q)
      <4> HIDE DEF q
      <4> QED BY <3>2 DEF Asked, Granting
    <3> QED BY <3>1, <3>2, <3>3, ArriveAsks
  <2> QED BY <1>10, <2>1, <2>2 DEF ToggleSuspendUser
<1>11. CASE DeleteUser(o, u) \/ Login(o, u) \/ RefreshToken(o, u)
  BY <1>9, <1>11 DEF DeleteUser, Login, RefreshToken
<1>12. CASE HandleGoogleCallback(o, u)
  <2> DEFINE status == IF db[Status(u)] = "PENDING_VERIFICATION" THEN "ACTIVE" ELSE db[Status(u)]
             q == [[NoRequest EXCEPT !.status = status, !.baseline = MayEnter(status)]
                     EXCEPT !.op = "handleGoogleCallback", !.user = u]
  <2>1. \/ Arrive(o, "handleGoogleCallback", u, "linkAccount",
                  [NoRequest EXCEPT !.status = status, !.baseline = MayEnter(status)])
        \/ Arrive(o, "handleGoogleCallback", u, "ensure", NoRequest)
    BY <1>12 DEF HandleGoogleCallback
  <2> HIDE DEF status
  <2>2. q.user = u /\ q.session = None BY DEF NoRequest
  <2>3. Asked("linkAccount", q)
    <3> HIDE DEF q
    <3> QED BY <2>2 DEF Asked, Granting
  <2> QED BY <1>9, <2>1, <2>2, <2>3, ArriveAsks
<1> QED BY <1>1, <1>2, <1>3, <1>4, <1>5, <1>6, <1>7, <1>8, <1>10, <1>11, <1>12 DEF Call

----------------------------------------------------------------------------
(* One request at a time.                                                    *)

\* The step is o's, or nobody's.
Mover(o) == \A x \in Request \ {o} : Kept(x)

LEMMA EnterStep ==
    ASSUME IInv, NEW o \in Request, NEW st, NEW q, Enter(o, st, q)
    PROVE  /\ Mover(o) /\ db' = db /\ session' = session /\ pend' = pend /\ snap' = snap /\ busy' = busy
           /\ stage[o] \notin Transactions /\ stage'[o] = st /\ req'[o] = q
           /\ pend[o] = [r \in Rows |-> NoWrite] /\ busy[o] = FALSE
           /\ pc'[o] = IF st \in Transactions THEN 1 ELSE 0
<1>1. OwnTypes BY DEF IInv, TypeOK, OwnTypes
<1>2. stage[o] \notin Transactions /\ Own(o) BY DEF Enter, IInv
<1>3. pc[o] = 0 /\ pend[o] = [r \in Rows |-> NoWrite] /\ busy[o] = FALSE
  BY <1>1, <1>2 DEF Own, Transactional, Open, OwnTypes
<1>4. /\ pend' = pend /\ snap' = snap /\ busy' = busy /\ db' = db /\ session' = session
      /\ pc' = [pc EXCEPT ![o] = IF st \in Transactions THEN 1 ELSE 0]
      /\ stage' = [stage EXCEPT ![o] = st] /\ req' = [req EXCEPT ![o] = q]
  <2>1. CASE st \in Transactions BY <2>1 DEF Enter, StartTransaction
  <2>2. CASE st \notin Transactions BY <2>2, <1>1, <1>3 DEF Enter, dbVars, OwnTypes
  <2> QED BY <2>1, <2>2
<1>5. Mover(o) BY <1>1, <1>4 DEF Mover, Kept, OwnTypes
<1> QED BY <1>1, <1>2, <1>3, <1>4, <1>5 DEF OwnTypes

LEMMA ProceedStep ==
    ASSUME IInv, NEW o \in Request, NEW st, NEW hasRow, Proceed(o, st, hasRow)
    PROVE  /\ stage'[o] = st
           /\ st # "done" => req'[o] = req[o]
           /\ st = "done" /\ hasRow => req'[o].user = req[o].user /\ req'[o].plan = req[o].plan
                                       /\ req'[o].session = req[o].session
           /\ st = "done" /\ ~hasRow => req'[o].session = None
           /\ \A x \in Request \ {o} : stage'[x] = stage[x] /\ req'[x] = req[x]
<1> DEFINE q == [NoRequest EXCEPT !.user = req[o].user, !.plan = req[o].plan,
                                  !.session = req[o].session]
<1>1. /\ q.user = req[o].user /\ q.plan = req[o].plan /\ q.session = req[o].session
      /\ NoRequest.session = None
  BY DEF NoRequest
<1>2. /\ stage' = [stage EXCEPT ![o] = st]
      /\ req' = [req EXCEPT ![o] = IF st # "done" THEN req[o] ELSE IF hasRow THEN q ELSE NoRequest]
  BY DEF Proceed
<1> HIDE DEF q
<1>3. stage'[o] = st /\ \A x \in Request \ {o} : stage'[x] = stage[x] /\ req'[x] = req[x]
  BY <1>2 DEF IInv, TypeOK
<1>4. req'[o] = IF st # "done" THEN req[o] ELSE IF hasRow THEN q ELSE NoRequest
  BY <1>2 DEF IInv, TypeOK
<1> QED BY <1>1, <1>3, <1>4

\* The end of a transaction.
LEMMA EndStep ==
    ASSUME IInv, NEW o \in Request, CommitTransaction(o) \/ AbortTransaction(o)
    PROVE  /\ Mover(o) /\ session' = session /\ Open(o) /\ stage[o] \in Transactions
           /\ stage'[o] \notin Transactions
           /\ stage[o] = "checkout" => stage'[o] = "done"
           /\ ~Open(o)'
<1>1. OwnTypes /\ Own(o) BY DEF IInv, TypeOK, OwnTypes
<1>2. /\ Open(o) /\ Finish(o) /\ session' = session
      /\ \E st \in {"ensure", "student", "sync", "done"}, hasRow \in BOOLEAN :
            Proceed(o, st, hasRow) /\ (stage[o] = "checkout" => st = "done")
  <2>1. CASE CommitTransaction(o)
    <3>1. /\ AfterCommit(req[o], stage[o]) \in {"ensure", "student", "sync", "done"}
          /\ stage[o] = "checkout" => AfterCommit(req[o], stage[o]) = "done"
      BY DEF AfterCommit, AfterBaseline
    <3> QED BY <2>1, <3>1 DEF CommitTransaction, Commit
  <2>2. CASE AbortTransaction(o)
    <3>1. /\ AfterAbort(req[o], stage[o]) \in {"ensure", "student", "sync", "done"}
          /\ stage[o] = "checkout" => AfterAbort(req[o], stage[o]) = "done"
      BY DEF AfterAbort, AfterBaseline
    <3> QED BY <2>2, <3>1 DEF AbortTransaction, Abort, Created
  <2> QED BY <2>1, <2>2
<1>3. PICK st \in {"ensure", "student", "sync", "done"}, hasRow \in BOOLEAN :
            Proceed(o, st, hasRow) /\ (stage[o] = "checkout" => st = "done")
  BY <1>2
<1>4. stage'[o] = st /\ \A x \in Request \ {o} : stage'[x] = stage[x] /\ req'[x] = req[x]
  BY <1>3, ProceedStep
<1>5. Mover(o) BY <1>1, <1>2, <1>4 DEF Mover, Kept, Finish, OwnTypes
<1>6. stage[o] \in Transactions BY <1>1, <1>2 DEF Own, Transactional
<1>7. pc'[o] = 0 BY <1>1, <1>2 DEF Finish, OwnTypes
<1>8. st \notin Transactions BY <1>3 DEF Transactions
<1> QED BY <1>2, <1>3, <1>4, <1>5, <1>6, <1>7, <1>8 DEF Open

LEMMA StatementStep ==
    ASSUME IInv, NEW o \in Request, StartStatement(o) \/ ApplyStatement(o)
    PROVE  /\ Mover(o) /\ db' = db /\ session' = session /\ req' = req /\ stage' = stage
           /\ Open(o) /\ stage[o] \in Transactions
<1>1. OwnTypes /\ Own(o) BY DEF IInv, TypeOK, OwnTypes
<1>2. Open(o) /\ db' = db /\ session' = session /\ req' = req /\ stage' = stage
  BY DEF StartStatement, ApplyStatement, Snapshot, Apply
<1>3. Mover(o)
  BY <1>1 DEF StartStatement, ApplyStatement, Snapshot, Apply, Mover, Kept, OwnTypes
<1>4. stage[o] \in Transactions BY <1>1, <1>2 DEF Own, Transactional
<1> QED BY <1>2, <1>3, <1>4

\* Between transactions: the next one, or the end.
LEMMA BetweenStep ==
    ASSUME IInv, NEW o \in Request,
           EnsureFreePlanForUser(o) \/ AddStudentRole(o) \/ SyncRoleFromActiveSubscription(o)
    PROVE  /\ stage[o] \in {"ensure", "student", "sync"} /\ Mover(o) /\ db' = db /\ session' = session
           /\ \/ \E q : \E st \in {"addStudent", "activateFree", "resync"} :
                    Enter(o, st, q) /\ q.session = req[o].session /\ q.user = req[o].user
              \/ stage[o] = "sync" /\ Proceed(o, "done", Created(o)) /\ UNCHANGED dbVars
<1>1. req[o] \in Requests BY DEF IInv, TypeOK
<1>2. stage[o] \in {"ensure", "student", "sync"}
  BY DEF EnsureFreePlanForUser, AddStudentRole, SyncRoleFromActiveSubscription
<1>3. CASE Enter(o, "addStudent", req[o])
  BY <1>2, <1>3, EnterStep
<1>4. CASE \E p, role :
             Enter(o, "activateFree", [req[o] EXCEPT !.plan = p, !.role = role])
  <2>1. PICK p, role : Enter(o, "activateFree", [req[o] EXCEPT !.plan = p, !.role = role])
    BY <1>4
  <2> DEFINE q == [req[o] EXCEPT !.plan = p, !.role = role]
  <2>2. q.session = req[o].session /\ q.user = req[o].user BY <1>1 DEF Requests
  <2> QED BY <1>2, <2>1, <2>2, EnterStep
<1>5. CASE \E role : Enter(o, "resync", [req[o] EXCEPT !.role = role])
  <2>1. PICK role : Enter(o, "resync", [req[o] EXCEPT !.role = role]) BY <1>5
  <2> DEFINE q == [req[o] EXCEPT !.role = role]
  <2>2. q.session = req[o].session /\ q.user = req[o].user BY <1>1 DEF Requests
  <2> QED BY <1>2, <2>1, <2>2, EnterStep
<1>6. CASE stage[o] = "sync" /\ Proceed(o, "done", Created(o)) /\ UNCHANGED <<dbVars, session, older>>
  <2>1. \A x \in Request \ {o} : stage'[x] = stage[x] /\ req'[x] = req[x]
    BY <1>6, ProceedStep
  <2>2. UNCHANGED dbVars /\ session' = session BY <1>6
  <2> QED BY <1>2, <1>6, <2>1, <2>2 DEF Mover, Kept, dbVars
<1> QED
  BY <1>3, <1>4, <1>5, <1>6 DEF EnsureFreePlanForUser, AddStudentRole, SyncRoleFromActiveSubscription

\* A step is of a request that has arrived, or that arrives while none is in flight.
LEMMA SoloMoves ==
    ASSUME IInv, MaxInFlight = 1, Solo, [Next]_vars
    PROVE  \/ \E o \in Request, u \in User : Arrived(o, u) /\ InFlight = {}
           \/ \E o \in InFlight : Mover(o) /\ Run(o)
           \/ /\ UNCHANGED <<pend, snap, busy, pc, req, stage>>
              /\ \/ \E u \in User : Register(u)
                 \/ \E s \in CheckoutSession, u \in User :
                        CreatePaidCheckoutSession(s, u) \/ AssignPaymentLink(s, u)
                 \/ UNCHANGED vars
<1>1. ASSUME NEW o \in Request, NEW u \in User, Call(o, u)
      PROVE  Arrived(o, u) /\ InFlight = {}
  <2>1. Arrived(o, u) /\ Cardinality(InFlight) < 1 BY <1>1, Calls DEF Arrived
  <2>2. ASSUME NEW p \in InFlight PROVE FALSE
    <3>1. InFlight = {p} BY <2>2 DEF Solo
    <3>2. Cardinality(InFlight) = 1 BY <3>1, FS_Singleton
    <3> QED BY <2>1, <3>2
  <2> QED BY <2>1, <2>2
<1>2. ASSUME NEW o \in Request, Run(o)
      PROVE  o \in InFlight /\ Mover(o)
  <2>1. CASE EnsureFreePlanForUser(o) \/ AddStudentRole(o) \/ SyncRoleFromActiveSubscription(o)
    BY <2>1, BetweenStep DEF InFlight
  <2>2. CASE StartStatement(o) \/ ApplyStatement(o)
    BY <2>2, StatementStep DEF InFlight, Transactions
  <2>3. CASE CommitTransaction(o) \/ AbortTransaction(o)
    BY <2>3, EndStep DEF InFlight, Transactions
  <2> QED BY <1>2, <2>1, <2>2, <2>3 DEF Run
<1>3. CASE UNCHANGED vars BY <1>3 DEF vars, dbVars
<1>4. CASE \E u \in User : Register(u) BY <1>4 DEF Register
<1>5. CASE \E s \in CheckoutSession, u \in User :
              CreatePaidCheckoutSession(s, u) \/ AssignPaymentLink(s, u)
  BY <1>5 DEF CreatePaidCheckoutSession, AssignPaymentLink, dbVars
<1> QED BY <1>1, <1>2, <1>3, <1>4, <1>5 DEF Next

LEMMA SoloStep ==
    ASSUME IInv, MaxInFlight = 1, Solo, [Next]_vars
    PROVE  Solo'
<1>1. ASSUME NEW o \in Request, Mover(o), o \in InFlight \/ InFlight = {}
      PROVE  Solo'
  <2>1. \A x \in Request \ {o} : x \notin InFlight'
    BY <1>1 DEF Mover, Kept, InFlight, Solo
  <2> QED BY <2>1 DEF Solo, InFlight
<1>2. CASE \E o \in Request, u \in User : Arrived(o, u) /\ InFlight = {}
  BY <1>1, <1>2, EnterStep DEF Arrived
<1>3. CASE \E o \in InFlight : Mover(o) /\ Run(o)
  BY <1>1, <1>3 DEF InFlight
<1>4. CASE stage' = stage BY <1>4 DEF Solo, InFlight
<1> QED BY <1>2, <1>3, <1>4, SoloMoves

----------------------------------------------------------------------------
(* A session is settled once.                                                *)

SameFulfilled == \A s \in CheckoutSession : FulfilledBy(s)' = FulfilledBy(s)

SameAssigned ==
    \A u \in User, s \in CheckoutSession : db'[Assign(u, s)] = db[Assign(u, s)]

\* A request that is not in flight is not marking anything.
LEMMA SettledStays ==
    ASSUME IInv, SettledInv, session' = session, SameFulfilled, SameAssigned
    PROVE  /\ \A s \in CheckoutSession : Settled(s)'
           /\ \A x \in Request : Kept(x) => HasSession(x)' /\ Marks(x)'
<1>1. ASSUME NEW s \in CheckoutSession PROVE Settled(s)'
  <2>1. Settled(s) /\ FulfilledBy(s)' = FulfilledBy(s) BY DEF SettledInv, SameFulfilled
  <2>2. session[s] # NoSession => session[s].user \in User BY DEF IInv, TypeOK, Sessions
  <2> QED BY <2>1, <2>2 DEF Settled, SameAssigned
<1>2. ASSUME NEW x \in Request, Kept(x) PROVE HasSession(x)' /\ Marks(x)'
  <2>1. HasSession(x) /\ Marks(x) /\ Own(x) BY DEF SettledInv, IInv
  <2>2. stage[x] = "checkout" => req[x].user \in User /\ req[x].session \in CheckoutSession
    BY <2>1 DEF Own, Arguments, ArgumentsOK
  <2>3. HasSession(x)' BY <1>2, <2>1, <2>2 DEF HasSession, Kept, SameFulfilled
  <2>4. Marks(x)' BY <1>2, <2>1, <2>2 DEF Marks, Kept, SameAssigned
  <2> QED BY <2>3, <2>4
<1> QED BY <1>1, <1>2

\* Requests that keep their state keep what they have fulfilled, if their rows do.
LEMMA FulfilledStays ==
    ASSUME IInv, SettledInv, NEW o \in Request, Mover(o),
           \A u \in User : \A k \in Request \ {o} : db'[Sub(u, k)] # Absent <=> db[Sub(u, k)] # Absent,
           NEW s \in CheckoutSession
    PROVE  FulfilledBy(s)' \ {o} = FulfilledBy(s) \ {o}
<1>1. ASSUME NEW k \in Request \ {o}
      PROVE  k \in FulfilledBy(s)' <=> k \in FulfilledBy(s)
  <2>1. req'[k] = req[k] BY DEF Mover, Kept
  <2>2. req[k].session = s => req[k].user \in User
    BY SessionAssumption DEF SettledInv, HasSession
  <2> QED BY <2>1, <2>2 DEF FulfilledBy
<1>2. FulfilledBy(s) \subseteq Request /\ FulfilledBy(s)' \subseteq Request BY DEF FulfilledBy
<1> QED BY <1>1, <1>2

\* A request that enters a stage, without a session or for a checkout of an open one.
LEMMA EnterSettled ==
    ASSUME IInv, SettledInv, NEW o \in Request, NEW st, NEW q, Enter(o, st, q),
           st \notin {"idle", "done"}, stage[o] # "done", IInv',
           st # "checkout" => q.session = None,
           st = "checkout" =>
              /\ q.session \in CheckoutSession /\ session[q.session] # NoSession
              /\ session[q.session].user = q.user /\ FulfilledBy(q.session) = {}
              /\ stage[o] = "idle"
    PROVE  SettledInv' \/ ~Solo'
<1>1. /\ Mover(o) /\ db' = db /\ session' = session /\ pend' = pend
      /\ stage[o] \notin Transactions /\ stage'[o] = st /\ req'[o] = q
      /\ pend[o] = [r \in Rows |-> NoWrite] /\ pc'[o] = IF st \in Transactions THEN 1 ELSE 0
  BY EnterStep
<1>2. req[o].session = None
  BY <1>1 DEF SettledInv, HasSession, Transactions
<1>3. q.session # None => q.user \in User /\ st = "checkout"
  <2>1. ASSUME st = "checkout" PROVE q.user \in User
    BY <1>1, <2>1 DEF IInv, Own, Arguments, ArgumentsOK
  <2> QED BY <2>1
<1>4. ASSUME NEW s \in CheckoutSession PROVE FulfilledBy(s)' = FulfilledBy(s)
  <2>1. o \notin FulfilledBy(s) BY <1>2, SessionAssumption DEF FulfilledBy
  <2>2. o \notin FulfilledBy(s)'
    <3>1. CASE q.session = None BY <1>1, <3>1, SessionAssumption DEF FulfilledBy
    <3>2. CASE q.session # None
      <4>1. q.user \in User /\ stage[o] = "idle" BY <1>3, <3>2
      <4>2. db[Sub(q.user, o)] = Absent BY <4>1 DEF IInv, Committed, OwnRows, Fresh
      <4> QED BY <1>1, <4>2 DEF FulfilledBy
    <3> QED BY <3>1, <3>2
  <2>3. FulfilledBy(s)' \ {o} = FulfilledBy(s) \ {o} BY <1>1, FulfilledStays
  <2> QED BY <2>1, <2>2, <2>3
<1>5. SameFulfilled BY <1>4 DEF SameFulfilled
<1>6. SameAssigned BY <1>1 DEF SameAssigned
<1>7. HasSession(o)'
  <2>1. CASE st = "checkout"
    BY <1>1, <1>3, <1>4, <2>1 DEF HasSession
  <2>2. CASE st # "checkout" BY <1>1, <2>2 DEF HasSession
  <2> QED BY <2>1, <2>2
<1>8. Marks(o)'
  <2> SUFFICES ASSUME st = "checkout" PROVE Marks(o)' BY <1>1 DEF Marks
  <2>1. q.user \in User /\ q.session \in CheckoutSession
    BY <1>1 DEF IInv, Own, Arguments, ArgumentsOK
  <2>2. Assign(q.user, q.session) \in Rows BY <2>1, RowsOfTables DEF RowsOf
  <2>3. pc'[o] = 1 BY <1>1 DEF Transactions
  <2> QED BY <1>1, <2>2, <2>3 DEF Marks
<1>9. \A x \in Request : HasSession(x)' /\ Marks(x)'
  BY <1>1, <1>5, <1>6, <1>7, <1>8, SettledStays DEF Mover
<1> QED BY <1>1, <1>5, <1>6, <1>9, SettledStays DEF SettledInv

LEMMA StatementSettled ==
    ASSUME IInv, SettledInv, Solo', NEW o \in Request, StartStatement(o) \/ ApplyStatement(o)
    PROVE  SettledInv'
<1> DEFINE q == req[o]
           a == Assign(q.user, q.session)
           s == CurrentStatement(o)
<1>1. /\ Mover(o) /\ db' = db /\ session' = session /\ req' = req /\ stage' = stage
      /\ Open(o) /\ stage[o] \in Transactions /\ OwnTypes /\ Own(o) /\ Committed(o)
  BY StatementStep DEF IInv, TypeOK, OwnTypes
<1>2. SameFulfilled /\ SameAssigned BY <1>1 DEF SameFulfilled, SameAssigned, FulfilledBy
<1>3. HasSession(o)'
  <2>1. HasSession(o) BY DEF SettledInv
  <2>2. stage[o] = "checkout" => q.session \in CheckoutSession
    BY <1>1 DEF Own, Arguments, ArgumentsOK
  <2> QED BY <1>1, <1>2, <2>1, <2>2 DEF HasSession, SameFulfilled
<1>4. Marks(o)'
  <2> SUFFICES ASSUME stage[o] = "checkout" PROVE Marks(o)' BY <1>1 DEF Marks
  <2>1. Marks(o) BY DEF SettledInv
  <2>2. q.user \in User /\ q.session \in CheckoutSession BY <1>1 DEF Own, Arguments, ArgumentsOK
  <2>3. a \in Rows BY <2>2, RowsOfTables DEF RowsOf
  <2>4. pc[o] \in Nat /\ pc[o] # 0 BY <1>1 DEF OwnTypes, Open
  <2>5. /\ DOMAIN Program(o) = 1..5
        /\ Program(o)[1].rows = {Sub(q.user, o)}
        /\ Program(o)[2] = Write(a, "PAID")
        /\ Program(o)[3].rows = {Ent(q.user, o)}
        /\ Program(o)[4].rows = Roles(q.user)
        /\ Program(o)[5].rows = {Role(q.user, q.role)}
    BY DEF Program, Body, Checkout
  <2>6. s = Program(o)[pc[o]] /\ pc[o] \in 1..5
    BY <2>5 DEF CurrentStatement, StartStatement, ApplyStatement
  <2>7. pc[o] # 2 => a \notin s.rows
    <3>1. /\ a # Sub(q.user, o) /\ a # Ent(q.user, o) /\ a \notin Roles(q.user)
          /\ a # Role(q.user, q.role)
      BY RowsDiffer, OtherTables
    <3>2. a \notin Program(o)[1].rows /\ a \notin Program(o)[3].rows /\ a \notin Program(o)[4].rows
          /\ a \notin Program(o)[5].rows
      BY <2>5, <3>1
    <3> QED BY <2>6, <3>2
  <2>8. pc[o] = 2 => s.rows = {a} /\ s.from = Value \ {Absent} /\ s.to = "PAID" /\ s.unless = {}
    BY <2>5, <2>6
  <2>9. db[a] \in Value BY <2>3 DEF IInv, TypeOK
  <2>10. CASE StartStatement(o)
    <3>1. /\ pend' = pend /\ pc' = pc
          /\ snap'[o] = IF Skipped(o, s) THEN {} ELSE Matching(o, s)
      BY <1>1, <2>10 DEF StartStatement, Snapshot, OwnTypes
    <3>2. ASSUME pc[o] = 2, db[a] # Absent PROVE a \in snap'[o]
      <4>1. pend[o][a] = NoWrite BY <2>1, <3>2 DEF Marks
      <4>2. Seen(o, a) = db[a] BY <4>1 DEF Seen
      <4>3. a \in s.rows /\ Seen(o, a) \in s.from BY <2>8, <2>9, <3>2, <4>2
      <4>4. ~Skipped(o, s) BY <2>8, <3>2 DEF Skipped
      <4> QED BY <3>1, <4>3, <4>4 DEF Matching
    <3> QED BY <1>1, <2>1, <3>1, <3>2 DEF Marks
  <2>11. CASE ApplyStatement(o)
    <3>1. /\ pend'[o][a] = IF a \in snap[o] /\ Seen(o, a) \in s.from THEN s.to ELSE pend[o][a]
          /\ pc'[o] = pc[o] + 1 /\ busy'[o] = FALSE /\ busy[o]
      <4>1. Row = Rows BY DEF Row, IInv, TypeOK
      <4> QED BY <1>1, <2>3, <2>11, <4>1 DEF ApplyStatement, Apply, OwnTypes
    <3>2. snap[o] \subseteq s.rows BY <1>1, <3>1 DEF Own, Snapshots
    <3>3. CASE pc[o] # 2
      <4>1. pend'[o][a] = pend[o][a] BY <2>7, <3>1, <3>2, <3>3
      <4>2. (pc[o] + 1 < 3 => pc[o] < 3) /\ (pc[o] + 1 > 2 => pc[o] > 2) BY <2>4, <3>3
      <4> QED BY <1>1, <2>1, <3>1, <4>1, <4>2 DEF Marks
    <3>4. CASE pc[o] = 2
      <4>1. pend[o][a] = NoWrite BY <2>1, <3>4 DEF Marks
      <4>2. Seen(o, a) = db[a] BY <4>1 DEF Seen
      <4>3. db[a] # Absent => pend'[o][a] = "PAID"
        BY <2>1, <2>8, <2>9, <3>1, <3>4, <4>2 DEF Marks
      <4>4. pend'[o][a] \in {NoWrite, "PAID"} BY <2>8, <3>1, <3>4, <4>1
      <4>5. pc'[o] = 3 BY <3>1, <3>4
      <4> QED BY <1>1, <3>1, <4>3, <4>4, <4>5 DEF Marks
    <3> QED BY <3>3, <3>4
  <2> QED BY <2>10, <2>11
<1>5. \A x \in Request : HasSession(x)' /\ Marks(x)'
  BY <1>1, <1>2, <1>3, <1>4, SettledStays DEF Mover
<1> QED BY <1>1, <1>2, <1>5, SettledStays DEF SettledInv

\* Nothing but its own subscription appears or disappears when a transaction commits.
LEMMA OtherSubsStay ==
    ASSUME IInv, NEW o \in Request, CommitTransaction(o), NEW u \in User, NEW k \in Key \ {o}
    PROVE  db'[Sub(u, k)] # Absent <=> db[Sub(u, k)] # Absent
<1>1. Sub(u, k) \in Rows BY RowsOfTables DEF RowsOf
<1>2. pend[o][Sub(u, k)] # NoWrite => db[Sub(u, k)] # Absent /\ pend[o][Sub(u, k)] # Absent
  BY DEF IInv, Committed, OwnRows
<1> QED BY <1>1, <1>2, CommittedRows

\* The rows a transaction leaves alone when it commits.
LEMMA Untouched ==
    ASSUME IInv, NEW o \in Request, CommitTransaction(o), NEW r \in Rows,
           \A i \in DOMAIN Program(o) :
              NamesOK(stage[o], req[o], o, Program(o)[i]) => r \notin Program(o)[i].rows
    PROVE  db'[r] = db[r] /\ pend[o][r] = NoWrite
<1>1. Own(o) /\ Open(o) BY DEF IInv, CommitTransaction
<1>2. pend[o][r] = NoWrite BY <1>1, Names
<1> QED BY <1>2, CommittedRows

\* A request that does not go for a session, and ends, has left the sessions alone.
LEMMA AsideSettled ==
    ASSUME IInv, SettledInv, Solo', NEW o \in Request, Mover(o), session' = session,
           stage[o] \notin {"checkout", "done"}, stage'[o] # "checkout", req'[o].session = None,
           \A u \in User : \A k \in Request \ {o} : db'[Sub(u, k)] # Absent <=> db[Sub(u, k)] # Absent,
           SameAssigned
    PROVE  SettledInv'
<1>1. req[o].session = None BY DEF SettledInv, HasSession
<1>2. ASSUME NEW s \in CheckoutSession PROVE FulfilledBy(s)' = FulfilledBy(s)
  <2>1. o \notin FulfilledBy(s) /\ o \notin FulfilledBy(s)'
    BY <1>1, SessionAssumption DEF FulfilledBy
  <2> QED BY <2>1, FulfilledStays
<1>3. SameFulfilled BY <1>2 DEF SameFulfilled
<1>4. HasSession(o)' /\ Marks(o)' BY DEF HasSession, Marks
<1>5. \A x \in Request : HasSession(x)' /\ Marks(x)' BY <1>3, <1>4, SettledStays DEF Mover
<1> QED BY <1>3, <1>5, SettledStays DEF SettledInv

LEMMA CommitSettled ==
    ASSUME IInv, SettledInv, Solo', NEW o \in Request, CommitTransaction(o)
    PROVE  SettledInv'
<1> DEFINE q == req[o]
<1>1. /\ Mover(o) /\ session' = session /\ Open(o) /\ stage[o] \in Transactions
      /\ stage'[o] \notin Transactions /\ Own(o) /\ Committed(o) /\ HasSession(o) /\ Marks(o)
  BY EndStep DEF IInv, SettledInv
<1>2. /\ stage'[o] = AfterCommit(q, stage[o])
      /\ stage'[o] # "done" => req'[o] = q
      /\ stage'[o] = "done" /\ Seen(o, Sub(q.user, o)) # Absent =>
            req'[o].user = q.user /\ req'[o].session = q.session
      /\ stage'[o] = "done" /\ Seen(o, Sub(q.user, o)) = Absent => req'[o].session = None
  BY ProceedStep DEF CommitTransaction
<1>3. \A u \in User : \A k \in Request \ {o} : db'[Sub(u, k)] # Absent <=> db[Sub(u, k)] # Absent
  BY OtherSubsStay DEF Key
<1>4. CASE stage[o] # "checkout"
  <2>1. q.session = None BY <1>1, <1>4 DEF HasSession, Transactions
  <2>2. req'[o].session = None BY <1>2, <2>1
  <2>3. ASSUME NEW u \in User, NEW s \in CheckoutSession PROVE db'[Assign(u, s)] = db[Assign(u, s)]
    <3>1. Assign(u, s) \in Rows BY RowsOfTables DEF RowsOf
    <3> QED BY <1>4, <3>1, Untouched DEF NamesOK
  <2>4. SameAssigned BY <2>3 DEF SameAssigned
  <2>5. stage[o] # "done" /\ stage'[o] # "checkout" BY <1>1 DEF Transactions
  <2> QED BY <1>1, <1>3, <1>4, <2>2, <2>4, <2>5, AsideSettled
<1>5. CASE stage[o] = "checkout"
  <2>0. q.user \in User /\ q.session \in CheckoutSession
    BY <1>1, <1>5 DEF Own, Arguments, ArgumentsOK
  <2>1. PICK w \in CheckoutSession : w = q.session BY <2>0
  <2> DEFINE a == Assign(q.user, w)
             b == Sub(q.user, o)
  <2>2. a \in Rows /\ b \in Rows BY <2>0, <2>1, RowsOfTables DEF RowsOf, Key
  <2>3. Len(Program(o)) = 5 /\ DOMAIN Program(o) = 1..5 /\ Creates(Program(o)[1], q.user, o)
    BY <1>5 DEF Program, Body, Checkout, Creates
  <2>4. pc[o] = 6 BY <2>3 DEF CommitTransaction
  <2>5. pend[o][b] \in LiveStatus
    <3>1. HasCreated(o, q.user) BY <2>3, <2>4 DEF HasCreated
    <3> QED BY <1>1, <1>5, <2>0, <2>1, <3>1 DEF Own, CreatedLive, Granting
  <2>6. db'[b] # Absent /\ Seen(o, b) # Absent
    BY <2>2, <2>5, CommittedRows DEF Seen, LiveStatus, NoWrite, Absent
  <2>7. stage'[o] = "done" /\ req'[o].user = q.user /\ req'[o].session = w
    BY <1>2, <2>1, <1>5, <2>6, EndStep
  <2>8. FulfilledBy(w) = {} /\ session[w] # NoSession /\ session[w].user = q.user
    BY <1>1, <2>1, <1>5 DEF HasSession
  <2>9. FulfilledBy(w)' = {o}
    <3>1. o \in FulfilledBy(w)' BY <2>6, <2>7 DEF FulfilledBy
    <3>2. FulfilledBy(w)' \ {o} = FulfilledBy(w) \ {o} BY <1>1, <1>3, <2>0, <2>1, FulfilledStays
    <3> QED BY <2>8, <3>1, <3>2
  <2>10. ASSUME NEW s \in CheckoutSession, s # w PROVE FulfilledBy(s)' = FulfilledBy(s)
    <3>1. o \notin FulfilledBy(s) /\ o \notin FulfilledBy(s)' BY <2>1, <2>7, <2>10 DEF FulfilledBy
    <3> QED BY <1>1, <1>3, <3>1, FulfilledStays
  <2>11. ASSUME NEW u \in User, NEW s \in CheckoutSession, Assign(u, s) # a
         PROVE  db'[Assign(u, s)] = db[Assign(u, s)]
    <3>1. Assign(u, s) \in Rows BY RowsOfTables DEF RowsOf
    <3>2. \A t : NamesOK(stage[o], q, o, t) => Assign(u, s) \notin t.rows
      <4> SUFFICES ASSUME NEW t, NamesOK(stage[o], q, o, t), Assign(u, s) \in t.rows PROVE FALSE
        OBVIOUS
      <4>1. t = Write(a, "PAID") BY <2>1 DEF NamesOK
      <4>2. t.rows = {a} BY <4>1
      <4> QED BY <2>11, <4>2
    <3> QED BY <3>1, <3>2, Untouched
  <2>12. db[a] # Absent => pend[o][a] = "PAID"
    BY <1>1, <2>1, <1>5, <2>4 DEF Marks
  <2>13. db'[a] # Absent => db'[a] = "PAID"
    <3>1. pend[o][a] \in {NoWrite, "PAID"} BY <1>1, <2>1, <1>5 DEF Marks
    <3> QED BY <2>2, <2>12, <3>1, CommittedRows DEF NoWrite
  <2>14. ASSUME NEW s \in CheckoutSession PROVE Settled(s)'
    <3>1. CASE s = w
      <4>1. /\ FulfilledBy(s)' = {o} /\ session'[s] # NoSession
            /\ Assign(session'[s].user, s) = a
        BY <1>1, <2>8, <2>9, <3>1
      <4>2. NoSession' = NoSession BY DEF NoSession
      <4> QED BY <2>13, <4>1, <4>2 DEF Settled
    <3>2. CASE s # w
      <4>1. Settled(s) /\ FulfilledBy(s)' = FulfilledBy(s) BY <2>10, <3>2 DEF SettledInv
      <4>2. \A u \in User : Assign(u, s) # a BY <3>2, OtherTables
      <4>3. session[s] # NoSession => session[s].user \in User BY DEF IInv, TypeOK, Sessions
      <4> QED BY <1>1, <2>11, <4>1, <4>2, <4>3 DEF Settled
    <3> QED BY <3>1, <3>2
  <2>15. ASSUME NEW x \in Request PROVE HasSession(x)' /\ Marks(x)'
    <3>1. CASE x = o BY <2>0, <2>1, <2>7, <3>1 DEF HasSession, Marks
    <3>2. CASE x # o
      <4>1. stage'[x] = stage[x] /\ req'[x] = req[x] /\ HasSession(x)
        BY <1>1, <3>2 DEF Mover, Kept, SettledInv
      <4>2. stage[x] # "checkout" BY <1>5, <3>2 DEF SettledInv, Solo, InFlight
      <4> QED BY <4>1, <4>2 DEF HasSession, Marks
    <3> QED BY <3>1, <3>2
  <2> QED BY <2>14, <2>15 DEF SettledInv
<1> QED BY <1>4, <1>5

LEMMA AbortSettled ==
    ASSUME IInv, SettledInv, Solo', NEW o \in Request, AbortTransaction(o)
    PROVE  SettledInv'
<1> DEFINE q == req[o]
<1>1. /\ Mover(o) /\ session' = session /\ Open(o) /\ stage[o] \in Transactions
      /\ stage'[o] \notin Transactions /\ Own(o) /\ Committed(o) /\ HasSession(o)
      /\ stage[o] = "checkout" => stage'[o] = "done"
  BY EndStep DEF IInv, SettledInv
<1>2. db' = db BY DEF AbortTransaction, Abort
<1>3. /\ stage'[o] # "done" => req'[o] = q
      /\ stage'[o] = "done" /\ Created(o) => req'[o].session = q.session
      /\ stage'[o] = "done" /\ ~Created(o) => req'[o].session = None
  BY ProceedStep DEF AbortTransaction
<1>4. req'[o].session = None
  <2>1. CASE stage[o] = "checkout"
    <3>1. q.user \in User BY <1>1, <2>1 DEF Own, Arguments, ArgumentsOK
    <3>2. ~Created(o) BY <1>1, <2>1, <3>1 DEF Created, Committed, OwnRows, Fresh, Granting
    <3> QED BY <1>1, <1>3, <2>1, <3>2
  <2>2. CASE stage[o] # "checkout"
    <3>1. q.session = None BY <1>1, <2>2 DEF HasSession, Transactions
    <3> QED BY <1>3, <3>1 DEF Created
  <2> QED BY <2>1, <2>2
<1>5. ASSUME NEW s \in CheckoutSession PROVE FulfilledBy(s)' = FulfilledBy(s)
  <2>1. o \notin FulfilledBy(s)' BY <1>4, SessionAssumption DEF FulfilledBy
  <2>2. o \notin FulfilledBy(s)
    <3>1. CASE stage[o] = "checkout"
      <4>1. q.user \in User BY <1>1, <3>1 DEF Own, Arguments, ArgumentsOK
      <4> QED BY <1>1, <3>1, <4>1 DEF FulfilledBy, Committed, OwnRows, Fresh, Granting
    <3>2. CASE stage[o] # "checkout"
      <4>1. q.session = None BY <1>1, <3>2 DEF HasSession, Transactions
      <4> QED BY <4>1, SessionAssumption DEF FulfilledBy
    <3> QED BY <3>1, <3>2
  <2> QED BY <1>1, <1>2, <2>1, <2>2, FulfilledStays
<1>6. SameFulfilled /\ SameAssigned BY <1>2, <1>5 DEF SameFulfilled, SameAssigned
<1>7. HasSession(o)' /\ Marks(o)' BY <1>1, <1>4 DEF HasSession, Marks, Transactions
<1>8. \A x \in Request : HasSession(x)' /\ Marks(x)'
  BY <1>1, <1>6, <1>7, SettledStays DEF Mover
<1> QED BY <1>1, <1>6, <1>8, SettledStays DEF SettledInv

LEMMA BetweenSettled ==
    ASSUME IInv, IInv', SettledInv, Solo', NEW o \in Request,
           EnsureFreePlanForUser(o) \/ AddStudentRole(o) \/ SyncRoleFromActiveSubscription(o)
    PROVE  SettledInv'
<1>1. stage[o] \in {"ensure", "student", "sync"} /\ Mover(o) /\ db' = db /\ session' = session
  BY BetweenStep
<1>2. req[o].session = None BY <1>1 DEF SettledInv, HasSession
<1>3. CASE \E q : \E st \in {"addStudent", "activateFree", "resync"} :
              Enter(o, st, q) /\ q.session = req[o].session
  BY <1>1, <1>2, <1>3, EnterSettled
<1>4. CASE stage[o] = "sync" /\ Proceed(o, "done", Created(o))
  <2>1. stage'[o] = "done" /\ req'[o].session = None BY <1>2, <1>4, ProceedStep
  <2>2. SameAssigned BY <1>1 DEF SameAssigned
  <2> QED BY <1>1, <2>1, <2>2, AsideSettled
<1> QED BY <1>3, <1>4, BetweenStep

\* A step of no request, on another table or on a session that is not open yet.
LEMMA NobodySettled ==
    ASSUME IInv, SettledInv, UNCHANGED <<pend, snap, busy, pc, req, stage>>, Solo',
           \A u \in User, k \in Key : db'[Sub(u, k)] = db[Sub(u, k)],
           \A s \in CheckoutSession :
              \/ session'[s] = session[s] /\ \A u \in User : db'[Assign(u, s)] = db[Assign(u, s)]
              \/ /\ session[s] = NoSession /\ session'[s] # NoSession
                 /\ LET a == Assign(session'[s].user, s) IN db'[a] \in {db[a], "PENDING"}
                 /\ session'[s].user \in User
    PROVE  SettledInv'
<1>1. ASSUME NEW s \in CheckoutSession PROVE FulfilledBy(s)' = FulfilledBy(s)
  <2>1. ASSUME NEW k \in Request PROVE k \in FulfilledBy(s)' <=> k \in FulfilledBy(s)
    <3>1. req[k].session = s => req[k].user \in User
      BY SessionAssumption DEF SettledInv, HasSession
    <3> QED BY <3>1 DEF FulfilledBy, Key
  <2> QED BY <2>1 DEF FulfilledBy
<1>2. ASSUME NEW s \in CheckoutSession PROVE Settled(s)'
  <2>1. Settled(s) /\ FulfilledBy(s)' = FulfilledBy(s) BY <1>1 DEF SettledInv
  <2>2. NoSession' = NoSession BY DEF NoSession
  <2>3. CASE session'[s] = session[s] /\ \A u \in User : db'[Assign(u, s)] = db[Assign(u, s)]
    <3>1. session[s] # NoSession => session[s].user \in User BY DEF IInv, TypeOK, Sessions
    <3> QED BY <2>1, <2>2, <2>3, <3>1 DEF Settled
  <2>4. CASE /\ session[s] = NoSession /\ session'[s] # NoSession
             /\ LET a == Assign(session'[s].user, s) IN db'[a] \in {db[a], "PENDING"}
             /\ session'[s].user \in User
    <3>1. FulfilledBy(s) = {} /\ db[Assign(session'[s].user, s)] = Absent
      BY <2>1, <2>4 DEF Settled
    <3>2. db'[Assign(session'[s].user, s)] \in {Absent, "PENDING"} BY <2>4, <3>1
    <3> QED BY <2>1, <2>2, <2>4, <3>1, <3>2 DEF Settled, Absent
  <2> QED BY <2>3, <2>4
<1>3. ASSUME NEW x \in Request PROVE HasSession(x)' /\ Marks(x)'
  <2>1. HasSession(x) /\ Marks(x) /\ Own(x) BY DEF SettledInv, IInv
  <2>2. CASE stage[x] # "checkout" BY <2>1, <2>2 DEF HasSession, Marks
  <2>3. CASE stage[x] = "checkout"
    <3>1. PICK w \in CheckoutSession : w = req[x].session
      BY <2>1, <2>3 DEF Own, Arguments, ArgumentsOK
    <3>2. req[x].user \in User BY <2>1, <2>3 DEF Own, Arguments, ArgumentsOK
    <3>3. session[w] # NoSession /\ session[w].user = req[x].user /\ FulfilledBy(w) = {}
      BY <2>1, <2>3, <3>1 DEF HasSession
    <3>4. session'[w] = session[w] /\ db'[Assign(req[x].user, w)] = db[Assign(req[x].user, w)]
      BY <3>2, <3>3
    <3>5. FulfilledBy(w)' = {} /\ NoSession' = NoSession BY <1>1, <3>3 DEF NoSession
    <3>6. req'[x].session = w BY <3>1
    <3>7. HasSession(x)' BY <2>3, <3>2, <3>3, <3>4, <3>5, <3>6 DEF HasSession
    <3>8. Marks(x)' BY <2>1, <2>3, <3>1, <3>4 DEF Marks
    <3> QED BY <3>7, <3>8
  <2> QED BY <2>2, <2>3
<1> QED BY <1>2, <1>3 DEF SettledInv

LEMMA TablesSettled ==
    ASSUME IInv, SettledInv, UNCHANGED <<pend, snap, busy, pc, req, stage>>, Solo',
           \/ \E u \in User : Register(u)
           \/ \E s \in CheckoutSession, u \in User :
                  CreatePaidCheckoutSession(s, u) \/ AssignPaymentLink(s, u)
           \/ UNCHANGED vars
    PROVE  SettledInv'
<1>1. db \in [Rows -> Value] /\ session \in [CheckoutSession -> Sessions] BY DEF IInv, TypeOK
<1>2. RowsOf BY RowsOfTables
<1>3. CASE \E u \in User : Register(u)
  <2>1. PICK u \in User, i \in Otp : db' = [db EXCEPT ![Code(u, i)] = "on"]
    BY <1>3 DEF Register
  <2>2. \A r \in Rows : r # Code(u, i) => db'[r] = db[r] BY <1>1, <2>1
  <2>3. ASSUME NEW v \in User, NEW k \in Key PROVE db'[Sub(v, k)] = db[Sub(v, k)]
    <3>1. Sub(v, k) \in Rows BY <1>2 DEF RowsOf
    <3>2. Code(u, i) # Sub(v, k) BY RowsDiffer
    <3> QED BY <2>2, <3>1, <3>2
  <2>4. ASSUME NEW v \in User, NEW s \in CheckoutSession
        PROVE  db'[Assign(v, s)] = db[Assign(v, s)]
    <3>1. Assign(v, s) \in Rows /\ Assign(v, s) # Code(u, i) BY <1>2, OtherTables DEF RowsOf
    <3> QED BY <2>2, <3>1
  <2>5. session' = session BY <1>3 DEF Register
  <2> QED BY <2>3, <2>4, <2>5, NobodySettled
<1>4. ASSUME NEW s \in CheckoutSession, NEW u \in User,
             CreatePaidCheckoutSession(s, u) \/ AssignPaymentLink(s, u)
      PROVE  SettledInv'
  <2>1. PICK p \in Plan, status \in LiveStatus : OpenSession(s, u, p, status)
    BY <1>4 DEF CreatePaidCheckoutSession, AssignPaymentLink
  <2> DEFINE n == [user |-> u, plan |-> p, status |-> status]
  <2>2. session[s] = NoSession /\ session' = [session EXCEPT ![s] = n] BY <2>1 DEF OpenSession
  <2>3. n # NoSession /\ n.user = u
    <3>1. NoSession.status \notin LiveStatus BY DEF NoSession, None, LiveStatus
    <3>2. n.status \in LiveStatus /\ n.user = u OBVIOUS
    <3> QED BY <3>1, <3>2
  <2> HIDE DEF n
  <2>4. session'[s] = n /\ \A t \in CheckoutSession \ {s} : session'[t] = session[t] BY <1>1, <2>2
  <2>5. db' = db \/ db' = [db EXCEPT ![Assign(u, s)] = "PENDING"]
    BY <1>4 DEF CreatePaidCheckoutSession, AssignPaymentLink, dbVars
  <2>6. /\ \A r \in Rows : r # Assign(u, s) => db'[r] = db[r]
        /\ db'[Assign(u, s)] \in {db[Assign(u, s)], "PENDING"}
    BY <1>1, <1>2, <2>5 DEF RowsOf
  <2>7. ASSUME NEW v \in User, NEW k \in Key PROVE db'[Sub(v, k)] = db[Sub(v, k)]
    <3>1. Sub(v, k) \in Rows /\ Assign(u, s) # Sub(v, k) BY <1>2, RowsDiffer DEF RowsOf
    <3> QED BY <2>6, <3>1
  <2>8. \A v \in User : \A t \in CheckoutSession \ {s} : db'[Assign(v, t)] = db[Assign(v, t)]
    BY <1>2, <2>6, OtherTables DEF RowsOf
  <2> QED BY <2>2, <2>3, <2>4, <2>6, <2>7, <2>8, NobodySettled
<1>5. CASE UNCHANGED vars
  <2>1. db' = db /\ session' = session BY <1>5 DEF vars, dbVars
  <2> QED BY <2>1, NobodySettled
<1> QED BY <1>3, <1>4, <1>5

LEMMA SettledStep ==
    ASSUME IInv, IInv', MaxInFlight = 1, SettledInv, [Next]_vars
    PROVE  SettledInv'
<1>1. Solo /\ Solo' BY SoloStep DEF SettledInv
<1>2. CASE \E o \in Request, u \in User : Arrived(o, u) /\ InFlight = {}
  <2>1. PICK o \in Request, u \in User : Arrived(o, u) BY <1>2
  <2>2. stage[o] = "idle" BY <2>1 DEF Arrived
  <2>3. PICK st, q : Enter(o, st, q) /\ Asked(st, q) BY <2>1 DEF Arrived
  <2> QED BY <1>1, <2>2, <2>3, EnterSettled DEF Asked
<1>3. ASSUME NEW o \in InFlight, Run(o) PROVE SettledInv'
  <2>1. o \in Request BY DEF InFlight
  <2> QED
    BY <1>1, <1>3, <2>1, StatementSettled, CommitSettled, AbortSettled, BetweenSettled DEF Run
<1> QED BY <1>1, <1>2, <1>3, TablesSettled, SoloMoves

LEMMA SettledInit ==
    ASSUME Init
    PROVE  SettledInv
<1>1. PICK account \in [User -> Accounts] : db = [r \in Rows |-> InitialValue(account[r[2]], r)]
  BY DEF Init
<1>2. /\ req = [o \in Request |-> NoRequest] /\ stage = [o \in Request |-> "idle"]
      /\ session = [s \in CheckoutSession |-> NoSession]
  BY DEF Init
<1>3. NoRequest.session = None BY DEF NoRequest
<1>4. Solo BY <1>2 DEF Solo, InFlight
<1>5. \A o \in Request : HasSession(o) /\ Marks(o) BY <1>2, <1>3 DEF HasSession, Marks
<1>6. ASSUME NEW s \in CheckoutSession PROVE Settled(s)
  <2>1. FulfilledBy(s) = {} BY <1>2, <1>3, SessionAssumption DEF FulfilledBy
  <2>2. ASSUME NEW u \in User PROVE db[Assign(u, s)] = Absent
    <3>1. Assign(u, s) \in Rows BY RowsOfTables DEF RowsOf
    <3>2. Assign(u, s)[1] = "assign" BY DEF Assign
    <3>3. db[Assign(u, s)] = InitialValue(account[Assign(u, s)[2]], Assign(u, s)) BY <1>1, <3>1
    <3> QED BY <3>2, <3>3 DEF InitialValue
  <2> QED BY <1>2, <2>1, <2>2 DEF Settled
<1> QED BY <1>4, <1>5, <1>6 DEF SettledInv

(* While requests do not overlap, a session yields at most one subscription, and
   the assignment of a payment link is PAID if and only if it has yielded one.  *)
THEOREM SessionsSettle ==
    ASSUME MaxInFlight = 1
    PROVE  Spec => []SessionSettled
<1>1. Init => SettledInv BY SettledInit
<1>2. IInv /\ IInv' /\ SettledInv /\ [Next]_vars => SettledInv' BY SettledStep
<1>3. SettledInv => SessionSettled
  <2> SUFFICES ASSUME SettledInv, NEW s \in CheckoutSession
               PROVE  Cardinality(FulfilledBy(s)) <= 1
    BY DEF SettledInv, SessionSettled, Settled
  <2>1. \A k, l \in FulfilledBy(s) : k = l BY DEF SettledInv, Settled
  <2>2. CASE FulfilledBy(s) = {} BY <2>2, FS_EmptySet
  <2>3. CASE FulfilledBy(s) # {}
    <3>1. PICK k \in FulfilledBy(s) : TRUE BY <2>3
    <3>2. FulfilledBy(s) = {k} BY <2>1, <3>1
    <3>3. Cardinality({k}) = 1 BY FS_Singleton
    <3> QED BY <3>2, <3>3
  <2> QED BY <2>2, <2>3
<1> QED BY <1>1, <1>2, <1>3, Inductive, PTL DEF Spec

----------------------------------------------------------------------------
(* The ENTERPRISE role and the plans behind it.                              *)

\* A granting transaction creates its subscription.
LEMMA GrantingCreates ==
    ASSUME NEW st \in Granting, NEW q, NEW o \in Request, ~Plain(st, q)
    PROVE  \E i \in DOMAIN Body(st, q, o) : Creates(Body(st, q, o)[i], q.user, o)
<1> DEFINE P == Body(st, q, o)
<1>1. CASE st \in {"activateFree", "checkout"}
  <2>1. 1 \in DOMAIN P /\ P[1].rows = {Sub(q.user, o)} /\ P[1].from = {Absent}
    BY <1>1 DEF Body, ActivateFree, Checkout
  <2> QED BY <2>1 DEF Creates
<1>2. CASE st \in {"assignManually", "assignPurchaseOrder"}
  <2>1. 3 \in DOMAIN P /\ P[3].rows = {Sub(q.user, o)} /\ P[3].from = {Absent}
    BY <1>2 DEF Body, AssignManually, AssignPurchaseOrder
  <2> QED BY <2>1 DEF Creates
<1>3. CASE st = "updateSubscription"
  <2>1. 2 \in DOMAIN P /\ P[2].rows = {Sub(q.user, o)} /\ P[2].from = {Absent}
    BY <1>3 DEF Body, UpdateSubscription
  <2> QED BY <2>1 DEF Creates
<1>4. CASE st = "update"
  <2>1. q.plan # None BY <1>4 DEF Plain
  <2>2. 2 \in DOMAIN P /\ P[2].rows = {Sub(q.user, o)} /\ P[2].from = {Absent}
    BY <1>4, <2>1 DEF Body, Update
  <2> QED BY <2>2 DEF Creates
<1> QED BY <1>1, <1>2, <1>3, <1>4 DEF Granting

\* What a request that goes on is about to do with the ENTERPRISE role.
BackedBy(o) == Owns(o) /\ RoleOfPlan(o) /\ (Open(o) => DeactivatesFirst(o))

\* The other requests are at rest, and keep their subscriptions.
LEMMA RestBacked ==
    ASSUME IInv, IInv', BackedInv, Solo', NEW o \in Request, Mover(o), o \in InFlight \/ InFlight = {},
           \A u \in User : \A k \in Request \ {o} : db'[Sub(u, k)] # Absent => db[Sub(u, k)] # Absent,
           BackedBy(o)'
    PROVE  BackedInv'
<1>1. ASSUME NEW x \in Request \ {o} PROVE BackedBy(x)'
  <2>1. x \notin InFlight BY DEF BackedInv, Solo
  <2>2. stage'[x] = stage[x] /\ req'[x] = req[x] /\ pc'[x] = pc[x] BY DEF Mover, Kept
  <2>3. stage[x] \in {"idle", "done"} BY <2>1 DEF InFlight
  <2>4. ~Open(x)' BY <2>2, <2>3 DEF IInv, Own, Transactional, Open, Transactions
  <2>5. RoleOfPlan(x)' BY <2>2, <2>3 DEF RoleOfPlan, Granting
  <2>6. Owns(x)' BY <2>2 DEF BackedInv, Owns
  <2> QED BY <2>4, <2>5, <2>6 DEF BackedBy
<1> QED BY <1>1 DEF BackedInv, BackedBy

LEMMA EnterBacked ==
    ASSUME IInv, IInv', BackedInv, Solo', NEW o \in Request, NEW st, NEW q, Enter(o, st, q),
           o \in InFlight \/ InFlight = {},
           q.user = req[o].user \/ stage[o] = "idle",
           st \in Granting /\ ~Plain(st, q) => q.role = TargetRole(q.plan),
           st = "resync" => \E k \in LiveSubs(q.user) :
                               q.role = TargetRole(PlanOf(k)) /\ PlanOf(k)' = PlanOf(k)
    PROVE  BackedInv'
<1>1. /\ Mover(o) /\ db' = db /\ stage'[o] = st /\ req'[o] = q /\ busy' = busy /\ busy[o] = FALSE
      /\ pc'[o] = IF st \in Transactions THEN 1 ELSE 0
  BY EnterStep
<1>2. Owns(o)'
  <2>1. CASE q.user = req[o].user BY <1>1, <2>1 DEF BackedInv, Owns
  <2>2. CASE stage[o] = "idle"
    <3>1. \A u \in User : db[Sub(u, o)] = Absent BY <2>2 DEF IInv, Committed, OwnRows, Fresh
    <3> QED BY <1>1, <3>1 DEF Owns
  <2> QED BY <2>1, <2>2
<1>3. RoleOfPlan(o)'
  <2>1. st \in Granting /\ ~(st = "update" /\ q.plan = None) => ~Plain(st, q)
    BY DEF Plain, Granting
  <2>2. ASSUME st = "resync"
        PROVE  \E k \in LiveSubs(q.user)' : q.role = TargetRole(PlanOf(k)')
    <3>1. PICK k \in LiveSubs(q.user) : q.role = TargetRole(PlanOf(k)) /\ PlanOf(k)' = PlanOf(k)
      BY <2>2
    <3>2. k \in LiveSubs(q.user)' BY <1>1, <3>1 DEF LiveSubs
    <3>3. q.role = TargetRole(PlanOf(k)') BY <3>1
    <3> QED BY <3>2, <3>3
  <2> QED BY <1>1, <2>1, <2>2 DEF RoleOfPlan, LiveSubs
<1>4. ASSUME Open(o)' PROVE DeactivatesFirst(o)'
  <2>1. pc'[o] = 1 /\ st \in Transactions BY <1>1, <1>4 DEF Open
  <2>2. \A i \in DOMAIN Program(o)' : ~(i < 1) /\ i \in Nat
    BY <1>1, <2>1, BodyIsSequence DEF Program
  <2> QED BY <1>1, <2>1, <2>2 DEF DeactivatesFirst
<1>5. BackedBy(o)' BY <1>2, <1>3, <1>4 DEF BackedBy
<1> QED BY <1>1, <1>5, RestBacked

LEMMA BetweenBacked ==
    ASSUME IInv, IInv', BackedInv, Solo', NEW o \in Request,
           EnsureFreePlanForUser(o) \/ AddStudentRole(o) \/ SyncRoleFromActiveSubscription(o)
    PROVE  BackedInv'
<1>1. /\ stage[o] \in {"ensure", "student", "sync"} /\ Mover(o) /\ db' = db
      /\ req[o] \in Requests /\ o \in InFlight
  BY BetweenStep DEF IInv, TypeOK, InFlight
<1>2. CASE Enter(o, "addStudent", req[o])
  BY <1>1, <1>2, EnterBacked DEF Granting
<1>3. CASE EnsureFreePlanForUser(o)
  <2>1. CASE \E p \in FreePlan :
                Enter(o, "activateFree", [req[o] EXCEPT !.plan = p, !.role = TargetRole(p)])
    <3>1. PICK p \in FreePlan :
             Enter(o, "activateFree", [req[o] EXCEPT !.plan = p, !.role = TargetRole(p)])
      BY <2>1
    <3>2. PICK q : q = [req[o] EXCEPT !.plan = p, !.role = TargetRole(p)] OBVIOUS
    <3>3. q.user = req[o].user /\ q.plan = p /\ q.role = TargetRole(p) BY <1>1, <3>2 DEF Requests
    <3> QED BY <1>1, <3>1, <3>2, <3>3, EnterBacked
  <2> QED BY <1>2, <1>3, <2>1 DEF EnsureFreePlanForUser
<1>4. CASE SyncRoleFromActiveSubscription(o)
  <2>1. CASE \E k \in Newest(req[o].user) :
                Enter(o, "resync", [req[o] EXCEPT !.role = TargetRole(PlanOf(k))])
    <3>1. PICK k \in Newest(req[o].user) :
                Enter(o, "resync", [req[o] EXCEPT !.role = TargetRole(PlanOf(k))])
      BY <2>1
    <3>2. PICK q : q = [req[o] EXCEPT !.role = TargetRole(PlanOf(k))] OBVIOUS
    <3>3. q.user = req[o].user /\ q.plan = req[o].plan /\ q.role = TargetRole(PlanOf(k))
      BY <1>1, <3>2 DEF Requests
    <3>4. k \in LiveSubs(q.user) /\ k \in Key
      BY <3>1, <3>3 DEF Newest, ActiveSubs, LiveSubs, LiveStatus
    <3>5. PlanOf(k)' = PlanOf(k)
      <4>1. Enter(o, "resync", q) BY <3>1, <3>2
      <4>2. req'[o] = q BY <4>1, EnterStep
      <4>3. \A x \in Request \ {o} : req'[x] = req[x] BY <1>1 DEF Mover, Kept
      <4> QED BY <3>3, <3>4, <4>2, <4>3 DEF PlanOf, Key
    <3> QED BY <1>1, <3>1, <3>2, <3>3, <3>4, <3>5, EnterBacked DEF Granting
  <2>2. CASE Proceed(o, "done", Created(o)) /\ UNCHANGED dbVars
    <3>1. /\ stage'[o] = "done"
          /\ Created(o) => req'[o].user = req[o].user
      BY <2>2, ProceedStep
    <3>2. ASSUME NEW u \in User, db[Sub(u, o)] # Absent PROVE req'[o].user = u
      <4>1. req[o].user = u BY <3>2 DEF BackedInv, Owns
      <4> QED BY <3>1, <3>2, <4>1 DEF Created
    <3>3. Owns(o)' BY <1>1, <3>2 DEF Owns
    <3>4. RoleOfPlan(o)' BY <3>1 DEF RoleOfPlan, Granting
    <3>5. ~Open(o)' BY <3>1 DEF IInv, Own, Transactional, Transactions
    <3>6. BackedBy(o)' BY <3>3, <3>4, <3>5 DEF BackedBy
    <3> QED BY <1>1, <3>6, RestBacked
  <2> QED BY <1>4, <2>1, <2>2 DEF SyncRoleFromActiveSubscription, dbVars
<1> QED BY <1>2, <1>3, <1>4 DEF AddStudentRole

LEMMA StatementBacked ==
    ASSUME IInv, IInv', BackedInv, Solo', NEW o \in Request, StartStatement(o) \/ ApplyStatement(o)
    PROVE  BackedInv'
<1> DEFINE P == Program(o)
           s == CurrentStatement(o)
<1>1. /\ Mover(o) /\ db' = db /\ req' = req /\ stage' = stage /\ Open(o) /\ stage[o] \in Transactions
      /\ OwnTypes /\ Own(o) /\ Owns(o) /\ RoleOfPlan(o) /\ DeactivatesFirst(o) /\ o \in InFlight
      /\ pc[o] \in Nat
  BY StatementStep DEF IInv, TypeOK, OwnTypes, BackedInv, InFlight, Transactions
<1>2. Owns(o)' /\ RoleOfPlan(o)' BY <1>1 DEF Owns, RoleOfPlan, LiveSubs, PlanOf
<1>3. P' = P /\ s = P[pc[o]] /\ pc[o] \in DOMAIN P
  BY <1>1 DEF Program, CurrentStatement, StartStatement, ApplyStatement
<1>4. DOMAIN P = 1..Len(P) /\ Len(P) \in Nat /\ \A i \in DOMAIN P : NamesOK(stage[o], req[o], o, P[i])
  <2>1. DOMAIN P = 1..Len(P) /\ Len(P) \in Nat BY <1>1, ProgramOK
  <2> QED BY <1>1, <2>1, Names DEF NamesBody, Program
<1> HIDE DEF P, s
<1>5. ASSUME NEW u \in User, NEW i \in DOMAIN P, Deactivates(P[i], u),
             Seen(o, Role(u, "ENTERPRISE"))' = "on"
      PROVE  /\ i < pc'[o] => \E j \in DOMAIN P :
                                 j < pc'[o] /\ P[j] = Upsert(Role(u, "ENTERPRISE"), "on")
             /\ i = pc'[o] /\ busy'[o] => Role(u, "ENTERPRISE") \in snap'[o]
  <2> DEFINE r == Role(u, "ENTERPRISE")
  <2>1. r \in Rows BY RowsOfTables DEF RowsOf, RoleCode
  <2>2. i \in Nat BY <1>4
  <2>3. CASE StartStatement(o)
    <3>1. /\ pend' = pend /\ pc' = pc
          /\ snap'[o] = IF Skipped(o, s) THEN {} ELSE Matching(o, s)
      BY <1>1, <2>3 DEF StartStatement, Snapshot, OwnTypes, s
    <3>2. Seen(o, r) = "on" BY <1>1, <1>5, <3>1 DEF Seen
    <3>3. ASSUME i = pc[o] PROVE r \in snap'[o]
      <4>1. s = P[i] BY <1>3, <3>3
      <4>2. r \in s.rows /\ "on" \in s.from /\ s.unless = {} BY <1>5, <4>1 DEF Deactivates
      <4> QED BY <3>1, <3>2, <4>2 DEF Matching, Skipped
    <3> QED BY <1>1, <1>5, <3>1, <3>2, <3>3 DEF DeactivatesFirst, P
  <2>4. CASE ApplyStatement(o)
    <3>1. /\ pend'[o][r] = IF r \in snap[o] /\ Seen(o, r) \in s.from THEN s.to ELSE pend[o][r]
          /\ pc'[o] = pc[o] + 1 /\ busy'[o] = FALSE /\ busy[o]
      <4>1. Row = Rows BY DEF Row, IInv, TypeOK
      <4> QED BY <1>1, <2>1, <2>4, <4>1 DEF ApplyStatement, Apply, OwnTypes, s
    <3>2. snap[o] \subseteq s.rows BY <1>1, <3>1 DEF Own, Snapshots, s
    <3>3. pc[o] < pc'[o] /\ (i < pc'[o] => i < pc[o] \/ i = pc[o]) BY <1>1, <2>2, <3>1
    <3>4. CASE r \in snap[o] /\ Seen(o, r) \in s.from
      <4>1. s.to = "on"
        <5>1. pend'[o][r] = s.to BY <3>1, <3>4
        <5>2. pend'[o][r] = NoWrite => s.to \notin Value
          BY <5>1, NoWriteIsNoValue
        <5>3. s.to \in Value
          <6>1. StatementOK(s) BY <1>1, <1>3, ProgramOK DEF PlaceOK, P
          <6> QED BY <3>2, <3>4, <6>1 DEF StatementOK
        <5> QED BY <1>5, <5>1, <5>2, <5>3 DEF Seen
      <4>2. s = Upsert(r, "on")
        <5>1. r \in s.rows BY <3>2, <3>4
        <5>2. NamesOK(stage[o], req[o], o, s) BY <1>3, <1>4
        <5>3. s.to = "off" \/ s = Upsert(r, "on") BY <5>1, <5>2 DEF NamesOK
        <5> QED BY <4>1, <5>3
      <4>3. pc[o] \in DOMAIN P /\ P[pc[o]] = Upsert(r, "on") BY <1>3, <4>2
      <4> QED BY <3>1, <3>3, <4>3
    <3>5. CASE ~(r \in snap[o] /\ Seen(o, r) \in s.from)
      <4>1. pend'[o][r] = pend[o][r] BY <3>1, <3>5
      <4>2. Seen(o, r) = "on" BY <1>1, <1>5, <4>1 DEF Seen
      <4>3. i # pc[o]
        <5> SUFFICES ASSUME i = pc[o] PROVE FALSE OBVIOUS
        <5>1. r \in snap[o] BY <1>1, <1>5, <3>1, <4>2 DEF DeactivatesFirst, P
        <5>2. s = P[i] BY <1>3
        <5>3. "on" \in s.from BY <1>5, <5>2 DEF Deactivates
        <5> QED BY <3>5, <4>2, <5>1, <5>3
      <4>4. ASSUME i < pc[o] PROVE \E j \in DOMAIN P : j < pc[o] /\ P[j] = Upsert(r, "on")
        BY <1>1, <1>5, <4>2, <4>4 DEF DeactivatesFirst, P
      <4>5. \A j \in DOMAIN P : j < pc[o] => j < pc'[o]
        <5>1. \A j \in DOMAIN P : j \in Nat BY <1>4
        <5> QED BY <1>1, <3>1, <5>1
      <4> QED BY <3>1, <3>3, <4>3, <4>4, <4>5
    <3> QED BY <3>4, <3>5
  <2> QED BY <2>3, <2>4
<1>6. DeactivatesFirst(o)' BY <1>3, <1>5 DEF DeactivatesFirst, P
<1>7. BackedBy(o)' BY <1>2, <1>6 DEF BackedBy
<1> QED BY <1>1, <1>7, RestBacked

LEMMA EndBacked ==
    ASSUME IInv, IInv', BackedInv, Solo', NEW o \in Request,
           CommitTransaction(o) \/ AbortTransaction(o)
    PROVE  BackedInv'
<1> DEFINE q == req[o]
<1>1. /\ Mover(o) /\ stage[o] \in Transactions /\ stage'[o] \notin Transactions /\ ~Open(o)'
      /\ Own(o) /\ Committed(o) /\ Owns(o) /\ o \in InFlight /\ Open(o)
  BY EndStep DEF IInv, BackedInv, InFlight, Transactions
<1>2. ASSUME NEW u \in User, NEW k \in Request \ {o}, db'[Sub(u, k)] # Absent
      PROVE  db[Sub(u, k)] # Absent
  <2>1. CASE CommitTransaction(o) BY <1>2, <2>1, OtherSubsStay DEF Key
  <2>2. CASE AbortTransaction(o) BY <1>2, <2>2 DEF AbortTransaction, Abort
  <2> QED BY <2>1, <2>2
<1>3. ASSUME NEW u \in User, db'[Sub(u, o)] # Absent PROVE req'[o].user = u
  <2>1. Sub(u, o) \in Rows /\ o \in Key BY RowsOfTables DEF RowsOf, Key
  <2>2. CASE CommitTransaction(o)
    <3>1. db'[Sub(u, o)] = Seen(o, Sub(u, o)) BY <2>1, <2>2, CommittedRows DEF Seen
    <3>2. q.user = u
      <4>1. CASE db[Sub(u, o)] # Absent BY <1>1, <4>1 DEF Owns
      <4>2. CASE db[Sub(u, o)] = Absent
        <5>1. pend[o][Sub(u, o)] # NoWrite BY <1>3, <3>1, <4>2 DEF Seen
        <5> QED BY <1>1, <2>1, <5>1, Names DEF NamesOK
      <4> QED BY <4>1, <4>2
    <3>3. Proceed(o, AfterCommit(q, stage[o]), Seen(o, Sub(q.user, o)) # Absent)
      BY <2>2 DEF CommitTransaction
    <3>4. Seen(o, Sub(q.user, o)) # Absent BY <1>3, <3>1, <3>2
    <3> QED BY <3>2, <3>3, <3>4, ProceedStep
  <2>3. CASE AbortTransaction(o)
    <3>1. db[Sub(u, o)] # Absent BY <1>3, <2>3 DEF AbortTransaction, Abort
    <3>2. q.user = u /\ Created(o) BY <1>1, <3>1 DEF Owns, Created
    <3>3. Proceed(o, AfterAbort(q, stage[o]), Created(o)) BY <2>3 DEF AbortTransaction
    <3> QED BY <3>2, <3>3, ProceedStep
  <2> QED BY <2>2, <2>3
<1>4. RoleOfPlan(o)' BY <1>1 DEF RoleOfPlan, Granting, Transactions
<1>5. BackedBy(o)' BY <1>1, <1>3, <1>4 DEF BackedBy, Owns
<1> QED BY <1>1, <1>2, <1>5, RestBacked

\* The rows that registrations and sessions leave alone.
LEMMA TablesKeep ==
    ASSUME IInv,
           \/ \E u \in User : Register(u)
           \/ \E s \in CheckoutSession, u \in User :
                  CreatePaidCheckoutSession(s, u) \/ AssignPaymentLink(s, u)
           \/ UNCHANGED vars
    PROVE  \A v \in User : /\ \A k \in Key : db'[Sub(v, k)] = db[Sub(v, k)]
                           /\ db'[Role(v, "ENTERPRISE")] = db[Role(v, "ENTERPRISE")]
<1>1. db \in [Rows -> Value] BY DEF IInv, TypeOK
<1>2. \/ db' = db
      \/ \E u \in User : \E i \in Otp : db' = [db EXCEPT ![Code(u, i)] = "on"]
      \/ \E u \in User : \E s \in CheckoutSession : db' = [db EXCEPT ![Assign(u, s)] = "PENDING"]
  BY DEF Register, CreatePaidCheckoutSession, AssignPaymentLink, vars, dbVars
<1>3. ASSUME NEW v \in User, NEW k \in Key
      PROVE  db'[Sub(v, k)] = db[Sub(v, k)] /\ db'[Role(v, "ENTERPRISE")] = db[Role(v, "ENTERPRISE")]
  <2>1. Sub(v, k) \in Rows /\ Role(v, "ENTERPRISE") \in Rows
    BY RowsOfTables DEF RowsOf, RoleCode
  <2>2. \A u, i : /\ Code(u, i) # Sub(v, k) /\ Code(u, i) # Role(v, "ENTERPRISE")
                  /\ Assign(u, i) # Sub(v, k) /\ Assign(u, i) # Role(v, "ENTERPRISE")
    BY RowsDiffer, OtherTables
  <2> QED BY <1>1, <1>2, <2>1, <2>2
<1> QED BY <1>3 DEF Key

LEMMA TablesBacked ==
    ASSUME IInv, BackedInv, Solo', UNCHANGED <<pend, snap, busy, pc, req, stage>>,
           \A v \in User : /\ \A k \in Key : db'[Sub(v, k)] = db[Sub(v, k)]
                           /\ db'[Role(v, "ENTERPRISE")] = db[Role(v, "ENTERPRISE")]
    PROVE  BackedInv'
<1>1. ASSUME NEW x \in Request PROVE BackedBy(x)'
  <2>1. Own(x) /\ Owns(x) /\ RoleOfPlan(x) /\ (Open(x) => DeactivatesFirst(x)) BY DEF IInv, BackedInv
  <2>2. Owns(x)' BY <2>1 DEF Owns, Key
  <2>3. RoleOfPlan(x)'
    <3>1. stage[x] = "resync" => req[x].user \in User BY <2>1 DEF Own, Arguments, ArgumentsOK
    <3> QED BY <2>1, <3>1 DEF RoleOfPlan, LiveSubs, PlanOf
  <2>4. Program(x)' = Program(x) BY DEF Program
  <2>5. \A u \in User : Seen(x, Role(u, "ENTERPRISE"))' = Seen(x, Role(u, "ENTERPRISE")) BY DEF Seen
  <2>6. (Open(x) => DeactivatesFirst(x))' BY <2>1, <2>4, <2>5 DEF DeactivatesFirst, Open
  <2> QED BY <2>2, <2>3, <2>6 DEF BackedBy
<1> QED BY <1>1 DEF BackedInv, BackedBy

LEMMA BackedStep ==
    ASSUME IInv, IInv', MaxInFlight = 1, BackedInv, [Next]_vars
    PROVE  BackedInv'
<1>1. Solo /\ Solo' BY SoloStep DEF BackedInv
<1>2. CASE \E o \in Request, u \in User : Arrived(o, u) /\ InFlight = {}
  <2>1. PICK o \in Request, u \in User : Arrived(o, u) /\ InFlight = {} BY <1>2
  <2>2. stage[o] = "idle" BY <2>1 DEF Arrived
  <2>3. PICK st, q : Enter(o, st, q) /\ Asked(st, q) BY <2>1 DEF Arrived
  <2> QED BY <1>1, <2>1, <2>2, <2>3, EnterBacked DEF Asked
<1>3. ASSUME NEW o \in InFlight, Run(o) PROVE BackedInv'
  <2>1. o \in Request BY DEF InFlight
  <2> QED BY <1>1, <1>3, <2>1, StatementBacked, EndBacked, BetweenBacked DEF Run
<1> QED BY <1>1, <1>2, <1>3, TablesKeep, TablesBacked, SoloMoves

LEMMA BackedInit ==
    ASSUME Init
    PROVE  BackedInv
<1>1. IInv BY InitInv
<1>2. stage = [o \in Request |-> "idle"] BY DEF Init
<1>3. Solo BY <1>2 DEF Solo, InFlight
<1>4. ASSUME NEW o \in Request PROVE BackedBy(o)
  <2>1. stage[o] = "idle" BY <1>2
  <2>2. Owns(o) BY <1>1, <2>1 DEF IInv, Committed, OwnRows, Fresh, Owns
  <2>3. ~Open(o) BY <1>1, <2>1 DEF IInv, Own, Transactional, Transactions
  <2>4. RoleOfPlan(o) BY <2>1 DEF RoleOfPlan, Granting
  <2> QED BY <2>2, <2>3, <2>4 DEF BackedBy
<1> QED BY <1>3, <1>4 DEF BackedInv, BackedBy

\* The plan of a subscription that is there does not change.
LEMMA PlansStay ==
    ASSUME IInv, BackedInv, MaxInFlight = 1, [Next]_vars, NEW u \in User, NEW k \in Key,
           db[Sub(u, k)] # Absent
    PROVE  PlanOf(k)' = PlanOf(k)
<1>1. CASE k = Signup BY <1>1 DEF PlanOf
<1>2. CASE k # Signup
  <2>1. k \in Request /\ req[k].user = u /\ stage[k] \notin Fresh
    BY <1>2 DEF Key, BackedInv, Owns, IInv, Committed, OwnRows
  <2>2. ASSUME NEW o \in Request, NEW st, NEW q, Enter(o, st, q),
               stage[o] \in Fresh \/ q.plan = req[o].plan
        PROVE  req'[k].plan = req[k].plan
    <3>1. req'[o] = q /\ Mover(o) BY <2>2, EnterStep
    <3>2. CASE k = o BY <2>1, <2>2, <3>1, <3>2
    <3>3. CASE k # o BY <2>1, <3>1, <3>3 DEF Mover, Kept
    <3> QED BY <3>2, <3>3
  <2>3. ASSUME NEW o \in Request, NEW v \in User, Arrived(o, v)
        PROVE  req'[k].plan = req[k].plan
    <3>1. PICK st, q : Enter(o, st, q) BY <2>3 DEF Arrived
    <3>2. stage[o] \in Fresh BY <2>3 DEF Arrived, Fresh
    <3> QED BY <2>2, <3>1, <3>2
  <2>4. ASSUME NEW o \in InFlight, Run(o), Mover(o) PROVE req'[k].plan = req[k].plan
    <3>1. o \in Request /\ req[o] \in Requests BY DEF InFlight, IInv, TypeOK
    <3>2. CASE EnsureFreePlanForUser(o) \/ AddStudentRole(o)
      <4>1. CASE Enter(o, "addStudent", req[o]) BY <2>2, <3>1, <4>1
      <4>2. CASE stage[o] = "ensure" /\ \E q : Enter(o, "activateFree", q)
        BY <2>2, <3>1, <4>2 DEF Fresh
      <4> QED BY <3>2, <4>1, <4>2 DEF EnsureFreePlanForUser, AddStudentRole
    <3>3. CASE SyncRoleFromActiveSubscription(o)
      <4>1. CASE \E role : Enter(o, "resync", [req[o] EXCEPT !.role = role])
        <5>1. PICK role : Enter(o, "resync", [req[o] EXCEPT !.role = role]) BY <4>1
        <5>2. [req[o] EXCEPT !.role = role].plan = req[o].plan BY <3>1 DEF Requests
        <5> QED BY <2>2, <3>1, <5>1, <5>2
      <4>2. CASE Proceed(o, "done", Created(o))
        <5>1. k = o => Created(o) BY <2>1 DEF Created
        <5> QED BY <2>1, <3>1, <4>2, <5>1, ProceedStep
      <4> QED BY <3>3, <4>1, <4>2 DEF SyncRoleFromActiveSubscription
    <3>4. CASE StartStatement(o) \/ ApplyStatement(o) BY <3>1, <3>4, StatementStep
    <3>5. CASE CommitTransaction(o)
      <4>1. Proceed(o, AfterCommit(req[o], stage[o]), Seen(o, Sub(req[o].user, o)) # Absent)
        BY <3>5 DEF CommitTransaction
      <4>2. pend[o][Sub(u, k)] # Absent BY <3>1 DEF IInv, Committed, OwnRows
      <4>3. k = o => Seen(o, Sub(req[o].user, o)) # Absent BY <2>1, <4>2 DEF Seen
      <4> QED BY <2>1, <3>1, <4>1, <4>3, ProceedStep
    <3>6. CASE AbortTransaction(o)
      <4>1. Proceed(o, AfterAbort(req[o], stage[o]), Created(o)) BY <3>6 DEF AbortTransaction
      <4>2. k = o => Created(o) BY <2>1 DEF Created
      <4> QED BY <2>1, <3>1, <4>1, <4>2, ProceedStep
    <3> QED BY <2>4, <3>2, <3>3, <3>4, <3>5, <3>6 DEF Run
  <2>5. req'[k].plan = req[k].plan
    BY <2>3, <2>4, SoloMoves DEF BackedInv
  <2> QED BY <1>2, <2>5 DEF PlanOf
<1> QED BY <1>1, <1>2

LEMMA Backing == \A p : TargetRole(p) = "ENTERPRISE" <=> p \in B2BPlan
BY DEF TargetRole

\* What backs the role before a step that leaves subscriptions and role alone, backs it after.
LEMMA StillBacked ==
    ASSUME IInv, BackedInv, MaxInFlight = 1, [Next]_vars, NEW u \in User, EnterpriseBacked(u),
           db'[Role(u, "ENTERPRISE")] = db[Role(u, "ENTERPRISE")],
           \A k \in Key : db[Sub(u, k)] # Absent => db'[Sub(u, k)] = db[Sub(u, k)]
    PROVE  EnterpriseBacked(u)'
<1> SUFFICES ASSUME "ENTERPRISE" \in ActiveRoles(u)' PROVE \E k \in LiveSubs(u)' : PlanOf(k)' \in B2BPlan
  BY DEF EnterpriseBacked
<1>1. "ENTERPRISE" \in ActiveRoles(u) BY DEF ActiveRoles
<1>2. PICK k \in LiveSubs(u) : PlanOf(k) \in B2BPlan BY <1>1 DEF EnterpriseBacked
<1>3. k \in Key /\ db[Sub(u, k)] \in LiveStatus BY <1>2 DEF LiveSubs
<1>4. db[Sub(u, k)] # Absent BY <1>3 DEF LiveStatus, Absent
<1>5. k \in LiveSubs(u)' BY <1>3, <1>4 DEF LiveSubs
<1>6. PlanOf(k)' = PlanOf(k) BY <1>3, <1>4, PlansStay
<1> QED BY <1>2, <1>5, <1>6

\* A commit that gives the ENTERPRISE role has its plan's subscription.
LEMMA CommitBacks ==
    ASSUME IInv, BackedInv, MaxInFlight = 1, NEW o \in Request, CommitTransaction(o), [Next]_vars,
           stage[o] # "suspend", NEW u \in User, EnterpriseBacked(u)
    PROVE  EnterpriseBacked(u)'
<1> DEFINE q == req[o]
           st == stage[o]
           r == Role(u, "ENTERPRISE")
           N(i) == NamesOK(st, q, o, Program(o)[i])
<1>1. /\ Own(o) /\ Committed(o) /\ Open(o) /\ RoleOfPlan(o) /\ DeactivatesFirst(o) /\ o \in Key
      /\ pc[o] = Len(Program(o)) + 1 /\ st \in Transactions /\ NamesBody(st, q, o)
  BY Names, EndStep DEF IInv, BackedInv, CommitTransaction, Key
<1>2. r \in Rows /\ \A k \in Key : Sub(u, k) \in Rows BY RowsOfTables DEF RowsOf, RoleCode
<1>3. ASSUME \A i \in DOMAIN Program(o) : N(i) => r \notin Program(o)[i].rows
      PROVE  db'[r] = db[r]
  BY <1>2, <1>3, Untouched
<1>4. ASSUME NEW k \in Key, \A i \in DOMAIN Program(o) : N(i) => Sub(u, k) \notin Program(o)[i].rows
      PROVE  db'[Sub(u, k)] = db[Sub(u, k)]
  BY <1>2, <1>4, Untouched
<1>5. CASE u # q.user \/ Plain(st, q)
  <2>1. db'[r] = db[r] BY <1>3, <1>5 DEF NamesOK
  <2>2. \A k \in Key : db'[Sub(u, k)] = db[Sub(u, k)] BY <1>4, <1>5 DEF NamesOK
  <2> QED BY <2>1, <2>2, StillBacked
<1>6. CASE st = "restore"
  <2>1. db'[r] = db[r] BY <1>3, <1>6 DEF NamesOK
  <2>2. \A k \in Key \ {o} : db'[Sub(u, k)] = db[Sub(u, k)] BY <1>4, <1>6 DEF NamesOK
  <2>3. db[Sub(u, o)] = Absent BY <1>1, <1>6 DEF Committed, OwnRows, Fresh
  <2> QED BY <2>1, <2>2, <2>3, StillBacked
<1>7. CASE u = q.user /\ ~Plain(st, q) /\ st # "restore"
  <2> SUFFICES ASSUME db'[r] = "on" PROVE \E k \in LiveSubs(u)' : PlanOf(k)' \in B2BPlan
    BY DEF EnterpriseBacked, ActiveRoles
  <2>1. DOMAIN Program(o) = 1..Len(Program(o)) /\ Len(Program(o)) \in Nat BY <1>1, ProgramOK
  <2>2. PICK i \in DOMAIN Program(o) : Deactivates(Program(o)[i], u)
    BY <1>1, <1>7 DEF NamesBody, Program
  <2>3. Seen(o, r) = "on" BY <1>2, CommittedRows DEF Seen
  <2>4. i < pc[o] BY <1>1, <2>1, <2>2
  <2>5. PICK j \in DOMAIN Program(o) : Program(o)[j] = Upsert(r, "on")
    BY <1>1, <2>2, <2>3, <2>4 DEF DeactivatesFirst
  <2>6. N(j) BY <1>1 DEF NamesBody, Program
  <2>7. r \in Program(o)[j].rows /\ Program(o)[j].to = "on" BY <2>5
  <2>8. q.role = "ENTERPRISE" /\ st \in Granting \cup {"resync"} BY <2>6, <2>7 DEF NamesOK
  <2>9. CASE st = "resync"
    <3>1. PICK k \in LiveSubs(u) : q.role = TargetRole(PlanOf(k)) BY <1>1, <1>7, <2>9 DEF RoleOfPlan
    <3>2. k \in Key /\ db[Sub(u, k)] \in LiveStatus BY <3>1 DEF LiveSubs
    <3>3. db[Sub(u, k)] # Absent BY <3>2 DEF LiveStatus, Absent
    <3>4. db'[Sub(u, k)] = db[Sub(u, k)] BY <1>4, <2>9, <3>2 DEF NamesOK
    <3>5. k \in LiveSubs(u)' BY <3>2, <3>4 DEF LiveSubs
    <3>6. PlanOf(k) \in B2BPlan BY <2>8, <3>1, Backing
    <3> QED BY <3>2, <3>3, <3>5, <3>6, PlansStay
  <2>10. CASE st \in Granting
    <3>1. q.plan \in B2BPlan
      BY <1>1, <1>7, <2>8, <2>10, Backing DEF RoleOfPlan, Plain
    <3>2. HasCreated(o, u)
      <4>1. PICK d \in DOMAIN Program(o) : Creates(Program(o)[d], u, o)
        BY <1>7, <2>10, GrantingCreates DEF Program
      <4>2. d < pc[o] BY <1>1, <2>1, <4>1
      <4> QED BY <4>1, <4>2 DEF HasCreated
    <3>3. pend[o][Sub(u, o)] \in LiveStatus BY <1>1, <2>10, <3>2 DEF Own, CreatedLive
    <3>4. pend[o][Sub(u, o)] \notin {NoWrite, Absent} BY <3>3 DEF LiveStatus, NoWrite, Absent
    <3>5. db'[Sub(u, o)] \in LiveStatus BY <1>1, <1>2, <3>3, <3>4, CommittedRows
    <3>6. o \in LiveSubs(u)' BY <1>1, <3>5 DEF LiveSubs
    <3>7. Seen(o, Sub(q.user, o)) # Absent BY <1>7, <3>4 DEF Seen
    <3>8. req'[o].plan = q.plan BY <3>7, ProceedStep DEF CommitTransaction
    <3>9. PlanOf(o)' = q.plan BY <3>8, RequestAssumption DEF PlanOf
    <3> QED BY <3>1, <3>6, <3>9
  <2> QED BY <2>8, <2>9, <2>10
<1> QED BY <1>5, <1>6, <1>7

(* While requests do not overlap, the ENTERPRISE role is on only beside a live B2B
   subscription; a suspension alone, which closes subscriptions and leaves the
   roles on, takes it away (user-management.service.ts:409-443).             *)
THEOREM EnterpriseStaysBacked ==
    ASSUME MaxInFlight = 1
    PROVE  Spec => OnlySuspensionUnbacksEnterprise
<1> DEFINE A == \A u \in User :
                  ~EnterpriseBacked(u)' =>
                      ~EnterpriseBacked(u) \/ \E o \in Request : Commits(o, "suspend")
<1>1. IInv /\ BackedInv /\ [Next]_vars => A
  <2> SUFFICES ASSUME IInv, BackedInv, [Next]_vars, NEW u \in User, EnterpriseBacked(u),
                      \A o \in Request : ~Commits(o, "suspend")
               PROVE  EnterpriseBacked(u)'
    OBVIOUS
  <2>1. ASSUME NEW o \in Request, CommitTransaction(o) PROVE EnterpriseBacked(u)'
    <3>1. stage[o] # "suspend" BY <2>1 DEF Commits
    <3> QED BY <2>1, <3>1, CommitBacks
  <2>2. CASE db' = db BY <2>2, StillBacked
  <2>3. CASE \E o \in Request, v \in User : Arrived(o, v)
    BY <2>2, <2>3, EnterStep DEF Arrived
  <2>4. ASSUME NEW o \in InFlight, Run(o) PROVE EnterpriseBacked(u)'
    <3>1. o \in Request BY DEF InFlight
    <3>2. CASE EnsureFreePlanForUser(o) \/ AddStudentRole(o) \/ SyncRoleFromActiveSubscription(o)
      BY <2>2, <3>1, <3>2, BetweenStep
    <3>3. CASE StartStatement(o) \/ ApplyStatement(o) BY <2>2, <3>1, <3>3, StatementStep
    <3>4. CASE AbortTransaction(o) BY <2>2, <3>4 DEF AbortTransaction, Abort
    <3> QED BY <2>1, <2>4, <3>1, <3>2, <3>3, <3>4 DEF Run
  <2>5. CASE \/ \E v \in User : Register(v)
             \/ \E s \in CheckoutSession, v \in User :
                    CreatePaidCheckoutSession(s, v) \/ AssignPaymentLink(s, v)
             \/ UNCHANGED vars
    BY <2>5, TablesKeep, StillBacked
  <2> QED BY <2>3, <2>4, <2>5, SoloMoves DEF BackedInv
<1>2. Init => BackedInv BY BackedInit
<1>3. IInv /\ IInv' /\ BackedInv /\ [Next]_vars => BackedInv' BY BackedStep
<1>4. IInv /\ BackedInv /\ [Next]_vars => [A]_vars BY <1>1
<1> QED BY <1>2, <1>3, <1>4, Inductive, PTL DEF Spec, OnlySuspensionUnbacksEnterprise

----------------------------------------------------------------------------
(* The services keep Ledger.  First, what the bodies do to the pair of a
   subscription and its entitlement.                                         *)

\* What the proof needs of the statement at place i of the body P of stage st.
PairPlace(st, q, P, o, i) ==
    LET s == P[i] IN
    /\ \A u \in User, k \in Key :
          Sub(u, k) \in s.rows /\ s.to \in LiveStatus =>
             k = o /\ Creates(s, u, o) /\ st \in Granting \cup {"restore"}
    /\ \A u \in User, k \in Key :
          Ent(u, k) \in s.rows => u = q.user /\ st \notin {"suspend", "restore"}
    /\ \A u \in User, k \in Key :
          Ent(u, k) \in s.rows /\ Absent \in s.from =>
             /\ k = o /\ s.rows = {Ent(u, o)} /\ s.from = {Absent} /\ s.to = "ACTIVE"
             /\ s.unless = {}
             /\ \A j \in DOMAIN P : j > i => Ent(u, o) \notin P[j].rows
    /\ \A u \in User :
          Creates(s, u, o) /\ st \in Granting => \E j \in DOMAIN P : Entitles(P[j], u, o)

PairsOK(st, q, o) ==
    \A i \in DOMAIN Body(st, q, o) : PairPlace(st, q, Body(st, q, o), o, i)

\* A statement on other tables, or one that makes no subscription live.
Aside(s) ==
    \A u, k : Ent(u, k) \notin s.rows /\ (Sub(u, k) \in s.rows => s.to \notin LiveStatus)

LEMMA Asides ==
    ASSUME NEW v, NEW s
    PROVE  /\ s.rows \in {{}, Roles(v), {Status(v)}, {Verified(v)}, {Provider(v)}} => Aside(s)
           /\ \A k : s.rows \in {{Role(v, k)}, {Assign(v, k)}, {Code(v, k)}} => Aside(s)
           /\ s.rows \subseteq Subs(v) /\ s.to \in {"CANCELED", "EXPIRED"} => Aside(s)
<1>1. ASSUME s.rows \in {{}, Roles(v), {Status(v)}, {Verified(v)}, {Provider(v)}} PROVE Aside(s)
  <2>1. \A u, k : Sub(u, k) \notin Roles(v) /\ Ent(u, k) \notin Roles(v) BY RowsDiffer DEF Roles
  <2> QED BY <1>1, <2>1, RowsDiffer DEF Aside
<1>2. ASSUME NEW k, s.rows \in {{Role(v, k)}, {Assign(v, k)}, {Code(v, k)}} PROVE Aside(s)
  BY <1>2, RowsDiffer DEF Aside
<1>3. ASSUME s.rows \subseteq Subs(v), s.to \in {"CANCELED", "EXPIRED"} PROVE Aside(s)
  <2>1. \A u, k : Ent(u, k) \notin Subs(v) BY RowsDiffer DEF Subs
  <2> QED BY <1>3, <2>1 DEF Aside, LiveStatus
<1> QED BY <1>1, <1>2, <1>3

LEMMA AsidePlace ==
    ASSUME NEW st, NEW q, NEW P, NEW o \in Request, NEW i, PlaceOK(st, P, o, i), Aside(P[i])
    PROVE  PairPlace(st, q, P, o, i)
<1>1. \A u \in User : ~Creates(P[i], u, o) BY DEF PlaceOK, Aside, Creates
<1> QED BY <1>1 DEF PairPlace, Aside

LEMMA RevokePlace ==
    ASSUME NEW st, st \notin {"suspend", "restore"}, NEW q, NEW P, NEW o \in Request, NEW i,
           P[i] = RevokeEntitlements(q.user)
    PROVE  PairPlace(st, q, P, o, i)
<1>1. P[i].rows = Ents(q.user) /\ P[i].from = {"ACTIVE"} OBVIOUS
<1>2. \A u, k : Sub(u, k) \notin Ents(q.user) /\ (Ent(u, k) \in Ents(q.user) => u = q.user)
  BY RowsDiffer DEF Ents
<1> QED BY <1>1, <1>2 DEF PairPlace, Creates, Absent

\* A body that grants: the pair is inserted, and what is revoked, before that.
LEMMA GrantingPlaces ==
    ASSUME NEW st \in Granting, NEW q, q.user \in User, NEW o \in Request, BodyOK(st, q, o),
           NEW P, P = Body(st, q, o), DOMAIN P \subseteq Nat,
           NEW c \in DOMAIN P, NEW e \in DOMAIN P,
           NEW v \in LiveStatus, P[c] = Create(Sub(q.user, o), v),
           P[e] = Create(Ent(q.user, o), "ACTIVE"),
           \A i \in DOMAIN P \ {c, e} :
              Aside(P[i]) \/ (i < e /\ P[i] = RevokeEntitlements(q.user)),
           c < e
    PROVE  PairsOK(st, q, o)
<1> DEFINE u == q.user
<1>1. st \notin {"suspend", "restore"} BY DEF Granting
<1>2. P[c].rows = {Sub(u, o)} /\ P[c].from = {Absent} /\ P[c].to = v OBVIOUS
<1>3. /\ P[e].rows = {Ent(u, o)} /\ P[e].from = {Absent} /\ P[e].to = "ACTIVE"
      /\ P[e].unless = {}
  OBVIOUS
<1>4. Entitles(P[e], u, o) BY <1>3 DEF Entitles
<1>5. PairPlace(st, q, P, o, c)
  <2>1. \A w, k : Ent(w, k) \notin P[c].rows /\ (Sub(w, k) \in P[c].rows => w = u /\ k = o)
    BY <1>2, RowsDiffer
  <2>2. Creates(P[c], u, o) BY <1>2 DEF Creates
  <2>3. \A w : Creates(P[c], w, o) => w = u BY <2>1 DEF Creates
  <2>4. \A w \in User : Creates(P[c], w, o) => \E j \in DOMAIN P : Entitles(P[j], w, o)
    BY <1>4, <2>3
  <2>5. \A w \in User, k \in Key :
           Sub(w, k) \in P[c].rows => k = o /\ Creates(P[c], w, o)
    BY <2>1, <2>2
  <2> QED BY <2>1, <2>4, <2>5 DEF PairPlace
<1>6. PairPlace(st, q, P, o, e)
  <2>1. \A w, k : Sub(w, k) \notin P[e].rows /\ (Ent(w, k) \in P[e].rows => w = u /\ k = o)
    BY <1>3, RowsDiffer
  <2>2. ASSUME NEW j \in DOMAIN P, j > e PROVE Ent(u, o) \notin P[j].rows
    <3>1. j # c /\ j # e /\ ~(j < e) BY <2>2
    <3> QED BY <3>1 DEF Aside
  <2> QED BY <1>1, <1>3, <2>1, <2>2 DEF PairPlace, Creates
<1>7. ASSUME NEW i \in DOMAIN P \ {c, e} PROVE PairPlace(st, q, P, o, i)
  <2>1. PlaceOK(st, P, o, i) BY DEF BodyOK
  <2> QED BY <1>1, <2>1, AsidePlace, RevokePlace
<1> QED BY <1>5, <1>6, <1>7 DEF PairsOK

\* A body that inserts neither.
LEMMA OtherPlaces ==
    ASSUME NEW st, NEW q, NEW o \in Request, BodyOK(st, q, o),
           \A i \in DOMAIN Body(st, q, o) :
              \/ Aside(Body(st, q, o)[i])
              \/ st \notin {"suspend", "restore"} /\ Body(st, q, o)[i] = RevokeEntitlements(q.user)
    PROVE  PairsOK(st, q, o)
<1> DEFINE P == Body(st, q, o)
<1>1. ASSUME NEW i \in DOMAIN P PROVE PairPlace(st, q, P, o, i)
  <2>1. PlaceOK(st, P, o, i) BY DEF BodyOK
  <2>2. Aside(P[i]) \/ (st \notin {"suspend", "restore"} /\ P[i] = RevokeEntitlements(q.user))
    OBVIOUS
  <2> HIDE DEF P
  <2> QED BY <2>1, <2>2, AsidePlace, RevokePlace
<1> QED BY <1>1 DEF PairsOK

\* The statements of the user's bodies that are aside.
LEMMA AsideStatements ==
    ASSUME NEW u, NEW q, NEW o
    PROVE  \A s :
              /\ s.rows \in {{}, Roles(u), {Status(u)}, {Verified(u)}, {Provider(u)}} => Aside(s)
              /\ s.rows \in {{Role(u, q.role)}, {Role(u, "STUDENT")}, {Code(u, q.code)},
                             {Assign(u, q.session)}, {Assign(u, o)}} => Aside(s)
              /\ s.rows \subseteq Subs(u) /\ s.to \in {"CANCELED", "EXPIRED"} => Aside(s)
<1> TAKE s
<1>1. \A k : s.rows \in {{Role(u, k)}, {Assign(u, k)}, {Code(u, k)}} => Aside(s) BY Asides
<1>2. /\ s.rows \in {{}, Roles(u), {Status(u)}, {Verified(u)}, {Provider(u)}} => Aside(s)
      /\ s.rows \subseteq Subs(u) /\ s.to \in {"CANCELED", "EXPIRED"} => Aside(s)
  BY Asides
<1> QED BY <1>1, <1>2

LEMMA GrantingPairs ==
    ASSUME NEW st \in Granting, NEW q, NEW o \in Request, ArgumentsOK(st, q), ~Plain(st, q)
    PROVE  PairsOK(st, q, o)
<1> DEFINE u == q.user
           P == Body(st, q, o)
           A(i) == Aside(P[i]) \/ (P[i] = RevokeEntitlements(u))
<1>1. st \in Transactions BY DEF Granting, Transactions
<1>2. u \in User /\ BodyOK(st, q, o) BY <1>1, Bodies DEF ArgumentsOK, Granting
<1>3. st \in {"checkout", "assignPurchaseOrder"} => q.status \in LiveStatus
  BY DEF ArgumentsOK
<1>4. "ACTIVE" \in LiveStatus BY DEF LiveStatus
<1>5. CASE st = "activateFree"
  <2>1. /\ DOMAIN P = 1..4
        /\ P[1] = Create(Sub(u, o), "ACTIVE") /\ P[2] = Create(Ent(u, o), "ACTIVE")
        /\ P[3].rows = Roles(u) /\ P[4].rows = {Role(u, q.role)}
    BY <1>5 DEF ActivateFree, Body
  <2>2. Aside(P[3]) /\ Aside(P[4])
    <3> HIDE DEF P
    <3> QED BY <2>1, AsideStatements
  <2> QED BY <1>2, <1>4, <2>1, <2>2, GrantingPlaces
<1>6. CASE st = "checkout"
  <2>1. /\ DOMAIN P = 1..5
        /\ P[1] = Create(Sub(u, o), q.status) /\ P[2].rows = {Assign(u, q.session)}
        /\ P[3] = Create(Ent(u, o), "ACTIVE")
        /\ P[4].rows = Roles(u) /\ P[5].rows = {Role(u, q.role)}
    BY <1>6 DEF Checkout, Body
  <2>2. Aside(P[2]) /\ Aside(P[4]) /\ Aside(P[5])
    <3> HIDE DEF P
    <3> QED BY <2>1, AsideStatements
  <2> QED BY <1>2, <1>3, <1>6, <2>1, <2>2, GrantingPlaces
<1>7. CASE st = "assignManually"
  <2>1. /\ DOMAIN P = 1..6
        /\ P[1].rows = Subs(u) /\ P[1].to = "CANCELED" /\ P[2] = RevokeEntitlements(u)
        /\ P[3] = Create(Sub(u, o), "ACTIVE") /\ P[4] = Create(Ent(u, o), "ACTIVE")
        /\ P[5].rows = Roles(u) /\ P[6].rows = {Role(u, q.role)}
    BY <1>7 DEF AssignManually, Body
  <2>2. Aside(P[1]) /\ Aside(P[5]) /\ Aside(P[6])
    <3> HIDE DEF P
    <3> QED BY <2>1, AsideStatements
  <2> QED BY <1>2, <1>4, <2>1, <2>2, GrantingPlaces
<1>8. CASE st = "assignPurchaseOrder"
  <2>1. /\ DOMAIN P = 1..7
        /\ P[1].rows = Subs(u) /\ P[1].to = "CANCELED" /\ P[2] = RevokeEntitlements(u)
        /\ P[3] = Create(Sub(u, o), q.status) /\ P[4].rows = {Assign(u, o)}
        /\ P[5] = Create(Ent(u, o), "ACTIVE")
        /\ P[6].rows = Roles(u) /\ P[7].rows = {Role(u, q.role)}
    BY <1>8 DEF AssignPurchaseOrder, Body
  <2>2. Aside(P[1]) /\ Aside(P[4]) /\ Aside(P[6]) /\ Aside(P[7])
    <3> HIDE DEF P
    <3> QED BY <2>1, AsideStatements
  <2> QED BY <1>2, <1>3, <1>8, <2>1, <2>2, GrantingPlaces
<1>9. CASE st = "updateSubscription"
  <2>1. /\ DOMAIN P = 1..6
        /\ P[1].rows = (IF q.target = None THEN {} ELSE {Sub(u, q.target)})
        /\ P[1].to = "EXPIRED"
        /\ P[2] = Create(Sub(u, o), "ACTIVE") /\ P[3] = RevokeEntitlements(u)
        /\ P[4] = Create(Ent(u, o), "ACTIVE")
        /\ P[5].rows = Roles(u) /\ P[6].rows = {Role(u, q.role)}
    BY <1>9 DEF UpdateSubscription, Body
  <2>2. Aside(P[1]) /\ Aside(P[5]) /\ Aside(P[6])
    <3>1. q.target \in Key \cup {None} BY <1>9 DEF ArgumentsOK
    <3> HIDE DEF P
    <3>2. P[1].rows \subseteq Subs(u) BY <2>1, <3>1 DEF Subs
    <3> QED BY <2>1, <3>2, AsideStatements
  <2> QED BY <1>2, <1>4, <2>1, <2>2, GrantingPlaces
<1>10. CASE st = "update"
  <2>1. q.plan # None BY <1>10 DEF Plain
  <2>2. /\ DOMAIN P = 1..7
        /\ P[1].rows = Subs(u) /\ P[1].to = "EXPIRED" /\ P[2] = Create(Sub(u, o), "ACTIVE")
        /\ P[3] = RevokeEntitlements(u) /\ P[4] = Create(Ent(u, o), "ACTIVE")
        /\ P[5].rows = Roles(u) /\ P[6].rows = {Role(u, q.role)}
        /\ P[7].rows \in {{}, {Status(u)}}
    BY <1>10, <2>1 DEF Update, WriteStatus, Body
  <2>3. Aside(P[1]) /\ Aside(P[5]) /\ Aside(P[6]) /\ Aside(P[7])
    <3> HIDE DEF P
    <3> QED BY <2>2, AsideStatements
  <2> QED BY <1>2, <1>4, <2>2, <2>3, GrantingPlaces
<1> QED BY <1>5, <1>6, <1>7, <1>8, <1>9, <1>10 DEF Granting

LEMMA OtherPairs ==
    ASSUME NEW st \in Transactions, NEW q, NEW o \in Request, st \notin Granting \/ Plain(st, q),
           ArgumentsOK(st, q), st # "restore"
    PROVE  PairsOK(st, q, o)
<1> DEFINE u == q.user
           P == Body(st, q, o)
           Other(i) == \/ Aside(P[i])
                       \/ st \notin {"suspend", "restore"} /\ P[i] = RevokeEntitlements(u)
<1>1. BodyOK(st, q, o) BY Bodies
<1> SUFFICES \A i \in DOMAIN P : Other(i) BY <1>1, OtherPlaces
<1>2. CASE st = "linkAccount"
  <2>1. /\ DOMAIN P = 1..3 /\ P[1].rows = {Status(u)} /\ P[2].rows = {Verified(u)}
        /\ P[3].rows = {Provider(u)}
    BY <1>2 DEF LinkAccount, Body
  <2> HIDE DEF P
  <2> QED BY <2>1, AsideStatements
<1>3. CASE st = "verifyCode"
  <2>1. /\ DOMAIN P = 1..3 /\ P[1].rows = {Code(u, q.code)} /\ P[2].rows = {Status(u)}
        /\ P[3].rows = {Verified(u)}
    BY <1>3 DEF VerifyCode, Body
  <2> HIDE DEF P
  <2> QED BY <2>1, AsideStatements
<1>4. CASE st = "addStudent"
  <2>1. DOMAIN P = 1..1 /\ P[1].rows = {Role(u, "STUDENT")}
    BY <1>4 DEF AddStudent, Body
  <2> HIDE DEF P
  <2> QED BY <2>1, AsideStatements
<1>5. CASE st = "update"
  <2>1. q.plan = None BY <1>5 DEF Granting, Plain
  <2>2. DOMAIN P = 1..1 /\ P[1].rows \in {{}, {Status(u)}}
    BY <1>5, <2>1 DEF Update, WriteStatus, Body
  <2> HIDE DEF P
  <2> QED BY <2>2, AsideStatements
<1>6. CASE st = "resync"
  <2>1. DOMAIN P = 1..2 /\ P[1].rows = Roles(u) /\ P[2].rows = {Role(u, q.role)}
    BY <1>6 DEF Resync, Body
  <2> HIDE DEF P
  <2> QED BY <2>1, AsideStatements
<1>7. CASE st = "cancel"
  <2>1. /\ DOMAIN P = 1..3 /\ P[1].rows = {Sub(u, q.target)} /\ P[1].to = "CANCELED"
        /\ P[2] = RevokeEntitlements(u) /\ P[3].rows = Roles(u)
    BY <1>7 DEF Cancel, Body
  <2> HIDE DEF P
  <2>2. P[1].rows \subseteq Subs(u) BY <1>7, <2>1 DEF ArgumentsOK, Subs
  <2>3. Aside(P[1]) /\ Aside(P[3]) BY <2>1, <2>2, AsideStatements
  <2>4. Other(1) /\ Other(3) BY <2>3
  <2>5. Other(2) BY <1>7, <2>1
  <2>6. DOMAIN P = 1..3 BY <2>1
  <2> HIDE DEF Other
  <2> QED BY <2>4, <2>5, <2>6
<1>8. CASE st = "suspend"
  <2>1. /\ DOMAIN P = 1..2 /\ P[1].rows = {Status(u)}
        /\ P[2].rows = Subs(u) /\ P[2].to = "CANCELED"
    BY <1>8 DEF Suspend, Body
  <2> HIDE DEF P
  <2> QED BY <2>1, AsideStatements
<1>9. CASE st = "delete"
  <2>1. /\ DOMAIN P = 1..4 /\ P[1].rows = {Status(u)} /\ P[2].rows = Roles(u)
        /\ P[3].rows = Subs(u) /\ P[3].to = "CANCELED" /\ P[4] = RevokeEntitlements(u)
    BY <1>9 DEF Delete, Body
  <2> HIDE DEF P
  <2>2. Aside(P[1]) /\ Aside(P[2]) /\ Aside(P[3]) BY <2>1, AsideStatements
  <2>3. Other(1) /\ Other(2) /\ Other(3) BY <2>2
  <2>4. Other(4) BY <1>9, <2>1
  <2>5. DOMAIN P = 1..4 BY <2>1
  <2> HIDE DEF Other
  <2> QED BY <2>3, <2>4, <2>5
<1> QED
  BY <1>2, <1>3, <1>4, <1>5, <1>6, <1>7, <1>8, <1>9 DEF Granting, Transactions, Plain

\* An account that is restored gets a subscription without an entitlement.
LEMMA RestorePairs ==
    ASSUME NEW q, NEW o \in Request, ArgumentsOK("restore", q)
    PROVE  PairsOK("restore", q, o)
<1> DEFINE u == q.user
           P == Body("restore", q, o)
<1>1. BodyOK("restore", q, o) BY Bodies DEF Transactions
<1>2. /\ DOMAIN P = 1..2 /\ P[1].rows = {Status(u)}
      /\ P[2].rows = {Sub(u, o)} /\ P[2].from = {Absent}
  BY DEF Restore, Body
<1>3. PlaceOK("restore", P, o, 1) BY <1>1, <1>2 DEF BodyOK
<1> HIDE DEF P
<1>4. PairPlace("restore", q, P, o, 1) BY <1>2, <1>3, Asides, AsidePlace
<1>5. PairPlace("restore", q, P, o, 2)
  <2>1. \A w, k : Ent(w, k) \notin P[2].rows /\ (Sub(w, k) \in P[2].rows => w = u /\ k = o)
    BY <1>2, RowsDiffer
  <2>2. Creates(P[2], u, o) BY <1>2 DEF Creates
  <2>3. "restore" \notin Granting BY DEF Granting
  <2> QED BY <2>1, <2>2, <2>3 DEF PairPlace
<1> QED BY <1>2, <1>4, <1>5 DEF PairsOK, P

\* Of an open transaction.
LEMMA Pairs ==
    ASSUME NEW o \in Request, Own(o), Open(o), NEW i \in DOMAIN Program(o)
    PROVE  PairPlace(stage[o], req[o], Program(o), o, i)
<1>1. stage[o] \in Transactions /\ ArgumentsOK(stage[o], req[o])
  BY DEF Own, Transactional, Arguments
<1>2. PairsOK(stage[o], req[o], o) BY <1>1, GrantingPairs, OtherPairs, RestorePairs
<1> QED BY <1>2 DEF PairsOK, Program

----------------------------------------------------------------------------
(* LedgerInv is inductive.                                                   *)

LEMMA GrantedFrame ==
    ASSUME NEW x \in Request, Granted(x), Kept(x),
           \A u \in User, k \in Key :
              /\ pend[x][Sub(u, k)] # NoWrite => db'[Sub(u, k)] = db[Sub(u, k)]
              /\ pend[x][Ent(u, k)] # NoWrite => db'[Ent(u, k)] = db[Ent(u, k)]
    PROVE  Granted(x)'
<1>1. Program(x)' = Program(x) BY DEF Program, Kept
<1>2. CurrentStatement(x)' = CurrentStatement(x) BY <1>1 DEF CurrentStatement, Kept
<1>3. \A u \in User : HasCreated(x, u)' = HasCreated(x, u) BY <1>1 DEF HasCreated, Kept
<1>4. \A u \in User : HasEntitled(x, u)' = HasEntitled(x, u) BY <1>1 DEF HasEntitled, Kept
<1>5. LiveByInsert(x)' BY <1>3 DEF Granted, LiveByInsert, Closing, Kept
<1>6. RevokesGranted(x)' BY DEF Granted, RevokesGranted, Kept
<1>7. Entitled(x)' BY <1>2, <1>4 DEF Granted, Entitled, Kept
<1> QED BY <1>5, <1>6, <1>7 DEF Granted

\* A transaction that has not begun, or has ended.
LEMMA GrantedReset ==
    ASSUME NEW o \in Request, \A r \in Rows : pend'[o][r] = NoWrite, ~busy'[o],
           stage'[o] \in Granting => pc'[o] = 1
    PROVE  Granted(o)'
<1>1. \A u \in User, k \in Key : Sub(u, k) \in Rows /\ Ent(u, k) \in Rows
  BY RowsOfTables DEF RowsOf
<1>2. LiveByInsert(o)' BY <1>1 DEF LiveByInsert, Closing, NoWrite, LiveStatus
<1>3. RevokesGranted(o)' BY <1>1 DEF RevokesGranted
<1>4. Entitled(o)'
  <2> SUFFICES ASSUME stage'[o] \in Granting, NEW u \in User PROVE ~HasEntitled(o, u)'
    BY <1>1 DEF Entitled, Key
  <2>1. stage'[o] \in Transactions BY DEF Granting, Transactions
  <2>2. DOMAIN Program(o)' = 1..Len(Program(o)') /\ Len(Program(o)') \in Nat
    BY <2>1, BodyIsSequence DEF Program
  <2>3. \A i \in DOMAIN Program(o)' : ~(i < 1) BY <2>2
  <2> QED BY <2>3 DEF HasEntitled
<1> QED BY <1>2, <1>3, <1>4 DEF Granted

\* Its statements have inserted no pair yet, or leave it alone from then on.
LEMMA PairOnce ==
    ASSUME NEW o \in Request, Own(o), Open(o), pc[o] \in DOMAIN Program(o), NEW u \in User
    PROVE  /\ HasCreated(o, u) => Sub(u, o) \notin CurrentStatement(o).rows
           /\ HasEntitled(o, u) => Ent(u, o) \notin CurrentStatement(o).rows
<1>1. \A i \in DOMAIN Program(o) : PlaceOK(stage[o], Program(o), o, i) BY ProgramOK
<1>2. \A i \in DOMAIN Program(o) : PairPlace(stage[o], req[o], Program(o), o, i) BY Pairs
<1>3. ASSUME HasCreated(o, u) PROVE Sub(u, o) \notin CurrentStatement(o).rows
  <2>1. PICK i \in DOMAIN Program(o) : i < pc[o] /\ Creates(Program(o)[i], u, o)
    BY <1>3 DEF HasCreated
  <2> QED BY <1>1, <2>1 DEF PlaceOK, CurrentStatement
<1>4. ASSUME HasEntitled(o, u) PROVE Ent(u, o) \notin CurrentStatement(o).rows
  <2>1. PICK i \in DOMAIN Program(o) : i < pc[o] /\ Entitles(Program(o)[i], u, o)
    BY <1>4 DEF HasEntitled
  <2>2. o \in Key BY DEF Key
  <2> QED BY <1>2, <2>1, <2>2 DEF PairPlace, Entitles, CurrentStatement
<1> QED BY <1>3, <1>4

\* A granting transaction finds no entitlement of its own.
LEMMA NotYetEntitled ==
    ASSUME IInv, LedgerInv, NEW o \in Request, stage[o] \in Granting, NEW u \in User,
           ~HasEntitled(o, u)
    PROVE  pend[o][Ent(u, o)] = NoWrite /\ Seen(o, Ent(u, o)) = Absent
<1>1. pend[o][Ent(u, o)] = NoWrite BY DEF LedgerInv, Granted, Entitled
<1>2. o \in Key /\ stage[o] \in Fresh BY DEF Key, Fresh
<1>3. db[Sub(u, o)] = Absent BY <1>2 DEF IInv, Committed, OwnRows
<1>4. db[Ent(u, o)] = Absent BY <1>2, <1>3 DEF LedgerInv, Paired
<1> QED BY <1>1, <1>4 DEF Seen

LEMMA StartGranted ==
    ASSUME IInv, LedgerInv, NEW o \in Request, StartStatement(o)
    PROVE  Granted(o)'
<1> DEFINE s == CurrentStatement(o)
<1>1. /\ OwnTypes /\ Own(o) /\ Open(o) /\ pc[o] \in DOMAIN Program(o)
  BY DEF IInv, TypeOK, OwnTypes, StartStatement, Snapshot
<1>2. /\ snap' = [snap EXCEPT ![o] = IF Skipped(o, s) THEN {} ELSE Matching(o, s)]
      /\ db' = db /\ pend' = pend /\ pc' = pc /\ req' = req /\ stage' = stage
  BY DEF StartStatement, Snapshot
<1>3. snap'[o] = (IF Skipped(o, s) THEN {} ELSE Matching(o, s))
  BY <1>1, <1>2 DEF OwnTypes
<1>4. Program(o)' = Program(o) /\ s' = s
  BY <1>2 DEF Program, CurrentStatement
<1>5. PairPlace(stage[o], req[o], Program(o), o, pc[o]) BY <1>1, Pairs
<1>6. \A u \in User : HasCreated(o, u)' = HasCreated(o, u) /\ HasEntitled(o, u)' = HasEntitled(o, u)
  BY <1>2, <1>4 DEF HasCreated, HasEntitled
<1>7. Granted(o) BY DEF LedgerInv
<1>8. LiveByInsert(o)' BY <1>2, <1>6, <1>7 DEF Granted, LiveByInsert, Closing
<1>9. RevokesGranted(o)' BY <1>2, <1>7 DEF Granted, RevokesGranted
<1>10. Entitled(o)'
  <2> SUFFICES ASSUME stage[o] \in Granting, NEW u \in User, Entitles(s, u, o)
               PROVE  Ent(u, o) \in snap'[o]
    BY <1>2, <1>4, <1>6, <1>7 DEF Granted, Entitled
  <2>1. o \in Key BY DEF Key
  <2>2. s.rows = {Ent(u, o)} /\ s.from = {Absent} /\ s.unless = {}
    BY <1>5, <2>1 DEF PairPlace, Entitles, CurrentStatement
  <2>3. ~HasEntitled(o, u) BY <1>1, <2>2, PairOnce
  <2>4. Seen(o, Ent(u, o)) = Absent BY <2>3, NotYetEntitled
  <2>5. ~Skipped(o, s) BY <2>2 DEF Skipped
  <2> QED BY <1>3, <2>2, <2>4, <2>5 DEF Matching
<1> QED BY <1>8, <1>9, <1>10 DEF Granted

\* What a statement does to the uncommitted rows.
LEMMA ApplyRows ==
    ASSUME IInv, NEW o \in Request, ApplyStatement(o)
    PROVE  LET s == CurrentStatement(o) IN
           /\ \A r \in Rows :
                 \/ pend'[o][r] = pend[o][r]
                 \/ r \in snap[o] /\ r \in s.rows /\ Seen(o, r) \in s.from /\ pend'[o][r] = s.to
           /\ \A r \in snap[o] : Seen(o, r) \in s.from => pend'[o][r] = s.to
           /\ busy[o] /\ ~busy'[o] /\ pc'[o] = pc[o] + 1
           /\ pc[o] \in DOMAIN Program(o) /\ Own(o) /\ Open(o)
<1> DEFINE s == CurrentStatement(o)
<1>1. OwnTypes /\ Own(o) /\ Open(o) /\ pc[o] \in DOMAIN Program(o) /\ busy[o] /\ Row = Rows
  BY DEF IInv, TypeOK, OwnTypes, ApplyStatement, Apply, Row
<1>2. /\ pend'[o] = [r \in Rows |-> IF r \in snap[o] /\ Seen(o, r) \in s.from
                                    THEN s.to ELSE pend[o][r]]
      /\ ~busy'[o] /\ pc'[o] = pc[o] + 1
  BY <1>1 DEF ApplyStatement, Apply, OwnTypes
<1>3. snap[o] \subseteq s.rows /\ snap[o] \subseteq Rows
  BY <1>1 DEF Own, Snapshots, OwnTypes
<1> HIDE DEF s
<1>4. \A r \in Rows :
         \/ pend'[o][r] = pend[o][r]
         \/ r \in snap[o] /\ r \in s.rows /\ Seen(o, r) \in s.from /\ pend'[o][r] = s.to
  BY <1>2, <1>3
<1>5. \A r \in snap[o] : Seen(o, r) \in s.from => pend'[o][r] = s.to
  BY <1>2, <1>3
<1> QED BY <1>1, <1>2, <1>4, <1>5 DEF s

LEMMA ApplyGranted ==
    ASSUME IInv, LedgerInv, NEW o \in Request, ApplyStatement(o)
    PROVE  Granted(o)'
<1> DEFINE P == Program(o)
<1>1. PICK s : s = CurrentStatement(o) OBVIOUS
<1>2. /\ \A r \in Rows :
            \/ pend'[o][r] = pend[o][r]
            \/ r \in snap[o] /\ r \in s.rows /\ Seen(o, r) \in s.from /\ pend'[o][r] = s.to
      /\ \A r \in snap[o] : Seen(o, r) \in s.from => pend'[o][r] = s.to
      /\ busy[o] /\ ~busy'[o] /\ pc'[o] = pc[o] + 1
      /\ pc[o] \in DOMAIN P /\ Own(o) /\ Open(o)
  BY <1>1, ApplyRows
<1>3. db' = db /\ stage' = stage /\ req' = req BY StatementStep
<1>4. P' = P BY <1>3 DEF Program
<1>5. /\ PlaceOK(stage[o], P, o, pc[o]) /\ PairPlace(stage[o], req[o], P, o, pc[o])
      /\ s = P[pc[o]] /\ DOMAIN P = 1..Len(P) /\ Len(P) \in Nat
  BY <1>1, <1>2, ProgramOK, Pairs DEF CurrentStatement
<1> HIDE DEF P
<1>6. \A u \in User, k \in Key : Sub(u, k) \in Rows /\ Ent(u, k) \in Rows
  BY RowsOfTables DEF RowsOf
<1>7. o \in Key BY DEF Key
<1>8. ASSUME NEW u \in User
      PROVE  /\ HasCreated(o, u)' <=> HasCreated(o, u) \/ Creates(s, u, o)
             /\ HasEntitled(o, u)' <=> HasEntitled(o, u) \/ Entitles(s, u, o)
  <2>1. \A i \in DOMAIN P : i < pc[o] + 1 <=> i < pc[o] \/ i = pc[o] BY <1>2, <1>5
  <2>2. HasCreated(o, u)' <=> HasCreated(o, u) \/ Creates(s, u, o)
    BY <1>2, <1>4, <1>5, <2>1 DEF HasCreated, P
  <2>3. HasEntitled(o, u)' <=> HasEntitled(o, u) \/ Entitles(s, u, o)
    BY <1>2, <1>4, <1>5, <2>1 DEF HasEntitled, P
  <2> QED BY <2>2, <2>3
<1>9. \A u \in User :
         /\ HasCreated(o, u) => Sub(u, o) \notin s.rows
         /\ HasEntitled(o, u) => Ent(u, o) \notin s.rows
  BY <1>1, <1>2, PairOnce DEF P
<1>10. LiveByInsert(o) /\ RevokesGranted(o) /\ Entitled(o) BY DEF LedgerInv, Granted
<1>11. LiveByInsert(o)'
  <2>1. ASSUME NEW u \in User, NEW k \in Key, pend'[o][Sub(u, k)] \in LiveStatus
        PROVE  k = o /\ HasCreated(o, u)' /\ stage[o] \in Granting \cup {"restore"}
    <3>1. CASE pend'[o][Sub(u, k)] = pend[o][Sub(u, k)]
      BY <1>8, <1>10, <2>1, <3>1 DEF LiveByInsert
    <3>2. CASE Sub(u, k) \in s.rows /\ pend'[o][Sub(u, k)] = s.to
      BY <1>5, <1>8, <2>1, <3>2 DEF PairPlace
    <3> QED BY <1>2, <1>6, <3>1, <3>2
  <2>2. ASSUME NEW u \in User, NEW k \in Key, Closing(o, u, k)', db[Sub(u, k)] = Absent
        PROVE  FALSE
    <3>1. pend'[o][Sub(u, k)] \notin LiveStatus \cup {NoWrite} BY <2>2 DEF Closing
    <3>2. CASE pend'[o][Sub(u, k)] = pend[o][Sub(u, k)]
      BY <1>10, <2>2, <3>1, <3>2 DEF LiveByInsert, Closing
    <3>3. CASE /\ Sub(u, k) \in s.rows /\ Seen(o, Sub(u, k)) \in s.from
               /\ pend'[o][Sub(u, k)] = s.to
      <4>1. s.to \notin LiveStatus BY <3>1, <3>3
      <4>2. Absent \notin s.from
        BY <1>5, <1>7, <3>3, <4>1 DEF PlaceOK, Creates
      <4>3. pend[o][Sub(u, k)] # NoWrite BY <2>2, <3>3, <4>2 DEF Seen
      <4>4. pend[o][Sub(u, k)] \in LiveStatus
        BY <1>10, <2>2, <4>3 DEF LiveByInsert, Closing
      <4>5. k = o /\ HasCreated(o, u) BY <1>10, <4>4 DEF LiveByInsert
      <4> QED BY <1>9, <3>3, <4>5
    <3> QED BY <1>2, <1>6, <3>2, <3>3
  <2> QED BY <1>3, <2>1, <2>2 DEF LiveByInsert
<1>12. RevokesGranted(o)'
  <2> SUFFICES ASSUME NEW u \in User, NEW k \in Key, pend'[o][Ent(u, k)] \notin {NoWrite, "ACTIVE"},
                      db[Ent(u, k)] = Absent
               PROVE  FALSE
    BY <1>3 DEF RevokesGranted
  <2>1. CASE pend'[o][Ent(u, k)] = pend[o][Ent(u, k)] BY <1>10, <2>1 DEF RevokesGranted
  <2>2. CASE /\ Ent(u, k) \in s.rows /\ Seen(o, Ent(u, k)) \in s.from
             /\ pend'[o][Ent(u, k)] = s.to
    <3>1. Absent \notin s.from BY <1>5, <2>2 DEF PairPlace
    <3>2. pend[o][Ent(u, k)] # NoWrite BY <2>2, <3>1 DEF Seen
    <3>3. pend[o][Ent(u, k)] = "ACTIVE" BY <1>10, <3>2 DEF RevokesGranted
    <3>4. k = o /\ stage[o] \in Granting BY <1>2, <3>3 DEF Own, GrantedAfterCreated
    <3>5. HasEntitled(o, u) BY <1>10, <3>3, <3>4 DEF Entitled, NoWrite
    <3> QED BY <1>9, <2>2, <3>4, <3>5
  <2> QED BY <1>2, <1>6, <2>1, <2>2
<1>13. Entitled(o)'
  <2> SUFFICES ASSUME stage[o] \in Granting, NEW u \in User
               PROVE  /\ HasEntitled(o, u)' => pend'[o][Ent(u, o)] = "ACTIVE"
                      /\ ~HasEntitled(o, u)' => pend'[o][Ent(u, o)] = NoWrite
    BY <1>2, <1>3 DEF Entitled
  <2>1. CASE HasEntitled(o, u)
    BY <1>2, <1>6, <1>7, <1>8, <1>9, <1>10, <2>1 DEF Entitled
  <2>2. CASE ~HasEntitled(o, u) /\ Entitles(s, u, o)
    <3>1. Seen(o, Ent(u, o)) = Absent BY <2>2, NotYetEntitled
    <3>2. Ent(u, o) \in snap[o] BY <1>1, <1>2, <1>10, <2>2 DEF Entitled
    <3>3. s.from = {Absent} /\ s.to = "ACTIVE" BY <1>5, <1>7, <2>2 DEF PairPlace, Entitles
    <3> QED BY <1>2, <1>8, <2>2, <3>1, <3>2, <3>3
  <2>3. CASE ~HasEntitled(o, u) /\ ~Entitles(s, u, o)
    <3>1. Seen(o, Ent(u, o)) = Absent /\ pend[o][Ent(u, o)] = NoWrite BY <2>3, NotYetEntitled
    <3>2. Ent(u, o) \in s.rows => Absent \notin s.from BY <2>3 DEF Entitles
    <3> QED BY <1>2, <1>6, <1>7, <1>8, <2>3, <3>1, <3>2
  <2> QED BY <2>1, <2>2, <2>3
<1> QED BY <1>11, <1>12, <1>13 DEF Granted

\* Holding what it held, whoever commits.
LEMMA OthersGranted ==
    ASSUME IInv, LedgerInv, NEW o \in Request, Mover(o), SameLedger \/ CommitTransaction(o)
    PROVE  \A x \in Request \ {o} : Granted(x)'
<1> TAKE x \in Request \ {o}
<1>1. Granted(x) /\ Kept(x) BY DEF LedgerInv, Mover
<1>2. CASE SameLedger BY <1>1, <1>2, GrantedFrame DEF SameLedger
<1>3. CASE CommitTransaction(o)
  <2>1. \A u \in User, k \in Key : Sub(u, k) \in Rows /\ Ent(u, k) \in Rows
    BY RowsOfTables DEF RowsOf
  <2>2. \A r \in Rows : pend[x][r] # NoWrite => pend[o][r] = NoWrite
    BY DEF IInv, LocksExclusive, Row, TypeOK
  <2>3. \A r \in Rows : pend[x][r] # NoWrite => db'[r] = db[r]
    BY <1>3, <2>2, CommittedRows
  <2> QED BY <1>1, <2>1, <2>3, GrantedFrame
<1> QED BY <1>2, <1>3

LEMMA GrantedStep ==
    ASSUME IInv, LedgerInv, [Next]_vars, IInv'
    PROVE  \A x \in Request : Granted(x)'
<1>1. \A r \in Rows : [s \in Rows |-> NoWrite][r] = NoWrite OBVIOUS
<1>2. ASSUME NEW o \in Request, NEW st, NEW q, Enter(o, st, q)
      PROVE  \A x \in Request : Granted(x)'
  <2>1. /\ Mover(o) /\ db' = db /\ pend' = pend /\ busy' = busy /\ stage'[o] = st
        /\ pend[o] = [r \in Rows |-> NoWrite] /\ busy[o] = FALSE
        /\ pc'[o] = IF st \in Transactions THEN 1 ELSE 0
    BY <1>2, EnterStep
  <2>2. SameLedger BY <2>1 DEF SameLedger
  <2>3. st \in Granting => st \in Transactions BY DEF Granting, Transactions
  <2>4. Granted(o)' BY <1>1, <2>1, <2>3, GrantedReset
  <2> QED BY <2>1, <2>2, <2>4, OthersGranted
<1>3. CASE \E o \in Request, u \in User : Call(o, u)
  BY <1>2, <1>3, Calls DEF Arrived
<1>4. ASSUME NEW o \in Request, Run(o)
      PROVE  \A x \in Request : Granted(x)'
  <2>1. CASE EnsureFreePlanForUser(o) \/ AddStudentRole(o) \/ SyncRoleFromActiveSubscription(o)
    <3>1. CASE \E st, q : Enter(o, st, q) BY <1>2, <3>1
    <3>2. CASE stage[o] = "sync" /\ Proceed(o, "done", Created(o)) /\ UNCHANGED dbVars
      <4>1. Mover(o) BY <2>1, BetweenStep
      <4>2. SameLedger /\ pend' = pend /\ busy' = busy BY <3>2 DEF SameLedger, dbVars
      <4>3. stage[o] \notin Transactions /\ Own(o) BY <3>2 DEF Transactions, IInv
      <4>4. pend[o] = [r \in Rows |-> NoWrite] /\ ~busy[o]
        BY <4>3 DEF Own, Transactional
      <4>5. stage'[o] = "done" /\ "done" \notin Granting BY <3>2, ProceedStep DEF Granting
      <4>6. Granted(o)' BY <1>1, <4>2, <4>4, <4>5, GrantedReset
      <4> QED BY <4>1, <4>2, <4>6, OthersGranted
    <3> QED BY <2>1, <3>1, <3>2, BetweenStep
  <2>2. CASE StartStatement(o) \/ ApplyStatement(o)
    <3>1. Mover(o) /\ db' = db BY <2>2, StatementStep
    <3>2. SameLedger BY <3>1 DEF SameLedger
    <3>3. Granted(o)' BY <2>2, StartGranted, ApplyGranted
    <3> QED BY <3>1, <3>2, <3>3, OthersGranted
  <2>3. CASE CommitTransaction(o) \/ AbortTransaction(o)
    <3>1. Mover(o) /\ stage'[o] \notin Transactions /\ ~Open(o)' BY <2>3, EndStep
    <3>2. pend'[o] = [r \in Rows |-> NoWrite] /\ ~busy'[o]
      BY <3>1 DEF IInv, Own, Transactional
    <3>3. stage'[o] \notin Granting BY <3>1 DEF Granting, Transactions
    <3>4. Granted(o)' BY <1>1, <3>2, <3>3, GrantedReset
    <3>5. AbortTransaction(o) => SameLedger BY DEF AbortTransaction, Abort, SameLedger
    <3> QED BY <2>3, <3>1, <3>4, <3>5, OthersGranted
  <2> QED BY <1>4, <2>1, <2>2, <2>3 DEF Run
<1>5. CASE UNCHANGED <<pend, snap, busy, pc, req, stage>> /\ SameLedger
  <2>1. \A x \in Request : Kept(x) BY <1>5 DEF Kept
  <2> QED BY <1>5, <2>1, GrantedFrame DEF LedgerInv, SameLedger
<1>6. CASE \/ \E u \in User : Register(u)
           \/ \E s \in CheckoutSession, u \in User :
                  CreatePaidCheckoutSession(s, u) \/ AssignPaymentLink(s, u)
           \/ UNCHANGED vars
  <2>1. UNCHANGED <<pend, snap, busy, pc, req, stage>>
    BY <1>6 DEF Register, CreatePaidCheckoutSession, AssignPaymentLink, vars, dbVars
  <2>2. \A o \in Request : ~CommitTransaction(o)
    <3> SUFFICES ASSUME NEW o \in Request, CommitTransaction(o) PROVE FALSE OBVIOUS
    <3>1. Open(o) /\ ~Open(o)' BY EndStep
    <3> QED BY <2>1, <3>1 DEF Open
  <2> QED BY <1>5, <2>1, <2>2, LedgerChangesByCommit
<1> QED BY <1>3, <1>4, <1>6 DEF Next

LEMMA CommitPaired ==
    ASSUME IInv, LedgerInv, NEW o \in Request, CommitTransaction(o)
    PROVE  Paired'
<1> SUFFICES ASSUME NEW u \in User, NEW k \in Key, db'[Sub(u, k)] = Absent
             PROVE  db'[Ent(u, k)] = Absent
  BY DEF Paired
<1>1. Sub(u, k) \in Rows /\ Ent(u, k) \in Rows BY RowsOfTables DEF RowsOf
<1>2. pend[o][Sub(u, k)] # Absent BY DEF IInv, Committed, OwnRows
<1>3. pend[o][Sub(u, k)] = NoWrite /\ db[Sub(u, k)] = Absent
  BY <1>1, <1>2, CommittedRows
<1>4. db[Ent(u, k)] = Absent BY <1>3 DEF LedgerInv, Paired
<1>5. pend[o][Ent(u, k)] # "ACTIVE" BY <1>3, GrantIsLive DEF NoWrite, LiveStatus
<1>6. pend[o][Ent(u, k)] = NoWrite BY <1>4, <1>5 DEF LedgerInv, Granted, RevokesGranted
<1> QED BY <1>1, <1>4, <1>6, CommittedRows

LEMMA LedgerStep ==
    ASSUME IInv, LedgerInv, [Next]_vars, IInv'
    PROVE  LedgerInv'
<1>1. Paired'
  <2>1. CASE SameLedger BY <2>1 DEF LedgerInv, Paired, SameLedger
  <2> QED BY <2>1, CommitPaired, LedgerChangesByCommit
<1> QED BY <1>1, GrantedStep DEF LedgerInv

\* An account starts with both rows of the pair or with neither.
LEMMA StartsPaired ==
    ASSUME Init, NEW u \in User, NEW k \in Key
    PROVE  /\ db[Sub(u, k)] \in {Absent, "ACTIVE"} /\ db[Ent(u, k)] = db[Sub(u, k)]
<1>1. PICK account \in [User -> Accounts] : db = [r \in Rows |-> InitialValue(account[r[2]], r)]
  BY DEF Init
<1>2. Sub(u, k) \in Rows /\ Ent(u, k) \in Rows BY RowsOfTables DEF RowsOf
<1>3. /\ db[Sub(u, k)] = InitialValue(account[u], Sub(u, k))
      /\ db[Ent(u, k)] = InitialValue(account[u], Ent(u, k))
  BY <1>1, <1>2 DEF Sub, Ent
<1>4. Sub(u, k)[1] = "sub" /\ Sub(u, k)[3] = k /\ Ent(u, k)[1] = "ent" /\ Ent(u, k)[3] = k
  BY DEF Sub, Ent
<1> QED BY <1>3, <1>4 DEF InitialValue

LEMMA LedgerInit ==
    ASSUME Init
    PROVE  LedgerInv
<1>1. Paired BY StartsPaired DEF Paired
<1>2. ASSUME NEW o \in Request PROVE Granted(o)
  <2>1. IInv /\ stage[o] = "idle" BY InitInv DEF Init
  <2>2. stage[o] \notin Transactions /\ stage[o] \notin Granting BY <2>1 DEF Transactions, Granting
  <2>3. pend[o] = [r \in Rows |-> NoWrite] BY <2>1, <2>2 DEF IInv, Own, Transactional
  <2>4. \A u \in User, k \in Key : pend[o][Sub(u, k)] = NoWrite /\ pend[o][Ent(u, k)] = NoWrite
    BY <2>3, RowsOfTables DEF RowsOf
  <2>5. LiveByInsert(o) BY <2>4 DEF LiveByInsert, Closing, NoWrite, LiveStatus
  <2> QED BY <2>2, <2>4, <2>5 DEF Granted, RevokesGranted, Entitled
<1> QED BY <1>1, <1>2 DEF LedgerInv

----------------------------------------------------------------------------
(* The steps of Ledger.                                                      *)

LEMMA LifeIs ==
    ASSUME NEW u \in User, NEW k \in Key
    PROVE  Life[u][k] = LifeOf(db[Sub(u, k)], db[Ent(u, k)])
BY DEF Life

LEMMA LifeThen ==
    ASSUME NEW u \in User, NEW k \in Key
    PROVE  Life'[u][k] = LifeOf(db'[Sub(u, k)], db'[Ent(u, k)])
BY DEF Life

LEMMA LifeTypes ==
    /\ \A sub, ent : LifeOf(sub, ent) \in Books!State
    /\ Life \in [User -> [Key -> Books!State]] /\ Life' \in [User -> [Key -> Books!State]]
<1>1. \A sub, ent : LifeOf(sub, ent) \in Books!State BY DEF LifeOf, Books!State, LiveStatus, Absent
<1>2. Life \in [User -> [Key -> Books!State]] BY <1>1 DEF Life
<1>3. Life' \in [User -> [Key -> Books!State]] BY <1>1 DEF Life
<1> QED BY <1>1, <1>2, <1>3

\* What a commit does to a pair it does not insert: it closes, it revokes, or it leaves alone.
LEMMA PairChange ==
    ASSUME IInv, LedgerInv, NEW o \in Request, CommitTransaction(o), NEW u \in User, NEW k \in Key,
           pend[o][Sub(u, k)] \notin LiveStatus
    PROVE  /\ \/ db'[Sub(u, k)] = db[Sub(u, k)]
              \/ db[Sub(u, k)] # Absent /\ db'[Sub(u, k)] \notin LiveStatus \cup {Absent}
           /\ db'[Ent(u, k)] = db[Ent(u, k)] \/ db'[Ent(u, k)] # "ACTIVE"
           /\ db[Ent(u, k)] = "ACTIVE" => db[Sub(u, k)] # Absent
<1>1. Sub(u, k) \in Rows /\ Ent(u, k) \in Rows BY RowsOfTables DEF RowsOf
<1>2. pend[o][Sub(u, k)] # Absent BY DEF IInv, Committed, OwnRows
<1>3. pend[o][Sub(u, k)] # NoWrite => db[Sub(u, k)] # Absent
  BY DEF LedgerInv, Granted, LiveByInsert, Closing
<1>4. pend[o][Ent(u, k)] # "ACTIVE" BY GrantIsLive
<1>5. db[Ent(u, k)] = "ACTIVE" => db[Sub(u, k)] # Absent BY DEF LedgerInv, Paired, Absent
<1> QED BY <1>1, <1>2, <1>3, <1>4, <1>5, CommittedRows

\* A commit that is no suspension withdraws such a pair, if it changes it at all.
LEMMA Withdraws ==
    ASSUME IInv, LedgerInv, NEW o \in Request, CommitTransaction(o), stage[o] # "suspend",
           NEW u \in User, NEW k \in Key, pend[o][Sub(u, k)] \notin LiveStatus
    PROVE  Books!Same(u, k) \/ Books!Withdrawn(u, k)
<1>1. ~Orphaned(u, k) => ~Orphaned(u, k)' BY CommitOrphansNothing
<1>2. PICK sub, ent, sub2, ent2 :
         /\ sub = db[Sub(u, k)] /\ ent = db[Ent(u, k)]
         /\ sub2 = db'[Sub(u, k)] /\ ent2 = db'[Ent(u, k)]
  OBVIOUS
<1>3. /\ sub2 = sub \/ (sub # Absent /\ sub2 \notin LiveStatus \cup {Absent})
      /\ ent2 = ent \/ ent2 # "ACTIVE"
      /\ ent = "ACTIVE" => sub # Absent
      /\ ent2 = "ACTIVE" /\ sub2 \notin LiveStatus => ent = "ACTIVE" /\ sub \notin LiveStatus
  BY <1>1, <1>2, PairChange DEF Orphaned
<1>4. \/ LifeOf(sub2, ent2) = LifeOf(sub, ent)
      \/ <<LifeOf(sub, ent), LifeOf(sub2, ent2)>> \in
           {<<"backed", "bare">>, <<"backed", "ended">>, <<"bare", "ended">>, <<"orphaned", "ended">>}
  BY <1>3 DEF LifeOf, LiveStatus, Absent
<1>5. Life[u][k] = LifeOf(sub, ent) /\ Life'[u][k] = LifeOf(sub2, ent2)
  BY <1>2, LifeIs, LifeThen
<1> QED BY <1>4, <1>5 DEF Books!Same, Books!Withdrawn

\* The rows of the pairs a transaction has written are its own user's.
LEMMA OwnUser ==
    ASSUME IInv, NEW o \in Request, Open(o), NEW u \in User, NEW k \in Key
    PROVE  /\ pend[o][Sub(u, k)] # NoWrite =>
                 u = req[o].user /\ (stage[o] = "restore" => k = o)
           /\ pend[o][Ent(u, k)] # NoWrite =>
                 u = req[o].user /\ stage[o] \notin {"suspend", "restore"}
<1>1. Own(o) /\ Sub(u, k) \in Rows /\ Ent(u, k) \in Rows BY RowsOfTables DEF RowsOf, IInv
<1>2. pend[o][Sub(u, k)] # NoWrite => u = req[o].user /\ (stage[o] = "restore" => k = o)
  BY <1>1, Names DEF NamesOK
<1>3. ASSUME pend[o][Ent(u, k)] # NoWrite
      PROVE  u = req[o].user /\ stage[o] \notin {"suspend", "restore"}
  <2>1. PICK i \in DOMAIN Program(o) : Ent(u, k) \in Program(o)[i].rows
    BY <1>1, <1>3 DEF Own, WrittenByStatement
  <2> QED BY <1>1, <2>1, Pairs DEF PairPlace
<1> QED BY <1>2, <1>3

LEMMA OtherUsers ==
    ASSUME IInv, NEW o \in Request, CommitTransaction(o), NEW u \in User, NEW k \in Key,
           pend[o][Sub(u, k)] = NoWrite, pend[o][Ent(u, k)] = NoWrite
    PROVE  Books!Same(u, k)
<1>1. Sub(u, k) \in Rows /\ Ent(u, k) \in Rows BY RowsOfTables DEF RowsOf
<1>2. db'[Sub(u, k)] = db[Sub(u, k)] /\ db'[Ent(u, k)] = db[Ent(u, k)]
  BY <1>1, CommittedRows
<1> QED BY <1>2, LifeIs, LifeThen DEF Books!Same

\* A suspension ends subscriptions and leaves the entitlements.
LEMMA Suspends ==
    ASSUME IInv, LedgerInv, NEW o \in Request, CommitTransaction(o), stage[o] = "suspend",
           NEW u \in User, NEW k \in Key
    PROVE  Books!Same(u, k) \/ Books!Stopped(u, k)
<1>1. Open(o) /\ Sub(u, k) \in Rows /\ Ent(u, k) \in Rows
  BY RowsOfTables DEF RowsOf, CommitTransaction
<1>2. pend[o][Ent(u, k)] = NoWrite BY <1>1, OwnUser
<1>3. pend[o][Sub(u, k)] \notin LiveStatus
  BY DEF LedgerInv, Granted, LiveByInsert, Granting
<1>4. PICK sub, ent, sub2 :
         sub = db[Sub(u, k)] /\ ent = db[Ent(u, k)] /\ sub2 = db'[Sub(u, k)]
  OBVIOUS
<1>5. /\ sub2 = sub \/ (sub # Absent /\ sub2 \notin LiveStatus \cup {Absent})
      /\ ent = "ACTIVE" => sub # Absent
  BY <1>3, <1>4, PairChange
<1>6. db'[Ent(u, k)] = ent BY <1>1, <1>2, <1>4, CommittedRows
<1>7. \/ LifeOf(sub2, ent) = LifeOf(sub, ent)
      \/ <<LifeOf(sub, ent), LifeOf(sub2, ent)>> \in {<<"backed", "orphaned">>, <<"bare", "ended">>}
  BY <1>5 DEF LifeOf, LiveStatus, Absent
<1>8. Life[u][k] = LifeOf(sub, ent) /\ Life'[u][k] = LifeOf(sub2, ent)
  BY <1>4, <1>6, LifeIs, LifeThen
<1> QED BY <1>7, <1>8 DEF Books!Same, Books!Stopped

\* A transaction that commits a live subscription has inserted it, with its entitlement
\* unless it restores an account.
LEMMA Inserts ==
    ASSUME IInv, LedgerInv, NEW o \in Request, CommitTransaction(o), NEW u \in User, NEW k \in Key,
           pend[o][Sub(u, k)] \in LiveStatus
    PROVE  /\ k = o /\ stage[o] \in Granting \cup {"restore"}
           /\ Life[u][k] = "none"
           /\ Life'[u][k] = IF stage[o] = "restore" THEN "bare" ELSE "backed"
<1>1. /\ Own(o) /\ Open(o) /\ pc[o] = Len(Program(o)) + 1
      /\ Sub(u, k) \in Rows /\ Ent(u, k) \in Rows
  BY RowsOfTables DEF RowsOf, IInv, CommitTransaction
<1>2. k = o /\ HasCreated(o, u) /\ stage[o] \in Granting \cup {"restore"}
  BY DEF LedgerInv, Granted, LiveByInsert
<1>3. stage[o] \in Fresh BY <1>2 DEF Fresh
<1>4. db[Sub(u, k)] = Absent BY <1>2, <1>3 DEF IInv, Committed, OwnRows
<1>5. db[Ent(u, k)] = Absent BY <1>4 DEF LedgerInv, Paired
<1>6. Life[u][k] = "none" BY <1>4, <1>5, LifeIs DEF LifeOf, Absent, LiveStatus
<1>7. db'[Sub(u, k)] \in LiveStatus
  BY <1>1, CommittedRows DEF NoWrite, LiveStatus
<1>8. CASE stage[o] = "restore"
  <2>1. pend[o][Ent(u, k)] = NoWrite BY <1>1, <1>8, OwnUser
  <2>2. db'[Ent(u, k)] = Absent BY <1>1, <1>5, <2>1, CommittedRows
  <2> QED BY <1>2, <1>6, <1>7, <1>8, <2>2, LifeThen DEF LifeOf, LiveStatus, Absent
<1>9. CASE stage[o] \in Granting
  <2>1. PICK i \in DOMAIN Program(o) : Creates(Program(o)[i], u, o) BY <1>2 DEF HasCreated
  <2>2. PICK j \in DOMAIN Program(o) : Entitles(Program(o)[j], u, o)
    BY <1>1, <1>9, <2>1, Pairs DEF PairPlace
  <2>3. j < pc[o] BY <1>1, ProgramOK
  <2>4. HasEntitled(o, u) BY <2>2, <2>3 DEF HasEntitled
  <2>5. pend[o][Ent(u, k)] = "ACTIVE" BY <1>2, <1>9, <2>4 DEF LedgerInv, Granted, Entitled
  <2>6. db'[Ent(u, k)] = "ACTIVE" BY <1>1, <2>5, CommittedRows DEF NoWrite
  <2>7. stage[o] # "restore" BY <1>9 DEF Granting
  <2> QED BY <1>2, <1>6, <1>7, <2>6, <2>7, LifeThen DEF LifeOf
<1> QED BY <1>2, <1>8, <1>9

\* Every commit is a step of one account, or changes no life.
LEMMA CommitKeeps ==
    ASSUME IInv, LedgerInv, NEW o \in Request, CommitTransaction(o)
    PROVE  Books!Next
<1> DEFINE u == req[o].user
<1>1. Own(o) /\ Open(o) /\ stage[o] \in Transactions BY EndStep DEF IInv
<1>2. u \in User /\ o \in Key
  BY <1>1 DEF Own, Arguments, ArgumentsOK, Transactions, Key
<1>3. \A v \in User \ {u}, k \in Key : Books!Same(v, k) BY <1>1, OwnUser, OtherUsers
<1> HIDE DEF u
<1>4. Books!Change(u)
  <2>1. CASE stage[o] = "suspend"
    BY <1>2, <2>1, Suspends DEF Books!Change, Books!Suspend
  <2>2. CASE stage[o] # "suspend" /\ \A k \in Key : pend[o][Sub(u, k)] \notin LiveStatus
    BY <1>2, <2>2, Withdraws DEF Books!Change, Books!Withdraw
  <2>3. ASSUME NEW l \in Key, pend[o][Sub(u, l)] \in LiveStatus
        PROVE  Books!Grant(u, l) \/ Books!Restore(u, l)
    <3>1. /\ l = o /\ stage[o] \in Granting \cup {"restore"} /\ Life[u][l] = "none"
          /\ Life'[u][l] = IF stage[o] = "restore" THEN "bare" ELSE "backed"
      BY <1>2, <2>3, Inserts
    <3>2. \A k \in Key \ {l} : pend[o][Sub(u, k)] \notin LiveStatus
      BY <1>2, <3>1 DEF LedgerInv, Granted, LiveByInsert
    <3>3. CASE stage[o] = "restore"
      <4>1. \A k \in Key \ {l} : Books!Same(u, k)
        BY <1>1, <1>2, <3>1, <3>3, OwnUser, OtherUsers
      <4> QED BY <3>1, <3>3, <4>1 DEF Books!Restore
    <3>4. CASE stage[o] \in Granting
      <4>1. stage[o] \notin {"suspend", "restore"} BY <3>4 DEF Granting
      <4>2. \A k \in Key \ {l} : Books!Same(u, k) \/ Books!Withdrawn(u, k)
        BY <1>2, <3>2, <4>1, Withdraws
      <4> QED BY <3>1, <4>1, <4>2 DEF Books!Grant
    <3> QED BY <3>1, <3>3, <3>4
  <2> QED BY <2>1, <2>2, <2>3 DEF Books!Change
<1> QED BY <1>2, <1>3, <1>4, LifeTypes DEF Books!Next

LEMMA LedgerRefines == IInv /\ LedgerInv /\ [Next]_vars => [Books!Next]_Life
<1> SUFFICES ASSUME IInv, LedgerInv, [Next]_vars PROVE Books!Next \/ UNCHANGED Life OBVIOUS
<1>1. CASE \E o \in Request : CommitTransaction(o) BY <1>1, CommitKeeps
<1>2. CASE SameLedger BY <1>2 DEF Life, SameLedger
<1> QED BY <1>1, <1>2, LedgerChangesByCommit

LEMMA StartsLedger == Init => Books!Init
<1> SUFFICES ASSUME Init PROVE Books!Init OBVIOUS
<1>1. ASSUME NEW u \in User, NEW k \in Key
      PROVE  LifeOf(db[Sub(u, k)], db[Ent(u, k)]) \in {"none", "backed"}
  BY StartsPaired DEF LifeOf, LiveStatus, Absent
<1> QED BY <1>1 DEF Books!Init, Life

(* Access implements Ledger: each transaction that commits, among whatever
   others, is one step of the lives of its user's subscriptions, and nothing
   else is (subscription.service.ts:592-681, user-management.service.ts:409-443). *)
THEOREM LedgerIsKept == Spec => KeepsLedger
<1>1. Init => Books!Init BY StartsLedger
<1>2. Init => LedgerInv BY LedgerInit
<1>3. IInv /\ LedgerInv /\ [Next]_vars => [Books!Next]_Life BY LedgerRefines
<1>4. LedgerInv /\ IInv /\ IInv' /\ [Next]_vars => LedgerInv' BY LedgerStep
<1> QED BY <1>1, <1>2, <1>3, <1>4, Inductive, PTL DEF Spec, KeepsLedger, Books!Spec
===============================================================================
