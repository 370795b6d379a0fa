-------------------------------- MODULE Team --------------------------------
(* Enterprise teams: every operation of the team service that changes a team,
   registration with an invitation, and the deletion of an account.  A user
   belongs to the team of its parent, the account that holds the subscription;
   a subscription pays for a number of seats.

   The service reads what it needs in several queries and writes at the end, so
   a request is a path of steps; requests interleave between any two of them.
   Whatever a request reads is kept in its record, and may be stale when it is
   used.  An address is the user it belongs to, registered or not; when an
   account is deleted for good, its row is gone and nothing can refer to it:
   the address, should it register again, is another user.                   *)
EXTENDS Naturals, Sequences, FiniteSets

CONSTANTS
    User,
    Owner,         \* the users that start with a subscription, see Access
    Subscribed,    \* the subscriptions they start with
    Request,
    Sent,          \* key of an invitation sent before the run
    Seats,         \* seats of every subscription
    Invited,       \* who may have been sent the invitation Sent
    Candidate,     \* who may have joined a team before the run, or asked to
    Granted,       \* the team roles that clients ask for
    Batches,       \* the sets of addresses sent to bulkDirectCreateMembers
    Operations,    \* the operations the clients call
    MaxInFlight    \* how many requests run at once

ASSUME SeatsAssumption == Seats \in Nat /\ IsFiniteSet(User)
ASSUME OwnerAssumption == Owner \subseteq User /\ "none" \notin User
ASSUME SentAssumption  == Sent \notin Request /\ "none" \notin Request \cup {Sent}
ASSUME SubscriptionAssumption == Subscribed \subseteq {"B2B", "B2BTrial", "B2C"}
ASSUME RoleAssumption  == Granted \subseteq {"ADMIN", "MEMBER"} /\ Batches \subseteq SUBSET User
ASSUME CallerAssumption == Invited \cup Candidate \subseteq User

VARIABLES
    account,        \* account[u]: whether u has registered, was deleted, or its row is gone
    parent,         \* User.parentUserId
    teamRole,       \* User.teamRole
    enterprise,     \* enterprise[u]: the ENTERPRISE role of u is active
    subscription,   \* subscription[u]: the latest live subscription u pays for
    invitation,     \* TeamInvitation, keyed by the request that sent it
    joinRequest,    \* joinRequest[u][p]: TeamJoinRequest of u to the team of p
    conversation,   \* the GROUP conversations, keyed by the request that opened them
    req,            \* what request o was asked for and what it has read
    at              \* at[o]: the step of its path that o is about to take, 0 when idle

users   == <<account, parent, teamRole>>
billing == <<enterprise, subscription>>
vars    == <<users, billing, invitation, joinRequest, conversation, req, at>>

None == "none"

TeamRole     == {"ADMIN", "MEMBER"}
Live         == {"B2B", "B2BTrial", "B2C"}
LiveB2B      == {"B2B", "B2BTrial"}
Invitation   == Request \cup {Sent}
NoInvitation == [to |-> None, from |-> None, role |-> None, status |-> None, overdue |-> FALSE]

Path ==
    [directCreateMember      |-> <<"workspace", "seats", "target", "write", "find", "converse">>,
     bulkDirectCreateMembers |-> <<"workspace", "seats", "next">>,
     inviteMember            |-> <<"workspace", "seats", "target", "write">>,
     approveTeamMember       |-> <<"workspace", "seats", "invitation", "pending", "find", "converse", "write">>,
     bulkApprove             |-> <<"workspace", "requests", "seats", "write", "find", "converse">>,
     acceptInvitation        |-> <<"invitation", "seats", "find", "converse", "write">>,
     rejectTeamMember        |-> <<"target", "pending", "write">>,
     removeTeamMember        |-> <<"caller", "target", "write">>,
     updateTeamMemberRole    |-> <<"caller", "target", "write">>,
     requestToJoinTeam       |-> <<"target", "write">>,
     register                |-> <<"invitation", "write">>,
     deleteUser              |-> <<"write">>,
     hardDeleteUser          |-> <<"detach", "write">>]

Operation == DOMAIN Path

NoRequest ==
    [op |-> None, by |-> None, to |-> None, role |-> None, key |-> None, root |-> None,
     parent |-> None, byRole |-> None, known |-> FALSE, pending |-> FALSE, free |-> 0,
     who |-> {}, rest |-> {}, group |-> None]

Served == [NoRequest EXCEPT !.op = "served"]

\* Whether the row of u is in the table, and whether a row may refer to it.
Exists(u)  == account[u] \in {"live", "deleted"}
Kept(u)    == u \in User => account[u] # "gone"

InFlight   == {o \in Request : at[o] # 0}
Stage(o)   == IF at[o] = 0 THEN "idle" ELSE Path[req[o].op][at[o]]
Members(r) == {u \in User : parent[u] = r}
Root(u)    == IF parent[u] = None THEN u ELSE parent[u]

\* Mutant: the last seat is handed out twice.
SeatsLeftInclusive(r) ==
    LET used == Cardinality(Members(r)) IN IF used <= Seats THEN Seats + 1 - used ELSE 0

SeatsLeft(r) ==
    LET used == Cardinality(Members(r)) IN IF used < Seats THEN Seats - used ELSE 0

\* The guard of the team controllers: a member counts as ENTERPRISE while the
\* subscription of its owner lasts.
MayManage(u) ==
    enterprise[u] \/ (parent[u] # None /\ subscription[parent[u]] \in LiveB2B)

----------------------------------------------------------------------------
(* The course of a request.                                                  *)
MayArrive(o) == at[o] = 0 /\ req[o].op = None /\ Cardinality(InFlight) < MaxInFlight

Arrive(o, q) ==
    /\ q.op \in Operations
    /\ req' = [req EXCEPT ![o] = q]
    /\ at'  = [at EXCEPT ![o] = 1]
    /\ UNCHANGED <<users, billing, invitation, joinRequest, conversation>>

\* A bulk creation goes on with the next member when one is done or has failed.
Leave(o) ==
    IF req[o].rest = {}
    THEN /\ req' = [req EXCEPT ![o] = Served]
         /\ at'  = [at EXCEPT ![o] = 0]
    ELSE /\ \E u \in req[o].rest :
              req' = [req EXCEPT ![o] =
                        [NoRequest EXCEPT !.op = "directCreateMember", !.by = req[o].by, !.to = u,
                                          !.role = req[o].role, !.rest = req[o].rest \ {u}]]
         /\ at' = [at EXCEPT ![o] = 1]

\* o takes its next step, knowing q.
Proceed(o, q) ==
    IF at[o] = Len(Path[q.op]) THEN Leave(o)
    ELSE /\ req' = [req EXCEPT ![o] = q]
         /\ at'  = [at EXCEPT ![o] = @ + 1]

Read(o, stage) ==
    /\ Stage(o) = stage
    /\ UNCHANGED <<users, billing, invitation, joinRequest, conversation>>

\* A refusal, a violated constraint, a lost connection: the step does nothing.  A request that
\* ends while it still reads might as well not have come, and its key is free again.
Fail(o) ==
    /\ at[o] # 0
    /\ IF req[o].rest = {} /\ Stage(o) \notin {"write", "find", "converse"}
       THEN /\ req' = [req EXCEPT ![o] = NoRequest]
            /\ at'  = [at EXCEPT ![o] = 0]
       ELSE Leave(o)
    /\ UNCHANGED <<users, billing, invitation, joinRequest, conversation>>

----------------------------------------------------------------------------
(* What a request reads before it writes.                                    *)

\* The subscription that admits members: resolveEnterpriseWorkspace asks for a B2B one.
MayAdmit(q, r) ==
    IF q.op \in {"approveTeamMember", "bulkApprove", "acceptInvitation"}
    THEN subscription[r] \in Live ELSE subscription[r] \in LiveB2B

\* The caller's row and then the subscription of its team.  Nothing that changes in between
\* can tell the two reads from a single one: it comes before both or after both.
ReadWorkspace(o) ==
    LET q == req[o] IN
    /\ Read(o, "workspace")
    /\ \/ q.op = "approveTeamMember" /\ Exists(q.to)
       \/ q.op = "bulkApprove"
       \/ q.op \in {"directCreateMember", "bulkDirectCreateMembers", "inviteMember"}
          /\ (parent[q.by] = None \/ teamRole[q.by] = "ADMIN")
    /\ MayAdmit(q, Root(q.by))
    /\ Proceed(o, [q EXCEPT !.root = Root(q.by)])

\* removeTeamMember and updateTeamMemberRole read the caller's row alone.
ReadCaller(o) ==
    LET q == req[o] IN
    /\ Read(o, "caller")
    /\ q.to # Root(q.by)
    /\ Proceed(o, [q EXCEPT !.root = Root(q.by), !.byRole = teamRole[q.by]])

ReadSeats(o) ==
    LET q    == req[o]
        free == SeatsLeft(q.root) IN
    /\ Read(o, "seats")
    /\ IF q.op = "bulkDirectCreateMembers" THEN Cardinality(q.rest) <= free ELSE free > 0
    /\ IF q.op = "bulkApprove"
       THEN \E W \in SUBSET q.who :
              /\ Cardinality(W) = (IF Cardinality(q.who) < free THEN Cardinality(q.who) ELSE free)
              /\ Proceed(o, [q EXCEPT !.free = free, !.who = W])
       ELSE Proceed(o, [q EXCEPT !.free = free])

\* bulkApprove: the pending join requests, in no particular order.
ReadRequests(o) ==
    LET q == req[o]
        W == {u \in User : joinRequest[u][q.root] = "PENDING"} IN
    /\ Read(o, "requests")
    /\ W # {}
    /\ Proceed(o, [q EXCEPT !.who = W])

\* Mutant: a member of another team is taken over.
MayBeAddedAnyone(q) == q.to # q.root

\* directCreateMember: a new address, a user without a team or a member of this one.
MayBeAdded(q) == parent[q.to] \in {None, q.root} /\ q.to # q.root

MayBeRemoved(q) ==
    /\ parent[q.to] = q.root
    /\ ~(q.byRole = "ADMIN" /\ teamRole[q.to] = "ADMIN")

\* A user that has, or had, the ENTERPRISE role and whose subscription is ACTIVE.
JoinableTeam(r) == r \in Owner /\ subscription[r] \in {"B2B", "B2C"}

ReadTarget(o) ==
    LET q == req[o] IN
    /\ Read(o, "target")
    /\ CASE q.op = "directCreateMember"   -> Kept(q.to) /\ MayBeAdded(q)
         [] q.op = "inviteMember"         -> Kept(q.to) /\ parent[q.to] # q.root
         [] q.op = "removeTeamMember"     -> MayBeRemoved(q)
         [] q.op = "updateTeamMemberRole" -> parent[q.to] = q.root /\ q.byRole # "ADMIN"
         [] q.op = "requestToJoinTeam"    -> Exists(q.by) /\ parent[q.by] = None /\ JoinableTeam(q.to)
         [] q.op = "rejectTeamMember"     -> Exists(q.to)
    /\ Proceed(o, [q EXCEPT !.parent = parent[q.to], !.known = Exists(q.to)])

\* acceptInvitation and register present a token; approveTeamMember takes any
\* pending invitation to the address, whoever sent it.
Open(i) == invitation[i].status = "PENDING"

Usable(i, u) == Open(i) /\ ~invitation[i].overdue /\ invitation[i].to = u

ReadInvitation(o) ==
    LET q == req[o] IN
    /\ Read(o, "invitation")
    /\ \/ /\ q.op = "approveTeamMember"
          /\ \E i \in Invitation : /\ Open(i) /\ invitation[i].to = q.to
                                   /\ Proceed(o, [q EXCEPT !.key = i, !.role = invitation[i].role])
       \/ /\ q.op = "approveTeamMember"
          /\ \A i \in Invitation : ~(Open(i) /\ invitation[i].to = q.to)
          /\ Proceed(o, [q EXCEPT !.role = "MEMBER"])
       \/ /\ q.op \in {"acceptInvitation", "register"} /\ q.key # None
          /\ Usable(q.key, q.to) /\ Kept(q.to)
          /\ q.op = "acceptInvitation" => MayAdmit(q, invitation[q.key].from)
          /\ Proceed(o, [q EXCEPT !.role = invitation[q.key].role, !.root = invitation[q.key].from])
       \/ /\ q.op = "register" /\ q.key = None
          /\ Proceed(o, q)

\* The join request that approveTeamMember is about to settle, or rejectTeamMember requires.
ReadPending(o) ==
    LET q       == req[o]
        team    == IF q.op = "rejectTeamMember" THEN q.by ELSE q.root
        pending == joinRequest[q.to][team] = "PENDING" IN
    /\ Read(o, "pending")
    /\ q.op = "rejectTeamMember" => q.parent = q.by \/ pending
    /\ Proceed(o, [q EXCEPT !.pending = pending])

\* bulkDirectCreateMembers turns to its members one by one.
TakeNext(o) == Read(o, "next") /\ Leave(o)

\* A deletion for good first takes the members out of the team.  It runs in one transaction:
\* nobody sees their rows without a team before the row of the account is gone, and nobody else
\* can write them.
Deleting(o) == Stage(o) = "write" /\ req[o].op = "hardDeleteUser"

Detach(o) ==
    LET q == req[o] IN
    /\ Read(o, "detach")
    /\ \A d \in Request : Deleting(d) => req[d].who \cap Members(q.to) = {}
    /\ Proceed(o, [q EXCEPT !.who = Members(q.to)])

----------------------------------------------------------------------------
(* The writes.  A row that is gone can neither be updated nor be referred to:
   the statement fails, and its transaction with it.                         *)
Joins(W, r, c) ==
    /\ parent'   = [u \in User |-> IF u \in W THEN r ELSE parent[u]]
    /\ teamRole' = [u \in User |-> IF u \in W THEN c ELSE teamRole[u]]

Leaves(W) == Joins(W, None, None)

Register(u) == account' = [account EXCEPT ![u] = "live"]

Accepts(K) ==
    invitation' = [i \in Invitation |->
                     IF i \in K THEN [invitation[i] EXCEPT !.status = "ACCEPTED"] ELSE invitation[i]]

\* The invitation is still there: it goes with the account that sent it.
Stands(i) == i # None => invitation[i].status # "gone"

\* The pending requests of W to the team of r get status s.
Settles(W, r, s) ==
    joinRequest' = [u \in User |->
        IF u \in W /\ r \in User
        THEN [joinRequest[u] EXCEPT ![r] = IF @ = "PENDING" THEN s ELSE @]
        ELSE joinRequest[u]]

\* An address that was new when it was read must still be new: e-mail is unique.
DirectCreateMember(q) ==
    /\ Kept(q.root) /\ Kept(q.to)
    /\ IF q.known THEN UNCHANGED account ELSE account[q.to] = "absent" /\ Register(q.to)
    /\ Joins({q.to}, q.root, q.role)
    /\ UNCHANGED <<billing, invitation, joinRequest>>

InviteMember(o, q) ==
    /\ Kept(q.root)
    /\ invitation' = [invitation EXCEPT ![o] =
                        [to |-> q.to, from |-> q.root, role |-> q.role, status |-> "PENDING",
                         overdue |-> FALSE]]
    /\ UNCHANGED <<users, billing, joinRequest>>

ApproveTeamMember(q) ==
    /\ Kept(q.root) /\ Kept(q.to) /\ Stands(q.key)
    /\ Accepts({q.key})
    /\ IF q.pending THEN Settles({q.to}, q.root, "APPROVED") ELSE UNCHANGED joinRequest
    /\ Joins({q.to}, q.root, q.role)
    /\ UNCHANGED <<account, billing>>

\* It asks for the rows that are there.
BulkApprove(q) ==
    /\ Accepts({i \in Invitation : Open(i) /\ invitation[i].to \in q.who})
    /\ Settles(q.who, q.root, "APPROVED")
    /\ LET W == {u \in q.who : Kept(u)} IN (W # {} => Kept(q.root)) /\ Joins(W, q.root, "MEMBER")
    /\ UNCHANGED <<account, billing>>

AcceptInvitation(q) ==
    /\ Kept(q.root) /\ Kept(q.to) /\ Stands(q.key)
    /\ Accepts({q.key})
    /\ Joins({q.to}, q.root, q.role)
    /\ UNCHANGED <<account, billing, joinRequest>>

RejectTeamMember(q) ==
    /\ Settles({q.to}, q.by, "REJECTED")
    /\ IF q.parent = q.by THEN Kept(q.to) /\ Leaves({q.to}) ELSE UNCHANGED <<parent, teamRole>>
    /\ UNCHANGED <<account, billing, invitation>>

\* Mutant: the role is left behind.
RemoveTeamMemberKeepingRole(q) ==
    /\ Kept(q.to)
    /\ parent' = [parent EXCEPT ![q.to] = None]
    /\ UNCHANGED <<account, teamRole, billing, invitation, joinRequest>>

RemoveTeamMember(q) ==
    /\ Kept(q.to)
    /\ Leaves({q.to})
    /\ UNCHANGED <<account, billing, invitation, joinRequest>>

UpdateTeamMemberRole(q) ==
    /\ Kept(q.to)
    /\ teamRole' = [teamRole EXCEPT ![q.to] = q.role]
    /\ UNCHANGED <<account, parent, billing, invitation, joinRequest>>

RequestToJoinTeam(q) ==
    /\ Kept(q.by) /\ Kept(q.to)
    /\ joinRequest' = [joinRequest EXCEPT ![q.by][q.to] = "PENDING"]
    /\ UNCHANGED <<users, billing, invitation>>

\* Mutant: the invitation is spent and leads nowhere.
RegisterUserWithoutTeam(q) ==
    /\ account[q.to] = "absent" /\ Kept(q.root) /\ Stands(q.key)
    /\ Register(q.to)
    /\ Accepts({q.key})
    /\ UNCHANGED <<parent, teamRole, billing, joinRequest>>

\* Mutant: the invitation itself stands for the team.
RegisterUserUnderInvitation(q) ==
    /\ account[q.to] = "absent" /\ Kept(q.root) /\ Stands(q.key)
    /\ Register(q.to)
    /\ Accepts({q.key})
    /\ IF q.key = None THEN UNCHANGED <<parent, teamRole>> ELSE Joins({q.to}, q.key, q.role)
    /\ UNCHANGED <<billing, joinRequest>>

\* Without an invitation the account belongs to no team.
RegisterUser(q) ==
    /\ account[q.to] = "absent" /\ Kept(q.root) /\ Stands(q.key)
    /\ Register(q.to)
    /\ Accepts({q.key})
    /\ IF q.key = None THEN UNCHANGED <<parent, teamRole>> ELSE Joins({q.to}, q.root, q.role)
    /\ UNCHANGED <<billing, joinRequest>>

\* The soft deletion.  Its two statements are one step: a member admitted between them keeps the
\* deleted owner as its parent, like one admitted later.
DeleteUser(q) ==
    /\ Kept(q.to)
    /\ Leaves(Members(q.to) \cup {q.to})
    /\ account' = [account EXCEPT ![q.to] = "deleted"]
    /\ enterprise'   = [enterprise EXCEPT ![q.to] = FALSE]
    /\ subscription' = [subscription EXCEPT ![q.to] = None]
    /\ UNCHANGED <<invitation, joinRequest>>

SentBy(u) == {i \in Invitation : invitation[i].status # None /\ invitation[i].from = u}

LeavesConversations(u) ==
    conversation' = [g \in Request |->
        [owner   |-> IF conversation[g].owner = u THEN None ELSE conversation[g].owner,
         members |-> conversation[g].members \ {u}]]

\* The last statement of a deletion for good, and its commit.  Whatever refers to the row goes
\* with it (onDelete: Cascade), but a member admitted since the first statement stays: it loses
\* the team (SetNull) and keeps the role.
HardDeleteUser(q) ==
    /\ Kept(q.to)
    /\ account'  = [account EXCEPT ![q.to] = "gone"]
    /\ parent'   = [u \in User |-> IF u = q.to \/ u \in q.who \/ parent[u] = q.to
                                   THEN None ELSE parent[u]]
    /\ teamRole' = [u \in User |-> IF u = q.to \/ u \in q.who THEN None ELSE teamRole[u]]
    /\ enterprise'   = [enterprise EXCEPT ![q.to] = FALSE]
    /\ subscription' = [subscription EXCEPT ![q.to] = None]
    /\ invitation' = [i \in Invitation |->
                         IF i \in SentBy(q.to) THEN [invitation[i] EXCEPT !.status = "gone"]
                         ELSE invitation[i]]
    /\ joinRequest' = [u \in User |-> [p \in User |->
                         IF q.to \in {u, p} THEN None ELSE joinRequest[u][p]]]

\* A write leaves alone the rows that another transaction has written and not yet committed.
Unlocked(o) ==
    \A d \in Request \ {o} : Deleting(d) =>
        \A u \in req[d].who : parent'[u] = parent[u] /\ teamRole'[u] = teamRole[u]

Write(o) ==
    LET q == req[o] IN
    /\ Stage(o) = "write"
    /\ CASE q.op = "directCreateMember"   -> DirectCreateMember(q)
         [] q.op = "inviteMember"         -> InviteMember(o, q)
         [] q.op = "approveTeamMember"    -> ApproveTeamMember(q)
         [] q.op = "bulkApprove"          -> BulkApprove(q)
         [] q.op = "acceptInvitation"     -> AcceptInvitation(q)
         [] q.op = "rejectTeamMember"     -> RejectTeamMember(q)
         [] q.op = "removeTeamMember"     -> RemoveTeamMember(q)
         [] q.op = "updateTeamMemberRole" -> UpdateTeamMemberRole(q)
         [] q.op = "requestToJoinTeam"    -> RequestToJoinTeam(q)
         [] q.op = "register"             -> RegisterUser(q)
         [] q.op = "deleteUser"           -> DeleteUser(q)
         [] q.op = "hardDeleteUser"       -> HardDeleteUser(q)
    /\ Unlocked(o)
    /\ IF q.op = "hardDeleteUser" THEN LeavesConversations(q.to) ELSE UNCHANGED conversation
    /\ Proceed(o, q)

----------------------------------------------------------------------------
(* ensureTeamConversation: outside the transaction of its caller, and a failure
   in it is swallowed (Skip).                                                *)
\* The owner of the conversation: approveTeamMember passes its caller.
Host(q)    == IF q.op = "approveTeamMember" THEN q.by ELSE q.root
Joiners(q) == IF q.op = "bulkApprove" THEN q.who ELSE {q.to}

FindConversation(o) ==
    LET q == req[o]
        G == {g \in Request : conversation[g].owner = Host(q)} IN
    /\ Read(o, "find")
    /\ \/ \E g \in G : Proceed(o, [q EXCEPT !.group = g])
       \/ G = {} /\ Proceed(o, [q EXCEPT !.group = None])

\* The conversation is opened first, and the joiners may fail to be added to it.
Converse(o) ==
    LET q == req[o] IN
    /\ Stage(o) = "converse"
    /\ IF q.group = None
       THEN \E W \in {{}, Joiners(q)} :
            /\ \A u \in W \cup {Host(q)} : Kept(u)
            /\ conversation' = [conversation EXCEPT ![o] = [owner |-> Host(q), members |-> W \cup {Host(q)}]]
       ELSE /\ \A u \in Joiners(q) : Kept(u)
            /\ conversation' = [conversation EXCEPT ![q.group].members = @ \cup Joiners(q)]
    /\ Proceed(o, q)
    /\ UNCHANGED <<users, billing, invitation, joinRequest>>

Skip(o) ==
    LET q == req[o] IN
    /\ Stage(o) \in {"find", "converse"}
    /\ IF q.op \in {"approveTeamMember", "acceptInvitation"}
       THEN /\ at'  = [at EXCEPT ![o] = Len(Path[q.op])]
            /\ UNCHANGED req
       ELSE Leave(o)
    /\ UNCHANGED <<users, billing, invitation, joinRequest, conversation>>

----------------------------------------------------------------------------
(* The calls.                                                                *)
Ask(op, by, to) == [NoRequest EXCEPT !.op = op, !.by = by, !.to = to]

CallManager(o, u) ==
    /\ MayArrive(o) /\ MayManage(u)
    /\ \/ \E op \in {"approveTeamMember", "rejectTeamMember", "removeTeamMember"}, v \in User :
            Arrive(o, Ask(op, u, v))
       \/ \E op \in {"directCreateMember", "inviteMember", "updateTeamMemberRole"}, v \in User,
             c \in Granted : Arrive(o, [Ask(op, u, v) EXCEPT !.role = c])
       \/ \E W \in Batches : Arrive(o, [Ask("bulkDirectCreateMembers", u, None) EXCEPT
                                              !.role = "MEMBER", !.rest = W])
       \/ Arrive(o, Ask("bulkApprove", u, None))

CallUser(o, u) ==
    /\ MayArrive(o)
    /\ \/ /\ account[u] = "live"
          /\ \/ \E i \in Invitation : Arrive(o, [Ask("acceptInvitation", u, u) EXCEPT !.key = i])
             \/ \E p \in User : Arrive(o, Ask("requestToJoinTeam", u, p))
       \/ /\ account[u] = "absent"
          /\ \E i \in Invitation \cup {None} : Arrive(o, [Ask("register", u, u) EXCEPT !.key = i])
       \/ /\ Exists(u)                                           \* an administrator
          /\ \E op \in {"deleteUser", "hardDeleteUser"} : Arrive(o, Ask(op, None, u))

----------------------------------------------------------------------------
Init ==
    /\ account  \in [User -> {"absent", "live"}] /\ \A u \in Owner : account[u] = "live"
    /\ parent   \in [User -> Owner \cup {None}]
    /\ teamRole \in [User -> Granted \cup {None}]
    /\ \A u \in User : /\ parent[u] = None <=> teamRole[u] = None
                       /\ parent[u] # None => u \in Candidate /\ account[u] = "live"
    /\ \A u \in Owner : Cardinality(Members(u)) <= Seats
    /\ subscription \in [User -> Subscribed \cup {None}]
    /\ \A u \in User : subscription[u] # None <=> u \in Owner
    /\ enterprise = [u \in User |-> subscription[u] \in LiveB2B]
    /\ \E i \in [to : Invited, from : Owner, role : Granted, status : {"PENDING"},
                 overdue : BOOLEAN] \cup {NoInvitation} :
          invitation = [k \in Invitation |-> IF k = Sent THEN i ELSE NoInvitation]
    /\ \E r \in Owner, W \in SUBSET {u \in Candidate : account[u] = "live"} :
          joinRequest = [u \in User |-> [p \in User |-> IF u \in W /\ p = r THEN "PENDING" ELSE None]]
    /\ conversation = [g \in Request |-> [owner |-> None, members |-> {}]]
    /\ req = [o \in Request |-> NoRequest]
    /\ at  = [o \in Request |-> 0]

Step(o) ==
    \/ ReadWorkspace(o) \/ ReadCaller(o) \/ ReadSeats(o) \/ ReadRequests(o)
    \/ ReadTarget(o) \/ ReadInvitation(o) \/ ReadPending(o) \/ TakeNext(o)
    \/ Detach(o)
    \/ Write(o)
    \/ FindConversation(o) \/ Converse(o) \/ Skip(o)
    \/ Fail(o)

Next ==
    \/ \E o \in Request, u \in User : CallManager(o, u) \/ CallUser(o, u)
    \/ \E o \in Request : Step(o)

Spec == Init /\ [][Next]_vars

----------------------------------------------------------------------------
(* Properties.                                                               *)
RequestType ==
    [op : Operation \cup {None, "served"}, by : User \cup {None}, to : User \cup {None},
     role : TeamRole \cup {None}, key : Invitation \cup {None}, root : User \cup {None},
     parent : User \cup {None}, byRole : TeamRole \cup {None}, known : BOOLEAN, pending : BOOLEAN,
     free : Nat, who : SUBSET User, rest : SUBSET User, group : Request \cup {None}]

\* Types, and every request in flight is on its path.
TypeOK ==
    /\ account  \in [User -> {"absent", "live", "deleted", "gone"}]
    /\ parent   \in [User -> User \cup {None}]
    /\ teamRole \in [User -> TeamRole \cup {None}]
    /\ enterprise   \in [User -> BOOLEAN]
    /\ subscription \in [User -> Live \cup {None}]
    /\ invitation \in [Invitation -> [to : User \cup {None}, from : User \cup {None},
                                      role : TeamRole \cup {None},
                                      status : {None, "PENDING", "ACCEPTED", "gone"},
                                      overdue : BOOLEAN]]
    /\ joinRequest  \in [User -> [User -> {None, "PENDING", "APPROVED", "REJECTED"}]]
    /\ conversation \in [Request -> [owner : User \cup {None}, members : SUBSET User]]
    /\ req \in [Request -> RequestType]
    /\ at  \in [Request -> Nat]
    /\ \A o \in Request : at[o] # 0 => req[o].op \in Operation /\ at[o] \in 1..Len(Path[req[o].op])

\* Request o runs its transaction, or its one update, in this step.
Writes(o, ops) == Stage(o) = "write" /\ req[o].op \in ops /\ <<req, at>>' # <<req, at>>

Grows(r) == Cardinality(Members(r)') > Cardinality(Members(r))

\* A team outgrows its seats only through a registration, which counts no seats, or through a
\* request whose count is out of date when it writes: no admission is wrong by itself.
OnlyStaleCountsOversell ==
    [][\A r \in User :
          Grows(r) /\ Cardinality(Members(r)') > Seats =>
             \E o \in Request : \/ Writes(o, {"register"})
                                \/ Writes(o, Operation) /\ req[o].free # SeatsLeft(r)]_vars

Paired(u) == parent[u] = None <=> teamRole[u] = None

\* A user has a team role exactly as long as a team, but for two races: a role update whose
\* member has left the team since it was looked up, and a deletion for good of the owner that a
\* member has joined since the members were detached.
OnlyRacesUnpair ==
    [][\A u \in User :
          Paired(u) /\ ~Paired(u)' =>
             \E o \in Request :
                \/ /\ Writes(o, {"updateTeamMemberRole"})
                   /\ req[o].to = u /\ parent[u] # req[o].root
                \/ /\ Writes(o, {"hardDeleteUser"})
                   /\ req[o].to = parent[u] /\ u \notin req[o].who]_vars

\* A member passes from one team straight to another by its own acceptance or an approval,
\* and otherwise only when a direct creation read it before it had a team.
MembersAreNotTaken ==
    [][\A u \in User :
          parent[u] # None /\ parent'[u] \notin {None, parent[u]} =>
             \E o \in Request :
                \/ Writes(o, {"acceptInvitation", "approveTeamMember", "bulkApprove"})
                \/ Writes(o, {"directCreateMember"}) /\ req[o].parent # parent[u]]_vars

\* Only approvals spend an invitation of somebody else's: in any other step that accepts an
\* invitation its addressee joins the team it invites to, and an invitation that vanishes
\* unanswered goes with the account that sent it.
InvitationsLeadToTheirTeam ==
    [][\A i \in Invitation :
          Open(i) /\ ~Open(i)' =>
             \/ parent'[invitation[i].to] = invitation[i].from
             \/ \E o \in Request :
                   \/ Writes(o, {"approveTeamMember", "bulkApprove"})
                   \/ Writes(o, {"hardDeleteUser"}) /\ req[o].to = invitation[i].from]_vars

=============================================================================
