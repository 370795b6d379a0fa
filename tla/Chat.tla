-------------------------------- MODULE Chat --------------------------------
(* Conversations: the chat service, and the gateway that keeps the sockets of
   the connected users in rooms and passes new messages on to them.

   Every operation checks what it has read and writes afterwards, so a request
   is a path of steps that interleave with those of other requests.  It arrives
   with its first step: until then it knows nothing.  A row of
   ConversationMember is known by the request that added it and its user: the
   table lets a user have several rows in a conversation.  A user has one
   socket.  Team membership changes as module Team says; here it just changes. *)
EXTENDS Naturals, Sequences, FiniteSets

CONSTANTS
    User,
    Owner,         \* the owner of the team, and of the conversation Earlier
    Request,
    Earlier,       \* key of a conversation opened before the run
    Granted,       \* the team roles with which users join the team
    Operations,    \* the operations the clients call
    MaxInFlight    \* how many requests run at once

ASSUME UserAssumption    == Owner \in User /\ "none" \notin User
ASSUME EarlierAssumption == Earlier \notin Request /\ "none" \notin Request \cup {Earlier}
ASSUME GrantedAssumption == Granted \subseteq {"ADMIN", "MEMBER"}

VARIABLES
    account,        \* account[u]: "live", or "deleted" for good
    parent,         \* User.parentUserId
    teamRole,       \* User.teamRole
    conversation,   \* Conversation, keyed by the request that opened it: its type, and for whom
    members,        \* the rows of ConversationMember
    messages,       \* the rows of Message, keyed by the request that sent them
    room,           \* <<u, c>>: the socket of u is in the room of c
    seen,           \* seen[u]: the messages that have reached the client of u
    caughtUp,       \* <<u, c>> in room: u has loaded the messages of c since it entered
    req,            \* what request o was asked for and what it has read
    at              \* at[o]: how many steps of its path o has taken, 0 when idle

team    == <<account, parent, teamRole>>
tables  == <<conversation, members, messages>>
sockets == <<room, seen, caughtUp>>
vars    == <<team, tables, sockets, req, at>>

None == "none"
Key  == Request \cup {Earlier}

Path ==
    [createConversation          |-> <<"people", "existing", "open">>,
     createTeamConversation      |-> <<"team", "people", "existing", "open">>,
     addConversationMember       |-> <<"conversation", "people", "add">>,
     addTeamConversationMember   |-> <<"conversation", "team", "manager", "joiner", "add">>,
     blockConversationMember     |-> <<"conversation", "block">>,
     blockTeamConversationMember |-> <<"conversation", "team", "manager", "block">>,
     ensureTeamConversation      |-> <<"find", "open", "add">>,
     joinRoom                    |-> <<"membership", "enter">>,
     sendMessage                 |-> <<"membership", "save", "emit">>,
     getMessages                 |-> <<"membership", "load">>]

Operation == DOMAIN Path

NoRequest ==
    [op |-> None, by |-> None, to |-> None, type |-> None, block |-> FALSE, group |-> None,
     known |-> {}, row |-> None, root |-> None]

Served == [NoRequest EXCEPT !.op = "served"]

InFlight == {o \in Request : at[o] # 0}
Stage(o) == IF at[o] = 0 THEN "idle" ELSE Path[req[o].op][at[o] + 1]

RowsOf(c)   == {m \in members : m.conversation = c}
Rows(c, u)  == {m \in RowsOf(c) : m.user = u}
Users(c)    == {m.user : m \in RowsOf(c)}
Messages(c) == {m.by : m \in {n \in messages : n.conversation = c}}
Root(u)     == IF parent[u] = None THEN u ELSE parent[u]

NewRow(o, c, u, r) == [by |-> o, conversation |-> c, user |-> u, role |-> r, blocked |-> FALSE]

----------------------------------------------------------------------------
(* The course of a request.  One that has added nothing leaves its key free.  *)
Ended(o) == IF Stage(o) \in {"open", "add", "save", "emit"} THEN Served ELSE NoRequest

Leave(o) ==
    /\ req' = [req EXCEPT ![o] = Ended(o)]
    /\ at'  = [at EXCEPT ![o] = 0]

Proceed(o, q) ==
    IF at[o] + 1 = Len(Path[q.op]) THEN Leave(o)
    ELSE /\ req' = [req EXCEPT ![o] = q]
         /\ at'  = [at EXCEPT ![o] = @ + 1]

\* Request o, which is asked for what q says, comes to a step that only reads.
Read(o, q, stage) == Path[q.op][at[o] + 1] = stage /\ UNCHANGED <<team, tables, sockets>>

\* A refusal, a violated constraint, a lost connection: the step does nothing.
Fail(o) ==
    /\ Stage(o) \notin {"idle", "emit"}
    /\ Leave(o)
    /\ UNCHANGED <<team, tables, sockets>>

----------------------------------------------------------------------------
(* What a request reads before it writes.                                    *)
\* createConversation and assertUsersExist: the participants have accounts.
ReadPeople(o, q) ==
    /\ Read(o, q, "people")
    /\ account[q.to] = "live"
    /\ q.op # "addConversationMember" => account[q.by] = "live"
    /\ Proceed(o, q)

\* A DIRECT conversation without members outside W, and any of them.
MayServe(c, W) == conversation[c].type = "DIRECT" /\ Users(c) \subseteq W

ReadExisting(o, q) ==
    LET Found == {c \in Key : q.type = "DIRECT" /\ MayServe(c, {q.by, q.to})} IN
    /\ Read(o, q, "existing")
    /\ \/ \E c \in Found : Proceed(o, [q EXCEPT !.group = c])
       \/ Found = {} /\ Proceed(o, q)

\* Mutant: nobody asks whether the user is a member already.
MayAddAgain(q) == q.to \in User

MayAdd(q) == q.to \notin q.known

MayBlock(q, t) == q.by # q.to /\ t.role # "OWNER"

Manages(q, m) == q.op \notin {"addConversationMember", "blockConversationMember"} \/ m.role = "OWNER"

\* The conversation with all its rows; the code takes the first row of a user it finds.
ReadConversation(o, q) ==
    LET p == [q EXCEPT !.known = Users(q.group)] IN
    /\ Read(o, q, "conversation")
    /\ conversation[q.group].type = "GROUP"
    /\ \E m \in Rows(q.group, q.by) : Manages(q, m)
    /\ \/ q.op = "addConversationMember" /\ MayAdd(p) /\ Proceed(o, p)
       \/ q.op = "addTeamConversationMember" /\ Proceed(o, p)
       \/ /\ q.op \in {"blockConversationMember", "blockTeamConversationMember"}
          /\ \E t \in Rows(q.group, q.to) : MayBlock(q, t) /\ Proceed(o, [p EXCEPT !.row = t.by])

\* assertUsersBelongToSameTeam, assertConversationBelongsToRequesterTeam.
SameTeam(u, W) == \A v \in W : account[v] = "live" /\ Root(v) = Root(u)

ReadTeam(o, q) ==
    /\ Read(o, q, "team")
    /\ account[q.by] = "live"
    /\ SameTeam(q.by, IF q.op = "createTeamConversation" THEN {q.to} ELSE q.known)
    /\ Proceed(o, [q EXCEPT !.root = Root(q.by)])

\* canManageTeamChatMembers.
ReadManager(o, q) ==
    /\ Read(o, q, "manager")
    /\ account[q.by] = "live"
    /\ q.by = q.root \/ (parent[q.by] = q.root /\ teamRole[q.by] = "ADMIN")
    /\ Proceed(o, q)

ReadJoiner(o, q) ==
    /\ Read(o, q, "joiner")
    /\ account[q.by] = "live" /\ SameTeam(q.by, {q.to})
    /\ MayAdd(q)
    /\ Proceed(o, q)

\* ensureTeamConversation: any GROUP conversation that the owner of the team owns.
FindTeamConversation(o, q) ==
    LET Found == {c \in Key : /\ conversation[c].type = "GROUP"
                              /\ \E m \in Rows(c, q.by) : m.role = "OWNER"} IN
    /\ Read(o, q, "find")
    /\ \/ \E c \in Found : Proceed(o, [q EXCEPT !.group = c, !.known = Users(c)])
       \/ Found = {} /\ Proceed(o, [q EXCEPT !.known = {q.by}])

\* Mutant: whether the member is blocked is not asked.
IsMemberAtAll(m) == m \in members

\* assertConversationMember, saveMessage and getMessages judge the first row they find.
IsMember(m) == ~m.blocked

ReadMembership(o, q) ==
    /\ Read(o, q, "membership")
    /\ \E m \in Rows(q.group, q.by) : IsMember(m)
    /\ Proceed(o, q)

----------------------------------------------------------------------------
(* The writes.                                                               *)
\* A conversation that was found is given back as it is.
OpenConversation(o) ==
    LET q == req[o]
        W == IF q.op = "ensureTeamConversation" THEN {q.by} ELSE {q.by, q.to} IN
    /\ Stage(o) = "open"
    /\ IF q.group # None
       THEN UNCHANGED tables /\ Proceed(o, q)
       ELSE /\ \A u \in W : account[u] = "live"
            /\ conversation' = [conversation EXCEPT ![o] = [type |-> q.type, by |-> q.by]]
            /\ members' = members \cup {NewRow(o, o, u, IF u = q.by THEN "OWNER" ELSE "MEMBER") : u \in W}
            /\ Proceed(o, [q EXCEPT !.group = o])
            /\ UNCHANGED messages
    /\ UNCHANGED <<team, sockets>>

AddMember(o) ==
    LET q == req[o] IN
    /\ Stage(o) = "add"
    /\ IF q.op = "ensureTeamConversation" /\ q.to \in q.known
       THEN UNCHANGED members
       ELSE account[q.to] = "live" /\ members' = members \cup {NewRow(o, q.group, q.to, "MEMBER")}
    /\ Proceed(o, q)
    /\ UNCHANGED <<team, conversation, messages, sockets>>

\* Mutant: the block becomes a row of its own.
SetBlockBeside(o) ==
    LET q == req[o] IN
    /\ Stage(o) = "block"
    /\ \E t \in Rows(q.group, q.to) :
          t.by = q.row /\ members' = members \cup {[t EXCEPT !.blocked = q.block]}
    /\ Proceed(o, q)
    /\ UNCHANGED <<team, conversation, messages, sockets>>

SetBlock(o) ==
    LET q == req[o] IN
    /\ Stage(o) = "block"
    /\ \E t \in Rows(q.group, q.to) :
          /\ t.by = q.row
          /\ members' = (members \ {t}) \cup {[t EXCEPT !.blocked = q.block]}
    /\ Proceed(o, q)
    /\ UNCHANGED <<team, conversation, messages, sockets>>

SaveMessage(o) ==
    LET q == req[o] IN
    /\ Stage(o) = "save"
    /\ account[q.by] = "live"
    /\ messages' = messages \cup {[by |-> o, conversation |-> q.group, sender |-> q.by]}
    /\ Proceed(o, q)
    /\ UNCHANGED <<team, conversation, members, sockets>>

----------------------------------------------------------------------------
(* The gateway.                                                              *)
EnterRoom(o) ==
    LET q == req[o] IN
    /\ Stage(o) = "enter"
    /\ room' = room \cup {<<q.by, q.group>>}
    /\ Proceed(o, q)
    /\ UNCHANGED <<team, tables, seen, caughtUp>>

\* Mutant: everybody in the room but the sender, as for the typing indicator.
HearsOthers(u, q) == <<u, q.group>> \in room /\ u # q.by

Hears(u, q) == <<u, q.group>> \in room

EmitMessage(o) ==
    LET q == req[o] IN
    /\ Stage(o) = "emit"
    /\ seen' = [u \in User |-> IF Hears(u, q) THEN seen[u] \cup {o} ELSE seen[u]]
    /\ Proceed(o, q)
    /\ UNCHANGED <<team, tables, room, caughtUp>>

LoadMessages(o) ==
    LET q == req[o] IN
    /\ Stage(o) = "load"
    /\ seen' = [seen EXCEPT ![q.by] = @ \cup Messages(q.group)]
    /\ caughtUp' = caughtUp \cup ({<<q.by, q.group>>} \cap room)
    /\ Proceed(o, q)
    /\ UNCHANGED <<team, tables, room>>

\* The requests in O end here.
Abandon(O) ==
    /\ req' = [o \in Request |-> IF o \in O THEN Ended(o) ELSE req[o]]
    /\ at'  = [o \in Request |-> IF o \in O THEN 0 ELSE at[o]]
    /\ UNCHANGED <<team, tables>>

\* The socket of u closes: it is in no room, and a room it was about to enter stays closed.
Disconnect(u) ==
    /\ \E c \in Key : <<u, c>> \in room
    /\ room'     = {x \in room : x[1] # u}
    /\ caughtUp' = {x \in caughtUp : x[1] # u}
    /\ UNCHANGED seen
    /\ Abandon({o \in InFlight : req[o].op = "joinRoom" /\ req[o].by = u})

\* The server stops and comes back: no sockets, no requests, the tables as they were.
Restart ==
    /\ InFlight # {}
    /\ room' = {} /\ caughtUp' = {} /\ UNCHANGED seen
    /\ Abandon(InFlight)

----------------------------------------------------------------------------
(* Changes of accounts and teams.                                            *)
ChangeTeam(u, r, c) ==
    /\ u # Owner /\ account[u] = "live" /\ parent[u] # r
    /\ r # None => account[r] = "live"
    /\ parent'   = [parent EXCEPT ![u] = r]
    /\ teamRole' = [teamRole EXCEPT ![u] = c]
    /\ UNCHANGED <<account, tables, sockets, req, at>>

\* The hard deletion: rows and messages go with the account; the open socket does not.
DeleteUser(u) ==
    /\ account[u] = "live"
    /\ account'  = [account EXCEPT ![u] = "deleted"]
    /\ parent'   = [v \in User |-> IF v = u \/ parent[v] = u THEN None ELSE parent[v]]
    /\ teamRole' = [v \in User |-> IF v = u \/ parent[v] = u THEN None ELSE teamRole[v]]
    /\ members'  = {m \in members : m.user # u}
    /\ messages' = {m \in messages : m.sender # u}
    /\ UNCHANGED <<conversation, sockets, req, at>>

Environment(u) ==
    \/ Disconnect(u)
    \/ "deleteUser" \in Operations /\ DeleteUser(u)
    \/ "changeTeam" \in Operations /\ \/ ChangeTeam(u, None, None)
                                      \/ \E c \in Granted : ChangeTeam(u, Owner, c)

----------------------------------------------------------------------------
(* The calls.                                                                *)
Conversations == {c \in Key : conversation[c].type # None}

Asks(op, by, to, type, block, group) ==
    [op : op, by : by, to : to, type : type, block : block, group : group,
     known : {{}}, row : {None}, root : {None}]

Calls(u) ==
    Asks({"createConversation", "createTeamConversation"}, {u}, User \ {u}, {"DIRECT", "GROUP"}, {FALSE}, {None})
    \cup Asks({"ensureTeamConversation"}, {Owner}, {u}, {"GROUP"}, {FALSE}, {None})
    \cup Asks({"addConversationMember", "addTeamConversationMember"}, {u}, User, {None}, {FALSE}, Conversations)
    \cup Asks({"blockConversationMember", "blockTeamConversationMember"}, {u}, User, {None}, BOOLEAN, Conversations)
    \cup Asks({"joinRoom", "sendMessage", "getMessages"}, {u}, {None}, {None}, {FALSE}, Conversations)

----------------------------------------------------------------------------
Init ==
    /\ account = [u \in User |-> "live"]
    /\ parent   = [u \in User |-> IF u = Owner THEN None ELSE Owner]
    /\ teamRole = [u \in User |-> IF u = Owner THEN None ELSE "ADMIN"]
    /\ \E t \in {"DIRECT", "GROUP"}, W \in {{}} \cup {{v} : v \in User \ {Owner}} :
          /\ t = "DIRECT" => W # {}
          /\ conversation = [k \in Key |-> IF k = Earlier THEN [type |-> t, by |-> Owner]
                                           ELSE [type |-> None, by |-> None]]
          /\ members = {NewRow(Earlier, Earlier, Owner, "OWNER")}
                       \cup {NewRow(Earlier, Earlier, v, "MEMBER") : v \in W}
    /\ messages = {}
    /\ room = {} /\ caughtUp = {}
    /\ seen = [u \in User |-> {}]
    /\ req = [o \in Request |-> NoRequest]
    /\ at  = [o \in Request |-> 0]

Reads(o, q) ==
    \/ ReadPeople(o, q) \/ ReadExisting(o, q) \/ ReadConversation(o, q) \/ ReadTeam(o, q)
    \/ ReadManager(o, q) \/ ReadJoiner(o, q) \/ FindTeamConversation(o, q) \/ ReadMembership(o, q)

Arrive(o, u) ==
    /\ at[o] = 0 /\ req[o].op = None /\ Cardinality(InFlight) < MaxInFlight
    /\ account[u] = "live"
    /\ \E q \in Calls(u) : q.op \in Operations /\ Reads(o, q)

Step(o) ==
    \/ at[o] # 0 /\ Reads(o, req[o])
    \/ OpenConversation(o) \/ AddMember(o) \/ SetBlock(o) \/ SaveMessage(o)
    \/ EnterRoom(o) \/ EmitMessage(o) \/ LoadMessages(o)
    \/ Fail(o)

Next ==
    \/ \E o \in Request : Step(o) \/ \E u \in User : Arrive(o, u)
    \/ \E u \in User : Environment(u)
    \/ Restart

Spec == Init /\ [][Next]_vars

----------------------------------------------------------------------------
(* Properties.                                                               *)
\* Types; no two rows have the same key; every request in flight is on its path.
TypeOK ==
    /\ account  \in [User -> {"live", "deleted"}]
    /\ parent   \in [User -> User \cup {None}]
    /\ teamRole \in [User -> {"ADMIN", "MEMBER", None}]
    /\ conversation \in [Key -> [type : {"DIRECT", "GROUP", None}, by : User \cup {None}]]
    /\ members  \subseteq [by : Key, conversation : Key, user : User, role : {"OWNER", "MEMBER"},
                           blocked : BOOLEAN]
    /\ messages \subseteq [by : Request, conversation : Key, sender : User]
    /\ \A m, n \in members : m.by = n.by /\ m.user = n.user => m = n
    /\ room \subseteq User \X Key /\ caughtUp \subseteq room
    /\ seen \in [User -> SUBSET Request]
    /\ req \in [Request -> [op : Operation \cup {None, "served"}, by : User \cup {None},
                            to : User \cup {None}, type : {"DIRECT", "GROUP", None}, block : BOOLEAN,
                            group : Key \cup {None}, known : SUBSET User, row : Key \cup {None},
                            root : User \cup {None}]]
    /\ at \in [Request -> Nat]
    /\ \A o \in Request : at[o] # 0 => req[o].op \in Operation /\ at[o] < Len(Path[req[o].op])

\* A client that enters the room of a conversation and then loads its messages has every one of
\* them but those that are saved and still to be passed on, whatever restarts and other senders do.
NothingMissed ==
    \A x \in caughtUp : \A m \in Messages(x[2]) : m \in seen[x[1]] \/ Stage(m) = "emit"

\* A user comes by a second row in a conversation only in the write of a request that looked at
\* the members before the first one was there.
OnlyOverlapDuplicatesMembers ==
    [][\A c \in Key, u \in User :
          Rows(c, u) # {} /\ Cardinality(Rows(c, u)') > Cardinality(Rows(c, u)) =>
             \E o \in Request : Stage(o) = "add" /\ req[o].to = u /\ u \notin req[o].known]_vars

\* A member with a blocked row enters a room, sends or loads only with the help of a second row.
OnlyDuplicatesEvadeBlocks ==
    [][\A o \in Request :
          LET q == req'[o] IN
          /\ Stage(o) = "idle" /\ Stage(o)' \in {"enter", "save", "load"}
          /\ \E m \in Rows(q.group, q.by) : m.blocked
          => Cardinality(Rows(q.group, q.by)) > 1]_vars

=============================================================================
