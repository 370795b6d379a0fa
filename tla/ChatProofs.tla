------------------------------ MODULE ChatProofs ------------------------------
(* Proofs about Chat for any number of users and requests: no client that has loaded
   a conversation misses a message, and what it takes to be in one twice.     *)
EXTENDS Chat, FiniteSetTheorems, TLAPS

Creates == {"createConversation", "createTeamConversation"}
Opens   == Creates \cup {"ensureTeamConversation"}
Enters  == {"joinRoom", "sendMessage", "getMessages"}

\* Request o has opened its conversation.
Opened(o) ==
    \/ req[o].op = "served"
    \/ req[o].op = "ensureTeamConversation" /\ Stage(o) = "add" /\ req[o].group = o

\* Conversations exist before anything is in them or about them.
OpenedBefore ==
    /\ \A o \in Request : conversation[o].type # None => Opened(o)
    /\ \A m \in members : conversation[m.conversation].type # None

\* The request that added row m has ended; or it was its own user's, in the team's conversation.
Added(m) ==
    m.by # Earlier => req[m.by].op = "served" \/ (Opened(m.by) /\ m.user = req[m.by].by)

\* What request o knows on its way.
Knows(o) ==
    LET q == req[o] IN
    /\ q.by \in User
    /\ q.op \notin Enters => q.to \in User
    /\ q.op \in Opens => q.type # None
    /\ q.op \notin Opens \/ Stage(o) = "add" => q.group # None
    /\ q.group # None => conversation[q.group].type # None
    /\ q.op = "addConversationMember" \/ (q.op = "addTeamConversationMember" /\ Stage(o) = "add") =>
          q.to \notin q.known
    /\ q.op = "ensureTeamConversation" /\ q.group \in {None, o} => q.by \in q.known

\* A message belongs to a request that has passed it on, or is about to.
Passed(m) ==
    \/ req[m.by].op = "served"
    \/ Stage(m.by) = "emit" /\ req[m.by].group = m.conversation

IInv ==
    /\ TypeOK /\ IsFiniteSet(members)
    /\ OpenedBefore
    /\ \A m \in members : Added(m)
    /\ \A o \in InFlight : Knows(o)
    /\ \A m \in messages : Passed(m)
    /\ NothingMissed

----------------------------------------------------------------------------
(* Types. *)
Asked == [op : Operation \cup {None, "served"}, by : User \cup {None}, to : User \cup {None},
          type : {"DIRECT", "GROUP", None}, block : BOOLEAN, group : Key \cup {None},
          known : SUBSET User, row : Key \cup {None}, root : User \cup {None}]

Row == [by : Key, conversation : Key, user : User, role : {"OWNER", "MEMBER"}, blocked : BOOLEAN]

Sent == [by : Request, conversation : Key, sender : User]

\* Request o is asked for p and at step k of its path, or has left.
OnItsPath(p, k) == p \in Asked /\ k \in Nat /\ (k # 0 => p.op \in Operation /\ k < Len(Path[p.op]))

LEMMA TypeParts ==
    ASSUME TypeOK
    PROVE  /\ account \in [User -> {"live", "deleted"}] /\ parent \in [User -> User \cup {None}]
           /\ teamRole \in [User -> {"ADMIN", "MEMBER", None}]
           /\ conversation \in [Key -> [type : {"DIRECT", "GROUP", None}, by : User \cup {None}]]
           /\ members \subseteq Row /\ messages \subseteq Sent
           /\ \A m, n \in members : m.by = n.by /\ m.user = n.user => m = n
           /\ room \subseteq User \X Key /\ caughtUp \subseteq room
           /\ seen \in [User -> SUBSET Request]
           /\ req \in [Request -> Asked] /\ at \in [Request -> Nat]
           /\ \A o \in Request : req[o] \in Asked /\ at[o] \in Nat /\ OnItsPath(req[o], at[o])
BY DEF TypeOK, Asked, Row, Sent, OnItsPath

\* What a path looks like at step k + 1.
LEMMA Paths ==
    ASSUME NEW op \in Operation, NEW k \in Nat, k < Len(Path[op])
    PROVE  LET s    == Path[op][k + 1]
               Last == k + 1 = Len(Path[op])
               next == Path[op][k + 2] IN
           /\ Len(Path[op]) \in Nat \ {0, 1}
           /\ Last <=> s \in {"add", "block", "enter", "emit", "load"} \/ (s = "open" /\ op \in Creates)
           /\ s = "open" => op \in Opens /\ k # 0
           /\ s = "open" /\ ~Last => next = "add" /\ op = "ensureTeamConversation"
           /\ s = "add" => op \in {"addConversationMember", "addTeamConversationMember", "ensureTeamConversation"}
           /\ s = "block" => op \in {"blockConversationMember", "blockTeamConversationMember"}
           /\ s = "enter" => op = "joinRoom"
           /\ s \in {"save", "emit"} => op = "sendMessage" /\ k # 0
           /\ s = "load" => op = "getMessages"
           /\ s = "save" => next = "emit"
           /\ s = "emit" => k = 2
           /\ ~Last /\ next = "emit" => s = "save"
           /\ s = "existing" => op \in Creates
           /\ s = "find" => k = 0 /\ op = "ensureTeamConversation"
           /\ s = "membership" <=> op \in Enters /\ k = 0
           /\ ~Last /\ next \in {"enter", "save", "load"} => s = "membership"
           /\ ~Last /\ next = "add" =>
                 \/ s = "people" /\ op = "addConversationMember"
                 \/ s = "joiner" /\ op = "addTeamConversationMember"
                 \/ s = "open"
           /\ op = "addConversationMember" => (k = 0 <=> s = "conversation")
           /\ op = "ensureTeamConversation" => s \in {"find", "open", "add"}
           /\ s # "idle"
<1> DEFINE s    == Path[op][k + 1]
           Last == k + 1 = Len(Path[op])
           next == Path[op][k + 2]
<1>1. CASE op = "createConversation"
  <2>1. Path[op] = <<"people", "existing", "open">>  BY <1>1 DEF Path
  <2>2. k \in 0..2  BY <2>1
  <2> QED  BY <1>1, <2>1, <2>2 DEF Creates, Opens, Enters
<1>2. CASE op = "createTeamConversation"
  <2>1. Path[op] = <<"team", "people", "existing", "open">>  BY <1>2 DEF Path
  <2>2. k \in 0..3  BY <2>1
  <2> QED  BY <1>2, <2>1, <2>2 DEF Creates, Opens, Enters
<1>3. CASE op = "addConversationMember"
  <2>1. Path[op] = <<"conversation", "people", "add">>  BY <1>3 DEF Path
  <2>2. k \in 0..2  BY <2>1
  <2> QED  BY <1>3, <2>1, <2>2 DEF Creates, Opens, Enters
<1>4. CASE op = "addTeamConversationMember"
  <2>1. Path[op] = <<"conversation", "team", "manager", "joiner", "add">>  BY <1>4 DEF Path
  <2>2. k \in 0..4  BY <2>1
  <2> QED  BY <1>4, <2>1, <2>2 DEF Creates, Opens, Enters
<1>5. CASE op = "blockConversationMember"
  <2>1. Path[op] = <<"conversation", "block">>  BY <1>5 DEF Path
  <2>2. k \in 0..1  BY <2>1
  <2> QED  BY <1>5, <2>1, <2>2 DEF Creates, Opens, Enters
<1>6. CASE op = "blockTeamConversationMember"
  <2>1. Path[op] = <<"conversation", "team", "manager", "block">>  BY <1>6 DEF Path
  <2>2. k \in 0..3  BY <2>1
  <2> QED  BY <1>6, <2>1, <2>2 DEF Creates, Opens, Enters
<1>7. CASE op = "ensureTeamConversation"
  <2>1. Path[op] = <<"find", "open", "add">>  BY <1>7 DEF Path
  <2>2. k \in 0..2  BY <2>1
  <2> QED  BY <1>7, <2>1, <2>2 DEF Creates, Opens, Enters
<1>8. CASE op = "joinRoom"
  <2>1. Path[op] = <<"membership", "enter">>  BY <1>8 DEF Path
  <2>2. k \in 0..1  BY <2>1
  <2> QED  BY <1>8, <2>1, <2>2 DEF Creates, Opens, Enters
<1>9. CASE op = "sendMessage"
  <2>1. Path[op] = <<"membership", "save", "emit">>  BY <1>9 DEF Path
  <2>2. k \in 0..2  BY <2>1
  <2> QED  BY <1>9, <2>1, <2>2 DEF Creates, Opens, Enters
<1>10. CASE op = "getMessages"
  <2>1. Path[op] = <<"membership", "load">>  BY <1>10 DEF Path
  <2>2. k \in 0..1  BY <2>1
  <2> QED  BY <1>10, <2>1, <2>2 DEF Creates, Opens, Enters
<1> QED  BY <1>1, <1>2, <1>3, <1>4, <1>5, <1>6, <1>7, <1>8, <1>9, <1>10 DEF Operation, Path

----------------------------------------------------------------------------
(* How requests move. *)
Stages(p, k) == Path[p.op][k + 1]

LEMMA Strings ==
    /\ None \notin Operation /\ "served" \notin Operation /\ None # "served"
    /\ Creates \subseteq Operation /\ Opens \subseteq Operation /\ Enters \subseteq Operation
    /\ Creates \subseteq Opens /\ Opens \cap Enters = {}
    /\ NoRequest \in Asked /\ Served \in Asked /\ NoRequest.op = None /\ Served.op = "served"
    /\ None \notin User /\ None \notin Key /\ Earlier \notin Request /\ Earlier \in Key /\ Owner \in User
    /\ Request \subseteq Key
BY UserAssumption, EarlierAssumption
   DEF None, Operation, Path, Creates, Opens, Enters, NoRequest, Served, Asked, Key

\* What a client asks for.
LEMMA Called ==
    ASSUME TypeOK, NEW u \in User, NEW q \in Calls(u)
    PROVE  /\ q \in Asked /\ q.op \in Operation /\ q.by \in User /\ q.known = {}
           /\ q.op \notin Enters => q.to \in User
           /\ q.op \in Opens => q.type # None /\ q.group = None
           /\ q.op \notin Opens => q.group \in Key /\ conversation[q.group].type # None
BY Strings DEF Calls, Asks, Conversations, Asked, Operation, Path, Creates, Opens, Enters, None

\* Request o goes one step on, with p.
Goes(o, p) ==
    /\ req' = [req EXCEPT ![o] = p]
    /\ at'  = [at EXCEPT ![o] = @ + 1]

\* The requests in O leave.
Leaving(O) ==
    /\ req' = [r \in Request |-> IF r \in O THEN Ended(r) ELSE req[r]]
    /\ at'  = [r \in Request |-> IF r \in O THEN 0 ELSE at[r]]

\* What the reading of q in step k + 1 makes of it.
Learns(q, k, p) ==
    /\ p.op = q.op /\ p.by = q.by /\ p.to = q.to /\ p.type = q.type
    /\ p.group = q.group \/ (q.op \in Opens /\ p.group \in Key /\ conversation[p.group].type # None)
    /\ q.op = "addConversationMember" => p.to \notin p.known \/ (p.known = q.known /\ k # 0)
    /\ q.op = "addTeamConversationMember" /\ Stages(q, k) = "joiner" => p.to \notin p.known
    /\ q.op = "ensureTeamConversation" =>
          k = 0 /\ (q.by \in p.known \/ (p.group # None /\ conversation[p.group].type # None))
    /\ Stages(q, k) = "membership" => p = q /\ \E m \in Rows(q.group, q.by) : ~m.blocked

LEMMA ReadingSteps ==
    ASSUME TypeOK, NEW o \in Request, NEW q \in Asked, q.op \in Operation, q.by \in User,
           at[o] < Len(Path[q.op]), Reads(o, q)
    PROVE  /\ at[o] + 1 < Len(Path[q.op])
           /\ Stages(q, at[o]) \in {"people", "existing", "conversation", "team", "manager",
                                    "joiner", "find", "membership"}
           /\ UNCHANGED <<team, tables, sockets>>
           /\ \E p \in Asked : Goes(o, p) /\ Learns(q, at[o], p)
<1> DEFINE k == at[o]
           s == Path[q.op][k + 1]
           OK(p) == p \in Asked /\ Goes(o, p) /\ Learns(q, k, p)
<1>1. k \in Nat /\ Root(q.by) \in User
  BY TypeParts DEF Root, None
<1>2. /\ s \in {"people", "existing", "conversation", "team", "manager", "joiner", "find", "membership"}
      /\ UNCHANGED <<team, tables, sockets>>
  BY DEF Reads, Read, ReadPeople, ReadExisting, ReadConversation, ReadTeam, ReadManager, ReadJoiner,
         FindTeamConversation, ReadMembership
<1>3. k + 1 # Len(Path[q.op]) /\ Len(Path[q.op]) \in Nat
  BY <1>1, <1>2, Paths
<1>4. k + 1 < Len(Path[q.op])  BY <1>1, <1>3
<1>5. \A p : p.op = q.op /\ Proceed(o, p) => Goes(o, p)
  BY <1>3 DEF Proceed, Goes
<1>6. /\ s = "existing" => q.op \in Creates
      /\ s = "membership" => q.op \in Enters
      /\ q.op = "ensureTeamConversation" => s = "find" /\ k = 0
      /\ q.op = "addConversationMember" => (k = 0 <=> s = "conversation")
  BY <1>1, <1>2, Paths DEF Opens, Creates
<1>7. q.op \in Creates => q.op \in Opens /\ q.op \notin {"ensureTeamConversation", "addConversationMember",
                                                       "addTeamConversationMember"}
  BY DEF Creates, Opens
<1>8. q.op \in Enters => q.op \notin Opens \cup {"addConversationMember", "addTeamConversationMember"}
  BY DEF Creates, Opens, Enters
<1> SUFFICES \E p : OK(p)
  BY <1>2, <1>4 DEF Stages
<1> HIDE DEF OK
<1>9. CASE ReadPeople(o, q)
  <2>1. s = "people" /\ Proceed(o, q)  BY <1>9 DEF ReadPeople, Read
  <2>2. OK(q)  BY <1>5, <1>6, <2>1 DEF OK, Learns, Stages
  <2> QED  BY <2>2
<1>10. CASE ReadExisting(o, q)
  <2>1. s = "existing"  BY <1>10 DEF ReadExisting, Read
  <2>2. CASE \E c \in Key : conversation[c].type = "DIRECT" /\ Proceed(o, [q EXCEPT !.group = c])
    <3>1. PICK c \in Key : conversation[c].type = "DIRECT" /\ Proceed(o, [q EXCEPT !.group = c])
      BY <2>2
    <3>2. PICK p : p = [q EXCEPT !.group = c]  OBVIOUS
    <3>3. p \in Asked /\ p.op = q.op /\ p.by = q.by /\ p.to = q.to /\ p.type = q.type /\ p.group = c
      BY <3>2 DEF Asked
    <3>4. Goes(o, p)  BY <1>5, <3>1, <3>2, <3>3
    <3>5. Learns(q, k, p)  BY <1>6, <1>7, <2>1, <3>1, <3>3 DEF OK, Learns, Stages, None
    <3> QED  BY <3>3, <3>4, <3>5 DEF OK
  <2>3. CASE Proceed(o, q)
    <3>1. OK(q)  BY <1>5, <1>6, <1>7, <2>1, <2>3 DEF OK, Learns, Stages
    <3> QED  BY <3>1
  <2> QED  BY <1>10, <2>2, <2>3 DEF ReadExisting, MayServe
<1>11. CASE ReadConversation(o, q)
  <2> DEFINE p == [q EXCEPT !.known = Users(q.group)]
  <2>1. s = "conversation"  BY <1>11 DEF ReadConversation, Read
  <2>2. /\ p \in Asked /\ p.op = q.op /\ p.by = q.by /\ p.to = q.to /\ p.type = q.type
        /\ p.group = q.group
    <3>1. Users(q.group) \subseteq User  BY TypeParts DEF Users, RowsOf, Row
    <3> QED  BY <3>1 DEF Asked
  <2>3. ASSUME NEW t \in Key, NEW x, x = [p EXCEPT !.row = t]
        PROVE  /\ x \in Asked /\ x.op = q.op /\ x.by = q.by /\ x.to = q.to /\ x.type = q.type
               /\ x.group = q.group
    BY <2>2, <2>3 DEF Asked
  <2>4. CASE q.op = "addConversationMember" /\ MayAdd(p) /\ Proceed(o, p)
    <3>1. OK(p)  BY <1>5, <1>6, <2>1, <2>2, <2>4 DEF OK, Learns, Stages, MayAdd
    <3> QED  BY <3>1
  <2>5. CASE q.op = "addTeamConversationMember" /\ Proceed(o, p)
    <3>1. OK(p)  BY <1>5, <1>6, <2>1, <2>2, <2>5 DEF OK, Learns, Stages
    <3> QED  BY <3>1
  <2>6. CASE /\ q.op \in {"blockConversationMember", "blockTeamConversationMember"}
             /\ \E t \in Rows(q.group, q.to) : MayBlock(q, t) /\ Proceed(o, [p EXCEPT !.row = t.by])
    <3>1. PICK t \in Rows(q.group, q.to) : Proceed(o, [p EXCEPT !.row = t.by])  BY <2>6
    <3>2. t.by \in Key  BY TypeParts DEF Rows, RowsOf, Row
    <3>3. PICK x : x = [p EXCEPT !.row = t.by]  OBVIOUS
    <3>4. OK(x)  BY <1>5, <1>6, <2>1, <2>3, <2>6, <3>1, <3>2, <3>3 DEF OK, Learns, Stages
    <3> QED  BY <3>4
  <2> QED  BY <1>11, <2>4, <2>5, <2>6 DEF ReadConversation
<1>12. CASE ReadTeam(o, q)
  <2>1. s = "team" /\ Proceed(o, [q EXCEPT !.root = Root(q.by)])  BY <1>12 DEF ReadTeam, Read
  <2>2. PICK x : x = [q EXCEPT !.root = Root(q.by)]  OBVIOUS
  <2>3. /\ x \in Asked /\ x.op = q.op /\ x.by = q.by /\ x.to = q.to /\ x.type = q.type
        /\ x.group = q.group /\ x.known = q.known
    BY <1>1, <2>2 DEF Asked
  <2>4. OK(x)  BY <1>5, <1>6, <2>1, <2>2, <2>3 DEF OK, Learns, Stages
  <2> QED  BY <2>4
<1>13. CASE ReadManager(o, q)
  <2>1. s = "manager" /\ Proceed(o, q)  BY <1>13 DEF ReadManager, Read
  <2>2. OK(q)  BY <1>5, <1>6, <2>1 DEF OK, Learns, Stages
  <2> QED  BY <2>2
<1>14. CASE ReadJoiner(o, q)
  <2>1. s = "joiner" /\ Proceed(o, q) /\ MayAdd(q)  BY <1>14 DEF ReadJoiner, Read
  <2>2. OK(q)  BY <1>5, <1>6, <2>1 DEF OK, Learns, Stages, MayAdd
  <2> QED  BY <2>2
<1>15. CASE FindTeamConversation(o, q)
  <2>1. s = "find"  BY <1>15 DEF FindTeamConversation, Read
  <2>2. q.op = "ensureTeamConversation" /\ k = 0  BY <1>1, <2>1, Paths
  <2>3. CASE \E c \in Key : /\ conversation[c].type = "GROUP"
                           /\ Proceed(o, [q EXCEPT !.group = c, !.known = Users(c)])
    <3>1. PICK c \in Key : /\ conversation[c].type = "GROUP"
                          /\ Proceed(o, [q EXCEPT !.group = c, !.known = Users(c)])
      BY <2>3
    <3>2. PICK x : x = [q EXCEPT !.group = c, !.known = Users(c)]  OBVIOUS
    <3>3. Users(c) \subseteq User  BY TypeParts DEF Users, RowsOf, Row
    <3>4. x \in Asked /\ x.op = q.op /\ x.by = q.by /\ x.to = q.to /\ x.type = q.type /\ x.group = c
      BY <3>2, <3>3 DEF Asked
    <3>5. Goes(o, x)  BY <1>5, <3>1, <3>2, <3>4
    <3>6. Learns(q, k, x)  BY <2>1, <2>2, <3>1, <3>4, Strings DEF Learns, Stages, None, Opens
    <3> QED  BY <3>4, <3>5, <3>6 DEF OK
  <2>4. CASE Proceed(o, [q EXCEPT !.known = {q.by}])
    <3>1. PICK x : x = [q EXCEPT !.known = {q.by}]  OBVIOUS
    <3>2. /\ x \in Asked /\ x.op = q.op /\ x.by = q.by /\ x.to = q.to /\ x.type = q.type
          /\ x.group = q.group /\ x.known = {q.by}
      BY <3>1 DEF Asked
    <3>3. OK(x)  BY <1>5, <2>1, <2>2, <2>4, <3>1, <3>2 DEF OK, Learns, Stages
    <3> QED  BY <3>3
  <2> QED  BY <1>15, <2>3, <2>4 DEF FindTeamConversation
<1>16. CASE ReadMembership(o, q)
  <2>1. s = "membership" /\ Proceed(o, q) /\ \E m \in Rows(q.group, q.by) : ~m.blocked
    BY <1>16 DEF ReadMembership, Read, IsMember
  <2>2. OK(q)  BY <1>5, <1>6, <1>8, <2>1 DEF OK, Learns, Stages
  <2> QED  BY <2>2
<1> QED  BY <1>9, <1>10, <1>11, <1>12, <1>13, <1>14, <1>15, <1>16 DEF Reads

\* The stage of a request in flight is a step of its path.
LEMMA InStage ==
    ASSUME TypeOK, NEW o \in Request
    PROVE  /\ at[o] \in Nat /\ req[o] \in Asked
           /\ at[o] = 0 => Stage(o) = "idle"
           /\ at[o] # 0 => /\ o \in InFlight /\ Stage(o) = Path[req[o].op][at[o] + 1] /\ Stage(o) # "idle"
                           /\ req[o].op \in Operation /\ at[o] < Len(Path[req[o].op])
                           /\ req[o].op # "served"
BY TypeParts, Paths, Strings DEF Stage, OnItsPath, InFlight

\* Nothing that was opened, added or passed on is undone when requests leave.
LEMMA AfterLeaving ==
    ASSUME TypeOK, NEW O \in SUBSET InFlight, Leaving(O)
    PROVE  /\ req' \in [Request -> Asked] /\ at' \in [Request -> Nat]
           /\ \A r \in Request : at'[r] # 0 =>
                 /\ r \in InFlight \ O /\ at'[r] = at[r] /\ req'[r] = req[r] /\ Stage(r)' = Stage(r)
                 /\ OnItsPath(req'[r], at'[r])
           /\ \A r \in Request : r \in O => at'[r] = 0 /\ req'[r] = Ended(r) /\ Stage(r)' = "idle"
           /\ \A r \in Request : r \notin O => Stage(r)' = Stage(r) /\ at'[r] = at[r] /\ req'[r] = req[r]
           /\ \A r \in Request : Opened(r) => Opened(r)'
           /\ \A m \in Row : Added(m) => Added(m)'
           /\ \A m \in Sent : Passed(m) => Passed(m)'
<1>1. \A r \in Request : Ended(r) \in {Served, NoRequest}  BY DEF Ended
<1>2. req' \in [Request -> Asked] /\ at' \in [Request -> Nat]
  BY <1>1, TypeParts, Strings DEF Leaving
<1>3. ASSUME NEW r \in Request
      PROVE  /\ r \in O => at'[r] = 0 /\ req'[r] = Ended(r) /\ Stage(r)' = "idle"
             /\ r \notin O => Stage(r)' = Stage(r) /\ at'[r] = at[r] /\ req'[r] = req[r]
  BY DEF Leaving, Stage
<1>4. ASSUME NEW r \in Request, at'[r] # 0
      PROVE  /\ r \in InFlight \ O /\ at'[r] = at[r] /\ req'[r] = req[r] /\ Stage(r)' = Stage(r)
             /\ OnItsPath(req'[r], at'[r])
  BY <1>3, <1>4, TypeParts DEF InFlight
<1>5. ASSUME NEW r \in Request, r \in O  PROVE req[r].op # "served"
  BY <1>5, InStage DEF InFlight
<1>6. ASSUME NEW r \in Request, r \in O, Stage(r) \in {"add", "emit"}  PROVE req'[r].op = "served"
  BY <1>3, <1>6, Strings DEF Ended
<1>7. ASSUME NEW r \in Request, Opened(r)  PROVE Opened(r)' /\ (r \in O => req'[r].op = "served")
  BY <1>3, <1>5, <1>6, <1>7 DEF Opened
<1>8. ASSUME NEW m \in Row, Added(m)  PROVE Added(m)'
  <2>1. m.by = Earlier \/ m.by \in Request  BY DEF Row, Key
  <2> QED  BY <1>3, <1>5, <1>7, <1>8, <2>1 DEF Added
<1>9. ASSUME NEW m \in Sent, Passed(m)  PROVE Passed(m)'
  <2>1. m.by \in Request  BY DEF Sent
  <2> QED  BY <1>3, <1>5, <1>6, <1>9, <2>1 DEF Passed
<1> QED  BY <1>2, <1>3, <1>4, <1>7, <1>8, <1>9

LEMMA LeaveIs ==
    ASSUME TypeOK, NEW o \in Request, Leave(o)
    PROVE  Leaving({o})
BY TypeParts DEF Leave, Leaving

\* Nor when a request goes on.
LEMMA AfterGoing ==
    ASSUME TypeOK, NEW o \in Request, NEW p \in Asked, p.op \in Operation,
           at[o] + 1 < Len(Path[p.op]), Goes(o, p),
           (at[o] = 0 /\ req[o].op = None) \/ (at[o] # 0 /\ p.op = req[o].op)
    PROVE  /\ req' \in [Request -> Asked] /\ at' \in [Request -> Nat]
           /\ at'[o] = at[o] + 1 /\ req'[o] = p /\ Stage(o)' = Stages(p, at[o] + 1)
           /\ \A r \in Request : at'[r] # 0 => OnItsPath(req'[r], at'[r])
           /\ \A r \in Request : r # o => at'[r] = at[r] /\ req'[r] = req[r] /\ Stage(r)' = Stage(r)
           /\ Stage(o) \notin {"add", "emit"} /\ ~Opened(o)
           /\ \A r \in Request : Opened(r) => Opened(r)'
           /\ \A m \in Row : Added(m) => Added(m)'
           /\ \A m \in Sent : Passed(m) => Passed(m)'
<1>1. at[o] \in Nat /\ req \in [Request -> Asked] /\ at \in [Request -> Nat]  BY TypeParts
<1>2. req' \in [Request -> Asked] /\ at' \in [Request -> Nat]
  BY <1>1 DEF Goes
<1>3. at'[o] = at[o] + 1 /\ req'[o] = p /\ Stage(o)' = Stages(p, at[o] + 1)
  BY <1>1 DEF Goes, Stage, Stages
<1>4. ASSUME NEW r \in Request, r # o
      PROVE  at'[r] = at[r] /\ req'[r] = req[r] /\ Stage(r)' = Stage(r)
  BY <1>1, <1>4 DEF Goes, Stage
<1>5. ASSUME NEW r \in Request, at'[r] # 0  PROVE OnItsPath(req'[r], at'[r])
  <2>1. CASE r = o  BY <1>1, <1>3, <2>1 DEF OnItsPath
  <2>2. CASE r # o  BY <1>4, <1>5, <2>2, TypeParts
  <2> QED  BY <2>1, <2>2
<1>6. Stage(o) \notin {"add", "emit"} /\ req[o].op # "served"
  <2>1. CASE at[o] = 0  BY <2>1, InStage, Strings
  <2>2. CASE at[o] # 0
    <3>1. Stage(o) = Path[p.op][at[o] + 1] /\ req[o].op # "served"  BY <2>2, InStage
    <3>2. at[o] < Len(Path[p.op]) /\ at[o] + 1 # Len(Path[p.op])
      BY <2>2, <1>1, InStage, Paths
    <3> QED  BY <3>1, <3>2, <1>1, Paths
  <2> QED  BY <2>1, <2>2
<1>7. ~Opened(o)  BY <1>6 DEF Opened
<1>8. ASSUME NEW r \in Request, Opened(r)  PROVE Opened(r)'
  BY <1>4, <1>7, <1>8 DEF Opened
<1>9. ASSUME NEW m \in Row, Added(m)  PROVE Added(m)'
  <2>1. m.by = Earlier \/ m.by \in Request  BY DEF Row, Key
  <2> QED  BY <1>4, <1>6, <1>7, <1>8, <1>9, <2>1 DEF Added
<1>10. ASSUME NEW m \in Sent, Passed(m)  PROVE Passed(m)'
  <2>1. m.by \in Request  BY DEF Sent
  <2> QED  BY <1>4, <1>6, <1>10, <2>1 DEF Passed
<1> QED  BY <1>2, <1>3, <1>4, <1>5, <1>6, <1>7, <1>8, <1>9, <1>10

----------------------------------------------------------------------------
(* What is common to the steps. *)
TypesTeam ==
    /\ account \in [User -> {"live", "deleted"}] /\ parent \in [User -> User \cup {None}]
    /\ teamRole \in [User -> {"ADMIN", "MEMBER", None}]

TypesTables ==
    /\ conversation \in [Key -> [type : {"DIRECT", "GROUP", None}, by : User \cup {None}]]
    /\ members \subseteq Row /\ messages \subseteq Sent
    /\ \A m, n \in members : m.by = n.by /\ m.user = n.user => m = n

TypesSockets ==
    /\ room \subseteq User \X Key /\ caughtUp \subseteq room
    /\ seen \in [User -> SUBSET Request]

TypesRequests ==
    /\ req \in [Request -> Asked] /\ at \in [Request -> Nat]
    /\ \A o \in Request : at[o] # 0 => OnItsPath(req[o], at[o])

LEMMA Types == TypeOK <=> TypesTeam /\ TypesTables /\ TypesSockets /\ TypesRequests
BY DEF TypeOK, TypesTeam, TypesTables, TypesSockets, TypesRequests, Asked, Row, Sent, OnItsPath

LEMMA TypesNext == TypesTeam' /\ TypesTables' /\ TypesSockets' /\ TypesRequests' => TypeOK'
BY DEF TypeOK, TypesTeam, TypesTables, TypesSockets, TypesRequests, Asked, Row, Sent, OnItsPath

\* The invariant without what it is for.
Basis ==
    /\ TypeOK /\ IsFiniteSet(members)
    /\ OpenedBefore
    /\ \A m \in members : Added(m)
    /\ \A o \in InFlight : Knows(o)
    /\ \A m \in messages : Passed(m)

\* The requests that move keep what they have done.
Faithful ==
    /\ TypesRequests'
    /\ \A r \in Request : Opened(r) => Opened(r)'
    /\ \A m \in Row : Added(m) => Added(m)'
    /\ \A m \in Sent : Passed(m) => Passed(m)'

\* Conversations stay.
Standing == \A c \in Key : conversation[c].type # None => conversation'[c].type # None

LEMMA FaithfulLeaving ==
    ASSUME TypeOK, NEW O \in SUBSET InFlight, Leaving(O)
    PROVE  Faithful
BY AfterLeaving DEF Faithful, TypesRequests

LEMMA FaithfulGoing ==
    ASSUME TypeOK, NEW o \in Request, NEW p \in Asked, p.op \in Operation,
           at[o] + 1 < Len(Path[p.op]), Goes(o, p),
           (at[o] = 0 /\ req[o].op = None) \/ (at[o] # 0 /\ p.op = req[o].op)
    PROVE  Faithful
BY AfterGoing DEF Faithful, TypesRequests

LEMMA FaithfulRest ==
    ASSUME TypeOK, UNCHANGED <<req, at>>
    PROVE  Faithful
BY Types DEF Faithful, TypesRequests, Opened, Added, Passed, Stage

LEMMA Proceeding ==
    ASSUME TypeOK, NEW o \in Request, at[o] # 0, NEW p, p.op = req[o].op, Proceed(o, p)
    PROVE  /\ Stage(o) \in {"add", "block", "enter", "emit", "load"}
              \/ (Stage(o) = "open" /\ req[o].op \in Creates) => Leaving({o})
           /\ Stage(o) = "save" \/ (Stage(o) = "open" /\ req[o].op \notin Creates) =>
                 Goes(o, p) /\ at[o] + 1 < Len(Path[p.op])
<1> DEFINE n == Len(Path[req[o].op])
<1>1. /\ at[o] \in Nat /\ req[o].op \in Operation /\ at[o] < n
      /\ Stage(o) = Path[req[o].op][at[o] + 1]
  BY InStage
<1>2. /\ n \in Nat
      /\ at[o] + 1 = n <=> Stage(o) \in {"add", "block", "enter", "emit", "load"}
                           \/ (Stage(o) = "open" /\ req[o].op \in Creates)
  BY <1>1, Paths
<1>3. at[o] + 1 = n => Leaving({o})  BY LeaveIs DEF Proceed
<1>4. at[o] + 1 # n => Goes(o, p) /\ at[o] + 1 < n  BY <1>1, <1>2 DEF Proceed, Goes
<1> QED  BY <1>1, <1>2, <1>3, <1>4

\* What a request knows that does not move.
LEMMA StillKnows ==
    ASSUME TypeOK, NEW r \in Request, req'[r] = req[r], Stage(r)' = Stage(r), Standing, Knows(r)
    PROVE  Knows(r)'
<1>1. req[r].group \in Key \cup {None}  BY InStage DEF Asked
<1> QED  BY <1>1 DEF Knows, Standing

LEMMA LeavingKnows ==
    ASSUME Basis, NEW O \in SUBSET InFlight, Leaving(O), Standing
    PROVE  \A r \in InFlight' : Knows(r)'
<1> SUFFICES ASSUME NEW r \in Request, at'[r] # 0  PROVE Knows(r)'
  BY DEF InFlight
<1> QED  BY AfterLeaving, StillKnows DEF Basis

LEMMA GoingKnows ==
    ASSUME Basis, NEW o \in Request, NEW p \in Asked, p.op \in Operation,
           at[o] + 1 < Len(Path[p.op]), Goes(o, p),
           (at[o] = 0 /\ req[o].op = None) \/ (at[o] # 0 /\ p.op = req[o].op), Standing, Knows(o)'
    PROVE  \A r \in InFlight' : Knows(r)'
<1> SUFFICES ASSUME NEW r \in Request, at'[r] # 0, r # o  PROVE Knows(r)'
  BY DEF InFlight
<1>1. at'[r] = at[r] /\ req'[r] = req[r] /\ Stage(r)' = Stage(r)  BY AfterGoing DEF Basis
<1> QED  BY <1>1, StillKnows DEF Basis, InFlight

\* A step that leaves the tables alone.
LEMMA QuietBasis ==
    ASSUME Basis, Faithful, UNCHANGED tables, TypesTeam', TypesSockets', \A r \in InFlight' : Knows(r)'
    PROVE  Basis'
<1>1. members \subseteq Row /\ messages \subseteq Sent  BY Types DEF Basis, TypesTables
<1>2. TypeOK'
  <2>1. TypesTables'  BY Types DEF Basis, TypesTables, tables
  <2> QED  BY <2>1, TypesNext DEF Faithful
<1>3. OpenedBefore'  BY DEF Basis, OpenedBefore, Faithful, tables
<1>4. \A m \in members' : Added(m)'  BY <1>1 DEF Basis, Faithful, tables
<1>5. \A m \in messages' : Passed(m)'  BY <1>1 DEF Basis, Faithful, tables
<1> QED  BY <1>2, <1>3, <1>4, <1>5 DEF Basis, tables

----------------------------------------------------------------------------
(* The steps keep the basis. *)
LEMMA QuietTypes ==
    ASSUME TypeOK
    PROVE  /\ UNCHANGED team => TypesTeam'
           /\ UNCHANGED sockets => TypesSockets'
           /\ UNCHANGED tables => Standing
           /\ UNCHANGED conversation => Standing
BY Types DEF TypesTeam, TypesSockets, Standing, team, sockets, tables

\* A request reads, on its arrival or later.
LEMMA ReadBasis ==
    ASSUME Basis, NEW o \in Request, NEW q \in Asked, q.op \in Operation, at[o] < Len(Path[q.op]), Reads(o, q),
           \/ at[o] = 0 /\ req[o].op = None /\ \E u \in User : q \in Calls(u)
           \/ at[o] # 0 /\ q = req[o]
    PROVE  /\ Basis' /\ UNCHANGED <<team, tables, sockets>>
           /\ \E p \in Asked : Goes(o, p) /\ Learns(q, at[o], p)
           /\ at[o] + 1 < Len(Path[q.op])
<1> USE DEF Basis
<1>1. q.by \in User /\ at[o] \in Nat
  BY TypeParts, Called DEF Knows, InFlight
<1>2. /\ at[o] + 1 < Len(Path[q.op]) /\ UNCHANGED <<team, tables, sockets>>
      /\ Stages(q, at[o]) \in {"people", "existing", "conversation", "team", "manager",
                               "joiner", "find", "membership"}
  BY <1>1, ReadingSteps
<1>3. PICK p \in Asked : Goes(o, p) /\ Learns(q, at[o], p)
  BY <1>1, ReadingSteps
<1>4. p.op = q.op /\ p.by = q.by /\ p.to = q.to /\ p.type = q.type  BY <1>3 DEF Learns
<1>5. /\ req'[o] = p /\ Stage(o)' = Path[q.op][at[o] + 2]
      /\ (at[o] = 0 /\ req[o].op = None) \/ (at[o] # 0 /\ p.op = req[o].op)
  <2>1. (at[o] = 0 /\ req[o].op = None) \/ (at[o] # 0 /\ p.op = req[o].op)  BY <1>4
  <2>2. req'[o] = p /\ Stage(o)' = Stages(p, at[o] + 1)  BY <1>2, <1>3, <1>4, <2>1, AfterGoing
  <2>3. at[o] + 1 + 1 = at[o] + 2  BY <1>1
  <2> QED  BY <1>4, <2>1, <2>2, <2>3 DEF Stages
<1>6. /\ q.op \notin Enters => q.to \in User
      /\ q.op \in Opens => q.type # None
      /\ q.op \notin Opens => q.group # None
      /\ q.group # None => q.group \in Key /\ conversation[q.group].type # None
      /\ q.op = "addConversationMember" /\ at[o] # 0 => q.to \notin q.known
      /\ q.op \notin Opens \/ q.group = None \/ at[o] # 0
  <2>1. CASE at[o] = 0  BY <1>1, <2>1, Called, Strings
  <2>2. CASE at[o] # 0  BY <2>2, InStage DEF Knows, InFlight, Asked
  <2> QED  BY <2>1, <2>2
<1>7. p.group # None => p.group \in Key /\ conversation[p.group].type # None
  BY <1>3, <1>6 DEF Learns
<1>8. p.op = "ensureTeamConversation" /\ p.group \in {None, o} => p.by \in p.known
  <2> SUFFICES ASSUME p.op = "ensureTeamConversation", p.group \in {None, o}, p.by \notin p.known
               PROVE  FALSE
    OBVIOUS
  <2>1. at[o] = 0 /\ p.group # None /\ conversation[p.group].type # None  BY <1>3, <1>4 DEF Learns
  <2>2. Opened(o)  BY <2>1 DEF OpenedBefore
  <2>3. Stage(o) = "idle" /\ req[o].op = None  BY <2>1, InStage
  <2> QED  BY <2>2, <2>3, Strings DEF Opened
<1>9. /\ Stage(o)' = "add" => p.group # None
      /\ p.op = "addConversationMember" \/ (p.op = "addTeamConversationMember" /\ Stage(o)' = "add") =>
            p.to \notin p.known
  <2>1. ASSUME Stage(o)' = "add"
        PROVE  \/ Stages(q, at[o]) = "people" /\ q.op = "addConversationMember"
               \/ Stages(q, at[o]) = "joiner" /\ q.op = "addTeamConversationMember"
    <3>1. Path[q.op][at[o] + 2] = "add" /\ Path[q.op][at[o] + 1] # "open"
      BY <1>2, <1>5, <2>1 DEF Stages
    <3>2. at[o] + 1 # Len(Path[q.op])  BY <1>1, <1>2, Paths
    <3> QED  BY <1>1, <3>1, <3>2, Paths DEF Stages
  <2>2. "addConversationMember" \notin Opens /\ "addTeamConversationMember" \notin Opens
    BY DEF Opens, Creates
  <2> QED  BY <1>3, <1>4, <1>6, <2>1, <2>2 DEF Learns
<1>10. Knows(o)'
  <2>1. conversation' = conversation  BY <1>2 DEF tables
  <2>2. p.op \notin Opens \/ Stage(o)' = "add" => p.group # None
    BY <1>3, <1>4, <1>6, <1>9 DEF Learns
  <2> QED  BY <1>1, <1>4, <1>5, <1>6, <1>7, <1>8, <1>9, <2>1, <2>2 DEF Knows
<1>11. Faithful /\ \A r \in InFlight' : Knows(r)'
  BY <1>2, <1>3, <1>4, <1>5, <1>10, FaithfulGoing, GoingKnows, QuietTypes
<1>12. Basis'
  BY <1>2, <1>11, QuietTypes, QuietBasis
<1> QED  BY <1>2, <1>3, <1>12

\* The conversation of a request is not there before it has opened it, and nobody is in it.
LEMMA Unopened ==
    ASSUME Basis, NEW o \in Request, Stage(o) = "open"
    PROVE  /\ at[o] # 0 /\ ~Opened(o) /\ conversation[o].type = None /\ req[o].group # o
           /\ \A m \in members : m.conversation # o /\ m.by # o
<1>1. at[o] # 0 /\ req[o].op # "served"  BY InStage DEF Basis
<1>2. ~Opened(o)  BY <1>1 DEF Opened
<1>3. conversation[o].type = None  BY <1>2 DEF Basis, OpenedBefore
<1>4. Knows(o)  BY <1>1, InStage DEF Basis
<1>5. req[o].group # o  BY <1>3, <1>4, Strings DEF Knows
<1>6. \A m \in members : m.conversation # o /\ m.by # o
  BY <1>1, <1>2, <1>3, Strings DEF Basis, OpenedBefore, Added
<1> QED  BY <1>1, <1>2, <1>3, <1>5, <1>6

LEMMA NewRows ==
    ASSUME NEW o \in Key, NEW c \in Key, NEW u \in User, NEW r \in {"OWNER", "MEMBER"}
    PROVE  /\ NewRow(o, c, u, r) \in Row
           /\ NewRow(o, c, u, r).by = o /\ NewRow(o, c, u, r).conversation = c /\ NewRow(o, c, u, r).user = u
BY DEF NewRow, Row

\* The conversation o is opened and the rows in W are added to it.
LEMMA OpenTables ==
    ASSUME Basis, NEW o \in Request, Stage(o) = "open", Faithful, TypesTeam', TypesSockets',
           \A r \in InFlight' : Knows(r)', Opened(o)',
           NEW t \in {"DIRECT", "GROUP"}, NEW by \in User,
           conversation' = [conversation EXCEPT ![o] = [type |-> t, by |-> by]],
           NEW W, IsFiniteSet(W), members' = members \cup W, messages' = messages,
           \A m \in W : m \in Row /\ m.by = o /\ m.conversation = o /\ Added(m)',
           \A m, n \in W : m.user = n.user => m = n
    PROVE  Basis'
<1> USE DEF Basis
<1>1. /\ TypesTables /\ members \subseteq Row /\ messages \subseteq Sent /\ o \in Key
      /\ conversation \in [Key -> [type : {"DIRECT", "GROUP", None}, by : User \cup {None}]]
  BY Types, Strings DEF TypesTables
<1>2. \A m \in members : m.by # o  BY Unopened
<1>3. \A c \in Key : conversation'[c] = IF c = o THEN [type |-> t, by |-> by] ELSE conversation[c]
  BY <1>1
<1>4. TypesTables'
  <2>1. \A m, n \in members' : m.by = n.by /\ m.user = n.user => m = n
    BY <1>1, <1>2 DEF TypesTables
  <2>2. conversation' \in [Key -> [type : {"DIRECT", "GROUP", None}, by : User \cup {None}]]
    BY <1>1
  <2> QED  BY <1>1, <2>1, <2>2 DEF TypesTables
<1>5. TypeOK'  BY <1>4, TypesNext DEF Faithful
<1>6. IsFiniteSet(members')  BY FS_Union
<1>7. OpenedBefore'
  <2>1. ASSUME NEW r \in Request, conversation'[r].type # None  PROVE Opened(r)'
    BY <1>3, <2>1, Strings DEF OpenedBefore, Faithful
  <2>2. ASSUME NEW m \in members'  PROVE conversation'[m.conversation].type # None
    <3>1. m \in Row /\ m.conversation \in Key  BY <1>1 DEF Row
    <3> QED  BY <1>3, <3>1 DEF OpenedBefore, None
  <2> QED  BY <2>1, <2>2 DEF OpenedBefore
<1>8. \A m \in members' : Added(m)'  BY <1>1 DEF Faithful
<1>9. \A m \in messages' : Passed(m)'  BY <1>1 DEF Faithful
<1> QED  BY <1>5, <1>6, <1>7, <1>8, <1>9

LEMMA OpenBasis ==
    ASSUME Basis, NEW o \in Request, OpenConversation(o)
    PROVE  Basis' /\ UNCHANGED <<team, sockets>> /\ (UNCHANGED tables \/ \A m \in members' \ members : m.conversation = o)
<1> DEFINE q == req[o]
           p == [q EXCEPT !.group = o]
           W == IF q.op = "ensureTeamConversation" THEN {q.by} ELSE {q.by, q.to}
           R == {NewRow(o, o, u, IF u = q.by THEN "OWNER" ELSE "MEMBER") : u \in W}
<1>1. Stage(o) = "open" /\ UNCHANGED <<team, sockets>>  BY DEF OpenConversation
<1>2. /\ at[o] # 0 /\ q \in Asked /\ q.op \in Operation /\ Knows(o) /\ at[o] \in Nat
      /\ Path[q.op][at[o] + 1] = "open" /\ at[o] < Len(Path[q.op])
  BY <1>1, Unopened, InStage DEF Basis
<1>3. q.op \in Opens  BY <1>2, Paths
<1>4. /\ q.by \in User /\ q.to \in User /\ q.type \in {"DIRECT", "GROUP"}
      /\ q.op = "ensureTeamConversation" /\ q.group = None => q.by \in q.known
  BY <1>2, <1>3, Strings DEF Knows, Asked
<1>5. TypesTeam' /\ TypesSockets'  BY <1>1, QuietTypes DEF Basis
<1>6. Opens = Creates \cup {"ensureTeamConversation"} /\ "ensureTeamConversation" \notin Creates
  BY DEF Opens, Creates
<1>7. CASE q.group # None
  <2>1. UNCHANGED tables /\ Proceed(o, q)  BY <1>7 DEF OpenConversation
  <2>2. CASE q.op \in Creates
    <3>1. Leaving({o})  BY <1>1, <1>2, <2>1, <2>2, Proceeding DEF Basis
    <3>2. Faithful /\ \A r \in InFlight' : Knows(r)'
      BY <1>2, <2>1, <3>1, FaithfulLeaving, LeavingKnows, QuietTypes DEF Basis, InFlight
    <3> QED  BY <1>1, <1>5, <2>1, <3>2, QuietBasis
  <2>3. CASE q.op \notin Creates
    <3>1. Goes(o, q) /\ at[o] + 1 < Len(Path[q.op])  BY <1>1, <1>2, <2>1, <2>3, Proceeding DEF Basis
    <3>2. req'[o] = q /\ Stage(o)' = Path[q.op][at[o] + 2]
      <4>1. req'[o] = q /\ Stage(o)' = Stages(q, at[o] + 1)  BY <1>2, <3>1, AfterGoing DEF Basis
      <4>2. at[o] + 1 + 1 = at[o] + 2  BY <1>2
      <4> QED  BY <4>1, <4>2 DEF Stages
    <3>3. Knows(o)'
      <4>1. conversation' = conversation  BY <2>1 DEF tables
      <4>2. q.op = "ensureTeamConversation"  BY <1>3, <1>6, <2>3
      <4> QED  BY <1>2, <1>7, <3>2, <4>1, <4>2 DEF Knows
    <3>4. Faithful /\ \A r \in InFlight' : Knows(r)'
      BY <1>2, <2>1, <3>1, <3>3, FaithfulGoing, GoingKnows, QuietTypes DEF Basis
    <3> QED  BY <1>1, <1>5, <2>1, <3>4, QuietBasis
  <2> QED  BY <2>2, <2>3
<1>8. CASE q.group = None
  <2>1. /\ conversation' = [conversation EXCEPT ![o] = [type |-> q.type, by |-> q.by]]
        /\ members' = members \cup R /\ messages' = messages /\ Proceed(o, p)
    BY <1>8 DEF OpenConversation
  <2>2. p \in Asked /\ p.op = q.op /\ p.by = q.by /\ p.to = q.to /\ p.type = q.type /\ p.group = o /\ p.known = q.known
    BY <1>2, Strings DEF Asked
  <2>3. IsFiniteSet(R) /\ \A m \in R : m \in Row /\ m.by = o /\ m.conversation = o /\ m.user \in W
    <3>1. \A m \in R : m = NewRow(o, o, q.by, "OWNER") \/ m = NewRow(o, o, q.to, "MEMBER")
      OBVIOUS
    <3>2. R \subseteq {NewRow(o, o, q.by, "OWNER")} \cup {NewRow(o, o, q.to, "MEMBER")}
      BY <3>1, Zenon
    <3>3. IsFiniteSet({NewRow(o, o, q.by, "OWNER")} \cup {NewRow(o, o, q.to, "MEMBER")})
      BY FS_Singleton, FS_Union
    <3>4. IsFiniteSet(R)  BY <3>2, <3>3, FS_Subset
    <3>5. \A m \in R : \E u \in W : m.user = u  BY <1>4, Strings, NewRows
    <3> QED  BY <1>4, <3>1, <3>4, <3>5, NewRows, Strings
  <2>4. \A m, n \in R : m.user = n.user => m = n
    BY <1>4, NewRows, Strings
  <2>5. Standing
    BY <1>4, <2>1, Types DEF Standing, Basis, TypesTables, None
  <2>6. CASE q.op \in Creates
    <3>1. Leaving({o})  BY <1>1, <1>2, <2>1, <2>2, <2>6, Proceeding DEF Basis
    <3>2. Faithful /\ \A r \in InFlight' : Knows(r)'
      BY <1>2, <2>5, <3>1, FaithfulLeaving, LeavingKnows DEF Basis, InFlight
    <3>3. req'[o].op = "served"
      BY <1>1, <1>2, <3>1, AfterLeaving, Strings DEF Basis, InFlight, Ended
    <3>4. Opened(o)' /\ \A m \in R : Added(m)'
      BY <2>3, <3>3 DEF Opened, Added
    <3>5. Basis'  BY <1>1, <1>4, <1>5, <2>1, <2>3, <2>4, <3>2, <3>4, OpenTables
    <3> QED  BY <1>1, <2>1, <2>3, <3>5
  <2>7. CASE q.op \notin Creates
    <3>1. Goes(o, p) /\ at[o] + 1 < Len(Path[p.op])  BY <1>1, <1>2, <2>1, <2>2, <2>7, Proceeding DEF Basis
    <3>2. q.op = "ensureTeamConversation"  BY <1>3, <1>6, <2>7
    <3>3. req'[o] = p /\ Stage(o)' = "add"
      <4>1. req'[o] = p /\ Stage(o)' = Stages(p, at[o] + 1)  BY <1>2, <2>2, <3>1, AfterGoing DEF Basis
      <4>2. at[o] + 1 + 1 = at[o] + 2  BY <1>2
      <4>3. at[o] + 1 # Len(Path[q.op])  BY <1>2, <2>2, <3>1, Paths
      <4>4. Path[q.op][at[o] + 2] = "add"  BY <1>2, <4>3, Paths
      <4> QED  BY <2>2, <4>1, <4>2, <4>4 DEF Stages
    <3>4. Opened(o)'  BY <2>2, <3>2, <3>3 DEF Opened
    <3>5. conversation'[o].type # None
      BY <1>4, <2>1, Types, Strings DEF Basis, TypesTables, None
    <3>6. Knows(o)'
      BY <1>4, <1>8, <2>2, <3>2, <3>3, <3>5, Strings DEF Knows, None
    <3>7. Faithful /\ \A r \in InFlight' : Knows(r)'
      BY <1>2, <2>2, <2>5, <3>1, <3>6, FaithfulGoing, GoingKnows DEF Basis
    <3>8. \A m \in R : Added(m)'
      BY <2>2, <2>3, <3>2, <3>3, <3>4 DEF Added
    <3>9. Basis'  BY <1>1, <1>4, <1>5, <2>1, <2>3, <2>4, <3>4, <3>7, <3>8, OpenTables
    <3> QED  BY <1>1, <2>1, <2>3, <3>9
  <2> QED  BY <2>6, <2>7
<1> QED  BY <1>7, <1>8

\* The rows of the conversations change: their keys stay unique, and what was added was added.
LEMMA RowsBasis ==
    ASSUME Basis, Faithful, TypesTeam', TypesSockets', \A r \in InFlight' : Knows(r)',
           UNCHANGED <<conversation, messages>>, members' \subseteq Row, IsFiniteSet(members'),
           \A m, n \in members' : m.by = n.by /\ m.user = n.user => m = n,
           \A m \in members' : Added(m)' /\ conversation[m.conversation].type # None
    PROVE  Basis'
<1>1. TypesTables /\ messages \subseteq Sent  BY Types DEF Basis, TypesTables
<1>2. TypesTables'  BY <1>1 DEF TypesTables
<1>3. TypeOK'  BY <1>2, TypesNext DEF Faithful
<1>4. OpenedBefore'  BY DEF Basis, OpenedBefore, Faithful
<1>5. \A m \in messages' : Passed(m)'  BY <1>1 DEF Basis, Faithful
<1> QED  BY <1>3, <1>4, <1>5 DEF Basis

\* What request o, in flight, knows; and its place.
LEMMA Flying ==
    ASSUME Basis, NEW o \in Request, Stage(o) # "idle"
    PROVE  /\ at[o] # 0 /\ at[o] \in Nat /\ req[o] \in Asked /\ req[o].op \in Operation
           /\ Stage(o) = Path[req[o].op][at[o] + 1] /\ at[o] < Len(Path[req[o].op])
           /\ Knows(o) /\ req[o].op # "served" /\ {o} \in SUBSET InFlight
BY InStage DEF Basis, InFlight

\* A step with which a request leaves that has done what it came for.
LEMMA LastStep ==
    ASSUME Basis, NEW o \in Request, Stage(o) \in {"add", "block", "enter", "emit", "load"}, Proceed(o, req[o]),
           Standing
    PROVE  Leaving({o}) /\ Faithful /\ \A r \in InFlight' : Knows(r)'
<1>1. Leaving({o})  BY Flying, Proceeding DEF Basis
<1> QED  BY <1>1, Flying, FaithfulLeaving, LeavingKnows DEF Basis

LEMMA AddBasis ==
    ASSUME Basis, NEW o \in Request, AddMember(o)
    PROVE  /\ Basis' /\ UNCHANGED <<team, conversation, messages, sockets>> /\ Stage(o) = "add"
           /\ \/ UNCHANGED members
              \/ /\ members' = members \cup {NewRow(o, req[o].group, req[o].to, "MEMBER")}
                 /\ req[o].to \notin req[o].known /\ req[o].to \in User /\ req[o].group \in Key
<1> DEFINE q == req[o]
           m == NewRow(o, q.group, q.to, "MEMBER")
<1>1. Stage(o) = "add" /\ Proceed(o, q) /\ UNCHANGED <<team, conversation, messages, sockets>>
  BY DEF AddMember
<1>2. /\ at[o] # 0 /\ at[o] \in Nat /\ q \in Asked /\ q.op \in Operation /\ Knows(o)
      /\ q.op \in {"addConversationMember", "addTeamConversationMember", "ensureTeamConversation"}
  BY <1>1, Flying, Paths
<1>3. Standing /\ TypesTeam' /\ TypesSockets'  BY <1>1, QuietTypes DEF Basis
<1>4. Leaving({o}) /\ Faithful /\ \A r \in InFlight' : Knows(r)'
  BY <1>1, <1>3, LastStep
<1>5. /\ q.group \in Key /\ q.to \in User /\ q.by \in User /\ conversation[q.group].type # None
      /\ q.op # "ensureTeamConversation" => q.to \notin q.known
      /\ q.op = "ensureTeamConversation" /\ q.group = o => q.by \in q.known
  BY <1>1, <1>2 DEF Knows, Asked, Enters
<1>6. members \subseteq Row /\ \A n \in members : n \in Row  BY Types DEF Basis, TypesTables
<1>7. CASE UNCHANGED members
  BY <1>1, <1>3, <1>4, <1>7, QuietBasis DEF tables
<1>8. CASE ~UNCHANGED members
  <2>1. members' = members \cup {m} /\ q.to \notin q.known
    BY <1>5, <1>8 DEF AddMember
  <2>2. m \in Row /\ m.by = o /\ m.conversation = q.group /\ m.user = q.to
    BY <1>5, NewRows, Strings
  <2>3. ASSUME NEW n \in members, n.by = o, n.user = q.to  PROVE FALSE
    <3>1. req[o].op # "served" /\ n.by # Earlier  BY <1>1, <2>3, Flying, Strings
    <3>2. Opened(o) /\ q.to = q.by  BY <2>3, <3>1 DEF Basis, Added
    <3>3. q.group = o /\ q.op = "ensureTeamConversation"  BY <3>1, <3>2 DEF Opened
    <3> QED  BY <1>5, <2>1, <3>2, <3>3
  <2>4. \A n1, n2 \in members' : n1.by = n2.by /\ n1.user = n2.user => n1 = n2
    <3>1. \A n1, n2 \in members : n1.by = n2.by /\ n1.user = n2.user => n1 = n2
      BY TypeParts DEF Basis
    <3> QED  BY <2>1, <2>2, <2>3, <3>1
  <2>5. req'[o].op = "served"
    BY <1>1, <1>4, Flying, AfterLeaving, Strings DEF Basis, Ended
  <2>6. \A n \in members' : Added(n)' /\ conversation[n.conversation].type # None
    <3>1. PICK x : x = m  OBVIOUS
    <3>2. members' = members \cup {x} /\ x.by = o /\ x.conversation = q.group  BY <2>1, <2>2, <3>1
    <3>3. Added(x)'  BY <2>5, <3>2 DEF Added
    <3> HIDE DEF m
    <3> QED  BY <1>4, <1>5, <1>6, <3>2, <3>3 DEF Basis, OpenedBefore, Faithful
  <2>7. IsFiniteSet(members')  BY <2>1, FS_AddElement DEF Basis
  <2>8. members' \subseteq Row  BY <1>6, <2>1, <2>2
  <2>9. Basis'
    BY <1>1, <1>3, <1>4, <2>4, <2>6, <2>7, <2>8, RowsBasis
  <2> QED  BY <1>1, <1>5, <2>1, <2>9
<1> QED  BY <1>1, <1>7, <1>8

LEMMA BlockBasis ==
    ASSUME Basis, NEW o \in Request, SetBlock(o)
    PROVE  /\ Basis' /\ UNCHANGED <<team, conversation, messages, sockets>>
           /\ \E t \in members : \E x \in Row :
                 /\ members' = (members \ {t}) \cup {x}
                 /\ x.user = t.user /\ x.conversation = t.conversation
<1> DEFINE q == req[o]
<1>1. /\ Stage(o) = "block" /\ Proceed(o, q)
      /\ UNCHANGED <<team, conversation, messages, sockets>>
  BY DEF SetBlock
<1>2. PICK t \in Rows(q.group, q.to) : members' = (members \ {t}) \cup {[t EXCEPT !.blocked = q.block]}
  BY DEF SetBlock
<1>3. PICK x : x = [t EXCEPT !.blocked = q.block]  OBVIOUS
<1>4. members \subseteq Row /\ \A m, n \in members : m.by = n.by /\ m.user = n.user => m = n
  BY TypeParts DEF Basis
<1>5. t \in members /\ t \in Row  BY <1>4 DEF Rows, RowsOf
<1>6. x \in Row /\ x.by = t.by /\ x.user = t.user /\ x.conversation = t.conversation
  <2>1. q.block \in BOOLEAN  BY <1>1, Flying DEF Asked
  <2> QED  BY <1>3, <1>5, <2>1 DEF Row
<1>7. members' = (members \ {t}) \cup {x}  BY <1>2, <1>3
<1>8. Standing /\ TypesTeam' /\ TypesSockets'  BY <1>1, QuietTypes DEF Basis
<1>9. Faithful /\ \A r \in InFlight' : Knows(r)'
  BY <1>1, <1>8, LastStep
<1>10. \A m, n \in members' : m.by = n.by /\ m.user = n.user => m = n
  BY <1>4, <1>5, <1>6, <1>7
<1>11. IsFiniteSet(members')
  <2>1. IsFiniteSet(members \ {t})  BY FS_RemoveElement DEF Basis
  <2> QED  BY <1>7, <2>1, FS_AddElement
<1>12. Added(x)'
  <2>1. Added(t) => Added(x)  BY <1>6 DEF Added
  <2> QED  BY <1>5, <1>6, <1>9, <2>1 DEF Basis, Faithful
<1>13. \A n \in members' : Added(n)' /\ conversation[n.conversation].type # None
  BY <1>4, <1>5, <1>6, <1>7, <1>9, <1>12 DEF Basis, OpenedBefore, Faithful
<1>14. members' \subseteq Row  BY <1>4, <1>6, <1>7
<1>15. Basis'
  BY <1>1, <1>8, <1>9, <1>10, <1>11, <1>13, <1>14, RowsBasis
<1> QED  BY <1>1, <1>5, <1>6, <1>7, <1>15

LEMMA SaveBasis ==
    ASSUME Basis, NEW o \in Request, SaveMessage(o)
    PROVE  /\ Basis' /\ UNCHANGED <<team, conversation, members, sockets>>
           /\ Stage(o) = "save" /\ Stage(o)' = "emit"
           /\ \A r \in Request : r # o => Stage(r)' = Stage(r)
           /\ \A m \in messages' : m \in messages \/ m.by = o
<1> DEFINE q == req[o]
<1>1. /\ Stage(o) = "save" /\ Proceed(o, q)
      /\ UNCHANGED <<team, conversation, members, sockets>>
  BY DEF SaveMessage
<1>2. PICK m : m = [by |-> o, conversation |-> q.group, sender |-> q.by]  OBVIOUS
<1>3. messages' = messages \cup {m}  BY <1>2 DEF SaveMessage
<1>4. /\ at[o] # 0 /\ at[o] \in Nat /\ q \in Asked /\ Knows(o) /\ q.op = "sendMessage" /\ q.op \in Operation
      /\ Path[q.op][at[o] + 1] = "save" /\ at[o] < Len(Path[q.op])
  BY <1>1, Flying, Paths
<1>5. m \in Sent /\ m.by = o /\ m.conversation = q.group
  <2>1. q.by \in User /\ q.group \in Key  BY <1>4 DEF Knows, Asked, Opens, Creates
  <2> QED  BY <1>2, <2>1 DEF Sent
<1>6. Standing /\ TypesTeam' /\ TypesSockets'  BY <1>1, QuietTypes DEF Basis
<1>7. Goes(o, q) /\ at[o] + 1 < Len(Path[q.op])  BY <1>1, <1>4, Proceeding DEF Basis
<1>8. /\ req'[o] = q /\ Stage(o)' = "emit" /\ Faithful
      /\ \A r \in Request : r # o => Stage(r)' = Stage(r)
  <2>1. /\ req'[o] = q /\ Stage(o)' = Stages(q, at[o] + 1) /\ Faithful
        /\ \A r \in Request : r # o => Stage(r)' = Stage(r)
    BY <1>4, <1>7, AfterGoing, FaithfulGoing DEF Basis
  <2>2. at[o] + 1 + 1 = at[o] + 2  BY <1>4
  <2>3. Path[q.op][at[o] + 2] = "emit"  BY <1>4, Paths
  <2> QED  BY <2>1, <2>2, <2>3 DEF Stages
<1>9. Knows(o)'
  <2>1. q.op \notin Opens \cup {"addConversationMember", "addTeamConversationMember", "ensureTeamConversation"}
    BY <1>4 DEF Opens, Creates
  <2> QED  BY <1>1, <1>4, <1>8, <2>1 DEF Knows
<1>10. \A r \in InFlight' : Knows(r)'
  BY <1>4, <1>6, <1>7, <1>9, GoingKnows DEF Basis
<1>11. Passed(m)'  BY <1>5, <1>8 DEF Passed
<1>12. members \subseteq Row /\ messages \subseteq Sent /\ TypesTables  BY Types DEF Basis, TypesTables
<1>13. TypesTables'  BY <1>1, <1>3, <1>5, <1>12 DEF TypesTables
<1>14. TypeOK'  BY <1>6, <1>8, <1>13, TypesNext DEF Faithful
<1>15. OpenedBefore'  BY <1>1, <1>8 DEF Basis, OpenedBefore, Faithful
<1>16. (\A n \in members' : Added(n)') /\ \A n \in messages' : Passed(n)'
  BY <1>1, <1>3, <1>8, <1>11, <1>12 DEF Basis, Faithful
<1> QED  BY <1>1, <1>3, <1>5, <1>8, <1>10, <1>14, <1>15, <1>16 DEF Basis

LEMMA EnterBasis ==
    ASSUME Basis, NEW o \in Request, EnterRoom(o)
    PROVE  /\ Basis' /\ UNCHANGED <<team, tables, seen, caughtUp>> /\ Stage(o) = "enter" /\ Leaving({o})
<1>1. /\ Stage(o) = "enter" /\ Proceed(o, req[o]) /\ UNCHANGED <<team, tables, seen, caughtUp>>
      /\ room' = room \cup {<<req[o].by, req[o].group>>}
  BY DEF EnterRoom
<1>2. req[o] \in Asked /\ Knows(o) /\ req[o].op = "joinRoom"  BY <1>1, Flying, Paths
<1>3. req[o].by \in User /\ req[o].group \in Key  BY <1>2 DEF Knows, Asked, Opens, Creates
<1>4. TypesSockets'  BY <1>1, <1>3, Types DEF Basis, TypesSockets
<1>5. Standing /\ TypesTeam'  BY <1>1, QuietTypes DEF Basis
<1>6. Leaving({o}) /\ Faithful /\ \A r \in InFlight' : Knows(r)'  BY <1>1, <1>5, LastStep
<1> QED  BY <1>1, <1>4, <1>5, <1>6, QuietBasis

LEMMA EmitBasis ==
    ASSUME Basis, NEW o \in Request, EmitMessage(o)
    PROVE  /\ Basis' /\ UNCHANGED <<team, tables, room, caughtUp>> /\ Stage(o) = "emit" /\ Leaving({o})
           /\ \A u \in User : seen'[u] = IF Hears(u, req[o]) THEN seen[u] \cup {o} ELSE seen[u]
<1>1. /\ Stage(o) = "emit" /\ Proceed(o, req[o]) /\ UNCHANGED <<team, tables, room, caughtUp>>
      /\ seen' = [u \in User |-> IF Hears(u, req[o]) THEN seen[u] \cup {o} ELSE seen[u]]
  BY DEF EmitMessage
<1>2. TypesSockets'  BY <1>1, Types DEF Basis, TypesSockets
<1>3. Standing /\ TypesTeam'  BY <1>1, QuietTypes DEF Basis
<1>4. Leaving({o}) /\ Faithful /\ \A r \in InFlight' : Knows(r)'  BY <1>1, <1>3, LastStep
<1> QED  BY <1>1, <1>2, <1>3, <1>4, QuietBasis

LEMMA LoadBasis ==
    ASSUME Basis, NEW o \in Request, LoadMessages(o)
    PROVE  /\ Basis' /\ UNCHANGED <<team, tables, room>> /\ Stage(o) = "load" /\ Leaving({o})
           /\ req[o].by \in User
           /\ \A u \in User : seen'[u] = IF u = req[o].by THEN seen[u] \cup Messages(req[o].group) ELSE seen[u]
           /\ \A x \in caughtUp' : x \in caughtUp \/ x = <<req[o].by, req[o].group>>
<1> DEFINE q == req[o]
<1>1. /\ Stage(o) = "load" /\ Proceed(o, q) /\ UNCHANGED <<team, tables, room>>
      /\ seen' = [seen EXCEPT ![q.by] = @ \cup Messages(q.group)]
      /\ caughtUp' = caughtUp \cup ({<<q.by, q.group>>} \cap room)
  BY DEF LoadMessages
<1>2. q.by \in User  BY <1>1, Flying DEF Knows
<1>3. /\ room \subseteq User \X Key /\ caughtUp \subseteq room
      /\ seen \in [User -> SUBSET Request] /\ messages \subseteq Sent
  BY TypeParts DEF Basis
<1>4. Messages(q.group) \subseteq Request  BY <1>3 DEF Messages, Sent
<1>5. TypesSockets'  BY <1>1, <1>2, <1>3, <1>4 DEF TypesSockets
<1>6. Standing /\ TypesTeam'  BY <1>1, QuietTypes DEF Basis
<1>7. Leaving({o}) /\ Faithful /\ \A r \in InFlight' : Knows(r)'  BY <1>1, <1>6, LastStep
<1>8. Basis'  BY <1>1, <1>5, <1>6, <1>7, QuietBasis
<1>9. /\ \A u \in User : seen'[u] = IF u = q.by THEN seen[u] \cup Messages(q.group) ELSE seen[u]
      /\ \A x \in caughtUp' : x \in caughtUp \/ x = <<q.by, q.group>>
  BY <1>1, <1>3
<1> QED  BY <1>1, <1>2, <1>7, <1>8, <1>9

LEMMA FailBasis ==
    ASSUME Basis, NEW o \in Request, Fail(o)
    PROVE  Basis' /\ UNCHANGED <<team, tables, sockets>> /\ Stage(o) # "emit" /\ Leaving({o})
<1>1. Stage(o) \notin {"idle", "emit"} /\ Leave(o) /\ UNCHANGED <<team, tables, sockets>>
  BY DEF Fail
<1>2. Standing /\ TypesTeam' /\ TypesSockets'  BY <1>1, QuietTypes DEF Basis
<1>3. {o} \in SUBSET InFlight /\ Leaving({o})  BY <1>1, Flying, LeaveIs DEF Basis
<1>4. Faithful /\ \A r \in InFlight' : Knows(r)'
  BY <1>2, <1>3, FaithfulLeaving, LeavingKnows DEF Basis
<1> QED  BY <1>1, <1>2, <1>3, <1>4, QuietBasis

LEMMA AbandonBasis ==
    ASSUME Basis, NEW O \in SUBSET InFlight, Abandon(O), seen' = seen, room' \subseteq room, caughtUp' \subseteq caughtUp,
           caughtUp' \subseteq room'
    PROVE  Basis' /\ UNCHANGED <<team, tables>> /\ Leaving(O)
<1>1. UNCHANGED <<team, tables>> /\ Leaving(O)  BY DEF Abandon, Leaving
<1>2. TypesSockets'  BY Types DEF Basis, TypesSockets
<1>3. Standing /\ TypesTeam'  BY <1>1, QuietTypes DEF Basis
<1>4. Faithful /\ \A r \in InFlight' : Knows(r)'
  BY <1>1, <1>3, FaithfulLeaving, LeavingKnows DEF Basis
<1> QED  BY <1>1, <1>2, <1>3, <1>4, QuietBasis

LEMMA RestKnows ==
    ASSUME Basis, UNCHANGED <<req, at, conversation>>
    PROVE  Faithful /\ \A r \in InFlight' : Knows(r)'
<1>1. Faithful  BY FaithfulRest DEF Basis
<1>2. \A r \in InFlight' : Knows(r)'
  BY DEF Basis, InFlight, Knows, Stage
<1> QED  BY <1>1, <1>2

LEMMA ChangeBasis ==
    ASSUME Basis, NEW u \in User, NEW r \in User \cup {None}, NEW c \in {"ADMIN", "MEMBER", None}, ChangeTeam(u, r, c)
    PROVE  Basis' /\ UNCHANGED <<tables, sockets, req, at>>
<1>1. /\ UNCHANGED <<account, tables, sockets, req, at>>
      /\ parent' = [parent EXCEPT ![u] = r] /\ teamRole' = [teamRole EXCEPT ![u] = c]
  BY DEF ChangeTeam
<1>2. TypesTeam'  BY <1>1, Types DEF Basis, TypesTeam
<1>3. TypesSockets'  BY <1>1, QuietTypes DEF Basis
<1>4. Faithful /\ \A o \in InFlight' : Knows(o)'  BY <1>1, RestKnows DEF tables
<1> QED  BY <1>1, <1>2, <1>3, <1>4, QuietBasis

LEMMA DeleteBasis ==
    ASSUME Basis, NEW u \in User, DeleteUser(u)
    PROVE  /\ Basis' /\ UNCHANGED <<conversation, sockets, req, at>>
           /\ members' \subseteq members /\ messages' \subseteq messages
<1>1. /\ UNCHANGED <<conversation, sockets, req, at>>
      /\ account'  = [account EXCEPT ![u] = "deleted"]
      /\ parent'   = [v \in User |-> IF v = u \/ parent[v] = u THEN None ELSE parent[v]]
      /\ teamRole' = [v \in User |-> IF v = u \/ parent[v] = u THEN None ELSE teamRole[v]]
      /\ members'  = {m \in members : m.user # u}
      /\ messages' = {m \in messages : m.sender # u}
  BY DEF DeleteUser
<1>2. members' \subseteq members /\ messages' \subseteq messages  BY <1>1
<1>3. TypesTeam'  BY <1>1, Types DEF Basis, TypesTeam
<1>4. TypesSockets'  BY <1>1, QuietTypes DEF Basis
<1>5. Faithful /\ \A o \in InFlight' : Knows(o)'  BY <1>1, RestKnows
<1>6. TypesTables /\ members \subseteq Row /\ messages \subseteq Sent  BY Types DEF Basis, TypesTables
<1>7. TypesTables'  BY <1>1, <1>2, <1>6 DEF TypesTables
<1>8. TypeOK'  BY <1>3, <1>4, <1>5, <1>7, TypesNext DEF Faithful
<1>9. IsFiniteSet(members')  BY <1>2, FS_Subset DEF Basis
<1>10. OpenedBefore'  BY <1>1, <1>2, <1>5 DEF Basis, OpenedBefore, Faithful
<1>11. (\A n \in members' : Added(n)') /\ \A n \in messages' : Passed(n)'
  BY <1>2, <1>5, <1>6 DEF Basis, Faithful
<1> QED  BY <1>1, <1>2, <1>5, <1>8, <1>9, <1>10, <1>11 DEF Basis

----------------------------------------------------------------------------
(* Nothing is missed. *)
LEMMA OthersStay ==
    ASSUME TypeOK, NEW o \in Request, NEW p, Proceed(o, p) \/ Leave(o), NEW r \in Request, r # o
    PROVE  Stage(r)' = Stage(r)
BY TypeParts DEF Proceed, Leave, Stage

\* Steps that add no message and pass none on.
LEMMA StillNothingMissed ==
    ASSUME Basis, NothingMissed, messages' \subseteq messages, caughtUp' \subseteq caughtUp, seen' = seen,
           \A r \in Request : Stage(r) = "emit" => Stage(r)' = "emit"
    PROVE  NothingMissed'
<1> SUFFICES ASSUME NEW x \in caughtUp', NEW m \in Messages(x[2])'
             PROVE  m \in seen[x[1]] \/ Stage(m)' = "emit"
  BY DEF NothingMissed
<1>1. PICK n \in messages' : n.conversation = x[2] /\ m = n.by  BY DEF Messages
<1>2. n \in messages /\ m \in Messages(x[2])  BY <1>1 DEF Messages
<1>3. m \in Request  BY <1>1, <1>2, TypeParts DEF Basis, Sent
<1> QED  BY <1>2, <1>3 DEF NothingMissed

LEMMA SaveMisses ==
    ASSUME Basis, NothingMissed, NEW o \in Request, SaveMessage(o)
    PROVE  NothingMissed'
<1>1. /\ UNCHANGED <<seen, caughtUp>> /\ Stage(o)' = "emit"
      /\ \A r \in Request : r # o => Stage(r)' = Stage(r)
      /\ \A m \in messages' : m \in messages \/ m.by = o
  BY SaveBasis DEF sockets
<1> SUFFICES ASSUME NEW x \in caughtUp, NEW m \in Messages(x[2])', m # o
             PROVE  m \in seen[x[1]] \/ Stage(m)' = "emit"
  BY <1>1 DEF NothingMissed
<1>2. PICK n \in messages' : n.conversation = x[2] /\ m = n.by  BY DEF Messages
<1>3. n \in messages /\ m \in Messages(x[2])  BY <1>1, <1>2 DEF Messages
<1>4. m \in Request  BY <1>2, <1>3, TypeParts DEF Basis, Sent
<1> QED  BY <1>1, <1>3, <1>4 DEF NothingMissed

\* What is passed on reaches everyone who is up to date.
LEMMA EmitMisses ==
    ASSUME Basis, NothingMissed, NEW o \in Request, EmitMessage(o)
    PROVE  NothingMissed'
<1>1. /\ UNCHANGED <<tables, caughtUp>> /\ Stage(o) = "emit" /\ Leaving({o})
      /\ \A u \in User : seen'[u] = IF Hears(u, req[o]) THEN seen[u] \cup {o} ELSE seen[u]
  BY EmitBasis
<1>2. /\ caughtUp \subseteq room /\ room \subseteq User \X Key /\ messages \subseteq Sent
      /\ \A r \in Request : r # o => Stage(r)' = Stage(r)
  BY <1>1, Flying, TypeParts, AfterLeaving DEF Basis
<1> SUFFICES ASSUME NEW x \in caughtUp, NEW m \in Messages(x[2])
             PROVE  m \in seen'[x[1]] \/ Stage(m)' = "emit"
  BY <1>1 DEF NothingMissed, Messages, tables
<1>3. PICK n \in messages : n.conversation = x[2] /\ m = n.by  BY DEF Messages
<1>4. m \in Request /\ x[1] \in User /\ x = <<x[1], x[2]>> /\ x \in room  BY <1>2, <1>3 DEF Sent
<1>5. CASE m = o
  <2>1. req[o].op # "served"  BY <1>1, Flying
  <2>2. req[o].group = x[2]  BY <1>3, <1>5, <2>1 DEF Basis, Passed
  <2>3. Hears(x[1], req[o])  BY <1>4, <2>2 DEF Hears
  <2> QED  BY <1>1, <1>4, <1>5, <2>3
<1>6. CASE m # o
  <2>1. m \in seen[x[1]] \/ Stage(m) = "emit"  BY DEF NothingMissed
  <2> QED  BY <1>1, <1>2, <1>4, <1>6, <2>1
<1> QED  BY <1>5, <1>6

LEMMA LoadMisses ==
    ASSUME Basis, NothingMissed, NEW o \in Request, LoadMessages(o)
    PROVE  NothingMissed'
<1>1. /\ UNCHANGED tables /\ Stage(o) = "load" /\ Leaving({o}) /\ req[o].by \in User
      /\ \A u \in User : seen'[u] = IF u = req[o].by THEN seen[u] \cup Messages(req[o].group) ELSE seen[u]
      /\ \A x \in caughtUp' : x \in caughtUp \/ x = <<req[o].by, req[o].group>>
  BY LoadBasis
<1>2. /\ caughtUp \subseteq User \X Key /\ messages \subseteq Sent
      /\ \A r \in Request : Stage(r) = "emit" => Stage(r)' = "emit"
  BY <1>1, Flying, TypeParts, AfterLeaving DEF Basis
<1> SUFFICES ASSUME NEW x \in caughtUp', NEW m \in Messages(x[2])
             PROVE  m \in seen'[x[1]] \/ Stage(m)' = "emit"
  BY <1>1 DEF NothingMissed, Messages, tables
<1>3. m \in Request  BY <1>2 DEF Messages, Sent
<1>4. CASE x \in caughtUp
  <2>1. x[1] \in User  BY <1>2, <1>4
  <2>2. m \in seen[x[1]] \/ Stage(m) = "emit"  BY <1>4 DEF NothingMissed
  <2> QED  BY <1>1, <1>2, <1>3, <2>1, <2>2
<1>5. CASE x = <<req[o].by, req[o].group>>
  <2>1. x[1] = req[o].by /\ x[2] = req[o].group  BY <1>5
  <2> QED  BY <1>1, <2>1
<1> QED  BY <1>1, <1>4, <1>5

----------------------------------------------------------------------------
(* The invariant. *)
LEMMA InitHolds == Init => IInv
<1> SUFFICES ASSUME Init  PROVE IInv
  OBVIOUS
<1>1. PICK t \in {"DIRECT", "GROUP"}, W \in {{}} \cup {{v} : v \in User \ {Owner}} :
          /\ conversation = [k \in Key |-> IF k = Earlier THEN [type |-> t, by |-> Owner]
                                           ELSE [type |-> None, by |-> None]]
          /\ members = {NewRow(Earlier, Earlier, Owner, "OWNER")}
                       \cup {NewRow(Earlier, Earlier, v, "MEMBER") : v \in W}
  BY DEF Init
<1>2. /\ account = [u \in User |-> "live"] /\ parent = [u \in User |-> IF u = Owner THEN None ELSE Owner]
      /\ teamRole = [u \in User |-> IF u = Owner THEN None ELSE "ADMIN"]
      /\ messages = {} /\ room = {} /\ caughtUp = {} /\ seen = [u \in User |-> {}]
      /\ req = [o \in Request |-> NoRequest] /\ at = [o \in Request |-> 0]
  BY DEF Init
<1> DEFINE own == NewRow(Earlier, Earlier, Owner, "OWNER")
<1>3. /\ own \in Row /\ own.user = Owner /\ own.conversation = Earlier
      /\ \A m \in members : m.by = Earlier /\ m.conversation = Earlier /\ m \in Row
      /\ IsFiniteSet(members)
      /\ \A m, n \in members : m.user = n.user => m = n
  <2>1. CASE W = {}
    <3>1. members = {own}  BY <1>1, <2>1
    <3> QED  BY <3>1, NewRows, Strings, FS_Singleton
  <2>2. CASE W # {}
    <3>1. PICK v \in User \ {Owner} : W = {v}  BY <1>1, <2>2
    <3>2. members = {own} \cup {NewRow(Earlier, Earlier, v, "MEMBER")}  BY <1>1, <3>1
    <3>3. PICK other : other = NewRow(Earlier, Earlier, v, "MEMBER")  OBVIOUS
    <3>4. PICK first : first = own  OBVIOUS
    <3>5. other \in Row /\ other.by = Earlier /\ other.conversation = Earlier /\ other.user = v
      BY <3>3, NewRows, Strings
    <3>6. first \in Row /\ first.by = Earlier /\ first.conversation = Earlier /\ first.user = Owner
      BY <3>4, NewRows, Strings
    <3>7. members = {first} \cup {other}  BY <3>2, <3>3, <3>4
    <3>8. IsFiniteSet(members)  BY <3>7, FS_Singleton, FS_Union
    <3>9. v # Owner  BY <3>1
    <3> HIDE DEF own
    <3> QED  BY <3>4, <3>5, <3>6, <3>7, <3>8, <3>9
  <2> QED  BY <2>1, <2>2
<1>4. TypesTeam /\ TypesSockets /\ TypesRequests
  BY <1>2, Strings DEF TypesTeam, TypesSockets, TypesRequests, None
<1>5. TypesTables
  <2>1. conversation \in [Key -> [type : {"DIRECT", "GROUP", None}, by : User \cup {None}]]
    BY <1>1, Strings
  <2> QED  BY <1>2, <1>3, <2>1 DEF TypesTables
<1>6. OpenedBefore
  BY <1>1, <1>3, Strings DEF OpenedBefore, None
<1>7. (\A m \in members : Added(m)) /\ InFlight = {}  BY <1>2, <1>3 DEF Added, InFlight
<1>8. NothingMissed  BY <1>2 DEF NothingMissed
<1> QED  BY <1>2, <1>3, <1>4, <1>5, <1>6, <1>7, <1>8, Types DEF IInv

LEMMA Parts == IInv <=> Basis /\ NothingMissed
BY DEF IInv, Basis

LEMMA PartsNext == Basis' /\ NothingMissed' => IInv'
BY DEF IInv, Basis

\* A request arrives.
LEMMA ArriveHolds ==
    ASSUME IInv, NEW o \in Request, NEW u \in User, Arrive(o, u)
    PROVE  /\ IInv' /\ UNCHANGED <<team, tables, sockets>> /\ at[o] = 0
           /\ \E q \in Asked : \E p \in Asked :
                 /\ q.op \in Operation /\ at[o] + 1 < Len(Path[q.op])
                 /\ Goes(o, p) /\ Learns(q, at[o], p) /\ req[o].op = None
<1>1. PICK q \in Calls(u) : Reads(o, q)  BY DEF Arrive
<1>2. at[o] = 0 /\ req[o].op = None  BY DEF Arrive
<1>3. Basis /\ NothingMissed /\ TypeOK  BY Parts DEF Basis
<1>4. q \in Asked /\ q.op \in Operation /\ q.by \in User /\ 0 < Len(Path[q.op])
  <2>1. q \in Asked /\ q.op \in Operation /\ q.by \in User  BY <1>3, Called
  <2>2. 0 < Len(Path[q.op])  BY <2>1 DEF Operation, Path
  <2> QED  BY <2>1, <2>2
<1>5. /\ Basis' /\ UNCHANGED <<team, tables, sockets>> /\ at[o] + 1 < Len(Path[q.op])
      /\ \E p \in Asked : Goes(o, p) /\ Learns(q, at[o], p)
  BY <1>1, <1>2, <1>3, <1>4, ReadBasis
<1>6. PICK p \in Asked : Goes(o, p) /\ Learns(q, at[o], p)  BY <1>5
<1>7. p.op = q.op  BY <1>6 DEF Learns
<1>8. \A r \in Request : Stage(r) = "emit" => Stage(r)' = "emit"
  BY <1>2, <1>3, <1>4, <1>5, <1>6, <1>7, AfterGoing
<1>9. NothingMissed'  BY <1>3, <1>5, <1>8, StillNothingMissed DEF tables, sockets
<1> QED  BY <1>2, <1>4, <1>5, <1>6, <1>9, PartsNext

LEMMA StepHolds ==
    ASSUME IInv, NEW o \in Request, Step(o)
    PROVE  IInv'
<1>1. Basis /\ NothingMissed /\ TypeOK  BY Parts DEF Basis
<1>2. CASE at[o] # 0 /\ Reads(o, req[o])
  <2>1. req[o] \in Asked /\ req[o].op \in Operation /\ at[o] < Len(Path[req[o].op])
    BY <1>1, <1>2, InStage
  <2>2. /\ Basis' /\ UNCHANGED <<team, tables, sockets>> /\ at[o] + 1 < Len(Path[req[o].op])
        /\ \E p \in Asked : Goes(o, p) /\ Learns(req[o], at[o], p)
    BY <1>1, <1>2, <2>1, ReadBasis
  <2>3. PICK p \in Asked : Goes(o, p) /\ Learns(req[o], at[o], p)  BY <2>2
  <2>4. p.op = req[o].op  BY <2>3 DEF Learns
  <2>5. \A r \in Request : Stage(r) = "emit" => Stage(r)' = "emit"
    BY <1>1, <1>2, <2>1, <2>2, <2>3, <2>4, AfterGoing
  <2>6. NothingMissed'  BY <1>1, <2>2, <2>5, StillNothingMissed DEF tables, sockets
  <2> QED  BY <2>2, <2>6, PartsNext
<1>3. CASE OpenConversation(o)
  <2>1. Basis' /\ UNCHANGED <<team, sockets>>  BY <1>1, <1>3, OpenBasis
  <2>2. Stage(o) = "open" /\ messages' = messages /\ \E p : Proceed(o, p)
    BY <1>3 DEF OpenConversation, tables
  <2>3. NothingMissed'  BY <1>1, <2>1, <2>2, OthersStay, StillNothingMissed DEF sockets
  <2> QED  BY <2>1, <2>3, PartsNext
<1>4. CASE AddMember(o)
  <2>1. Basis' /\ UNCHANGED <<messages, sockets>> /\ Stage(o) = "add"  BY <1>1, <1>4, AddBasis
  <2>2. Proceed(o, req[o])  BY <1>4 DEF AddMember
  <2>3. NothingMissed'  BY <1>1, <2>1, <2>2, OthersStay, StillNothingMissed DEF sockets
  <2> QED  BY <2>1, <2>3, PartsNext
<1>5. CASE SetBlock(o)
  <2>1. Basis' /\ UNCHANGED <<messages, sockets>>  BY <1>1, <1>5, BlockBasis
  <2>2. Proceed(o, req[o]) /\ Stage(o) = "block"  BY <1>5 DEF SetBlock
  <2>3. NothingMissed'  BY <1>1, <2>1, <2>2, OthersStay, StillNothingMissed DEF sockets
  <2> QED  BY <2>1, <2>3, PartsNext
<1>6. CASE SaveMessage(o)
  BY <1>1, <1>6, SaveBasis, SaveMisses, PartsNext
<1>7. CASE EnterRoom(o)
  <2>1. Basis' /\ UNCHANGED <<tables, seen, caughtUp>> /\ Stage(o) = "enter"  BY <1>1, <1>7, EnterBasis
  <2>2. Proceed(o, req[o])  BY <1>7 DEF EnterRoom
  <2>3. NothingMissed'  BY <1>1, <2>1, <2>2, OthersStay, StillNothingMissed DEF tables
  <2> QED  BY <2>1, <2>3, PartsNext
<1>8. CASE EmitMessage(o)
  BY <1>1, <1>8, EmitBasis, EmitMisses, PartsNext
<1>9. CASE LoadMessages(o)
  BY <1>1, <1>9, LoadBasis, LoadMisses, PartsNext
<1>10. CASE Fail(o)
  <2>1. Basis' /\ UNCHANGED <<tables, sockets>> /\ Stage(o) # "emit"  BY <1>1, <1>10, FailBasis
  <2>2. Leave(o)  BY <1>10 DEF Fail
  <2>3. NothingMissed'  BY <1>1, <2>1, <2>2, OthersStay, StillNothingMissed DEF tables, sockets
  <2> QED  BY <2>1, <2>3, PartsNext
<1> QED  BY <1>2, <1>3, <1>4, <1>5, <1>6, <1>7, <1>8, <1>9, <1>10 DEF Step

LEMMA EnvironmentHolds ==
    ASSUME IInv, NEW u \in User, Environment(u)
    PROVE  /\ IInv' /\ members' \subseteq members
           /\ \A o \in Request : Stage(o) = "idle" => Stage(o)' = "idle"
<1>1. Basis /\ NothingMissed /\ TypeOK  BY Parts DEF Basis
<1>2. CASE Disconnect(u)
  <2> DEFINE O == {o \in InFlight : req[o].op = "joinRoom" /\ req[o].by = u}
  <2>1. /\ Abandon(O) /\ room' = {x \in room : x[1] # u} /\ caughtUp' = {x \in caughtUp : x[1] # u}
        /\ seen' = seen /\ O \in SUBSET InFlight
    BY <1>2 DEF Disconnect
  <2>2. caughtUp \subseteq room  BY <1>1, TypeParts
  <2>3. Basis' /\ UNCHANGED <<team, tables>> /\ Leaving(O)  BY <1>1, <2>1, <2>2, AbandonBasis
  <2>4. \A r \in O : Stage(r) # "emit"
    <3> SUFFICES ASSUME NEW r \in Request, at[r] # 0, req[r].op = "joinRoom"  PROVE Stage(r) # "emit"
      BY DEF InFlight
    <3> QED  BY <1>1, InStage, Paths
  <2>5. \A r \in Request : Stage(r)' = IF r \in O THEN "idle" ELSE Stage(r)
    BY <1>1, <2>1, <2>3, AfterLeaving
  <2> HIDE DEF O
  <2>6. NothingMissed'  BY <1>1, <2>1, <2>3, <2>4, <2>5, StillNothingMissed DEF tables
  <2> QED  BY <2>3, <2>5, <2>6, PartsNext DEF tables
<1>3. CASE DeleteUser(u)
  <2>1. /\ Basis' /\ UNCHANGED <<sockets, req, at>> /\ members' \subseteq members /\ messages' \subseteq messages
    BY <1>1, <1>3, DeleteBasis
  <2>2. \A r \in Request : Stage(r)' = Stage(r)  BY <2>1 DEF Stage
  <2>3. NothingMissed'  BY <1>1, <2>1, <2>2, StillNothingMissed DEF sockets
  <2> QED  BY <2>1, <2>2, <2>3, PartsNext
<1>4. CASE ChangeTeam(u, None, None) \/ \E c \in Granted : ChangeTeam(u, Owner, c)
  <2>1. Basis' /\ UNCHANGED <<tables, sockets, req, at>>
    BY <1>1, <1>4, ChangeBasis, UserAssumption, GrantedAssumption
  <2>2. \A r \in Request : Stage(r)' = Stage(r)  BY <2>1 DEF Stage
  <2>3. NothingMissed'  BY <1>1, <2>1, <2>2, StillNothingMissed DEF tables, sockets
  <2> QED  BY <2>1, <2>2, <2>3, PartsNext DEF tables
<1> QED  BY <1>2, <1>3, <1>4 DEF Environment

LEMMA RestartHolds ==
    ASSUME IInv, Restart
    PROVE  /\ IInv' /\ members' = members
           /\ \A o \in Request : Stage(o) = "idle" => Stage(o)' = "idle"
<1>1. Basis /\ TypeOK  BY Parts DEF Basis
<1>2. Abandon(InFlight) /\ room' = {} /\ caughtUp' = {} /\ seen' = seen  BY DEF Restart
<1>3. Basis' /\ UNCHANGED tables /\ Leaving(InFlight)  BY <1>1, <1>2, AbandonBasis
<1>4. \A r \in Request : Stage(r) = "idle" => Stage(r)' = "idle"  BY <1>1, <1>3, AfterLeaving
<1>5. NothingMissed'  BY <1>2 DEF NothingMissed
<1> QED  BY <1>3, <1>4, <1>5, PartsNext DEF tables

LEMMA RestHolds ==
    ASSUME IInv, UNCHANGED vars
    PROVE  IInv'
<1>1. Basis /\ NothingMissed /\ TypeOK  BY Parts DEF Basis
<1>2. UNCHANGED <<team, tables, sockets, req, at>>  BY DEF vars
<1>3. Basis'
  BY <1>1, <1>2, QuietTypes, RestKnows, QuietBasis DEF tables
<1>4. \A r \in Request : Stage(r)' = Stage(r)  BY <1>2 DEF Stage
<1> QED  BY <1>1, <1>2, <1>3, <1>4, StillNothingMissed, PartsNext DEF tables, sockets

LEMMA NextHolds == IInv /\ [Next]_vars => IInv'
BY StepHolds, ArriveHolds, EnvironmentHolds, RestartHolds, RestHolds DEF Next

----------------------------------------------------------------------------
(* What a step may do. *)
LEMMA RowsFinite ==
    ASSUME Basis, NEW c, NEW u
    PROVE  Rows(c, u) \subseteq members /\ IsFiniteSet(Rows(c, u)) /\ Cardinality(Rows(c, u)) \in Nat
<1>1. Rows(c, u) \subseteq members  BY DEF Rows, RowsOf
<1> QED  BY <1>1, FS_Subset, FS_CardinalityType DEF Basis

\* Fewer rows, or one in the place of another.
LEMMA NotMoreRows ==
    ASSUME Basis, NEW c, NEW u, Rows(c, u)' \subseteq Rows(c, u)
    PROVE  ~ (Cardinality(Rows(c, u)') > Cardinality(Rows(c, u)))
<1>1. IsFiniteSet(Rows(c, u)) /\ Cardinality(Rows(c, u)) \in Nat  BY RowsFinite
<1>2. IsFiniteSet(Rows(c, u)')  BY <1>1, FS_Subset
<1>3. Cardinality(Rows(c, u)') <= Cardinality(Rows(c, u))  BY <1>1, FS_Subset
<1>4. Cardinality(Rows(c, u)') \in Nat  BY <1>2, FS_CardinalityType
<1> QED  BY <1>1, <1>3, <1>4

LEMMA ReplacedRow ==
    ASSUME Basis, NEW c, NEW u, NEW t \in Rows(c, u), NEW x, Rows(c, u)' \subseteq (Rows(c, u) \ {t}) \cup {x}
    PROVE  ~ (Cardinality(Rows(c, u)') > Cardinality(Rows(c, u)))
<1> DEFINE S == Rows(c, u)
           L == S \ {t}
<1>1. IsFiniteSet(S) /\ Cardinality(S) \in Nat  BY RowsFinite
<1>2. IsFiniteSet(L) /\ Cardinality(L) = Cardinality(S) - 1  BY <1>1, FS_RemoveElement
<1>3. IsFiniteSet(L \cup {x}) /\ Cardinality(L \cup {x}) <= Cardinality(S)
  <2>1. /\ IsFiniteSet(L \cup {x})
        /\ Cardinality(L \cup {x}) = IF x \in L THEN Cardinality(L) ELSE Cardinality(L) + 1
    BY <1>2, FS_AddElement
  <2> QED  BY <1>1, <1>2, <2>1
<1>4. IsFiniteSet(Rows(c, u)') /\ Cardinality(Rows(c, u)') <= Cardinality(L \cup {x})
  BY <1>3, FS_Subset
<1>5. Cardinality(Rows(c, u)') \in Nat /\ Cardinality(L \cup {x}) \in Nat
  BY <1>3, <1>4, FS_CardinalityType
<1> QED  BY <1>1, <1>3, <1>4, <1>5

\* No step but the addition of a member that was unknown gives a member a second row.
LEMMA Duplicates ==
    ASSUME IInv, [Next]_vars, NEW c \in Key, NEW u \in User,
           Rows(c, u) # {}, Cardinality(Rows(c, u)') > Cardinality(Rows(c, u))
    PROVE  \E o \in Request : Stage(o) = "add" /\ req[o].to = u /\ u \notin req[o].known
<1>1. Basis /\ TypeOK  BY Parts DEF Basis
<1>2. ~ (Rows(c, u)' \subseteq Rows(c, u))  BY <1>1, NotMoreRows
<1>3. ~ (members' \subseteq members)  BY <1>2 DEF Rows, RowsOf
<1>4. ASSUME NEW o \in Request, OpenConversation(o)  PROVE FALSE
  <2>1. Stage(o) = "open"  BY <1>4 DEF OpenConversation
  <2>2. \A m \in members : m.conversation # o  BY <1>1, <2>1, Unopened
  <2>3. \A m \in members' \ members : m.conversation = o  BY <1>1, <1>3, <1>4, OpenBasis DEF tables
  <2>4. c # o  BY <2>2 DEF Rows, RowsOf
  <2> QED  BY <1>2, <2>3, <2>4 DEF Rows, RowsOf
<1>5. ASSUME NEW o \in Request, AddMember(o)
      PROVE  Stage(o) = "add" /\ req[o].to = u /\ u \notin req[o].known
  <2>1. /\ members' = members \cup {NewRow(o, req[o].group, req[o].to, "MEMBER")} /\ Stage(o) = "add"
        /\ req[o].to \notin req[o].known /\ req[o].to \in User /\ req[o].group \in Key
    BY <1>1, <1>3, <1>5, AddBasis
  <2>2. NewRow(o, req[o].group, req[o].to, "MEMBER").user = req[o].to  BY <2>1, NewRows, Strings
  <2>3. req[o].to = u  BY <1>2, <2>1, <2>2 DEF Rows, RowsOf
  <2> QED  BY <2>1, <2>3
<1>6. ASSUME NEW o \in Request, SetBlock(o)  PROVE FALSE
  <2>1. PICK t \in members : \E x \in Row :
            /\ members' = (members \ {t}) \cup {x}
            /\ x.user = t.user /\ x.conversation = t.conversation
    BY <1>1, <1>6, BlockBasis
  <2>2. PICK x \in Row : /\ members' = (members \ {t}) \cup {x}
                         /\ x.user = t.user /\ x.conversation = t.conversation
    BY <2>1
  <2>3. t \in Rows(c, u)  BY <1>2, <2>2 DEF Rows, RowsOf
  <2>4. Rows(c, u)' \subseteq (Rows(c, u) \ {t}) \cup {x}  BY <2>2 DEF Rows, RowsOf
  <2> QED  BY <1>1, <2>3, <2>4, ReplacedRow
<1>7. ASSUME NEW o \in Request, Step(o), ~OpenConversation(o), ~AddMember(o), ~SetBlock(o)  PROVE FALSE
  <2>1. UNCHANGED members
    BY <1>7 DEF Step, Reads, Read, ReadPeople, ReadExisting, ReadConversation, ReadTeam, ReadManager,
                ReadJoiner, FindTeamConversation, ReadMembership, SaveMessage, EnterRoom, EmitMessage,
                LoadMessages, Fail, tables
  <2> QED  BY <1>3, <2>1
<1>8. ASSUME NEW o \in Request, NEW v \in User, Arrive(o, v)  PROVE FALSE
  BY <1>3, <1>8, ArriveHolds DEF tables
<1> QED
  BY <1>3, <1>4, <1>5, <1>6, <1>7, <1>8, EnvironmentHolds, RestartHolds DEF Next, vars, tables

LEMMA TwoRows ==
    ASSUME Basis, NEW c, NEW u, NEW m \in Rows(c, u), NEW n \in Rows(c, u), m # n
    PROVE  Cardinality(Rows(c, u)) > 1
<1> DEFINE L == Rows(c, u) \ {m}
<1>1. IsFiniteSet(Rows(c, u)) /\ Cardinality(Rows(c, u)) \in Nat  BY RowsFinite
<1>2. IsFiniteSet(L) /\ Cardinality(L) = Cardinality(Rows(c, u)) - 1  BY <1>1, FS_RemoveElement
<1>3. Cardinality(L) \in Nat /\ Cardinality(L) # 0  BY <1>2, FS_CardinalityType, FS_EmptySet
<1> QED  BY <1>1, <1>2, <1>3

\* Whoever comes to write, or to load, as a member has found a row that is not blocked.
LEMMA Evasions ==
    ASSUME IInv, [Next]_vars, NEW o \in Request, Stage(o) = "idle", Stage(o)' \in {"enter", "save", "load"}
    PROVE  \E m \in Rows(req'[o].group, req'[o].by) : ~m.blocked
<1>1. Basis /\ TypeOK  BY Parts DEF Basis
<1>2. at[o] = 0  BY <1>1, InStage
<1>3. ASSUME NEW r \in Request, Step(r)  PROVE FALSE
  <2>1. at[r] # 0
    BY <1>1, <1>3, InStage DEF Step, OpenConversation, AddMember, SetBlock, SaveMessage, EnterRoom,
                               EmitMessage, LoadMessages, Fail
  <2>2. \E p : Proceed(r, p) \/ Leave(r)
    BY <1>3 DEF Step, Reads, ReadPeople, ReadExisting, ReadConversation, ReadTeam, ReadManager, ReadJoiner,
                FindTeamConversation, ReadMembership, OpenConversation, AddMember, SetBlock, SaveMessage,
                EnterRoom, EmitMessage, LoadMessages, Fail
  <2> QED  BY <1>1, <1>2, <2>1, <2>2, OthersStay
<1>4. ASSUME NEW r \in Request, NEW u \in User, Arrive(r, u)
      PROVE  \E m \in Rows(req'[o].group, req'[o].by) : ~m.blocked
  <2>1. at[r] = 0 /\ \E q \in Asked : \E p \in Asked :
                        /\ q.op \in Operation /\ at[r] + 1 < Len(Path[q.op])
                        /\ Goes(r, p) /\ Learns(q, at[r], p) /\ req[r].op = None
    BY <1>4, ArriveHolds
  <2>2. PICK q \in Asked : \E p \in Asked :
                        /\ q.op \in Operation /\ at[r] + 1 < Len(Path[q.op])
                        /\ Goes(r, p) /\ Learns(q, at[r], p) /\ req[r].op = None
    BY <2>1
  <2>3. PICK p \in Asked :
                        /\ q.op \in Operation /\ at[r] + 1 < Len(Path[q.op])
                        /\ Goes(r, p) /\ Learns(q, at[r], p) /\ req[r].op = None
    BY <2>2
  <2>4. p.op = q.op  BY <2>3 DEF Learns
  <2>5. /\ req'[r] = p /\ Stage(r)' = Stages(p, at[r] + 1)
        /\ \A s \in Request : s # r => Stage(s)' = Stage(s)
    BY <1>1, <2>1, <2>3, <2>4, AfterGoing
  <2>6. r = o  BY <2>5
  <2>7. at[r] \in Nat /\ at[r] < Len(Path[q.op]) /\ at[r] + 1 # Len(Path[q.op])
    <3>1. Len(Path[q.op]) \in Nat  BY <2>1, <2>3, Strings DEF Path, Operation
    <3>2. at[r] = 0 /\ at[r] + 1 < Len(Path[q.op])  BY <2>1, <2>3
    <3>3. at[r] \in Nat  BY <3>2
    <3>4. \A k, n \in Nat : k + 1 < n => k < n /\ k + 1 # n  OBVIOUS
    <3> QED  BY <3>1, <3>2, <3>3, <3>4
  <2>8. Path[q.op][at[r] + 1] = "membership"
    <3>1. at[r] + 1 + 1 = at[r] + 2  BY <2>1
    <3>2. Path[q.op][at[r] + 2] \in {"enter", "save", "load"}
      BY <2>4, <2>5, <2>6, <3>1 DEF Stages
    <3> QED  BY <2>3, <2>7, <3>2, Paths
  <2>9. p = q /\ \E m \in Rows(q.group, q.by) : ~m.blocked
    BY <2>1, <2>3, <2>8 DEF Learns, Stages
  <2> QED  BY <2>5, <2>6, <2>9
<1>5. CASE UNCHANGED vars
  BY <1>5 DEF vars, Stage
<1> QED  BY <1>3, <1>4, <1>5, EnvironmentHolds, RestartHolds DEF Next

----------------------------------------------------------------------------
(* The theorems. *)
THEOREM Invariance == Spec => []IInv
BY InitHolds, NextHolds, PTL DEF Spec

\* Types, and unique keys, for any number of users and requests.
THEOREM TypesHold == Spec => []TypeOK
<1>1. IInv => TypeOK  BY DEF IInv
<1> QED  BY <1>1, Invariance, PTL

\* A client that has loaded a conversation since it entered its room misses no message of it.
THEOREM NothingMissedHolds == Spec => []NothingMissed
<1>1. IInv => NothingMissed  BY DEF IInv
<1> QED  BY <1>1, Invariance, PTL

\* A member comes by a second row only when two additions overlap.
THEOREM DuplicatesHold == Spec => OnlyOverlapDuplicatesMembers
<1>1. IInv /\ [Next]_vars =>
        [\A c \in Key, u \in User :
            Rows(c, u) # {} /\ Cardinality(Rows(c, u)') > Cardinality(Rows(c, u)) =>
               \E o \in Request : Stage(o) = "add" /\ req[o].to = u /\ u \notin req[o].known]_vars
  BY Duplicates
<1> QED  BY <1>1, Invariance, PTL DEF Spec, OnlyOverlapDuplicatesMembers

\* A blocked member evades the block only with a second row.
THEOREM BlocksHold == Spec => OnlyDuplicatesEvadeBlocks
<1>1. IInv /\ [Next]_vars =>
        [\A o \in Request :
            LET q == req'[o] IN
            /\ Stage(o) = "idle" /\ Stage(o)' \in {"enter", "save", "load"}
            /\ \E m \in Rows(q.group, q.by) : m.blocked
            => Cardinality(Rows(q.group, q.by)) > 1]_vars
  <2> SUFFICES ASSUME IInv, [Next]_vars, NEW o \in Request, Stage(o) = "idle",
                      Stage(o)' \in {"enter", "save", "load"},
                      NEW m \in Rows(req'[o].group, req'[o].by), m.blocked
               PROVE  Cardinality(Rows(req'[o].group, req'[o].by)) > 1
    OBVIOUS
  <2>1. PICK n \in Rows(req'[o].group, req'[o].by) : ~n.blocked  BY Evasions
  <2> QED  BY <2>1, Parts, TwoRows
<1> QED  BY <1>1, Invariance, PTL DEF Spec, OnlyDuplicatesEvadeBlocks
=============================================================================
