------------------------------ MODULE TeamProofs ------------------------------
(* Proofs about Team for any number of users, owners, seats and requests: what each
   request knows at each step of its path, and that a rule of the team is broken
   only by a request that writes by what has changed since it read it.       *)
EXTENDS Team, FiniteSetTheorems, TLAPS

\* The stages a request has behind it at the n-th step of the path of op.
Behind(op, n) == {Path[op][i] : i \in 1..(n - 1)}

\* The operations that a manager of a team asks for.
Managed == Operation \ {"acceptInvitation", "register", "deleteUser", "hardDeleteUser"}

(* What a request q has in hand once the stages S are behind it.  Of what it has
   read only this is still so when it writes: an account that was there is there, and
   an invitation names whom it named.                                        *)
Learnt(q, S) ==
    /\ q.op \in Operation
    /\ q.op \in Managed => q.by \in User
    /\ q.op \notin {"bulkDirectCreateMembers", "bulkApprove"} => q.to \in User
    /\ q.op \in {"directCreateMember", "bulkDirectCreateMembers", "inviteMember",
                 "updateTeamMemberRole"} => q.role \in TeamRole
    /\ q.rest # {} => q.op \in {"directCreateMember", "bulkDirectCreateMembers"}
    /\ q.op = "acceptInvitation" => q.key \in Invitation /\ account[q.to] # "absent"
    /\ q.op = "requestToJoinTeam" => account[q.by] # "absent"
    /\ q.op = "approveTeamMember" /\ q.key # None => invitation[q.key].status # None
    /\ "workspace" \in S \/ "caller" \in S => q.root \in User
    /\ "workspace" \in S /\ q.op = "approveTeamMember" => account[q.to] # "absent"
    /\ "seats" \in S /\ q.op # "bulkDirectCreateMembers" => q.free # 0
    /\ "seats" \in S /\ q.op = "bulkApprove" => Cardinality(q.who) <= q.free
    /\ "requests" \in S => \A u \in q.who : account[u] # "absent"
    /\ "target" \in S /\ q.op = "directCreateMember" =>
          q.parent \in {None, q.root} /\ (q.known => account[q.to] # "absent")
    /\ "invitation" \in S /\ q.op = "approveTeamMember" => q.role \in TeamRole
    /\ "invitation" \in S /\ q.op \in {"acceptInvitation", "register"} /\ q.key # None =>
          /\ q.key \in Invitation /\ invitation[q.key].status # None
          /\ q.to = invitation[q.key].to
          /\ q.root = invitation[q.key].from
          /\ q.role = invitation[q.key].role

Knows(o) == at[o] # 0 => Learnt(req[o], Behind(req[o].op, at[o]))

\* Who has no account is in no team and waits for none.
Unknown ==
    \A u \in User : account[u] = "absent" =>
        parent[u] = None /\ \A p \in User : joinRequest[u][p] # "PENDING"

\* An invitation that was sent is complete, and its sender will not send another.
Complete ==
    \A i \in Invitation : invitation[i].status # None =>
        /\ invitation[i].to \in User /\ invitation[i].from \in User
        /\ invitation[i].role \in TeamRole
        /\ i \in Request => req[i].op = "served"

IInv == TypeOK /\ Unknown /\ Complete /\ \A o \in Request : Knows(o)
----------------------------------------------------------------------------
(* The paths. *)

LEMMA Paths ==
    /\ Operation = {"directCreateMember", "bulkDirectCreateMembers", "inviteMember",
                    "approveTeamMember", "bulkApprove", "acceptInvitation", "rejectTeamMember",
                    "removeTeamMember", "updateTeamMemberRole", "requestToJoinTeam", "register",
                    "deleteUser", "hardDeleteUser"}
    /\ Path["directCreateMember"] = <<"workspace", "seats", "target", "write", "find", "converse">>
    /\ Path["bulkDirectCreateMembers"] = <<"workspace", "seats", "next">>
    /\ Path["inviteMember"] = <<"workspace", "seats", "target", "write">>
    /\ Path["approveTeamMember"] =
          <<"workspace", "seats", "invitation", "pending", "find", "converse", "write">>
    /\ Path["bulkApprove"] = <<"workspace", "requests", "seats", "write", "find", "converse">>
    /\ Path["acceptInvitation"] = <<"invitation", "seats", "find", "converse", "write">>
    /\ Path["rejectTeamMember"] = <<"target", "pending", "write">>
    /\ Path["removeTeamMember"] = <<"caller", "target", "write">>
    /\ Path["updateTeamMemberRole"] = <<"caller", "target", "write">>
    /\ Path["requestToJoinTeam"] = <<"target", "write">>
    /\ Path["register"] = <<"invitation", "write">>
    /\ Path["deleteUser"] = <<"write">>
    /\ Path["hardDeleteUser"] = <<"detach", "write">>
BY DEF Operation, Path

LEMMA Lengths == \A op \in Operation : Len(Path[op]) \in {1, 2, 3, 4, 5, 6, 7}
<1>1. Len(Path["directCreateMember"]) = 6 BY Paths
<1>2. Len(Path["bulkDirectCreateMembers"]) = 3 BY Paths
<1>3. Len(Path["inviteMember"]) = 4 BY Paths
<1>4. Len(Path["approveTeamMember"]) = 7 BY Paths
<1>5. Len(Path["bulkApprove"]) = 6 BY Paths
<1>6. Len(Path["acceptInvitation"]) = 5 BY Paths
<1>7. Len(Path["rejectTeamMember"]) = 3 BY Paths
<1>8. Len(Path["removeTeamMember"]) = 3 BY Paths
<1>9. Len(Path["updateTeamMemberRole"]) = 3 BY Paths
<1>10. Len(Path["requestToJoinTeam"]) = 2 BY Paths
<1>11. Len(Path["register"]) = 2 BY Paths
<1>12. Len(Path["deleteUser"]) = 1 BY Paths
<1>15. Len(Path["hardDeleteUser"]) = 2 BY Paths
<1>13. Operation = {"directCreateMember", "bulkDirectCreateMembers", "inviteMember",
                    "approveTeamMember", "bulkApprove", "acceptInvitation", "rejectTeamMember",
                    "removeTeamMember", "updateTeamMemberRole", "requestToJoinTeam", "register",
                    "deleteUser", "hardDeleteUser"}
  BY Paths
<1>14. SUFFICES ASSUME NEW op \in Operation PROVE Len(Path[op]) \in {1, 2, 3, 4, 5, 6, 7} OBVIOUS
<1> QED BY <1>1, <1>2, <1>3, <1>4, <1>5, <1>6, <1>7, <1>8, <1>9, <1>10, <1>11, <1>12, <1>13, <1>15, Zenon

LEMMA BehindIs ==
    ASSUME NEW op, NEW n \in Nat, NEW i \in 1..(n - 1)
    PROVE  Path[op][i] \in Behind(op, n)
BY DEF Behind

LEMMA FirstStage == \A op : Behind(op, 1) = {}
BY DEF Behind

LEMMA NextStage ==
    ASSUME NEW op, NEW n \in Nat \ {0}
    PROVE  Behind(op, n + 1) = Behind(op, n) \cup {Path[op][n]}
<1>1. 1..((n + 1) - 1) = 1..(n - 1) \cup {n} OBVIOUS
<1> QED BY <1>1 DEF Behind

\* The operations that pass a stage, and what they have behind them there.
LEMMA Way ==
    ASSUME NEW op \in Operation, NEW n \in 1..Len(Path[op])
    PROVE  LET s == Path[op][n]
               B == Behind(op, n)
           IN  /\ n \in Nat \ {0}
               /\ s = "workspace" => op \in {"directCreateMember", "bulkDirectCreateMembers",
                                             "inviteMember", "approveTeamMember", "bulkApprove"}
               /\ s = "workspace" => n = 1
               /\ s = "caller" => op \in {"removeTeamMember", "updateTeamMemberRole"} /\ n = 1
               /\ s = "detach" => op = "hardDeleteUser" /\ n = 1
               /\ s = "requests" => op = "bulkApprove" /\ "workspace" \in B /\ n = 2 /\ Path[op][1] = "workspace"
               /\ s = "seats" => /\ op \in {"directCreateMember", "bulkDirectCreateMembers", "inviteMember",
                                            "approveTeamMember", "bulkApprove", "acceptInvitation"}
                                 /\ IF op = "acceptInvitation" THEN "invitation" \in B
                                    ELSE "workspace" \in B
               /\ s = "target" => /\ op \in {"directCreateMember", "inviteMember", "rejectTeamMember",
                                             "removeTeamMember", "updateTeamMemberRole", "requestToJoinTeam"}
                                  /\ op \in {"directCreateMember", "inviteMember"} => "workspace" \in B
               /\ s = "invitation" => op \in {"approveTeamMember", "acceptInvitation", "register"}
               /\ s = "pending" => op \in {"approveTeamMember", "rejectTeamMember"}
               /\ s = "next" => op = "bulkDirectCreateMembers"
               /\ s \in {"find", "converse"} =>
                     /\ op \in {"directCreateMember", "approveTeamMember", "bulkApprove", "acceptInvitation"}
                     /\ op = "acceptInvitation" => "invitation" \in B
                     /\ op # "acceptInvitation" => "workspace" \in B
               /\ s \in {"find", "converse"} /\ op \in {"approveTeamMember", "acceptInvitation"} =>
                     Behind(op, Len(Path[op])) \subseteq B \cup {"find", "converse"}
               /\ s = "write" =>
                     /\ op # "bulkDirectCreateMembers"
                     /\ op \in {"directCreateMember", "inviteMember", "approveTeamMember", "bulkApprove"} =>
                           "workspace" \in B /\ "seats" \in B
                     /\ op \in {"removeTeamMember", "updateTeamMemberRole"} => "caller" \in B
                     /\ op = "directCreateMember" => "target" \in B
                     /\ op = "bulkApprove" => "requests" \in B
                     /\ op = "acceptInvitation" => "seats" \in B
                     /\ op \in {"approveTeamMember", "acceptInvitation", "register"} => "invitation" \in B
                     /\ op \in {"directCreateMember", "bulkApprove"} => n = 4 /\ Len(Path[op]) = 6
                     /\ op \notin {"directCreateMember", "bulkApprove"} => n = Len(Path[op])
               /\ Len(Path[op]) \in Nat \ {0}
<1>1. CASE op = "directCreateMember"
  <2>1. Path[op] = <<"workspace", "seats", "target", "write", "find", "converse">> BY <1>1, Paths
  <2>2. Len(Path[op]) = 6 /\ (n = 1 \/ n = 2 \/ n = 3 \/ n = 4 \/ n = 5 \/ n = 6) BY <2>1
  <2>3. Path[op][1] = "workspace" /\ Path[op][2] = "seats" /\ Path[op][3] = "target" /\ Path[op][4] = "write"
        /\ Path[op][5] = "find" /\ Path[op][6] = "converse"
    BY <2>1
  <2>4. \A i \in 1..(n - 1) : Path[op][i] \in Behind(op, n) BY DEF Behind
  <2>5. n > 1 => "workspace" \in Behind(op, n) BY <2>2, <2>3, <2>4
  <2>6. n > 2 => "seats" \in Behind(op, n) BY <2>2, <2>3, <2>4
  <2>7. n > 3 => "target" \in Behind(op, n) BY <2>2, <2>3, <2>4
  <2>8. n > 4 => "write" \in Behind(op, n) BY <2>2, <2>3, <2>4
  <2>9. n > 5 => "find" \in Behind(op, n) BY <2>2, <2>3, <2>4
  <2> QED BY <1>1, <2>2, <2>3, <2>5, <2>6, <2>7, <2>8, <2>9
<1>2. CASE op = "bulkDirectCreateMembers"
  <2>1. Path[op] = <<"workspace", "seats", "next">> BY <1>2, Paths
  <2>2. Len(Path[op]) = 3 /\ (n = 1 \/ n = 2 \/ n = 3) BY <2>1
  <2>3. Path[op][1] = "workspace" /\ Path[op][2] = "seats" /\ Path[op][3] = "next" BY <2>1
  <2>4. \A i \in 1..(n - 1) : Path[op][i] \in Behind(op, n) BY DEF Behind
  <2>5. n > 1 => "workspace" \in Behind(op, n) BY <2>2, <2>3, <2>4
  <2>6. n > 2 => "seats" \in Behind(op, n) BY <2>2, <2>3, <2>4
  <2> QED BY <1>2, <2>2, <2>3, <2>5, <2>6
<1>3. CASE op = "inviteMember"
  <2>1. Path[op] = <<"workspace", "seats", "target", "write">> BY <1>3, Paths
  <2>2. Len(Path[op]) = 4 /\ (n = 1 \/ n = 2 \/ n = 3 \/ n = 4) BY <2>1
  <2>3. Path[op][1] = "workspace" /\ Path[op][2] = "seats" /\ Path[op][3] = "target" /\ Path[op][4] = "write" BY <2>1
  <2>4. \A i \in 1..(n - 1) : Path[op][i] \in Behind(op, n) BY DEF Behind
  <2>5. n > 1 => "workspace" \in Behind(op, n) BY <2>2, <2>3, <2>4
  <2>6. n > 2 => "seats" \in Behind(op, n) BY <2>2, <2>3, <2>4
  <2>7. n > 3 => "target" \in Behind(op, n) BY <2>2, <2>3, <2>4
  <2> QED BY <1>3, <2>2, <2>3, <2>5, <2>6, <2>7
<1>4. CASE op = "approveTeamMember"
  <2>1. Path[op] = <<"workspace", "seats", "invitation", "pending", "find", "converse", "write">> BY <1>4, Paths
  <2>2. Len(Path[op]) = 7 /\ (n = 1 \/ n = 2 \/ n = 3 \/ n = 4 \/ n = 5 \/ n = 6 \/ n = 7) BY <2>1
  <2>3. Path[op][1] = "workspace" /\ Path[op][2] = "seats" /\ Path[op][3] = "invitation" /\ Path[op][4] = "pending"
        /\ Path[op][5] = "find" /\ Path[op][6] = "converse" /\ Path[op][7] = "write"
    BY <2>1
  <2>4. \A i \in 1..(n - 1) : Path[op][i] \in Behind(op, n) BY DEF Behind
  <2>5. n > 1 => "workspace" \in Behind(op, n) BY <2>2, <2>3, <2>4
  <2>6. n > 2 => "seats" \in Behind(op, n) BY <2>2, <2>3, <2>4
  <2>7. n > 3 => "invitation" \in Behind(op, n) BY <2>2, <2>3, <2>4
  <2>8. n > 4 => "pending" \in Behind(op, n) BY <2>2, <2>3, <2>4
  <2>9. n > 5 => "find" \in Behind(op, n) BY <2>2, <2>3, <2>4
  <2>10. n > 6 => "converse" \in Behind(op, n) BY <2>2, <2>3, <2>4
  <2>11. Behind(op, 7) = {"workspace", "seats", "invitation", "pending", "find", "converse"}
    <3>1. 1..(7 - 1) = {1, 2, 3, 4, 5, 6} OBVIOUS
    <3> QED BY <2>3, <3>1 DEF Behind
  <2> QED BY <1>4, <2>2, <2>3, <2>5, <2>6, <2>7, <2>8, <2>9, <2>10, <2>11
<1>5. CASE op = "bulkApprove"
  <2>1. Path[op] = <<"workspace", "requests", "seats", "write", "find", "converse">> BY <1>5, Paths
  <2>2. Len(Path[op]) = 6 /\ (n = 1 \/ n = 2 \/ n = 3 \/ n = 4 \/ n = 5 \/ n = 6) BY <2>1
  <2>3. Path[op][1] = "workspace" /\ Path[op][2] = "requests" /\ Path[op][3] = "seats" /\ Path[op][4] = "write"
        /\ Path[op][5] = "find" /\ Path[op][6] = "converse"
    BY <2>1
  <2>4. \A i \in 1..(n - 1) : Path[op][i] \in Behind(op, n) BY DEF Behind
  <2>5. n > 1 => "workspace" \in Behind(op, n) BY <2>2, <2>3, <2>4
  <2>6. n > 2 => "requests" \in Behind(op, n) BY <2>2, <2>3, <2>4
  <2>7. n > 3 => "seats" \in Behind(op, n) BY <2>2, <2>3, <2>4
  <2>8. n > 4 => "write" \in Behind(op, n) BY <2>2, <2>3, <2>4
  <2>9. n > 5 => "find" \in Behind(op, n) BY <2>2, <2>3, <2>4
  <2> QED BY <1>5, <2>2, <2>3, <2>5, <2>6, <2>7, <2>8, <2>9
<1>6. CASE op = "acceptInvitation"
  <2>1. Path[op] = <<"invitation", "seats", "find", "converse", "write">> BY <1>6, Paths
  <2>2. Len(Path[op]) = 5 /\ (n = 1 \/ n = 2 \/ n = 3 \/ n = 4 \/ n = 5) BY <2>1
  <2>3. Path[op][1] = "invitation" /\ Path[op][2] = "seats" /\ Path[op][3] = "find" /\ Path[op][4] = "converse"
        /\ Path[op][5] = "write"
    BY <2>1
  <2>4. \A i \in 1..(n - 1) : Path[op][i] \in Behind(op, n) BY DEF Behind
  <2>5. n > 1 => "invitation" \in Behind(op, n) BY <2>2, <2>3, <2>4
  <2>6. n > 2 => "seats" \in Behind(op, n) BY <2>2, <2>3, <2>4
  <2>7. n > 3 => "find" \in Behind(op, n) BY <2>2, <2>3, <2>4
  <2>8. n > 4 => "converse" \in Behind(op, n) BY <2>2, <2>3, <2>4
  <2>9. Behind(op, 5) = {"invitation", "seats", "find", "converse"}
    <3>1. 1..(5 - 1) = {1, 2, 3, 4} OBVIOUS
    <3> QED BY <2>3, <3>1 DEF Behind
  <2> QED BY <1>6, <2>2, <2>3, <2>5, <2>6, <2>7, <2>8, <2>9
<1>7. CASE op = "rejectTeamMember"
  <2>1. Path[op] = <<"target", "pending", "write">> BY <1>7, Paths
  <2>2. Len(Path[op]) = 3 /\ (n = 1 \/ n = 2 \/ n = 3) BY <2>1
  <2>3. Path[op][1] = "target" /\ Path[op][2] = "pending" /\ Path[op][3] = "write" BY <2>1
  <2>4. \A i \in 1..(n - 1) : Path[op][i] \in Behind(op, n) BY DEF Behind
  <2>5. n > 1 => "target" \in Behind(op, n) BY <2>2, <2>3, <2>4
  <2>6. n > 2 => "pending" \in Behind(op, n) BY <2>2, <2>3, <2>4
  <2> QED BY <1>7, <2>2, <2>3, <2>5, <2>6
<1>8. CASE op = "removeTeamMember"
  <2>1. Path[op] = <<"caller", "target", "write">> BY <1>8, Paths
  <2>2. Len(Path[op]) = 3 /\ (n = 1 \/ n = 2 \/ n = 3) BY <2>1
  <2>3. Path[op][1] = "caller" /\ Path[op][2] = "target" /\ Path[op][3] = "write" BY <2>1
  <2>4. \A i \in 1..(n - 1) : Path[op][i] \in Behind(op, n) BY DEF Behind
  <2>5. n > 1 => "caller" \in Behind(op, n) BY <2>2, <2>3, <2>4
  <2>6. n > 2 => "target" \in Behind(op, n) BY <2>2, <2>3, <2>4
  <2> QED BY <1>8, <2>2, <2>3, <2>5, <2>6
<1>9. CASE op = "updateTeamMemberRole"
  <2>1. Path[op] = <<"caller", "target", "write">> BY <1>9, Paths
  <2>2. Len(Path[op]) = 3 /\ (n = 1 \/ n = 2 \/ n = 3) BY <2>1
  <2>3. Path[op][1] = "caller" /\ Path[op][2] = "target" /\ Path[op][3] = "write" BY <2>1
  <2>4. \A i \in 1..(n - 1) : Path[op][i] \in Behind(op, n) BY DEF Behind
  <2>5. n > 1 => "caller" \in Behind(op, n) BY <2>2, <2>3, <2>4
  <2>6. n > 2 => "target" \in Behind(op, n) BY <2>2, <2>3, <2>4
  <2> QED BY <1>9, <2>2, <2>3, <2>5, <2>6
<1>10. CASE op = "requestToJoinTeam"
  <2>1. Path[op] = <<"target", "write">> BY <1>10, Paths
  <2>2. Len(Path[op]) = 2 /\ (n = 1 \/ n = 2) BY <2>1
  <2>3. Path[op][1] = "target" /\ Path[op][2] = "write" BY <2>1
  <2>4. \A i \in 1..(n - 1) : Path[op][i] \in Behind(op, n) BY DEF Behind
  <2>5. n > 1 => "target" \in Behind(op, n) BY <2>2, <2>3, <2>4
  <2> QED BY <1>10, <2>2, <2>3, <2>5
<1>11. CASE op = "register"
  <2>1. Path[op] = <<"invitation", "write">> BY <1>11, Paths
  <2>2. Len(Path[op]) = 2 /\ (n = 1 \/ n = 2) BY <2>1
  <2>3. Path[op][1] = "invitation" /\ Path[op][2] = "write" BY <2>1
  <2>4. \A i \in 1..(n - 1) : Path[op][i] \in Behind(op, n) BY DEF Behind
  <2>5. n > 1 => "invitation" \in Behind(op, n) BY <2>2, <2>3, <2>4
  <2> QED BY <1>11, <2>2, <2>3, <2>5
<1>12. CASE op = "deleteUser"
  <2>1. Path[op] = <<"write">> BY <1>12, Paths
  <2>2. Len(Path[op]) = 1 /\ (n = 1) BY <2>1
  <2>3. Path[op][1] = "write" BY <2>1
  <2> QED BY <1>12, <2>2, <2>3
<1>13. CASE op = "hardDeleteUser"
  <2>1. Path[op] = <<"detach", "write">> BY <1>13, Paths
  <2>2. Len(Path[op]) = 2 /\ (n = 1 \/ n = 2) BY <2>1
  <2>3. Path[op][1] = "detach" /\ Path[op][2] = "write" BY <2>1
  <2> QED BY <1>13, <2>2, <2>3
<1> QED BY <1>1, <1>2, <1>3, <1>4, <1>5, <1>6, <1>7, <1>8, <1>9, <1>10, <1>11, <1>12, <1>13, Paths

----------------------------------------------------------------------------
(* The course of a request. *)

\* The parts of TypeOK.
Tables ==
    /\ account  \in [User -> {"absent", "live", "deleted", "gone"}]
    /\ parent   \in [User -> User \cup {None}]
    /\ teamRole \in [User -> TeamRole \cup {None}]
    /\ enterprise   \in [User -> BOOLEAN]
    /\ subscription \in [User -> Live \cup {None}]
    /\ invitation \in [Invitation -> [to : User \cup {None}, from : User \cup {None},
                                      role : TeamRole \cup {None},
                                      status : {None, "PENDING", "ACCEPTED", "gone"}, overdue : BOOLEAN]]
    /\ joinRequest  \in [User -> [User -> {None, "PENDING", "APPROVED", "REJECTED"}]]
    /\ conversation \in [Request -> [owner : User \cup {None}, members : SUBSET User]]

Courses ==
    /\ req \in [Request -> RequestType]
    /\ at  \in [Request -> Nat]
    /\ \A o \in Request : at[o] # 0 => req[o].op \in Operation /\ at[o] \in 1..Len(Path[req[o].op])

LEMMA TypeParts == TypeOK <=> Tables /\ Courses
BY DEF TypeOK, Tables, Courses

Same(x) == req'[x] = req[x] /\ at'[x] = at[x]

\* What the writes leave: accounts that are there, and whom an invitation names.
Grown ==
    /\ \A u \in User : account[u] # "absent" => account'[u] # "absent"
    /\ \A i \in Invitation : invitation[i].status # None =>
          /\ invitation'[i].status # None
          /\ invitation'[i].to = invitation[i].to
          /\ invitation'[i].from = invitation[i].from
          /\ invitation'[i].role = invitation[i].role

LEMMA Unwritten ==
    ASSUME UNCHANGED <<account, invitation>>
    PROVE  Grown
BY DEF Grown

LEMMA StillLearnt ==
    ASSUME NEW q \in RequestType, NEW S, Learnt(q, S), Grown
    PROVE  Learnt(q, S)'
<1>1. q.who \subseteq User BY DEF RequestType
<1>2. q.op = "acceptInvitation" => q.to \in User BY DEF Learnt
<1>3. q.op = "requestToJoinTeam" => q.by \in User BY Paths DEF Learnt, Managed
<1>4. q.op \in {"approveTeamMember", "directCreateMember"} => q.to \in User BY DEF Learnt
<1>5. q.key # None => q.key \in Invitation BY DEF RequestType
<1> QED BY <1>1, <1>2, <1>3, <1>4, <1>5 DEF Learnt, Grown

LEMMA OthersKnow ==
    ASSUME Courses, NEW x \in Request, Knows(x), Same(x), Grown
    PROVE  Knows(x)'
<1>1. CASE at[x] = 0 BY <1>1 DEF Knows, Same
<1>2. CASE at[x] # 0
  <2>1. PICK q, S : q = req[x] /\ S = Behind(req[x].op, at[x]) OBVIOUS
  <2>2. q \in RequestType /\ Learnt(q, S) BY <1>2, <2>1 DEF Courses, Knows
  <2>3. Learnt(q, S)' BY <2>2, StillLearnt
  <2>4. req'[x] = q /\ Behind(req'[x].op, at'[x]) = S BY <2>1 DEF Same, Behind
  <2> QED BY <2>3, <2>4 DEF Knows, Learnt
<1> QED BY <1>1, <1>2

LEMMA NoRequestIs ==
    /\ NoRequest \in RequestType /\ NoRequest.op = None /\ NoRequest.rest = {}
    /\ Served \in RequestType /\ Served.op = "served"
BY DEF NoRequest, Served, RequestType

\* o is at a stage of its path.
LEMMA Underway ==
    ASSUME Courses, NEW o \in Request, NEW s, Stage(o) = s, s # "idle"
    PROVE  /\ at[o] # 0 /\ at[o] \in 1..Len(Path[req[o].op]) /\ req[o].op \in Operation
           /\ Path[req[o].op][at[o]] = s
           /\ req[o] \in RequestType
BY DEF Courses, Stage

\* A request, or its next member, leaves knowing nothing.
LEMMA Left ==
    ASSUME Courses, NEW o \in Request, at[o] # 0, Knows(o), Leave(o)
    PROVE  /\ Courses' /\ Knows(o)' /\ \A x \in Request \ {o} : Same(x)
           /\ at'[o] \in {0, 1}
           /\ req[o].rest = {} => at'[o] = 0 /\ req'[o] = Served
<1>0. /\ req[o] \in RequestType /\ Learnt(req[o], Behind(req[o].op, at[o])) BY DEF Courses, Knows
<1>1. CASE req[o].rest = {}
  <2>1. req' = [req EXCEPT ![o] = Served] /\ at' = [at EXCEPT ![o] = 0] BY <1>1 DEF Leave
  <2>2. req'[o] = Served /\ at'[o] = 0 /\ \A x \in Request \ {o} : Same(x) BY <2>1 DEF Courses, Same
  <2>3. Courses' BY <2>1, <2>2, NoRequestIs DEF Courses
  <2> QED BY <1>1, <2>2, <2>3 DEF Knows
<1>2. CASE req[o].rest # {}
  <2>1. PICK u \in req[o].rest :
          req' = [req EXCEPT ![o] =
                    [NoRequest EXCEPT !.op = "directCreateMember", !.by = req[o].by, !.to = u,
                                      !.role = req[o].role, !.rest = req[o].rest \ {u}]]
    BY <1>2 DEF Leave
  <2>2. at' = [at EXCEPT ![o] = 1] BY <1>2 DEF Leave
  <2>3. PICK q : q = [NoRequest EXCEPT !.op = "directCreateMember", !.by = req[o].by, !.to = u,
                                       !.role = req[o].role, !.rest = req[o].rest \ {u}]
    OBVIOUS
  <2>4. /\ req[o].by \in User \cup {None} /\ req[o].role \in TeamRole \cup {None}
        /\ req[o].rest \subseteq User /\ u \in User
    BY <1>0 DEF RequestType
  <2>5. /\ q.op = "directCreateMember" /\ q.by = req[o].by /\ q.to = u /\ q.role = req[o].role
        /\ q.rest = req[o].rest \ {u}
    BY <2>3 DEF NoRequest
  <2>6. q \in RequestType
    <3>1. "directCreateMember" \in Operation BY Paths
    <3> QED BY <2>3, <2>4, <3>1 DEF NoRequest, RequestType
  <2>7. req[o].by \in User /\ req[o].role \in TeamRole
    BY <1>0, <1>2, Paths DEF Learnt, Managed
  <2>8. req'[o] = q /\ at'[o] = 1 /\ \A x \in Request \ {o} : Same(x) BY <2>1, <2>2, <2>3 DEF Courses, Same
  <2>9. Courses'
    <3>1. req' \in [Request -> RequestType] BY <2>1, <2>3, <2>6 DEF Courses
    <3>2. at' \in [Request -> Nat] BY <2>2 DEF Courses
    <3>3. Len(Path[q.op]) = 6 /\ q.op \in Operation BY <2>5, Paths
    <3>4. ASSUME NEW x \in Request, at'[x] # 0
          PROVE  req'[x].op \in Operation /\ at'[x] \in 1..Len(Path[req'[x].op])
      <4>1. CASE x = o
        <5>1. req'[x].op = q.op /\ at'[x] = 1 BY <2>8, <4>1
        <5>2. Len(Path[req'[x].op]) = 6 BY <3>3, <5>1
        <5>3. 1 \in 1..6 OBVIOUS
        <5> QED BY <3>3, <5>1, <5>2, <5>3
      <4>2. CASE x # o
        <5>1. Same(x) BY <2>8, <4>2
        <5> QED BY <3>4, <5>1 DEF Same, Courses
      <4> QED BY <4>1, <4>2
    <3> QED BY <3>1, <3>2, <3>4 DEF Courses
  <2>10. Knows(o)'
    <3>1. Behind(req'[o].op, at'[o]) = {} BY <2>8, FirstStage
    <3>2. Learnt(q, {})' BY <2>4, <2>5, <2>7, Paths DEF Learnt, Managed
    <3> QED BY <2>8, <3>1, <3>2 DEF Knows, Learnt
  <2> QED BY <1>2, <2>8, <2>9, <2>10
<1> QED BY <1>1, <1>2

\* A request that takes its next step knows what it has learnt at this one.
LEMMA Proceeded ==
    ASSUME Courses, NEW o \in Request, at[o] # 0, Knows(o), Grown,
           NEW q \in RequestType, q.op = req[o].op, Proceed(o, q),
           Learnt(q, Behind(q.op, at[o]) \cup {Stage(o)})
    PROVE  /\ Courses' /\ Knows(o)' /\ \A x \in Request \ {o} : Same(x)
           /\ at[o] = Len(Path[q.op]) => Leave(o)
           /\ at[o] # Len(Path[q.op]) => req'[o] = q /\ at'[o] = at[o] + 1
<1>0. /\ req[o].op \in Operation /\ at[o] \in 1..Len(Path[q.op]) /\ Len(Path[q.op]) \in Nat
      /\ at[o] \in Nat \ {0}
  BY Way DEF Courses
<1>1. CASE at[o] = Len(Path[q.op])
  <2>1. Leave(o) BY <1>1 DEF Proceed
  <2> QED BY <1>1, <2>1, Left
<1>2. CASE at[o] # Len(Path[q.op])
  <2>1. req' = [req EXCEPT ![o] = q] /\ at' = [at EXCEPT ![o] = @ + 1] BY <1>2 DEF Proceed
  <2>2. /\ req'[o] = q /\ at'[o] = at[o] + 1 /\ \A x \in Request \ {o} : Same(x)
    BY <2>1 DEF Courses, Same
  <2>3. Courses'
    <3>1. req' \in [Request -> RequestType] BY <2>1 DEF Courses
    <3>2. at' \in [Request -> Nat] BY <1>0, <2>1 DEF Courses
    <3>3. ASSUME NEW x \in Request, at'[x] # 0
          PROVE  req'[x].op \in Operation /\ at'[x] \in 1..Len(Path[req'[x].op])
      <4>1. CASE x = o BY <1>0, <1>2, <2>2, <4>1
      <4>2. CASE x # o
        <5>1. Same(x) BY <2>2, <4>2
        <5> QED BY <3>3, <5>1 DEF Same, Courses
      <4> QED BY <4>1, <4>2
    <3> QED BY <3>1, <3>2, <3>3 DEF Courses
  <2>4. Knows(o)'
    <3>1. PICK S : S = Behind(q.op, at[o]) \cup {Stage(o)} OBVIOUS
    <3>2. Stage(o) = Path[q.op][at[o]] BY DEF Stage
    <3>3. Behind(q.op, at[o] + 1) = S
      <4>1. Behind(q.op, at[o] + 1) = Behind(q.op, at[o]) \cup {Path[q.op][at[o]]} BY <1>0, NextStage
      <4> QED BY <3>1, <3>2, <4>1
    <3>4. Learnt(q, S)' BY <3>1, StillLearnt
    <3>5. Behind(req'[o].op, at'[o]) = S BY <2>2, <3>3
    <3> QED BY <2>2, <3>4, <3>5 DEF Knows, Learnt
  <2> QED BY <1>2, <2>2, <2>3, <2>4
<1> QED BY <1>1, <1>2

----------------------------------------------------------------------------
(* The steps that change no table but the conversations. *)

Talks == conversation \in [Request -> [owner : User \cup {None}, members : SUBSET User]]

LEMMA Quiet ==
    ASSUME IInv, NEW o \in Request, req[o].op # "served",
           UNCHANGED <<users, billing, invitation, joinRequest>>, Talks',
           Courses', Knows(o)', \A x \in Request \ {o} : Same(x)
    PROVE  IInv'
<1>1. UNCHANGED <<account, parent, teamRole, enterprise, subscription, invitation, joinRequest>>
  BY DEF users, billing
<1>2. TypeOK'
  <2>1. Tables /\ Courses BY TypeParts DEF IInv
  <2>2. Tables' BY <1>1, <2>1 DEF Tables, Talks
  <2> QED BY <2>2 DEF TypeOK, Tables, Courses
<1>3. Unknown' BY <1>1 DEF IInv, Unknown
<1>4. Complete'
  <2>1. SUFFICES ASSUME NEW i \in Invitation, invitation'[i].status # None
        PROVE  /\ invitation'[i].to \in User /\ invitation'[i].from \in User
               /\ invitation'[i].role \in TeamRole
               /\ i \in Request => req'[i].op = "served"
    BY DEF Complete
  <2>2. /\ invitation[i].to \in User /\ invitation[i].from \in User /\ invitation[i].role \in TeamRole
        /\ i \in Request => req[i].op = "served"
    BY <1>1, <2>1 DEF IInv, Complete
  <2>3. i \in Request => i # o /\ Same(i) BY <2>2
  <2> QED BY <1>1, <2>2, <2>3 DEF Same
<1>5. \A x \in Request : Knows(x)'
  <2>1. SUFFICES ASSUME NEW x \in Request \ {o} PROVE Knows(x)' OBVIOUS
  <2>2. Grown BY <1>1, Unwritten
  <2>3. Courses /\ Knows(x) /\ Same(x) BY TypeParts DEF IInv
  <2> QED BY <2>2, <2>3, OthersKnow
<1> QED BY <1>2, <1>3, <1>4, <1>5 DEF IInv

LEMMA Arrived ==
    ASSUME IInv, NEW o \in Request, MayArrive(o), NEW q \in RequestType, Learnt(q, {}), Arrive(o, q)
    PROVE  IInv'
<1>1. /\ req' = [req EXCEPT ![o] = q] /\ at' = [at EXCEPT ![o] = 1]
      /\ UNCHANGED <<users, billing, invitation, joinRequest, conversation>>
      /\ req[o].op = None /\ at[o] = 0
  BY DEF Arrive, MayArrive
<1>2. Courses /\ Tables BY TypeParts DEF IInv
<1>3. req'[o] = q /\ at'[o] = 1 /\ \A x \in Request \ {o} : Same(x) BY <1>1, <1>2 DEF Courses, Same
<1>4. q.op \in Operation BY DEF Learnt
<1>5. Courses'
  <2>1. 1 \in 1..Len(Path[q.op])
    <3>1. PICK n : n = Len(Path[q.op]) OBVIOUS
    <3>2. n \in {1, 2, 3, 4, 5, 6, 7} BY <1>4, <3>1, Lengths
    <3>3. 1 \in 1..n BY <3>2
    <3> QED BY <3>1, <3>3
  <2>2. ASSUME NEW x \in Request, at'[x] # 0
        PROVE  req'[x].op \in Operation /\ at'[x] \in 1..Len(Path[req'[x].op])
    <3>1. CASE x = o
      <4>1. req'[x].op = q.op /\ at'[x] = 1 BY <1>3, <3>1
      <4> QED BY <1>4, <2>1, <4>1
    <3>2. CASE x # o
      <4>1. Same(x) BY <1>3, <3>2
      <4> QED BY <1>2, <2>2, <4>1 DEF Same, Courses
    <3> QED BY <3>1, <3>2
  <2> QED BY <1>1, <1>2, <2>2 DEF Courses
<1>6. Knows(o)'
  <2>1. Behind(req'[o].op, at'[o]) = {} BY <1>3, FirstStage
  <2>2. UNCHANGED <<account, invitation>> BY <1>1 DEF users
  <2>3. Learnt(q, {})' BY <2>2 DEF Learnt
  <2> QED BY <1>3, <2>1, <2>3 DEF Knows, Learnt
<1>7. Talks' BY <1>1, <1>2 DEF Talks, Tables
<1>8. req[o].op # "served" BY <1>1 DEF None
<1> QED BY <1>1, <1>3, <1>5, <1>6, <1>7, <1>8, Quiet

LEMMA ReadOn ==
    ASSUME IInv, NEW o \in Request, at[o] # 0, NEW q \in RequestType, q.op = req[o].op,
           Proceed(o, q), Learnt(q, Behind(q.op, at[o]) \cup {Stage(o)}),
           UNCHANGED <<users, billing, invitation, joinRequest>>, Talks'
    PROVE  IInv'
<1>1. Courses /\ Knows(o) BY TypeParts DEF IInv
<1>2. Grown BY Unwritten DEF users
<1>3. Courses' /\ Knows(o)' /\ \A x \in Request \ {o} : Same(x) BY <1>1, <1>2, Proceeded
<1>4. req[o].op \in Operation BY <1>1 DEF Courses
<1>5. req[o].op # "served" BY <1>4, Paths
<1> QED BY <1>3, <1>5, Quiet

LEMMA LeftOff ==
    ASSUME IInv, NEW o \in Request, at[o] # 0, Leave(o),
           UNCHANGED <<users, billing, invitation, joinRequest, conversation>>
    PROVE  IInv'
<1>1. Courses /\ Knows(o) /\ Tables BY TypeParts DEF IInv
<1>2. Courses' /\ Knows(o)' /\ \A x \in Request \ {o} : Same(x) BY <1>1, Left
<1>3. req[o].op \in Operation BY <1>1 DEF Courses
<1>4. req[o].op # "served" BY <1>3, Paths
<1>5. Talks' BY <1>1 DEF Talks, Tables
<1> QED BY <1>2, <1>4, <1>5, Quiet

----------------------------------------------------------------------------
(* The calls. *)

LEMMA AskedIs ==
    ASSUME NEW op \in Operation, NEW by \in User \cup {None}, NEW to \in User \cup {None},
           NEW q, q = Ask(op, by, to)
    PROVE  q \in RequestType /\ q.op = op /\ q.by = by /\ q.to = to /\ q.rest = {} /\ q.key = None
BY DEF Ask, NoRequest, RequestType

LEMMA Asked ==
    ASSUME NEW op \in Operation, NEW by \in User \cup {None}, NEW to \in User \cup {None}
    PROVE  LET q == Ask(op, by, to)
           IN  /\ \A c \in TeamRole : [q EXCEPT !.role = c] \in RequestType
               /\ \A i \in Invitation \cup {None} : [q EXCEPT !.key = i] \in RequestType
               /\ \A c \in TeamRole, W \in SUBSET User :
                     [q EXCEPT !.role = c, !.rest = W] \in RequestType
BY DEF Ask, NoRequest, RequestType

LEMMA CallManagerKeeps ==
    ASSUME IInv, NEW o \in Request, NEW u \in User, CallManager(o, u)
    PROVE  IInv'
<1>0. MayArrive(o) BY DEF CallManager
<1>1. Granted \subseteq TeamRole /\ "MEMBER" \in TeamRole /\ \A W \in Batches : W \in SUBSET User
  BY RoleAssumption DEF TeamRole
<1>2. ASSUME NEW op \in {"approveTeamMember", "rejectTeamMember", "removeTeamMember"}, NEW v \in User,
             Arrive(o, Ask(op, u, v))
      PROVE  IInv'
  <2>1. op \in Operation BY <1>2, Paths
  <2>2. PICK q : q = Ask(op, u, v) OBVIOUS
  <2>3. q \in RequestType /\ q.op = op /\ q.by = u /\ q.to = v /\ q.rest = {} /\ q.key = None
    BY <2>1, <2>2, AskedIs
  <2>4. Learnt(q, {}) BY <1>2, <2>1, <2>3 DEF Learnt
  <2> QED BY <1>0, <1>2, <2>2, <2>3, <2>4, Arrived
<1>3. ASSUME NEW op \in {"directCreateMember", "inviteMember", "updateTeamMemberRole"}, NEW v \in User,
             NEW c \in Granted, Arrive(o, [Ask(op, u, v) EXCEPT !.role = c])
      PROVE  IInv'
  <2>1. op \in Operation BY <1>3, Paths
  <2>2. PICK q : q = [Ask(op, u, v) EXCEPT !.role = c] OBVIOUS
  <2>3. q \in RequestType BY <1>1, <2>1, <2>2, Asked
  <2>4. q.op = op /\ q.by = u /\ q.to = v /\ q.rest = {} /\ q.role = c BY <2>2 DEF Ask, NoRequest
  <2>5. Learnt(q, {}) BY <1>1, <1>3, <2>1, <2>4 DEF Learnt
  <2> QED BY <1>0, <1>3, <2>2, <2>3, <2>5, Arrived
<1>4. ASSUME NEW W \in Batches,
             Arrive(o, [Ask("bulkDirectCreateMembers", u, None) EXCEPT !.role = "MEMBER", !.rest = W])
      PROVE  IInv'
  <2>1. "bulkDirectCreateMembers" \in Operation BY Paths
  <2>2. PICK q : q = [Ask("bulkDirectCreateMembers", u, None) EXCEPT !.role = "MEMBER", !.rest = W]
    OBVIOUS
  <2>3. q \in RequestType BY <1>1, <2>1, <2>2, Asked
  <2>4. q.op = "bulkDirectCreateMembers" /\ q.by = u /\ q.role = "MEMBER" BY <2>2 DEF Ask, NoRequest
  <2>5. Learnt(q, {}) BY <1>1, <2>1, <2>4 DEF Learnt
  <2> QED BY <1>0, <1>4, <2>2, <2>3, <2>5, Arrived
<1>5. ASSUME Arrive(o, Ask("bulkApprove", u, None))
      PROVE  IInv'
  <2>1. "bulkApprove" \in Operation BY Paths
  <2>2. PICK q : q = Ask("bulkApprove", u, None) OBVIOUS
  <2>3. q \in RequestType /\ q.op = "bulkApprove" /\ q.by = u /\ q.rest = {} BY <2>1, <2>2, AskedIs
  <2>4. Learnt(q, {}) BY <2>1, <2>3 DEF Learnt
  <2> QED BY <1>0, <1>5, <2>2, <2>3, <2>4, Arrived
<1> QED BY <1>2, <1>3, <1>4, <1>5 DEF CallManager

LEMMA CallUserKeeps ==
    ASSUME IInv, NEW o \in Request, NEW u \in User, CallUser(o, u)
    PROVE  IInv'
<1>0. MayArrive(o) BY DEF CallUser
<1>1. ASSUME account[u] = "live", NEW i \in Invitation,
             Arrive(o, [Ask("acceptInvitation", u, u) EXCEPT !.key = i])
      PROVE  IInv'
  <2>1. "acceptInvitation" \in Operation BY Paths
  <2>2. PICK q : q = [Ask("acceptInvitation", u, u) EXCEPT !.key = i] OBVIOUS
  <2>3. q \in RequestType BY <2>1, <2>2, Asked
  <2>4. q.op = "acceptInvitation" /\ q.by = u /\ q.to = u /\ q.rest = {} /\ q.key = i
    BY <2>2 DEF Ask, NoRequest
  <2>5. Learnt(q, {}) BY <1>1, <2>1, <2>4 DEF Learnt
  <2> QED BY <1>0, <1>1, <2>2, <2>3, <2>5, Arrived
<1>2. ASSUME account[u] = "live", NEW p \in User, Arrive(o, Ask("requestToJoinTeam", u, p))
      PROVE  IInv'
  <2>1. "requestToJoinTeam" \in Operation BY Paths
  <2>2. PICK q : q = Ask("requestToJoinTeam", u, p) OBVIOUS
  <2>3. q \in RequestType /\ q.op = "requestToJoinTeam" /\ q.by = u /\ q.to = p /\ q.rest = {}
    BY <2>1, <2>2, AskedIs
  <2>4. Learnt(q, {}) BY <1>2, <2>1, <2>3 DEF Learnt
  <2> QED BY <1>0, <1>2, <2>2, <2>3, <2>4, Arrived
<1>3. ASSUME NEW i \in Invitation \cup {None}, Arrive(o, [Ask("register", u, u) EXCEPT !.key = i])
      PROVE  IInv'
  <2>1. "register" \in Operation BY Paths
  <2>2. PICK q : q = [Ask("register", u, u) EXCEPT !.key = i] OBVIOUS
  <2>3. q \in RequestType BY <2>1, <2>2, Asked
  <2>4. q.op = "register" /\ q.by = u /\ q.to = u /\ q.rest = {} BY <2>2 DEF Ask, NoRequest
  <2>5. Learnt(q, {}) BY <2>1, <2>4 DEF Learnt, Managed
  <2> QED BY <1>0, <1>3, <2>2, <2>3, <2>5, Arrived
<1>4. ASSUME NEW op \in {"deleteUser", "hardDeleteUser"}, Arrive(o, Ask(op, None, u))
      PROVE  IInv'
  <2>1. op \in Operation BY Paths
  <2>2. PICK q : q = Ask(op, None, u) OBVIOUS
  <2>3. q \in RequestType /\ q.op = op /\ q.to = u /\ q.rest = {} BY <2>1, <2>2, AskedIs
  <2>4. Learnt(q, {}) BY <2>1, <2>3 DEF Learnt, Managed
  <2> QED BY <1>0, <1>4, <2>2, <2>3, <2>4, Arrived
<1> QED BY <1>1, <1>2, <1>3, <1>4 DEF CallUser

----------------------------------------------------------------------------
(* What a request reads. *)

LEMMA Reading ==
    ASSUME IInv, NEW o \in Request, NEW s, s # "idle", Stage(o) = s
    PROVE  /\ at[o] # 0 /\ at[o] \in 1..Len(Path[req[o].op]) /\ req[o].op \in Operation
           /\ Path[req[o].op][at[o]] = s /\ req[o] \in RequestType
           /\ Learnt(req[o], Behind(req[o].op, at[o]))
<1>1. Courses /\ Knows(o) BY TypeParts DEF IInv
<1> QED BY <1>1, Underway DEF Knows

LEMMA ReadKeepsTalks ==
    ASSUME IInv, NEW o, NEW s, Read(o, s)
    PROVE  UNCHANGED <<users, billing, invitation, joinRequest>> /\ Talks' /\ Stage(o) = s
<1>1. Tables BY TypeParts DEF IInv
<1> QED BY <1>1 DEF Read, Tables, Talks

LEMMA SeatsLeftIsNat == \A r : SeatsLeft(r) \in Nat
<1>1. SUFFICES ASSUME NEW r PROVE SeatsLeft(r) \in Nat OBVIOUS
<1>2. IsFiniteSet(Members(r)) BY SeatsAssumption, FS_Subset DEF Members
<1>3. Cardinality(Members(r)) \in Nat BY <1>2, FS_CardinalityType
<1> QED BY <1>3, SeatsAssumption DEF SeatsLeft

LEMMA RootIsUser ==
    ASSUME IInv, NEW u \in User
    PROVE  Root(u) \in User
BY DEF IInv, TypeOK, Root

LEMMA ReadWorkspaceKeeps ==
    ASSUME IInv, NEW o \in Request, ReadWorkspace(o)
    PROVE  IInv'
<1>1. PICK q, n, p : q = req[o] /\ n = at[o] /\ p = [q EXCEPT !.root = Root(q.by)] OBVIOUS
<1>2. Read(o, "workspace") /\ Proceed(o, p) BY <1>1 DEF ReadWorkspace
<1>3. q.op = "approveTeamMember" => account[q.to] # "absent" BY <1>1 DEF ReadWorkspace, Exists
<1>4. UNCHANGED <<users, billing, invitation, joinRequest>> /\ Talks' /\ Stage(o) = "workspace"
  BY <1>2, ReadKeepsTalks
<1>5. /\ n # 0 /\ n \in 1..Len(Path[q.op]) /\ q.op \in Operation /\ Path[q.op][n] = "workspace"
      /\ q \in RequestType /\ Learnt(q, Behind(q.op, n))
  BY <1>1, <1>4, Reading
<1>6. /\ n = 1
      /\ q.op \in {"directCreateMember", "bulkDirectCreateMembers", "inviteMember", "approveTeamMember",
                   "bulkApprove"}
  BY <1>5, Way
<1>7. Behind(q.op, n) = {} BY <1>6, FirstStage
<1>8. q.by \in User BY <1>5, <1>6, Paths DEF Learnt, Managed
<1>9. Root(q.by) \in User BY <1>8, RootIsUser
<1>10. /\ p \in RequestType /\ p.op = q.op /\ p.by = q.by /\ p.to = q.to /\ p.role = q.role
       /\ p.rest = q.rest /\ p.root = Root(q.by) /\ p.key = q.key
  BY <1>1, <1>5, <1>9 DEF RequestType
<1>11. Learnt(p, {"workspace"})
  BY <1>3, <1>5, <1>6, <1>7, <1>8, <1>9, <1>10 DEF Learnt
<1>12. Learnt(p, Behind(p.op, n) \cup {"workspace"}) BY <1>7, <1>10, <1>11
<1> QED BY <1>1, <1>2, <1>4, <1>5, <1>10, <1>12, ReadOn

LEMMA ReadCallerKeeps ==
    ASSUME IInv, NEW o \in Request, ReadCaller(o)
    PROVE  IInv'
<1>1. PICK q, n, p : /\ q = req[o] /\ n = at[o]
                     /\ p = [q EXCEPT !.root = Root(q.by), !.byRole = teamRole[q.by]]
  OBVIOUS
<1>2. Read(o, "caller") /\ Proceed(o, p) BY <1>1 DEF ReadCaller
<1>4. UNCHANGED <<users, billing, invitation, joinRequest>> /\ Talks' /\ Stage(o) = "caller"
  BY <1>2, ReadKeepsTalks
<1>5. /\ n # 0 /\ n \in 1..Len(Path[q.op]) /\ q.op \in Operation /\ Path[q.op][n] = "caller"
      /\ q \in RequestType /\ Learnt(q, Behind(q.op, n))
  BY <1>1, <1>4, Reading
<1>6. q.op \in {"removeTeamMember", "updateTeamMemberRole"} /\ n = 1 BY <1>5, Way
<1>7. Behind(q.op, n) = {} BY <1>6, FirstStage
<1>8. q.by \in User BY <1>5, <1>6, Paths DEF Learnt, Managed
<1>9. Root(q.by) \in User /\ teamRole[q.by] \in TeamRole \cup {None}
  BY <1>8, RootIsUser DEF IInv, TypeOK
<1>10. /\ p.op = q.op /\ p.by = q.by /\ p.to = q.to /\ p.role = q.role
       /\ p.rest = q.rest /\ p.root = Root(q.by)
  BY <1>1, <1>5 DEF RequestType
<1>11. p \in RequestType
  <2>1. PICK r, c : r = Root(q.by) /\ c = teamRole[q.by] OBVIOUS
  <2>2. r \in User \cup {None} /\ c \in TeamRole \cup {None} BY <1>9, <2>1
  <2>3. p = [q EXCEPT !.root = r, !.byRole = c] BY <1>1, <2>1
  <2> QED BY <1>5, <2>2, <2>3 DEF RequestType
<1>12. Learnt(p, {"caller"})
  <2>1. CASE q.op = "removeTeamMember" BY <1>5, <1>8, <1>9, <1>10, <2>1 DEF Learnt
  <2>2. CASE q.op = "updateTeamMemberRole" BY <1>5, <1>8, <1>9, <1>10, <2>2 DEF Learnt
  <2> QED BY <1>6, <2>1, <2>2
<1>13. Learnt(p, Behind(p.op, n) \cup {"caller"}) BY <1>7, <1>10, <1>12
<1> QED BY <1>1, <1>2, <1>4, <1>5, <1>10, <1>11, <1>13, ReadOn

LEMMA ReadSeatsKeeps ==
    ASSUME IInv, NEW o \in Request, ReadSeats(o)
    PROVE  IInv'
<1>1. PICK q, n, free : q = req[o] /\ n = at[o] /\ free = SeatsLeft(q.root) OBVIOUS
<1>2. /\ Read(o, "seats")
      /\ q.op # "bulkDirectCreateMembers" => free > 0
  BY <1>1 DEF ReadSeats
<1>4. UNCHANGED <<users, billing, invitation, joinRequest>> /\ Talks' /\ Stage(o) = "seats"
  BY <1>2, ReadKeepsTalks
<1>5. /\ n # 0 /\ n \in 1..Len(Path[q.op]) /\ q.op \in Operation /\ Path[q.op][n] = "seats"
      /\ q \in RequestType /\ Learnt(q, Behind(q.op, n))
  BY <1>1, <1>4, Reading
<1>6. free \in Nat /\ (q.op # "bulkDirectCreateMembers" => free # 0) BY <1>1, <1>2, SeatsLeftIsNat
<1>7. CASE q.op = "bulkApprove"
  <2>1. PICK W \in SUBSET q.who :
          /\ Cardinality(W) = (IF Cardinality(q.who) < free THEN Cardinality(q.who) ELSE free)
          /\ Proceed(o, [q EXCEPT !.free = free, !.who = W])
    BY <1>1, <1>7 DEF ReadSeats
  <2>2. PICK p : p = [q EXCEPT !.free = free, !.who = W] OBVIOUS
  <2>3. /\ p \in RequestType /\ p.op = q.op /\ p.by = q.by /\ p.to = q.to /\ p.role = q.role
        /\ p.rest = q.rest /\ p.root = q.root /\ p.free = free /\ p.who = W
    BY <1>5, <1>6, <2>2 DEF RequestType
  <2>4. Cardinality(W) <= free
    <3>1. IsFiniteSet(q.who) BY <1>5, SeatsAssumption, FS_Subset DEF RequestType
    <3>2. Cardinality(q.who) \in Nat BY <3>1, FS_CardinalityType
    <3> QED BY <1>6, <2>1, <3>2
  <2>5. Learnt(p, Behind(q.op, n) \cup {"seats"})
    BY <1>5, <1>6, <1>7, <2>3, <2>4 DEF Learnt
  <2>6. Learnt(p, Behind(p.op, n) \cup {"seats"}) BY <2>3, <2>5
  <2> QED BY <1>1, <1>4, <1>5, <2>1, <2>2, <2>3, <2>6, ReadOn
<1>8. CASE q.op # "bulkApprove"
  <2>1. PICK p : p = [q EXCEPT !.free = free] OBVIOUS
  <2>2. Proceed(o, p) BY <1>1, <1>8, <2>1 DEF ReadSeats
  <2>3. /\ p \in RequestType /\ p.op = q.op /\ p.by = q.by /\ p.to = q.to /\ p.role = q.role
        /\ p.rest = q.rest /\ p.root = q.root /\ p.free = free /\ p.key = q.key /\ p.who = q.who
        /\ p.parent = q.parent /\ p.known = q.known
    BY <1>5, <1>6, <2>1 DEF RequestType
  <2>5. Learnt(p, Behind(q.op, n) \cup {"seats"})
    BY <1>5, <1>6, <1>8, <2>3 DEF Learnt
  <2>6. Learnt(p, Behind(p.op, n) \cup {"seats"}) BY <2>3, <2>5
  <2> QED BY <1>1, <1>4, <1>5, <2>2, <2>3, <2>6, ReadOn
<1> QED BY <1>7, <1>8

LEMMA ReadRequestsKeeps ==
    ASSUME IInv, NEW o \in Request, ReadRequests(o)
    PROVE  IInv'
<1>1. PICK q, n, W, p : /\ q = req[o] /\ n = at[o]
                        /\ W = {u \in User : joinRequest[u][q.root] = "PENDING"}
                        /\ p = [q EXCEPT !.who = W]
  OBVIOUS
<1>2. Read(o, "requests") /\ Proceed(o, p) BY <1>1 DEF ReadRequests
<1>4. UNCHANGED <<users, billing, invitation, joinRequest>> /\ Talks' /\ Stage(o) = "requests"
  BY <1>2, ReadKeepsTalks
<1>5. /\ n # 0 /\ n \in 1..Len(Path[q.op]) /\ q.op \in Operation /\ Path[q.op][n] = "requests"
      /\ q \in RequestType /\ Learnt(q, Behind(q.op, n))
  BY <1>1, <1>4, Reading
<1>6. q.op = "bulkApprove" /\ n = 2 /\ Path[q.op][1] = "workspace" /\ "workspace" \in Behind(q.op, n)
  BY <1>5, Way
<1>7. Behind(q.op, n) = {"workspace"}
  <2>1. 2 = 1 + 1 /\ 1 \in Nat \ {0} OBVIOUS
  <2>2. Behind(q.op, 1 + 1) = Behind(q.op, 1) \cup {Path[q.op][1]} BY <2>1, NextStage
  <2> QED BY <1>6, <2>1, <2>2, FirstStage
<1>8. q.root \in User BY <1>5, <1>6 DEF Learnt
<1>9. \A u \in W : account[u] # "absent" BY <1>1, <1>8 DEF IInv, Unknown
<1>10. /\ p \in RequestType /\ p.op = q.op /\ p.by = q.by /\ p.to = q.to /\ p.role = q.role
       /\ p.rest = q.rest /\ p.root = q.root /\ p.who = W
  BY <1>1, <1>5 DEF RequestType
<1>11. Learnt(p, {"workspace", "requests"})
  BY <1>5, <1>6, <1>7, <1>8, <1>9, <1>10 DEF Learnt
<1>12. Learnt(p, Behind(p.op, n) \cup {"requests"})
  <2>1. {"workspace", "requests"} = Behind(p.op, n) \cup {"requests"} BY <1>7, <1>10
  <2> QED BY <1>11, <2>1
<1> QED BY <1>1, <1>2, <1>4, <1>5, <1>10, <1>12, ReadOn

LEMMA ReadTargetKeeps ==
    ASSUME IInv, NEW o \in Request, ReadTarget(o)
    PROVE  IInv'
<1>1. PICK q, n, p : /\ q = req[o] /\ n = at[o]
                     /\ p = [q EXCEPT !.parent = parent[q.to], !.known = Exists(q.to)]
  OBVIOUS
<1>2. Read(o, "target") /\ Proceed(o, p) BY <1>1 DEF ReadTarget
<1>3. q.op = "directCreateMember" => parent[q.to] \in {None, q.root} BY <1>1 DEF ReadTarget, MayBeAdded
<1>4. UNCHANGED <<users, billing, invitation, joinRequest>> /\ Talks' /\ Stage(o) = "target"
  BY <1>2, ReadKeepsTalks
<1>5. /\ n # 0 /\ n \in 1..Len(Path[q.op]) /\ q.op \in Operation /\ Path[q.op][n] = "target"
      /\ q \in RequestType /\ Learnt(q, Behind(q.op, n))
  BY <1>1, <1>4, Reading
<1>6. q.op \in {"directCreateMember", "inviteMember", "rejectTeamMember", "removeTeamMember",
                "updateTeamMemberRole", "requestToJoinTeam"}
  BY <1>5, Way
<1>7. q.to \in User BY <1>5, <1>6 DEF Learnt
<1>8. parent[q.to] \in User \cup {None} BY <1>7 DEF IInv, TypeOK
<1>9. /\ p.op = q.op /\ p.by = q.by /\ p.to = q.to /\ p.role = q.role /\ p.key = q.key
      /\ p.rest = q.rest /\ p.root = q.root /\ p.free = q.free /\ p.who = q.who
      /\ p.parent = parent[q.to] /\ p.known = Exists(q.to)
  BY <1>1, <1>5 DEF RequestType
<1>10. p \in RequestType
  <2>1. PICK r, b : r = parent[q.to] /\ b = Exists(q.to) OBVIOUS
  <2>2. r \in User \cup {None} /\ b \in BOOLEAN BY <1>8, <2>1 DEF Exists
  <2>3. p = [q EXCEPT !.parent = r, !.known = b] BY <1>1, <2>1
  <2> QED BY <1>5, <2>2, <2>3 DEF RequestType
<1>11. Learnt(p, Behind(q.op, n) \cup {"target"})
  <2>1. CASE q.op = "directCreateMember" BY <1>3, <1>5, <1>9, <2>1 DEF Learnt, Exists
  <2>2. CASE q.op # "directCreateMember" BY <1>5, <1>6, <1>9, <2>2 DEF Learnt
  <2> QED BY <2>1, <2>2
<1>12. Learnt(p, Behind(p.op, n) \cup {"target"}) BY <1>9, <1>11
<1> QED BY <1>1, <1>2, <1>4, <1>5, <1>9, <1>10, <1>12, ReadOn

LEMMA ReadInvitationKeeps ==
    ASSUME IInv, NEW o \in Request, ReadInvitation(o)
    PROVE  IInv'
<1>1. PICK q, n : q = req[o] /\ n = at[o] OBVIOUS
<1>2. Read(o, "invitation") BY DEF ReadInvitation
<1>4. UNCHANGED <<users, billing, invitation, joinRequest>> /\ Talks' /\ Stage(o) = "invitation"
  BY <1>2, ReadKeepsTalks
<1>5. /\ n # 0 /\ n \in 1..Len(Path[q.op]) /\ q.op \in Operation /\ Path[q.op][n] = "invitation"
      /\ q \in RequestType /\ Learnt(q, Behind(q.op, n))
  BY <1>1, <1>4, Reading
<1>6. ASSUME NEW p \in RequestType, p.op = q.op, Proceed(o, p),
             Learnt(p, Behind(q.op, n) \cup {"invitation"})
      PROVE  IInv'
  <2>1. Learnt(p, Behind(p.op, n) \cup {"invitation"}) BY <1>6
  <2> QED BY <1>1, <1>4, <1>5, <1>6, <2>1, ReadOn
<1>7. ASSUME q.op = "approveTeamMember", NEW i \in Invitation, Open(i),
             Proceed(o, [q EXCEPT !.key = i, !.role = invitation[i].role])
      PROVE  IInv'
  <2>1. PICK c : c = invitation[i].role OBVIOUS
  <2>2. PICK p : p = [q EXCEPT !.key = i, !.role = c] OBVIOUS
  <2>3. c \in TeamRole /\ invitation[i].status # None BY <1>7, <2>1 DEF Open, IInv, Complete, None
  <2>4. /\ p.op = q.op /\ p.by = q.by /\ p.to = q.to /\ p.role = c /\ p.key = i
        /\ p.rest = q.rest /\ p.root = q.root /\ p.free = q.free /\ p.who = q.who
        /\ p.parent = q.parent /\ p.known = q.known
    BY <1>5, <2>2 DEF RequestType
  <2>5. p \in RequestType BY <1>5, <2>2, <2>3 DEF RequestType
  <2>6. Learnt(p, Behind(q.op, n) \cup {"invitation"})
    <3>1. PICK B : B = Behind(q.op, n) OBVIOUS
    <3>2. Learnt(q, B) BY <1>5, <3>1
    <3>3. Learnt(p, B \cup {"invitation"}) BY <1>7, <2>3, <2>4, <3>2 DEF Learnt
    <3> QED BY <3>1, <3>3
  <2> QED BY <1>6, <1>7, <2>1, <2>2, <2>4, <2>5, <2>6
<1>8. ASSUME q.op = "approveTeamMember", Proceed(o, [q EXCEPT !.role = "MEMBER"])
      PROVE  IInv'
  <2>1. "MEMBER" \in TeamRole BY DEF TeamRole
  <2>2. PICK p : p = [q EXCEPT !.role = "MEMBER"] OBVIOUS
  <2>4. /\ p.op = q.op /\ p.by = q.by /\ p.to = q.to /\ p.role = "MEMBER" /\ p.key = q.key
        /\ p.rest = q.rest /\ p.root = q.root /\ p.free = q.free /\ p.who = q.who
        /\ p.parent = q.parent /\ p.known = q.known
    BY <1>5, <2>2 DEF RequestType
  <2>5. p \in RequestType BY <1>5, <2>1, <2>2 DEF RequestType
  <2>6. Learnt(p, Behind(q.op, n) \cup {"invitation"})
    <3>1. PICK B : B = Behind(q.op, n) OBVIOUS
    <3>2. Learnt(q, B) BY <1>5, <3>1
    <3>3. Learnt(p, B \cup {"invitation"}) BY <1>8, <2>1, <2>4, <3>2 DEF Learnt
    <3> QED BY <3>1, <3>3
  <2> QED BY <1>6, <1>8, <2>2, <2>4, <2>5, <2>6
<1>9. ASSUME q.op \in {"acceptInvitation", "register"}, q.key # None, Usable(q.key, q.to),
             Proceed(o, [q EXCEPT !.role = invitation[q.key].role, !.root = invitation[q.key].from])
      PROVE  IInv'
  <2>1. PICK c, r : c = invitation[q.key].role /\ r = invitation[q.key].from OBVIOUS
  <2>2. PICK p : p = [q EXCEPT !.role = c, !.root = r] OBVIOUS
  <2>3. q.key \in Invitation BY <1>5, <1>9 DEF RequestType
  <2>4. /\ invitation[q.key].status = "PENDING" /\ invitation[q.key].to = q.to
        /\ c \in TeamRole /\ r \in User
    BY <1>9, <2>1, <2>3 DEF Usable, Open, IInv, Complete, None
  <2>5. /\ p.op = q.op /\ p.by = q.by /\ p.to = q.to /\ p.role = c
        /\ p.rest = q.rest /\ p.root = r /\ p.free = q.free /\ p.key = q.key /\ p.who = q.who
    BY <1>5, <2>2 DEF RequestType
  <2>6. p \in RequestType BY <1>5, <2>2, <2>4 DEF RequestType
  <2>7. invitation[q.key].status # None BY <2>4 DEF None
  <2>8. /\ p.key \in Invitation /\ invitation[p.key].status # None
        /\ p.to = invitation[p.key].to /\ p.root = invitation[p.key].from
        /\ p.role = invitation[p.key].role
    BY <2>1, <2>3, <2>4, <2>5, <2>7
  <2>9. Learnt(p, Behind(q.op, n) \cup {"invitation"})
    <3>1. PICK B : B = Behind(q.op, n) OBVIOUS
    <3>2. Learnt(q, B) BY <1>5, <3>1
    <3>3. ASSUME q.op = "acceptInvitation" PROVE Learnt(p, B \cup {"invitation"})
      BY <2>4, <2>5, <2>8, <3>2, <3>3 DEF Learnt
    <3>4. ASSUME q.op = "register" PROVE Learnt(p, B \cup {"invitation"})
      BY <2>4, <2>5, <2>8, <3>2, <3>4 DEF Learnt
    <3> QED BY <1>9, <3>1, <3>3, <3>4
  <2> QED BY <1>6, <1>9, <2>1, <2>2, <2>5, <2>6, <2>9
<1>10. ASSUME q.op = "register", q.key = None, Proceed(o, q)
       PROVE  IInv'
  <2>1. Learnt(q, Behind(q.op, n) \cup {"invitation"}) BY <1>5, <1>10 DEF Learnt
  <2> QED BY <1>5, <1>6, <1>10, <2>1
<1> QED BY <1>1, <1>7, <1>8, <1>9, <1>10 DEF ReadInvitation

LEMMA ReadPendingKeeps ==
    ASSUME IInv, NEW o \in Request, ReadPending(o)
    PROVE  IInv'
<1>1. PICK q, n : q = req[o] /\ n = at[o] OBVIOUS
<1>2. PICK p : p.op = q.op /\ Read(o, "pending") /\ Proceed(o, p)
               /\ \E b \in BOOLEAN : p = [q EXCEPT !.pending = b]
  <2>1. PICK b : b = (joinRequest[q.to][IF q.op = "rejectTeamMember" THEN q.by ELSE q.root] = "PENDING")
    OBVIOUS
  <2>2. Read(o, "pending") /\ Proceed(o, [q EXCEPT !.pending = b]) BY <1>1, <2>1 DEF ReadPending
  <2>3. b \in BOOLEAN BY <2>1
  <2>4. Stage(o) = "pending" BY <2>2 DEF Read
  <2>5. q \in RequestType BY <1>1, <2>4, Reading
  <2>6. [q EXCEPT !.pending = b].op = q.op BY <2>5 DEF RequestType
  <2> QED BY <2>2, <2>3, <2>6
<1>3. PICK b \in BOOLEAN : p = [q EXCEPT !.pending = b] BY <1>2
<1>4. UNCHANGED <<users, billing, invitation, joinRequest>> /\ Talks' /\ Stage(o) = "pending"
  BY <1>2, ReadKeepsTalks
<1>5. /\ n # 0 /\ n \in 1..Len(Path[q.op]) /\ q.op \in Operation /\ Path[q.op][n] = "pending"
      /\ q \in RequestType /\ Learnt(q, Behind(q.op, n))
  BY <1>1, <1>4, Reading
<1>6. q.op \in {"approveTeamMember", "rejectTeamMember"} BY <1>5, Way
<1>7. /\ p.by = q.by /\ p.to = q.to /\ p.role = q.role /\ p.key = q.key
      /\ p.rest = q.rest /\ p.root = q.root /\ p.free = q.free
  BY <1>3, <1>5 DEF RequestType
<1>8. p \in RequestType BY <1>3, <1>5 DEF RequestType
<1>9. Learnt(p, Behind(q.op, n) \cup {"pending"}) BY <1>2, <1>5, <1>6, <1>7 DEF Learnt
<1>10. Learnt(p, Behind(p.op, n) \cup {"pending"}) BY <1>2, <1>9
<1> QED BY <1>1, <1>2, <1>4, <1>5, <1>8, <1>10, ReadOn

LEMMA TakeNextKeeps ==
    ASSUME IInv, NEW o \in Request, TakeNext(o)
    PROVE  IInv'
<1>1. Read(o, "next") /\ Leave(o) BY DEF TakeNext
<1>2. Stage(o) = "next" BY <1>1 DEF Read
<1>3. at[o] # 0 BY <1>2, Reading
<1> QED BY <1>1, <1>3, LeftOff DEF Read

\* The transaction of a deletion for good begins.
LEMMA DetachKeeps ==
    ASSUME IInv, NEW o \in Request, Detach(o)
    PROVE  IInv'
<1>1. PICK q, n, p : q = req[o] /\ n = at[o] /\ p = [q EXCEPT !.who = Members(q.to)] OBVIOUS
<1>2. Read(o, "detach") /\ Proceed(o, p) BY <1>1 DEF Detach
<1>3. UNCHANGED <<users, billing, invitation, joinRequest>> /\ Talks' /\ Stage(o) = "detach"
  BY <1>2, ReadKeepsTalks
<1>4. /\ n # 0 /\ n \in 1..Len(Path[q.op]) /\ q.op \in Operation /\ Path[q.op][n] = "detach"
      /\ q \in RequestType /\ Learnt(q, Behind(q.op, n))
  BY <1>1, <1>3, Reading
<1>5. q.op = "hardDeleteUser" /\ n = 1 BY <1>4, Way
<1>6. Behind(q.op, n) = {} BY <1>5, FirstStage
<1>7. Members(q.to) \subseteq User BY DEF Members
<1>8. p \in RequestType /\ p.op = q.op /\ p.to = q.to /\ p.rest = q.rest
  BY <1>1, <1>4, <1>7 DEF RequestType
<1>9. Learnt(p, {"detach"}) BY <1>4, <1>5, <1>6, <1>8 DEF Learnt, Managed
<1>10. Learnt(p, Behind(p.op, n) \cup {"detach"}) BY <1>6, <1>8, <1>9
<1> QED BY <1>1, <1>2, <1>3, <1>4, <1>8, <1>10, ReadOn

LEMMA FailKeeps ==
    ASSUME IInv, NEW o \in Request, Fail(o)
    PROVE  IInv'
<1>1. at[o] # 0 /\ UNCHANGED <<users, billing, invitation, joinRequest, conversation>> BY DEF Fail
<1>2. CASE Leave(o) BY <1>1, <1>2, LeftOff
<1>3. CASE req' = [req EXCEPT ![o] = NoRequest] /\ at' = [at EXCEPT ![o] = 0]
  <2>1. Courses /\ Tables BY TypeParts DEF IInv
  <2>2. req'[o] = NoRequest /\ at'[o] = 0 /\ \A x \in Request \ {o} : Same(x)
    BY <1>3, <2>1 DEF Courses, Same
  <2>3. Courses' BY <1>3, <2>1, <2>2, NoRequestIs DEF Courses, Same
  <2>4. Knows(o)' BY <2>2 DEF Knows
  <2>5. Talks' BY <1>1, <2>1 DEF Talks, Tables
  <2>6. req[o].op \in Operation BY <1>1, <2>1 DEF Courses
  <2>7. req[o].op # "served" BY <2>6, Paths
  <2> QED BY <1>1, <2>2, <2>3, <2>4, <2>5, <2>7, Quiet
<1> QED BY <1>2, <1>3 DEF Fail

----------------------------------------------------------------------------
(* The conversation of a team. *)

\* The conversation and the write itself teach nothing.
LEMMA Talked ==
    ASSUME NEW q, NEW S, NEW T, Learnt(q, S), T \subseteq S \cup {"find", "converse", "write"}
    PROVE  Learnt(q, T)
BY DEF Learnt

LEMMA FindConversationKeeps ==
    ASSUME IInv, NEW o \in Request, FindConversation(o)
    PROVE  IInv'
<1>1. PICK q, n : q = req[o] /\ n = at[o] OBVIOUS
<1>2. PICK g \in Request \cup {None} : Read(o, "find") /\ Proceed(o, [q EXCEPT !.group = g])
  BY <1>1 DEF FindConversation
<1>4. UNCHANGED <<users, billing, invitation, joinRequest>> /\ Talks' /\ Stage(o) = "find"
  BY <1>2, ReadKeepsTalks
<1>5. /\ n # 0 /\ q.op \in Operation /\ q \in RequestType /\ Learnt(q, Behind(q.op, n))
  BY <1>1, <1>4, Reading
<1>6. PICK p : p = [q EXCEPT !.group = g] OBVIOUS
<1>7. /\ p.op = q.op /\ p.by = q.by /\ p.to = q.to /\ p.role = q.role /\ p.key = q.key
      /\ p.rest = q.rest /\ p.root = q.root /\ p.free = q.free /\ p.who = q.who
      /\ p.parent = q.parent /\ p.known = q.known
  BY <1>5, <1>6 DEF RequestType
<1>8. p \in RequestType BY <1>5, <1>6 DEF RequestType
<1>9. PICK B : B = Behind(q.op, n) OBVIOUS
<1>10. Learnt(p, B) BY <1>5, <1>7, <1>9 DEF Learnt
<1>11. Learnt(p, B \cup {"find"}) BY <1>10, Talked
<1>12. Learnt(p, Behind(p.op, n) \cup {"find"}) BY <1>7, <1>9, <1>11
<1> QED BY <1>1, <1>2, <1>4, <1>5, <1>6, <1>7, <1>8, <1>12, ReadOn

LEMMA HostAndJoiners ==
    ASSUME IInv, NEW o \in Request, NEW s \in {"find", "converse"}, Stage(o) = s
    PROVE  Host(req[o]) \in User /\ Joiners(req[o]) \subseteq User
<1>1. PICK q, n : q = req[o] /\ n = at[o] OBVIOUS
<1>2. /\ n # 0 /\ n \in 1..Len(Path[q.op]) /\ q.op \in Operation /\ Path[q.op][n] = s
      /\ q \in RequestType /\ Learnt(q, Behind(q.op, n))
  BY <1>1, Reading
<1>3. /\ q.op \in {"directCreateMember", "approveTeamMember", "bulkApprove", "acceptInvitation"}
      /\ q.op = "acceptInvitation" => "invitation" \in Behind(q.op, n)
      /\ q.op # "acceptInvitation" => "workspace" \in Behind(q.op, n)
  BY <1>2, Way
<1>4. q.op # "acceptInvitation" => q.root \in User BY <1>2, <1>3 DEF Learnt
<1>5. q.op = "acceptInvitation" => q.root \in User
  <2>1. SUFFICES ASSUME q.op = "acceptInvitation" PROVE q.root \in User OBVIOUS
  <2>2. q.key \in Invitation /\ q.key # None
    <3>1. q.key \in Invitation BY <1>2, <2>1 DEF Learnt
    <3>2. None \notin Invitation BY SentAssumption DEF Invitation, None
    <3> QED BY <3>1, <3>2
  <2>3. invitation[q.key].status # None /\ q.root = invitation[q.key].from
    BY <1>2, <1>3, <2>1, <2>2 DEF Learnt
  <2> QED BY <2>2, <2>3 DEF IInv, Complete
<1>6. q.op # "bulkApprove" => q.to \in User BY <1>2, <1>3 DEF Learnt
<1>7. q.op = "approveTeamMember" => q.by \in User BY <1>2, <1>3 DEF Learnt, Managed
<1>8. q.who \subseteq User BY <1>2 DEF RequestType
<1> QED BY <1>1, <1>4, <1>5, <1>6, <1>7, <1>8 DEF Host, Joiners

LEMMA ConverseKeeps ==
    ASSUME IInv, NEW o \in Request, Converse(o)
    PROVE  IInv'
<1>1. PICK q, n : q = req[o] /\ n = at[o] OBVIOUS
<1>2. /\ Stage(o) = "converse" /\ Proceed(o, q)
      /\ UNCHANGED <<users, billing, invitation, joinRequest>>
  BY <1>1 DEF Converse
<1>3. /\ n # 0 /\ q.op \in Operation /\ q \in RequestType /\ Learnt(q, Behind(q.op, n))
  BY <1>1, <1>2, Reading
<1>4. Host(q) \in User /\ Joiners(q) \subseteq User BY <1>1, <1>2, HostAndJoiners
<1>5. Talks BY TypeParts DEF IInv, Tables, Talks
<1>6. Talks'
  <2>1. CASE q.group = None
    <3>1. PICK W \in {{}, Joiners(q)} :
            conversation' = [conversation EXCEPT ![o] = [owner |-> Host(q), members |-> W \cup {Host(q)}]]
      BY <1>1, <2>1 DEF Converse
    <3>2. W \cup {Host(q)} \in SUBSET User BY <1>4
    <3> QED BY <1>4, <1>5, <3>1, <3>2 DEF Talks
  <2>2. CASE q.group # None
    <3>1. conversation' = [conversation EXCEPT ![q.group].members = @ \cup Joiners(q)]
      BY <1>1, <2>2 DEF Converse
    <3> QED BY <1>4, <1>5, <3>1 DEF Talks
  <2> QED BY <2>1, <2>2
<1>7. Learnt(q, Behind(q.op, n) \cup {"converse"}) BY <1>3, Talked
<1> QED BY <1>1, <1>2, <1>3, <1>6, <1>7, ReadOn

LEMMA SkipKeeps ==
    ASSUME IInv, NEW o \in Request, Skip(o)
    PROVE  IInv'
<1>1. PICK q, n : q = req[o] /\ n = at[o] OBVIOUS
<1>2. Stage(o) \in {"find", "converse"}
      /\ UNCHANGED <<users, billing, invitation, joinRequest, conversation>>
  BY DEF Skip
<1>3. /\ n # 0 /\ n \in 1..Len(Path[q.op]) /\ q.op \in Operation /\ q \in RequestType
      /\ Path[q.op][n] \in {"find", "converse"} /\ Learnt(q, Behind(q.op, n))
  BY <1>1, <1>2, Reading
<1>4. CASE q.op \notin {"approveTeamMember", "acceptInvitation"}
  <2>1. Leave(o) BY <1>1, <1>4 DEF Skip
  <2> QED BY <1>1, <1>2, <1>3, <2>1, LeftOff
<1>5. CASE q.op \in {"approveTeamMember", "acceptInvitation"}
  <2>1. at' = [at EXCEPT ![o] = Len(Path[q.op])] /\ req' = req BY <1>1, <1>5 DEF Skip
  <2>2. Courses /\ Tables BY TypeParts DEF IInv
  <2>3. PICK m : m = Len(Path[q.op]) OBVIOUS
  <2>4. m \in {1, 2, 3, 4, 5, 6, 7} BY <1>3, <2>3, Lengths
  <2>5. req'[o] = q /\ at'[o] = m /\ \A x \in Request \ {o} : Same(x) BY <1>1, <2>1, <2>2, <2>3 DEF Courses, Same
  <2>6. Courses'
    <3>1. at' \in [Request -> Nat] BY <2>1, <2>2, <2>3, <2>4 DEF Courses
    <3>2. m \in 1..m BY <2>4
    <3>3. at'[o] \in 1..Len(Path[req'[o].op]) /\ req'[o].op \in Operation
      BY <1>3, <2>3, <2>5, <3>2
    <3> QED BY <2>1, <2>2, <2>5, <3>1, <3>3 DEF Courses, Same
  <2>7. Knows(o)'
    <3>1. PICK B, T : B = Behind(q.op, n) /\ T = Behind(q.op, m) OBVIOUS
    <3>2. T \subseteq B \cup {"find", "converse"} BY <1>3, <1>5, <2>3, <3>1, Way
    <3>3. Learnt(q, T) BY <1>3, <3>1, <3>2, Talked
    <3>4. UNCHANGED <<account, invitation>> BY <1>2 DEF users
    <3>5. Learnt(q, T)' BY <3>3, <3>4 DEF Learnt
    <3>6. Behind(req'[o].op, at'[o]) = T BY <2>5, <3>1
    <3> QED BY <2>5, <3>5, <3>6 DEF Knows, Learnt
  <2>8. Talks' BY <1>2, <2>2 DEF Talks, Tables
  <2>9. req[o].op # "served" BY <1>1, <1>3, Paths
  <2> QED BY <1>2, <2>5, <2>6, <2>7, <2>8, <2>9, Quiet
<1> QED BY <1>4, <1>5

----------------------------------------------------------------------------
(* The writes. *)

\* What each operation has in hand when it writes.
LEMMA InHand ==
    ASSUME IInv, NEW o \in Request, NEW q, q = req[o], Stage(o) = "write"
    PROVE  /\ q \in RequestType /\ at[o] # 0
           /\ q.op \in Operation \ {"bulkDirectCreateMembers"}
           /\ Learnt(q, Behind(q.op, at[o]) \cup {"write"})
           /\ q.op \in Managed => q.by \in User
           /\ q.op # "bulkApprove" => q.to \in User
           /\ q.op \in {"directCreateMember", "inviteMember", "approveTeamMember", "bulkApprove",
                        "acceptInvitation", "removeTeamMember", "updateTeamMemberRole"} => q.root \in User
           /\ q.op \in {"directCreateMember", "inviteMember", "approveTeamMember", "acceptInvitation",
                        "updateTeamMemberRole"} => q.role \in TeamRole
           /\ q.op \in {"directCreateMember", "approveTeamMember", "bulkApprove",
                        "acceptInvitation"} => q.free # 0
           /\ q.op = "directCreateMember" =>
                 q.parent \in {None, q.root} /\ (q.known => account[q.to] # "absent")
           /\ q.op \in {"approveTeamMember", "acceptInvitation"} => account[q.to] # "absent"
           /\ q.op = "bulkApprove" =>
                 Cardinality(q.who) <= q.free /\ \A u \in q.who : account[u] # "absent"
           /\ q.op = "requestToJoinTeam" => account[q.by] # "absent"
           /\ q.op \in {"approveTeamMember", "acceptInvitation", "register"} /\ q.key # None =>
                 q.key \in Invitation /\ invitation[q.key].status # None
           /\ q.op \in {"acceptInvitation", "register"} /\ q.key # None =>
                 /\ q.to = invitation[q.key].to /\ q.root = invitation[q.key].from
                 /\ q.root \in User /\ q.role \in TeamRole
           /\ q.op = "acceptInvitation" => q.key # None
           /\ q.op # "directCreateMember" => q.rest = {}
<1>1. PICK n, B : n = at[o] /\ B = Behind(q.op, n) OBVIOUS
<1>2. /\ n # 0 /\ n \in 1..Len(Path[q.op]) /\ q.op \in Operation /\ Path[q.op][n] = "write"
      /\ q \in RequestType /\ Learnt(q, B)
  BY <1>1, Reading
<1>3. /\ q.op # "bulkDirectCreateMembers"
      /\ q.op \in {"directCreateMember", "inviteMember", "approveTeamMember", "bulkApprove"} =>
            "workspace" \in B /\ "seats" \in B
      /\ q.op \in {"removeTeamMember", "updateTeamMemberRole"} => "caller" \in B
      /\ q.op = "directCreateMember" => "target" \in B
      /\ q.op = "bulkApprove" => "requests" \in B
      /\ q.op = "acceptInvitation" => "seats" \in B
      /\ q.op \in {"approveTeamMember", "acceptInvitation", "register"} => "invitation" \in B
  BY <1>1, <1>2, Way
<1>4. Learnt(q, B \cup {"write"}) BY <1>2, Talked
<1>5. /\ q.op \in Managed => q.by \in User
      /\ q.op # "bulkApprove" => q.to \in User
      /\ q.op # "directCreateMember" => q.rest = {}
      /\ q.op = "requestToJoinTeam" => account[q.by] # "absent"
  BY <1>2, <1>3 DEF Learnt
<1>6. /\ q.op \in {"directCreateMember", "inviteMember", "approveTeamMember", "bulkApprove",
                   "removeTeamMember", "updateTeamMemberRole"} => q.root \in User
      /\ q.op \in {"directCreateMember", "approveTeamMember", "bulkApprove",
                   "acceptInvitation"} => q.free # 0
  BY <1>2, <1>3 DEF Learnt
<1>7. /\ q.op \in {"directCreateMember", "inviteMember", "approveTeamMember",
                   "updateTeamMemberRole"} => q.role \in TeamRole
      /\ q.op = "directCreateMember" =>
            q.parent \in {None, q.root} /\ (q.known => account[q.to] # "absent")
      /\ q.op \in {"approveTeamMember", "acceptInvitation"} => account[q.to] # "absent"
      /\ q.op = "bulkApprove" =>
            Cardinality(q.who) <= q.free /\ \A u \in q.who : account[u] # "absent"
  BY <1>2, <1>3 DEF Learnt
<1>8. q.op = "acceptInvitation" => q.key # None
  <2>1. q.op = "acceptInvitation" => q.key \in Invitation BY <1>2 DEF Learnt
  <2>2. None \notin Invitation BY SentAssumption DEF Invitation, None
  <2> QED BY <2>1, <2>2
<1>9. q.op = "approveTeamMember" /\ q.key # None =>
         q.key \in Invitation /\ invitation[q.key].status # None
  <2>1. q.key # None => q.key \in Invitation BY <1>2 DEF RequestType
  <2> QED BY <1>2, <2>1 DEF Learnt
<1>10. q.op \in {"acceptInvitation", "register"} /\ q.key # None =>
          /\ q.key \in Invitation /\ invitation[q.key].status # None
          /\ q.to = invitation[q.key].to /\ q.root = invitation[q.key].from
          /\ q.root \in User /\ q.role \in TeamRole
  <2>1. SUFFICES ASSUME q.op \in {"acceptInvitation", "register"}, q.key # None
        PROVE  /\ q.key \in Invitation /\ invitation[q.key].status # None
               /\ q.to = invitation[q.key].to /\ q.root = invitation[q.key].from
               /\ q.root \in User /\ q.role \in TeamRole
    OBVIOUS
  <2>2. "invitation" \in B BY <1>3, <2>1
  <2>3. /\ q.key \in Invitation /\ invitation[q.key].status # None
        /\ q.to = invitation[q.key].to /\ q.root = invitation[q.key].from
        /\ q.role = invitation[q.key].role
    BY <1>2, <2>1, <2>2 DEF Learnt
  <2> QED BY <2>3 DEF IInv, Complete
<1> QED BY <1>1, <1>2, <1>3, <1>4, <1>5, <1>6, <1>7, <1>8, <1>9, <1>10

\* Most operations write last; the other two see to the conversation after it.
LEMMA WritesLast ==
    ASSUME IInv, NEW o \in Request, Stage(o) = "write"
    PROVE  LET op == req[o].op
           IN  /\ op \in {"directCreateMember", "bulkApprove"} => at[o] = 4 /\ Len(Path[op]) = 6
               /\ op \notin {"directCreateMember", "bulkApprove"} => at[o] = Len(Path[op])
<1>1. PICK op, n : op = req[o].op /\ n = at[o] OBVIOUS
<1>2. op \in Operation /\ n \in 1..Len(Path[op]) /\ Path[op][n] = "write" BY <1>1, Reading
<1>3. /\ op \in {"directCreateMember", "bulkApprove"} => n = 4 /\ Len(Path[op]) = 6
      /\ op \notin {"directCreateMember", "bulkApprove"} => n = Len(Path[op])
  BY <1>2, Way
<1> QED BY <1>1, <1>3

\* A write that leaves the tables in order: who has no account joins no team and asks for
\* none, and inviteMember alone sends an invitation, a complete one.
InOrder(o) ==
    /\ Tables' /\ Grown
    /\ \A u \in User : account'[u] = "absent" =>
          /\ account[u] = "absent" /\ parent'[u] \in {None, parent[u]}
          /\ \A p \in User : joinRequest'[u][p] = "PENDING" => joinRequest[u][p] = "PENDING"
    /\ \A i \in Invitation : invitation[i].status = None /\ invitation'[i].status # None =>
          /\ i = o /\ req[o].op = "inviteMember"
          /\ invitation'[i].to \in User /\ invitation'[i].from \in User
          /\ invitation'[i].role \in TeamRole

LEMMA Wrote ==
    ASSUME IInv, NEW o \in Request, Stage(o) = "write", Proceed(o, req[o]), InOrder(o)
    PROVE  IInv'
<1>0. Grown /\ Tables' BY DEF InOrder
<1>1. PICK q : q = req[o] OBVIOUS
<1>2. /\ q \in RequestType /\ at[o] # 0 /\ Learnt(q, Behind(q.op, at[o]) \cup {"write"})
      /\ q.op \in Operation /\ (q.op # "directCreateMember" => q.rest = {})
  BY <1>1, InHand
<1>3. q.op = "inviteMember" => at[o] = Len(Path[q.op]) BY <1>1, WritesLast
<1>4. Courses /\ Knows(o) BY TypeParts DEF IInv
<1>5. /\ Courses' /\ Knows(o)' /\ \A x \in Request \ {o} : Same(x)
      /\ at[o] = Len(Path[q.op]) => Leave(o)
  BY <1>0, <1>1, <1>2, <1>4, Proceeded
<1>6. TypeOK' BY <1>0, <1>5 DEF TypeOK, Tables, Courses
<1>7. Unknown' BY DEF IInv, Unknown, InOrder
<1>8. ASSUME NEW x \in Request PROVE Knows(x)'
  <2>1. CASE x = o BY <1>5, <2>1
  <2>2. CASE x # o
    <3>1. Knows(x) /\ Same(x) BY <1>5, <2>2 DEF IInv
    <3> QED BY <1>0, <1>4, <3>1, OthersKnow
  <2> QED BY <2>1, <2>2
<1>9. Complete'
  <2>1. SUFFICES ASSUME NEW i \in Invitation, invitation'[i].status # None
        PROVE  /\ invitation'[i].to \in User /\ invitation'[i].from \in User
               /\ invitation'[i].role \in TeamRole
               /\ i \in Request => req'[i].op = "served"
    BY DEF Complete
  <2>2. CASE invitation[i].status = None
    <3>1. i = o /\ q.op = "inviteMember" BY <1>1, <2>1, <2>2 DEF InOrder
    <3>2. q.rest = {} /\ Leave(o) BY <1>2, <1>5, <1>3, <3>1
    <3>3. req' = [req EXCEPT ![o] = Served] BY <1>1, <3>2 DEF Leave
    <3>4. req'[i].op = "served" BY <1>4, <3>1, <3>3, NoRequestIs DEF Courses
    <3> QED BY <2>1, <2>2, <3>4 DEF InOrder
  <2>3. CASE invitation[i].status # None
    <3>1. /\ invitation[i].to \in User /\ invitation[i].from \in User
          /\ invitation[i].role \in TeamRole
          /\ i \in Request => req[i].op = "served"
      BY <2>3 DEF IInv, Complete
    <3>2. /\ invitation'[i].to = invitation[i].to /\ invitation'[i].from = invitation[i].from
          /\ invitation'[i].role = invitation[i].role
      BY <1>0, <2>3 DEF Grown
    <3>3. q.op # "served" BY <1>2, Paths
    <3>4. i \in Request => i # o BY <1>1, <3>1, <3>3
    <3>5. i \in Request => req'[i].op = "served" BY <1>5, <3>1, <3>4 DEF Same
    <3> QED BY <3>1, <3>2, <3>5
  <2> QED BY <2>2, <2>3
<1> QED BY <1>6, <1>7, <1>8, <1>9 DEF IInv

LEMMA JoinsTypes ==
    ASSUME Tables, NEW W, NEW r \in User \cup {None}, NEW c \in TeamRole \cup {None}, Joins(W, r, c)
    PROVE  /\ parent' \in [User -> User \cup {None}] /\ teamRole' \in [User -> TeamRole \cup {None}]
           /\ \A u \in User : /\ parent'[u] = (IF u \in W THEN r ELSE parent[u])
                              /\ teamRole'[u] = (IF u \in W THEN c ELSE teamRole[u])
BY DEF Tables, Joins

\* An accepted invitation was sent before: nothing else about it changes.
LEMMA AcceptsTypes ==
    ASSUME Tables, NEW K, Accepts(K), \A i \in K \cap Invitation : invitation[i].status # None
    PROVE  /\ invitation' \in [Invitation -> [to : User \cup {None}, from : User \cup {None},
                                              role : TeamRole \cup {None},
                                              status : {None, "PENDING", "ACCEPTED", "gone"}, overdue : BOOLEAN]]
           /\ \A i \in Invitation :
                 /\ invitation'[i].to = invitation[i].to /\ invitation'[i].from = invitation[i].from
                 /\ invitation'[i].role = invitation[i].role
                 /\ invitation'[i].status # None <=> invitation[i].status # None
                 /\ invitation'[i].status # invitation[i].status => i \in K
<1>1. ASSUME NEW i \in Invitation
      PROVE  /\ invitation'[i] \in [to : User \cup {None}, from : User \cup {None},
                                    role : TeamRole \cup {None},
                                    status : {None, "PENDING", "ACCEPTED", "gone"}, overdue : BOOLEAN]
             /\ invitation'[i].to = invitation[i].to /\ invitation'[i].from = invitation[i].from
             /\ invitation'[i].role = invitation[i].role
             /\ invitation'[i].status # None <=> invitation[i].status # None
             /\ invitation'[i].status # invitation[i].status => i \in K
  <2>1. invitation[i] \in [to : User \cup {None}, from : User \cup {None},
                           role : TeamRole \cup {None},
                           status : {None, "PENDING", "ACCEPTED", "gone"}, overdue : BOOLEAN]
    BY DEF Tables
  <2>2. CASE i \in K
    <3>1. invitation'[i] = [invitation[i] EXCEPT !.status = "ACCEPTED"] BY <2>2 DEF Accepts
    <3>2. invitation[i].status # None BY <2>2
    <3> QED BY <2>1, <2>2, <3>1, <3>2 DEF None
  <2>3. CASE i \notin K
    <3>1. invitation'[i] = invitation[i] BY <2>3 DEF Accepts
    <3> QED BY <2>1, <3>1
  <2> QED BY <2>2, <2>3
<1> QED BY <1>1 DEF Accepts

LEMMA SettlesTypes ==
    ASSUME Tables, NEW W, NEW r, NEW s \in {"APPROVED", "REJECTED"}, Settles(W, r, s)
    PROVE  /\ joinRequest' \in [User -> [User -> {None, "PENDING", "APPROVED", "REJECTED"}]]
           /\ \A u \in User, p \in User : joinRequest'[u][p] = "PENDING" => joinRequest[u][p] = "PENDING"
<1>1. ASSUME NEW u \in User
      PROVE  /\ joinRequest'[u] \in [User -> {None, "PENDING", "APPROVED", "REJECTED"}]
             /\ \A p \in User : joinRequest'[u][p] = "PENDING" => joinRequest[u][p] = "PENDING"
  <2>1. joinRequest[u] \in [User -> {None, "PENDING", "APPROVED", "REJECTED"}] BY DEF Tables
  <2>2. CASE u \in W /\ r \in User
    <3>1. joinRequest'[u] = [joinRequest[u] EXCEPT ![r] = IF @ = "PENDING" THEN s ELSE @]
      BY <2>2 DEF Settles
    <3> QED BY <2>1, <2>2, <3>1
  <2>3. CASE ~(u \in W /\ r \in User)
    <3>1. joinRequest'[u] = joinRequest[u] BY <2>3 DEF Settles
    <3> QED BY <2>1, <3>1
  <2> QED BY <2>2, <2>3
<1> QED BY <1>1 DEF Settles

\* The users that join or leave a team in a write have an account.
LEMMA JoinersWritten ==
    ASSUME IInv, NEW o, NEW W, NEW r \in User \cup {None}, NEW c \in TeamRole \cup {None},
           Joins(W, r, c), account' \in [User -> {"absent", "live", "deleted", "gone"}],
           \A u \in User : account'[u] = "absent" => account[u] = "absent",
           r # None => \A u \in W : account'[u] # "absent",
           UNCHANGED <<billing, conversation>>,
           NEW K, \/ Accepts(K) /\ \A i \in K \cap Invitation : invitation[i].status # None
                  \/ UNCHANGED invitation,
           NEW V, NEW t, NEW s \in {"APPROVED", "REJECTED"},
           Settles(V, t, s) \/ UNCHANGED joinRequest
    PROVE  InOrder(o)
<1>1. Tables BY TypeParts DEF IInv
<1>2. /\ parent' \in [User -> User \cup {None}] /\ teamRole' \in [User -> TeamRole \cup {None}]
      /\ \A u \in User : parent'[u] = (IF u \in W THEN r ELSE parent[u])
  BY <1>1, JoinsTypes
<1>3. /\ invitation' \in [Invitation -> [to : User \cup {None}, from : User \cup {None},
                                         role : TeamRole \cup {None},
                                         status : {None, "PENDING", "ACCEPTED", "gone"}, overdue : BOOLEAN]]
      /\ \A i \in Invitation :
            /\ invitation'[i].to = invitation[i].to /\ invitation'[i].from = invitation[i].from
            /\ invitation'[i].role = invitation[i].role
            /\ invitation'[i].status # None <=> invitation[i].status # None
  <2>1. CASE Accepts(K) /\ \A i \in K \cap Invitation : invitation[i].status # None
    BY <1>1, <2>1, AcceptsTypes
  <2>2. CASE UNCHANGED invitation BY <1>1, <2>2 DEF Tables
  <2> QED BY <2>1, <2>2
<1>4. /\ joinRequest' \in [User -> [User -> {None, "PENDING", "APPROVED", "REJECTED"}]]
      /\ \A u \in User, p \in User : joinRequest'[u][p] = "PENDING" => joinRequest[u][p] = "PENDING"
  <2>1. CASE Settles(V, t, s) BY <1>1, <2>1, SettlesTypes
  <2>2. CASE UNCHANGED joinRequest BY <1>1, <2>2 DEF Tables
  <2> QED BY <2>1, <2>2
<1>5. Tables' BY <1>1, <1>2, <1>3, <1>4 DEF Tables, billing
<1>6. Grown BY <1>3 DEF Grown
<1>7. ASSUME NEW u \in User, account'[u] = "absent"
      PROVE  account[u] = "absent" /\ parent'[u] \in {None, parent[u]}
  <2>1. account[u] = "absent" /\ (u \in W => r = None) BY <1>7
  <2> QED BY <1>2, <2>1
<1> QED BY <1>3, <1>4, <1>5, <1>6, <1>7 DEF InOrder

LEMMA DirectCreateMemberWrites ==
    ASSUME IInv, NEW o, NEW q, q.to \in User, q.root \in User, q.role \in TeamRole,
           q.known => account[q.to] # "absent", DirectCreateMember(q), UNCHANGED conversation
    PROVE  InOrder(o)
<1>1. Joins({q.to}, q.root, q.role) /\ UNCHANGED <<billing, invitation, joinRequest>>
  BY DEF DirectCreateMember
<1>2. account \in [User -> {"absent", "live", "deleted", "gone"}] BY DEF IInv, TypeOK
<1>3. /\ account' \in [User -> {"absent", "live", "deleted", "gone"}]
      /\ \A u \in User : account'[u] = "absent" => account[u] = "absent"
      /\ account'[q.to] # "absent"
  <2>1. CASE q.known
    <3>1. account' = account BY <2>1 DEF DirectCreateMember
    <3> QED BY <1>2, <2>1, <3>1
  <2>2. CASE ~q.known
    <3>1. account' = [account EXCEPT ![q.to] = "live"] BY <2>2 DEF DirectCreateMember, Register
    <3> QED BY <1>2, <3>1
  <2> QED BY <2>1, <2>2
<1>4. PICK W, r, c : W = {q.to} /\ r = q.root /\ c = q.role OBVIOUS
<1>5. /\ Joins(W, r, c) /\ r \in User \cup {None} /\ c \in TeamRole \cup {None}
      /\ \A u \in W : account'[u] # "absent"
  BY <1>1, <1>3, <1>4
<1>6. "APPROVED" \in {"APPROVED", "REJECTED"} OBVIOUS
<1> QED BY <1>1, <1>3, <1>5, <1>6, JoinersWritten

LEMMA ApprovalWrites ==
    ASSUME IInv, NEW o, NEW q, q.root \in User,
           \/ /\ q.op = "approveTeamMember" /\ ApproveTeamMember(q)
              /\ q.role \in TeamRole /\ account[q.to] # "absent"
              /\ q.key # None => invitation[q.key].status # None
           \/ /\ q.op = "bulkApprove" /\ BulkApprove(q)
              /\ \A u \in q.who : account[u] # "absent"
           \/ /\ q.op = "acceptInvitation" /\ AcceptInvitation(q)
              /\ q.role \in TeamRole /\ account[q.to] # "absent"
              /\ q.key # None => invitation[q.key].status # None,
           UNCHANGED conversation
    PROVE  InOrder(o)
<1>1. account \in [User -> {"absent", "live", "deleted", "gone"}] BY DEF IInv, TypeOK
<1>2. None \notin Invitation BY SentAssumption DEF Invitation, None
<1>3. "APPROVED" \in {"APPROVED", "REJECTED"} OBVIOUS
<1>4. ASSUME NEW W, NEW c \in TeamRole, NEW K, NEW V, Joins(W, q.root, c), UNCHANGED <<account, billing>>,
             \A u \in W : account[u] # "absent",
             Accepts(K), \A i \in K \cap Invitation : invitation[i].status # None,
             Settles(V, q.root, "APPROVED") \/ UNCHANGED joinRequest
      PROVE  InOrder(o)
  <2>1. PICK r : r = q.root OBVIOUS
  <2>2. r \in User \cup {None} /\ c \in TeamRole \cup {None} BY <2>1
  <2>3. /\ account' \in [User -> {"absent", "live", "deleted", "gone"}]
        /\ \A u \in User : account'[u] = "absent" => account[u] = "absent"
        /\ \A u \in W : account'[u] # "absent"
        /\ UNCHANGED <<billing, conversation>>
    BY <1>1, <1>4
  <2> QED BY <1>3, <1>4, <2>1, <2>2, <2>3, JoinersWritten
<1>5. CASE /\ q.op = "approveTeamMember" /\ ApproveTeamMember(q)
           /\ q.role \in TeamRole /\ account[q.to] # "absent"
           /\ q.key # None => invitation[q.key].status # None
  <2>1. /\ Accepts({q.key}) /\ Joins({q.to}, q.root, q.role) /\ UNCHANGED <<account, billing>>
        /\ Settles({q.to}, q.root, "APPROVED") \/ UNCHANGED joinRequest
    BY <1>5 DEF ApproveTeamMember
  <2>2. \A i \in {q.key} \cap Invitation : invitation[i].status # None BY <1>2, <1>5
  <2>3. \A u \in {q.to} : account[u] # "absent" BY <1>5
  <2> QED BY <1>4, <1>5, <2>1, <2>2, <2>3
<1>6. CASE /\ q.op = "bulkApprove" /\ BulkApprove(q)
           /\ \A u \in q.who : account[u] # "absent"
  <2>1. PICK K : K = {i \in Invitation : Open(i) /\ invitation[i].to \in q.who} OBVIOUS
  <2>2. PICK W : W = {u \in q.who : Kept(u)} OBVIOUS
  <2>3. /\ Accepts(K) /\ Joins(W, q.root, "MEMBER") /\ UNCHANGED <<account, billing>>
        /\ Settles(q.who, q.root, "APPROVED")
    BY <1>6, <2>1, <2>2 DEF BulkApprove
  <2>4. \A i \in K \cap Invitation : invitation[i].status # None BY <2>1 DEF Open, None
  <2>5. "MEMBER" \in TeamRole BY DEF TeamRole
  <2>6. \A u \in W : account[u] # "absent" BY <1>6, <2>2
  <2> QED BY <1>4, <2>3, <2>4, <2>5, <2>6
<1>7. CASE /\ q.op = "acceptInvitation" /\ AcceptInvitation(q)
           /\ q.role \in TeamRole /\ account[q.to] # "absent"
           /\ q.key # None => invitation[q.key].status # None
  <2>1. /\ Accepts({q.key}) /\ Joins({q.to}, q.root, q.role) /\ UNCHANGED <<account, billing>>
        /\ UNCHANGED joinRequest
    BY <1>7 DEF AcceptInvitation
  <2>2. \A i \in {q.key} \cap Invitation : invitation[i].status # None BY <1>2, <1>7
  <2>3. \A u \in {q.to} : account[u] # "absent" BY <1>7
  <2> QED BY <1>4, <1>7, <2>1, <2>2, <2>3
<1> QED BY <1>5, <1>6, <1>7

LEMMA LeavingWrites ==
    ASSUME IInv, NEW o, NEW q, UNCHANGED conversation,
           \/ RejectTeamMember(q) \/ RemoveTeamMember(q)
    PROVE  InOrder(o)
<1>1. account \in [User -> {"absent", "live", "deleted", "gone"}] BY DEF IInv, TypeOK
<1>2. UNCHANGED <<account, billing, invitation>> BY DEF RejectTeamMember, RemoveTeamMember
<1>3. "REJECTED" \in {"APPROVED", "REJECTED"} OBVIOUS
<1>4. PICK W : Joins(W, None, None) \/ (W = {} /\ UNCHANGED <<parent, teamRole>>)
  BY DEF RejectTeamMember, RemoveTeamMember, Leaves
<1>5. PICK V, t : Settles(V, t, "REJECTED") \/ UNCHANGED joinRequest
  BY DEF RejectTeamMember, RemoveTeamMember
<1>6. Joins(W, None, None)
  <2>1. /\ parent \in [User -> User \cup {None}] /\ teamRole \in [User -> TeamRole \cup {None}]
    BY DEF IInv, TypeOK
  <2>2. CASE W = {} /\ UNCHANGED <<parent, teamRole>> BY <2>1, <2>2 DEF Joins
  <2> QED BY <1>4, <2>2
<1>7. /\ account' \in [User -> {"absent", "live", "deleted", "gone"}]
      /\ \A u \in User : account'[u] = "absent" => account[u] = "absent"
      /\ UNCHANGED <<billing, conversation>> /\ UNCHANGED invitation
  BY <1>1, <1>2
<1> QED BY <1>3, <1>5, <1>6, <1>7, JoinersWritten

LEMMA RegisterUserWrites ==
    ASSUME IInv, NEW o, NEW q, q.to \in User, RegisterUser(q), UNCHANGED conversation,
           q.key # None => /\ q.key \in Invitation /\ invitation[q.key].status # None
                           /\ q.root \in User /\ q.role \in TeamRole
    PROVE  InOrder(o)
<1>1. account \in [User -> {"absent", "live", "deleted", "gone"}] BY DEF IInv, TypeOK
<1>2. None \notin Invitation BY SentAssumption DEF Invitation, None
<1>3. /\ account' = [account EXCEPT ![q.to] = "live"] /\ Accepts({q.key})
      /\ UNCHANGED billing /\ UNCHANGED joinRequest
  BY DEF RegisterUser, Register
<1>4. /\ account' \in [User -> {"absent", "live", "deleted", "gone"}]
      /\ \A u \in User : account'[u] = "absent" => account[u] = "absent"
      /\ account'[q.to] # "absent"
  BY <1>1, <1>3
<1>5. \A i \in {q.key} \cap Invitation : invitation[i].status # None BY <1>2
<1>6. PICK W, r, c : /\ r \in User \cup {None} /\ c \in TeamRole \cup {None} /\ Joins(W, r, c)
                     /\ \A u \in W : account'[u] # "absent"
  <2>1. CASE q.key = None
    <3>1. UNCHANGED <<parent, teamRole>> BY <2>1 DEF RegisterUser
    <3>2. /\ parent \in [User -> User \cup {None}] /\ teamRole \in [User -> TeamRole \cup {None}]
      BY DEF IInv, TypeOK
    <3>3. Joins({}, None, None) BY <3>1, <3>2 DEF Joins
    <3> QED BY <3>3
  <2>2. CASE q.key # None
    <3>1. Joins({q.to}, q.root, q.role) BY <2>2 DEF RegisterUser
    <3> QED BY <1>4, <2>2, <3>1
  <2> QED BY <2>1, <2>2
<1>7. "APPROVED" \in {"APPROVED", "REJECTED"} OBVIOUS
<1>8. UNCHANGED <<billing, conversation>> BY <1>3
<1> QED BY <1>3, <1>4, <1>5, <1>6, <1>7, <1>8, JoinersWritten

LEMMA InviteMemberWrites ==
    ASSUME IInv, NEW o \in Request, req[o].op = "inviteMember", NEW q, q.to \in User, q.root \in User,
           q.role \in TeamRole, InviteMember(o, q), UNCHANGED conversation
    PROVE  InOrder(o)
<1>1. Tables BY TypeParts DEF IInv
<1>2. PICK x : x = [to |-> q.to, from |-> q.root, role |-> q.role, status |-> "PENDING", overdue |-> FALSE]
  OBVIOUS
<1>3. /\ x \in [to : User \cup {None}, from : User \cup {None}, role : TeamRole \cup {None},
                status : {None, "PENDING", "ACCEPTED", "gone"}, overdue : BOOLEAN]
      /\ x.to \in User /\ x.from \in User /\ x.role \in TeamRole
  BY <1>2
<1>4. invitation' = [invitation EXCEPT ![o] = x]
  BY <1>2 DEF InviteMember
<1>5. UNCHANGED <<account, parent, teamRole, enterprise, subscription, joinRequest>>
  BY DEF InviteMember, users, billing
<1>6. invitation[o].status = None
  <2>1. o \in Invitation BY DEF Invitation
  <2> QED BY <2>1 DEF IInv, Complete
<1>7. o \in Invitation BY DEF Invitation
<1>8. \A i \in Invitation : invitation'[i] = (IF i = o THEN x ELSE invitation[i])
  BY <1>1, <1>4, <1>7 DEF Tables
<1>9. Tables' BY <1>1, <1>3, <1>4, <1>5 DEF Tables
<1>10. Grown BY <1>5, <1>6, <1>8 DEF Grown
<1> QED BY <1>3, <1>5, <1>8, <1>9, <1>10 DEF InOrder

LEMMA OtherWrites ==
    ASSUME IInv, NEW o, NEW q, UNCHANGED conversation,
           \/ UpdateTeamMemberRole(q) /\ q.role \in TeamRole
           \/ RequestToJoinTeam(q) /\ q.by \in User /\ account[q.by] # "absent"
           \/ DeleteUser(q)
    PROVE  InOrder(o)
<1>1. Tables BY TypeParts DEF IInv
<1>2. CASE UpdateTeamMemberRole(q) /\ q.role \in TeamRole
  <2>1. PICK c \in TeamRole : teamRole' = [teamRole EXCEPT ![q.to] = c]
    BY <1>2 DEF UpdateTeamMemberRole
  <2>2. UNCHANGED <<account, parent, enterprise, subscription, invitation, joinRequest, conversation>>
    BY <1>2 DEF UpdateTeamMemberRole, billing
  <2>3. teamRole' \in [User -> TeamRole \cup {None}] BY <1>1, <2>1 DEF Tables
  <2>4. Tables' BY <1>1, <2>2, <2>3 DEF Tables
  <2>5. Grown BY <2>2 DEF Grown
  <2> QED BY <2>2, <2>4, <2>5 DEF InOrder
<1>3. CASE RequestToJoinTeam(q) /\ q.by \in User /\ account[q.by] # "absent"
  <2>1. joinRequest' = [joinRequest EXCEPT ![q.by][q.to] = "PENDING"] BY <1>3 DEF RequestToJoinTeam
  <2>2. UNCHANGED <<account, parent, teamRole, enterprise, subscription, invitation, conversation>>
    BY <1>3 DEF RequestToJoinTeam, users, billing
  <2>3. joinRequest[q.by] \in [User -> {None, "PENDING", "APPROVED", "REJECTED"}] BY <1>1, <1>3 DEF Tables
  <2>4. [joinRequest[q.by] EXCEPT ![q.to] = "PENDING"] \in [User -> {None, "PENDING", "APPROVED", "REJECTED"}]
    BY <2>3
  <2>5. joinRequest' = [joinRequest EXCEPT ![q.by] = [joinRequest[q.by] EXCEPT ![q.to] = "PENDING"]]
    BY <2>1
  <2>6. joinRequest' \in [User -> [User -> {None, "PENDING", "APPROVED", "REJECTED"}]]
    BY <1>1, <2>4, <2>5 DEF Tables
  <2>7. \A u \in User : u # q.by => joinRequest'[u] = joinRequest[u] BY <1>1, <2>5 DEF Tables
  <2>8. Tables' BY <1>1, <2>2, <2>6 DEF Tables
  <2>9. Grown BY <2>2 DEF Grown
  <2> QED BY <1>3, <2>2, <2>7, <2>8, <2>9 DEF InOrder
<1>4. CASE DeleteUser(q)
  <2>1. PICK W : W = Members(q.to) \cup {q.to} OBVIOUS
  <2>2. /\ Joins(W, None, None) /\ account' = [account EXCEPT ![q.to] = "deleted"]
        /\ enterprise' = [enterprise EXCEPT ![q.to] = FALSE]
        /\ subscription' = [subscription EXCEPT ![q.to] = None]
        /\ UNCHANGED <<invitation, joinRequest>>
    BY <1>4, <2>1 DEF DeleteUser, Leaves
  <2>3. /\ parent' \in [User -> User \cup {None}] /\ teamRole' \in [User -> TeamRole \cup {None}]
        /\ \A u \in User : parent'[u] = (IF u \in W THEN None ELSE parent[u])
    BY <1>1, <2>2, JoinsTypes
  <2>4. /\ account' \in [User -> {"absent", "live", "deleted", "gone"}]
        /\ \A u \in User : account'[u] = "absent" => account[u] = "absent"
    BY <1>1, <2>2 DEF Tables
  <2>5. Tables' BY <1>1, <2>2, <2>3, <2>4 DEF Tables
  <2>6. Grown BY <2>2, <2>4 DEF Grown
  <2> QED BY <2>2, <2>3, <2>4, <2>5, <2>6 DEF InOrder
<1> QED BY <1>2, <1>3, <1>4

LEMMA HardDeleteUserWrites ==
    ASSUME IInv, NEW o, NEW q, HardDeleteUser(q), LeavesConversations(q.to)
    PROVE  InOrder(o)
<1>1. Tables BY TypeParts DEF IInv
<1>2. account' = [account EXCEPT ![q.to] = "gone"] BY DEF HardDeleteUser
<1>3. /\ account' \in [User -> {"absent", "live", "deleted", "gone"}]
      /\ \A u \in User : account'[u] = "absent" => account[u] = "absent"
      /\ \A u \in User : account[u] # "absent" => account'[u] # "absent"
  BY <1>1, <1>2 DEF Tables
<1>4. /\ parent' \in [User -> User \cup {None}] /\ teamRole' \in [User -> TeamRole \cup {None}]
      /\ \A u \in User : parent'[u] \in {None, parent[u]}
  BY <1>1 DEF HardDeleteUser, Tables
<1>5. enterprise' \in [User -> BOOLEAN] /\ subscription' \in [User -> Live \cup {None}]
  BY <1>1 DEF HardDeleteUser, Tables
<1>6. ASSUME NEW i \in Invitation
      PROVE  /\ invitation'[i] \in [to : User \cup {None}, from : User \cup {None},
                                    role : TeamRole \cup {None},
                                    status : {None, "PENDING", "ACCEPTED", "gone"}, overdue : BOOLEAN]
             /\ invitation'[i].to = invitation[i].to /\ invitation'[i].from = invitation[i].from
             /\ invitation'[i].role = invitation[i].role
             /\ invitation[i].status # None => invitation'[i].status # None
             /\ invitation[i].status = None => invitation'[i].status = None
  <2>1. PICK x : x = invitation[i] OBVIOUS
  <2>2. x \in [to : User \cup {None}, from : User \cup {None}, role : TeamRole \cup {None},
               status : {None, "PENDING", "ACCEPTED", "gone"}, overdue : BOOLEAN]
    BY <1>1, <2>1 DEF Tables
  <2>3. CASE i \in SentBy(q.to)
    <3>1. invitation'[i] = [x EXCEPT !.status = "gone"] BY <2>1, <2>3 DEF HardDeleteUser
    <3>2. x.status # None BY <2>1, <2>3 DEF SentBy
    <3> QED BY <2>1, <2>2, <3>1, <3>2 DEF None
  <2>4. CASE i \notin SentBy(q.to)
    <3>1. invitation'[i] = x BY <2>1, <2>4 DEF HardDeleteUser
    <3> QED BY <2>1, <2>2, <3>1
  <2> QED BY <2>3, <2>4
<1>7. joinRequest' \in [User -> [User -> {None, "PENDING", "APPROVED", "REJECTED"}]]
  <2>1. ASSUME NEW u \in User
        PROVE  [p \in User |-> IF q.to \in {u, p} THEN None ELSE joinRequest[u][p]]
                  \in [User -> {None, "PENDING", "APPROVED", "REJECTED"}]
    <3>1. joinRequest[u] \in [User -> {None, "PENDING", "APPROVED", "REJECTED"}] BY <1>1 DEF Tables
    <3> QED BY <3>1
  <2>2. joinRequest' = [u \in User |-> [p \in User |->
                          IF q.to \in {u, p} THEN None ELSE joinRequest[u][p]]]
    BY DEF HardDeleteUser
  <2> QED BY <2>1, <2>2
<1>8. \A u \in User, p \in User : joinRequest'[u][p] = "PENDING" => joinRequest[u][p] = "PENDING"
  BY DEF HardDeleteUser, None
<1>9. conversation' \in [Request -> [owner : User \cup {None}, members : SUBSET User]]
  <2>1. ASSUME NEW g \in Request
        PROVE  [owner   |-> IF conversation[g].owner = q.to THEN None ELSE conversation[g].owner,
                members |-> conversation[g].members \ {q.to}]
                  \in [owner : User \cup {None}, members : SUBSET User]
    <3>1. conversation[g] \in [owner : User \cup {None}, members : SUBSET User] BY <1>1 DEF Tables
    <3>2. conversation[g].owner \in User \cup {None} /\ conversation[g].members \subseteq User
      BY <3>1
    <3> QED BY <3>2
  <2>2. conversation' = [g \in Request |->
           [owner   |-> IF conversation[g].owner = q.to THEN None ELSE conversation[g].owner,
            members |-> conversation[g].members \ {q.to}]]
    BY DEF LeavesConversations
  <2> QED BY <2>1, <2>2
<1>10. invitation' \in [Invitation -> [to : User \cup {None}, from : User \cup {None},
                                       role : TeamRole \cup {None},
                                       status : {None, "PENDING", "ACCEPTED", "gone"}, overdue : BOOLEAN]]
  <2>1. invitation' = [i \in Invitation |-> invitation'[i]] BY DEF HardDeleteUser
  <2> QED BY <1>6, <2>1
<1>11. Tables' BY <1>3, <1>4, <1>5, <1>7, <1>9, <1>10 DEF Tables
<1>12. Grown BY <1>3, <1>6 DEF Grown
<1> QED BY <1>3, <1>4, <1>6, <1>8, <1>11, <1>12 DEF InOrder

LEMMA WriteKeeps ==
    ASSUME IInv, NEW o \in Request, Write(o)
    PROVE  IInv'
<1>1. PICK q : q = req[o] OBVIOUS
<1>2. /\ Stage(o) = "write" /\ Proceed(o, req[o])
      /\ q.op # "hardDeleteUser" => UNCHANGED conversation
  BY <1>1 DEF Write
<1>3. /\ q \in RequestType /\ q.op \in Operation \ {"bulkDirectCreateMembers"}
      /\ q.op \in Managed => q.by \in User
      /\ q.op # "bulkApprove" => q.to \in User
  BY <1>1, <1>2, InHand
<1>4. /\ q.op \in {"directCreateMember", "inviteMember", "approveTeamMember", "bulkApprove",
                   "acceptInvitation", "removeTeamMember", "updateTeamMemberRole"} => q.root \in User
      /\ q.op \in {"directCreateMember", "inviteMember", "approveTeamMember", "acceptInvitation",
                   "updateTeamMemberRole"} => q.role \in TeamRole
  BY <1>1, <1>2, InHand
<1>5. /\ q.op = "directCreateMember" => (q.known => account[q.to] # "absent")
      /\ q.op \in {"approveTeamMember", "acceptInvitation"} => account[q.to] # "absent"
      /\ q.op = "bulkApprove" => \A u \in q.who : account[u] # "absent"
      /\ q.op = "requestToJoinTeam" => account[q.by] # "absent"
  BY <1>1, <1>2, InHand
<1>6. /\ q.op \in {"approveTeamMember", "acceptInvitation", "register"} /\ q.key # None =>
            q.key \in Invitation /\ invitation[q.key].status # None
      /\ q.op \in {"acceptInvitation", "register"} /\ q.key # None =>
            q.root \in User /\ q.role \in TeamRole
  BY <1>1, <1>2, InHand
<1>7. InOrder(o)
  <2>1. CASE q.op = "directCreateMember"
    <3>1. DirectCreateMember(q) BY <1>1, <2>1 DEF Write
    <3> QED BY <1>2, <1>3, <1>4, <1>5, <2>1, <3>1, DirectCreateMemberWrites
  <2>2. CASE q.op = "inviteMember"
    <3>1. InviteMember(o, q) BY <1>1, <2>2 DEF Write
    <3> QED BY <1>1, <1>2, <1>3, <1>4, <2>2, <3>1, InviteMemberWrites
  <2>3. CASE q.op = "approveTeamMember"
    <3>1. ApproveTeamMember(q) BY <1>1, <2>3 DEF Write
    <3> QED BY <1>2, <1>4, <1>5, <1>6, <2>3, <3>1, ApprovalWrites
  <2>4. CASE q.op = "bulkApprove"
    <3>1. BulkApprove(q) BY <1>1, <2>4 DEF Write
    <3> QED BY <1>2, <1>4, <1>5, <2>4, <3>1, ApprovalWrites
  <2>5. CASE q.op = "acceptInvitation"
    <3>1. AcceptInvitation(q) BY <1>1, <2>5 DEF Write
    <3> QED BY <1>2, <1>4, <1>5, <1>6, <2>5, <3>1, ApprovalWrites
  <2>6. CASE q.op = "rejectTeamMember"
    <3>1. RejectTeamMember(q) BY <1>1, <2>6 DEF Write
    <3> QED BY <1>2, <2>6, <3>1, LeavingWrites
  <2>7. CASE q.op = "removeTeamMember"
    <3>1. RemoveTeamMember(q) BY <1>1, <2>7 DEF Write
    <3> QED BY <1>2, <2>7, <3>1, LeavingWrites
  <2>8. CASE q.op = "updateTeamMemberRole"
    <3>1. UpdateTeamMemberRole(q) BY <1>1, <2>8 DEF Write
    <3> QED BY <1>2, <1>4, <2>8, <3>1, OtherWrites
  <2>9. CASE q.op = "requestToJoinTeam"
    <3>1. RequestToJoinTeam(q) BY <1>1, <2>9 DEF Write
    <3>2. q.by \in User BY <1>3, <2>9 DEF Managed
    <3> QED BY <1>2, <1>5, <2>9, <3>1, <3>2, OtherWrites
  <2>10. CASE q.op = "register"
    <3>1. RegisterUser(q) BY <1>1, <2>10 DEF Write
    <3> QED BY <1>2, <1>3, <1>6, <2>10, <3>1, RegisterUserWrites
  <2>11. CASE q.op = "deleteUser"
    <3>1. DeleteUser(q) BY <1>1, <2>11 DEF Write
    <3> QED BY <1>2, <2>11, <3>1, OtherWrites
  <2>12. CASE q.op = "hardDeleteUser"
    <3>1. HardDeleteUser(q) /\ LeavesConversations(q.to) BY <1>1, <2>12 DEF Write
    <3> QED BY <3>1, HardDeleteUserWrites
  <2> QED
    BY <1>3, <2>1, <2>2, <2>3, <2>4, <2>5, <2>6, <2>7, <2>8, <2>9, <2>10, <2>11, <2>12, Paths
<1> QED BY <1>2, <1>7, Wrote

----------------------------------------------------------------------------
(* The invariant. *)

LEMMA InitHolds ==
    ASSUME Init
    PROVE  IInv
<1>1. /\ req = [o \in Request |-> NoRequest] /\ at = [o \in Request |-> 0] BY DEF Init
<1>2. PICK i0 \in [to : Invited, from : Owner, role : Granted, status : {"PENDING"},
                   overdue : BOOLEAN] \cup {NoInvitation} :
        invitation = [k \in Invitation |-> IF k = Sent THEN i0 ELSE NoInvitation]
  BY DEF Init
<1>3. PICK r \in Owner, W \in SUBSET {u \in Candidate : account[u] = "live"} :
        joinRequest = [u \in User |-> [p \in User |-> IF u \in W /\ p = r THEN "PENDING" ELSE None]]
  BY DEF Init
<1>4. Owner \subseteq User /\ Invited \subseteq User /\ Granted \subseteq TeamRole
      /\ Subscribed \subseteq Live
  BY OwnerAssumption, CallerAssumption, RoleAssumption, SubscriptionAssumption DEF TeamRole, Live
<1>5. Tables
  <2>1. /\ account \in [User -> {"absent", "live", "deleted", "gone"}]
        /\ parent \in [User -> User \cup {None}]
        /\ teamRole \in [User -> TeamRole \cup {None}]
        /\ subscription \in [User -> Live \cup {None}]
    BY <1>4 DEF Init
  <2>2. enterprise \in [User -> BOOLEAN]
    <3>1. enterprise = [u \in User |-> subscription[u] \in LiveB2B] BY DEF Init
    <3>2. \A u \in User : (subscription[u] \in LiveB2B) \in BOOLEAN OBVIOUS
    <3> QED BY <3>1, <3>2, Zenon
  <2>3. /\ i0 \in [to : User \cup {None}, from : User \cup {None}, role : TeamRole \cup {None},
                   status : {None, "PENDING", "ACCEPTED", "gone"}, overdue : BOOLEAN]
        /\ NoInvitation \in [to : User \cup {None}, from : User \cup {None}, role : TeamRole \cup {None},
                             status : {None, "PENDING", "ACCEPTED", "gone"}, overdue : BOOLEAN]
    <3>1. CASE i0 = NoInvitation BY <3>1 DEF NoInvitation
    <3>2. CASE i0 \in [to : Invited, from : Owner, role : Granted, status : {"PENDING"}, overdue : BOOLEAN]
      BY <1>4, <3>2 DEF NoInvitation
    <3> QED BY <3>1, <3>2
  <2>4. invitation \in [Invitation -> [to : User \cup {None}, from : User \cup {None},
                                       role : TeamRole \cup {None},
                                       status : {None, "PENDING", "ACCEPTED", "gone"}, overdue : BOOLEAN]]
    BY <1>2, <2>3
  <2>5. joinRequest \in [User -> [User -> {None, "PENDING", "APPROVED", "REJECTED"}]] BY <1>3
  <2>6. conversation \in [Request -> [owner : User \cup {None}, members : SUBSET User]]
    <3>1. conversation = [g \in Request |-> [owner |-> None, members |-> {}]] BY DEF Init
    <3> QED BY <3>1
  <2> QED BY <2>1, <2>2, <2>4, <2>5, <2>6 DEF Tables
<1>6. Courses BY <1>1, NoRequestIs DEF Courses
<1>7. TypeOK BY <1>5, <1>6 DEF TypeOK, Tables, Courses
<1>8. Unknown
  <2>1. \A u \in User : parent[u] # None => account[u] = "live" BY DEF Init
  <2>2. ASSUME NEW u \in User, account[u] = "absent", NEW p \in User PROVE joinRequest[u][p] # "PENDING"
    BY <1>3, <2>2 DEF None
  <2> QED BY <2>1, <2>2 DEF Unknown
<1>9. Complete
  <2>1. SUFFICES ASSUME NEW i \in Invitation, invitation[i].status # None
        PROVE  /\ invitation[i].to \in User /\ invitation[i].from \in User
               /\ invitation[i].role \in TeamRole /\ i \notin Request
    BY DEF Complete
  <2>2. i = Sent /\ invitation[i] = i0 BY <1>2, <2>1 DEF NoInvitation
  <2>3. i0 # NoInvitation BY <2>1, <2>2 DEF NoInvitation
  <2> QED BY <1>2, <1>4, <2>2, <2>3, SentAssumption
<1>10. \A o \in Request : Knows(o) BY <1>1 DEF Knows
<1> QED BY <1>7, <1>8, <1>9, <1>10 DEF IInv

LEMMA Inductive ==
    ASSUME IInv, [Next]_vars
    PROVE  IInv'
<1>1. ASSUME NEW o \in Request, Step(o) PROVE IInv'
  BY <1>1, ReadWorkspaceKeeps, ReadCallerKeeps, ReadSeatsKeeps, ReadRequestsKeeps, ReadTargetKeeps,
     ReadInvitationKeeps, ReadPendingKeeps, TakeNextKeeps, DetachKeeps, WriteKeeps,
     FindConversationKeeps, ConverseKeeps, SkipKeeps, FailKeeps
  DEF Step
<1>2. ASSUME UNCHANGED vars PROVE IInv'
  <2>1. UNCHANGED <<account, parent, teamRole, enterprise, subscription, invitation, joinRequest,
                    conversation, req, at>>
    BY <1>2 DEF vars, users, billing
  <2>2. TypeOK' BY <2>1 DEF IInv, TypeOK
  <2>3. Unknown' /\ Complete' BY <2>1 DEF IInv, Unknown, Complete
  <2>4. ASSUME NEW x \in Request PROVE Knows(x)'
    <3>1. Courses /\ Knows(x) BY TypeParts DEF IInv
    <3>2. Same(x) /\ Grown BY <2>1, Unwritten DEF Same
    <3> QED BY <3>1, <3>2, OthersKnow
  <2> QED BY <2>2, <2>3, <2>4 DEF IInv
<1> QED BY <1>1, <1>2, CallManagerKeeps, CallUserKeeps DEF Next

\* The team service keeps its types and every request on its path, and at every step of it a
\* request knows what the stages behind it have taught.
THEOREM Always == Spec => []IInv
<1>1. Init => IInv BY InitHolds
<1>2. IInv /\ [Next]_vars => IInv' BY Inductive
<1> QED BY <1>1, <1>2, PTL DEF Spec

\* Every table of the team service keeps its type, and every request in flight is at a step of
\* the path of its operation.
THEOREM TypeCorrect == Spec => []TypeOK
<1>1. IInv => TypeOK BY DEF IInv
<1> QED BY <1>1, Always, PTL

----------------------------------------------------------------------------
(* What a write does to the teams. *)

LEMMA OnlyWritesMove ==
    ASSUME [Next]_vars
    PROVE  UNCHANGED <<parent, teamRole, invitation>> \/ \E o \in Request : Write(o)
<1>1. ASSUME NEW o \in Request, Step(o), ~Write(o) PROVE UNCHANGED <<users, invitation>>
  BY <1>1 DEF Step, ReadWorkspace, ReadCaller, ReadSeats, ReadRequests, ReadTarget, ReadInvitation,
              ReadPending, TakeNext, Detach, FindConversation, Converse, Skip, Fail, Read
<1>2. ASSUME NEW o \in Request, NEW u \in User, CallManager(o, u) \/ CallUser(o, u)
      PROVE  UNCHANGED <<users, invitation>>
  BY <1>2 DEF CallManager, CallUser, Arrive
<1> QED BY <1>1, <1>2 DEF Next, vars, users

\* A write is a step of its request.
LEMMA WriteMovesOn ==
    ASSUME IInv, NEW o \in Request, Write(o)
    PROVE  \A ops : req[o].op \in ops => Writes(o, ops)
<1>1. PICK q, n : q = req[o] /\ n = at[o] OBVIOUS
<1>2. Stage(o) = "write" /\ Proceed(o, req[o]) BY DEF Write
<1>3. at \in [Request -> Nat] /\ n # 0 /\ n \in Nat
  <2>1. at \in [Request -> Nat] BY DEF IInv, TypeOK
  <2> QED BY <1>1, <1>2, <2>1, Reading
<1>4. at'[o] # at[o]
  <2>1. CASE q.op \in {"directCreateMember", "bulkApprove"}
    <3>1. n = 4 /\ Len(Path[q.op]) = 6 BY <1>1, <1>2, <2>1, WritesLast
    <3>2. n # Len(Path[q.op]) BY <3>1
    <3>3. at' = [at EXCEPT ![o] = @ + 1] BY <1>1, <1>2, <3>2 DEF Proceed
    <3>4. at[o] = 4 /\ at'[o] = at[o] + 1 BY <1>1, <1>3, <3>1, <3>3
    <3> QED BY <3>4
  <2>2. CASE q.op \notin {"directCreateMember", "bulkApprove"}
    <3>1. n = Len(Path[q.op]) BY <1>1, <1>2, <2>2, WritesLast
    <3>2. Leave(o) BY <1>1, <1>2, <3>1 DEF Proceed
    <3>3. q.rest = {} BY <1>1, <1>2, <2>2, InHand
    <3>4. at' = [at EXCEPT ![o] = 0] BY <1>1, <3>2, <3>3 DEF Leave
    <3> QED BY <1>1, <1>3, <3>4
  <2> QED BY <2>1, <2>2
<1> QED BY <1>2, <1>4 DEF Writes

Admission == {"directCreateMember", "approveTeamMember", "bulkApprove", "acceptInvitation", "register"}

\* Of the members and their roles, a write sets a role, lets members go, or admits some of those
\* it is about to the team it has looked up; a deletion for good leaves a role to the members
\* that it has not detached.
LEMMA Moves ==
    ASSUME IInv, NEW o \in Request, NEW q, q = req[o], Write(o)
    PROVE  \/ /\ q.op = "updateTeamMemberRole" /\ parent' = parent
              /\ teamRole' = [teamRole EXCEPT ![q.to] = q.role]
           \/ \E W : \A u \in User : /\ parent'[u] = (IF u \in W THEN None ELSE parent[u])
                                     /\ teamRole'[u] = (IF u \in W THEN None ELSE teamRole[u])
           \/ /\ q.op \in Admission /\ q.root \in User
              /\ q.op = "register" => account[q.to] = "absent"
              /\ \E c \in TeamRole, W \in SUBSET Joiners(q) : \A u \in User :
                    /\ parent'[u] = (IF u \in W THEN q.root ELSE parent[u])
                    /\ teamRole'[u] = (IF u \in W THEN c ELSE teamRole[u])
           \/ /\ q.op = "hardDeleteUser"
              /\ \A u \in User :
                    \/ parent'[u] = None /\ teamRole'[u] = None
                    \/ parent'[u] = parent[u] /\ teamRole'[u] = teamRole[u]
                    \/ parent[u] = q.to /\ u \notin q.who /\ parent'[u] = None
<1>1. Stage(o) = "write" BY DEF Write
<1>2. /\ q.op \in Operation \ {"bulkDirectCreateMembers"}
      /\ q.op \in {"directCreateMember", "approveTeamMember", "bulkApprove",
                   "acceptInvitation"} => q.root \in User
      /\ q.op \in {"directCreateMember", "approveTeamMember", "acceptInvitation"} => q.role \in TeamRole
      /\ q.op = "register" /\ q.key # None => q.root \in User /\ q.role \in TeamRole
  BY <1>1, InHand
<1>3. ASSUME NEW W, NEW r \in User \cup {None}, NEW c \in TeamRole \cup {None}, Joins(W, r, c)
      PROVE  \A u \in User : /\ parent'[u] = (IF u \in W THEN r ELSE parent[u])
                             /\ teamRole'[u] = (IF u \in W THEN c ELSE teamRole[u])
  BY <1>3 DEF Joins
<1>4. ASSUME NEW W, Leaves(W)
      PROVE  \E V : \A u \in User : /\ parent'[u] = (IF u \in V THEN None ELSE parent[u])
                                    /\ teamRole'[u] = (IF u \in V THEN None ELSE teamRole[u])
  BY <1>3, <1>4 DEF Leaves
<1>5. ASSUME UNCHANGED <<parent, teamRole>>
      PROVE  \E V : \A u \in User : /\ parent'[u] = (IF u \in V THEN None ELSE parent[u])
                                    /\ teamRole'[u] = (IF u \in V THEN None ELSE teamRole[u])
  <2>1. PICK V : V = {} OBVIOUS
  <2>2. \A u \in User : /\ parent'[u] = (IF u \in V THEN None ELSE parent[u])
                        /\ teamRole'[u] = (IF u \in V THEN None ELSE teamRole[u])
    BY <1>5, <2>1
  <2> QED BY <2>2
<1>6. CASE q.op = "updateTeamMemberRole"
  <2>1. UpdateTeamMemberRole(q) BY <1>6 DEF Write
  <2> QED BY <1>6, <2>1 DEF UpdateTeamMemberRole
<1>7. CASE q.op \in {"inviteMember", "requestToJoinTeam"}
  <2>1. InviteMember(o, q) \/ RequestToJoinTeam(q) BY <1>7 DEF Write
  <2>2. UNCHANGED <<parent, teamRole>> BY <2>1 DEF InviteMember, RequestToJoinTeam, users
  <2> QED BY <1>5, <2>2
<1>8. CASE q.op \in {"rejectTeamMember", "removeTeamMember", "deleteUser"}
  <2>1. RejectTeamMember(q) \/ RemoveTeamMember(q) \/ DeleteUser(q) BY <1>8 DEF Write
  <2>2. (\E W : Leaves(W)) \/ UNCHANGED <<parent, teamRole>>
    BY <2>1 DEF RejectTeamMember, RemoveTeamMember, DeleteUser
  <2> QED BY <1>4, <1>5, <2>2
<1>9. CASE q.op \in {"directCreateMember", "approveTeamMember", "acceptInvitation"}
  <2>1. DirectCreateMember(q) \/ ApproveTeamMember(q) \/ AcceptInvitation(q) BY <1>9 DEF Write
  <2>2. Joins({q.to}, q.root, q.role) BY <2>1 DEF DirectCreateMember, ApproveTeamMember, AcceptInvitation
  <2>3. {q.to} \in SUBSET Joiners(q) /\ q.op \in Admission /\ q.op # "register"
    BY <1>9 DEF Joiners, Admission
  <2>4. PICK r, c, W : r = q.root /\ c = q.role /\ W = {q.to} OBVIOUS
  <2>5. r \in User /\ c \in TeamRole BY <1>2, <1>9, <2>4
  <2>6. Joins(W, r, c) BY <2>2, <2>4
  <2>7. \A u \in User : /\ parent'[u] = (IF u \in W THEN r ELSE parent[u])
                        /\ teamRole'[u] = (IF u \in W THEN c ELSE teamRole[u])
    BY <1>3, <2>5, <2>6
  <2> QED BY <2>3, <2>4, <2>5, <2>7
<1>10. CASE q.op = "bulkApprove"
  <2>1. BulkApprove(q) BY <1>10 DEF Write
  <2>2. PICK W : W = {u \in q.who : Kept(u)} /\ Joins(W, q.root, "MEMBER") BY <2>1 DEF BulkApprove
  <2>3. W \in SUBSET Joiners(q) /\ q.op \in Admission /\ q.op # "register"
    BY <1>10, <2>2 DEF Joiners, Admission
  <2>4. PICK r, c : r = q.root /\ c = "MEMBER" OBVIOUS
  <2>5. r \in User /\ c \in TeamRole BY <1>2, <1>10, <2>4 DEF TeamRole
  <2>6. Joins(W, r, c) BY <2>2, <2>4
  <2>7. \A u \in User : /\ parent'[u] = (IF u \in W THEN r ELSE parent[u])
                        /\ teamRole'[u] = (IF u \in W THEN c ELSE teamRole[u])
    BY <1>3, <2>5, <2>6
  <2> QED BY <2>3, <2>4, <2>5, <2>7
<1>11. CASE q.op = "register"
  <2>1. RegisterUser(q) BY <1>11 DEF Write
  <2>2. CASE q.key = None
    <3>1. UNCHANGED <<parent, teamRole>> BY <2>1, <2>2 DEF RegisterUser
    <3> QED BY <1>5, <3>1
  <2>3. CASE q.key # None
    <3>1. account[q.to] = "absent" /\ Joins({q.to}, q.root, q.role) BY <2>1, <2>3 DEF RegisterUser
    <3>2. Joiners(q) = {q.to} /\ q.op \in Admission BY <1>11 DEF Joiners, Admission
    <3>3. q.root \in User /\ q.role \in TeamRole BY <1>2, <1>11, <2>3
    <3> QED BY <1>3, <3>1, <3>2, <3>3
  <2> QED BY <2>2, <2>3
<1>12. CASE q.op = "hardDeleteUser"
  <2>1. HardDeleteUser(q) BY <1>12 DEF Write
  <2> QED BY <1>12, <2>1 DEF HardDeleteUser
<1> QED BY <1>2, <1>6, <1>7, <1>8, <1>9, <1>10, <1>11, <1>12, Paths

----------------------------------------------------------------------------
(* The properties. *)

LEMMA CountOfMembers == \A r : IsFiniteSet(Members(r)) /\ Cardinality(Members(r)) \in Nat
<1>1. SUFFICES ASSUME NEW r PROVE IsFiniteSet(Members(r)) /\ Cardinality(Members(r)) \in Nat OBVIOUS
<1>2. IsFiniteSet(Members(r)) BY SeatsAssumption, FS_Subset DEF Members
<1> QED BY <1>2, FS_CardinalityType

\* An admission whose count is still right leaves the team within its seats.
LEMMA AdmissionFits ==
    ASSUME IInv, NEW o \in Request, NEW q, q = req[o], Write(o), q.op \in Admission, q.op # "register",
           q.free = SeatsLeft(q.root), Members(q.root)' \subseteq Members(q.root) \cup Joiners(q)
    PROVE  Cardinality(Members(q.root)') <= Seats
<1>1. Stage(o) = "write" BY DEF Write
<1>2. /\ q \in RequestType
      /\ q.op \in {"directCreateMember", "approveTeamMember", "bulkApprove",
                   "acceptInvitation"} => q.free # 0
      /\ q.op = "bulkApprove" => Cardinality(q.who) <= q.free
      /\ q.op # "bulkApprove" => q.to \in User
  BY <1>1, InHand
<1>3. PICK M, N, J, f : /\ M = Members(q.root) /\ N = Members(q.root)' /\ J = Joiners(q) /\ f = q.free
  OBVIOUS
<1>4. f \in Nat /\ f # 0
  <2>1. f \in Nat BY <1>2, <1>3 DEF RequestType
  <2> QED BY <1>2, <1>3, <2>1 DEF Admission
<1>5. IsFiniteSet(J) /\ Cardinality(J) \in Nat /\ Cardinality(J) <= f
  <2>1. CASE q.op = "bulkApprove"
    <3>1. J = q.who /\ J \subseteq User BY <1>2, <1>3, <2>1 DEF Joiners, RequestType
    <3>2. IsFiniteSet(J) BY <3>1, SeatsAssumption, FS_Subset
    <3> QED BY <1>2, <1>3, <2>1, <3>1, <3>2, FS_CardinalityType
  <2>2. CASE q.op # "bulkApprove"
    <3>1. J = {q.to} BY <1>3, <2>2 DEF Joiners
    <3>2. IsFiniteSet(J) /\ Cardinality(J) = 1 BY <3>1, FS_Singleton
    <3> QED BY <1>4, <3>2
  <2> QED BY <2>1, <2>2
<1>6. IsFiniteSet(M) /\ Cardinality(M) \in Nat BY <1>3, CountOfMembers
<1>7. /\ IsFiniteSet(M \cup J) /\ Cardinality(M \cup J) \in Nat
      /\ Cardinality(M \cup J) <= Cardinality(M) + Cardinality(J)
  <2>1. /\ IsFiniteSet(M \cup J) /\ IsFiniteSet(M \cap J)
        /\ Cardinality(M \cup J) = Cardinality(M) + Cardinality(J) - Cardinality(M \cap J)
    BY <1>5, <1>6, FS_Union, FS_Intersection
  <2>2. Cardinality(M \cap J) \in Nat /\ Cardinality(M \cup J) \in Nat BY <2>1, FS_CardinalityType
  <2> QED BY <1>5, <1>6, <2>1, <2>2
<1>8. IsFiniteSet(N) /\ Cardinality(N) \in Nat /\ Cardinality(N) <= Cardinality(M \cup J)
  <2>1. N \subseteq M \cup J BY <1>3
  <2> QED BY <1>7, <2>1, FS_Subset, FS_CardinalityType
<1>9. Cardinality(M) + f = Seats
  <2>1. f = (IF Cardinality(M) < Seats THEN Seats - Cardinality(M) ELSE 0) BY <1>3 DEF SeatsLeft
  <2> QED BY <1>4, <1>6, <2>1, SeatsAssumption
<1>10. Cardinality(N) <= Seats BY <1>4, <1>5, <1>6, <1>7, <1>8, <1>9, SeatsAssumption
<1> QED BY <1>3, <1>10

\* However many requests count seats at once, a team outgrows them only through a registration,
\* or through a request whose count has gone stale between its reading and its writing.
THEOREM OversellingIsStale == Spec => OnlyStaleCountsOversell
<1> DEFINE A == \A r \in User :
                  Grows(r) /\ Cardinality(Members(r)') > Seats =>
                     \E o \in Request : \/ Writes(o, {"register"})
                                        \/ Writes(o, Operation) /\ req[o].free # SeatsLeft(r)
<1>1. IInv /\ [Next]_vars => A
  <2> SUFFICES ASSUME IInv, [Next]_vars, NEW r \in User, Grows(r), Cardinality(Members(r)') > Seats
               PROVE  \E o \in Request : \/ Writes(o, {"register"})
                                         \/ Writes(o, Operation) /\ req[o].free # SeatsLeft(r)
    OBVIOUS
  <2>1. ~(Members(r)' \subseteq Members(r))
    <3>1. PICK M, N : M = Members(r) /\ N = Members(r)' OBVIOUS
    <3>2. IsFiniteSet(M) /\ Cardinality(M) \in Nat BY <3>1, CountOfMembers
    <3>3. Cardinality(N) > Cardinality(M) BY <3>1 DEF Grows
    <3>4. ASSUME N \subseteq M PROVE FALSE
      <4>1. IsFiniteSet(N) /\ Cardinality(N) <= Cardinality(M) BY <3>2, <3>4, FS_Subset
      <4>2. Cardinality(N) \in Nat BY <4>1, FS_CardinalityType
      <4> QED BY <3>2, <3>3, <4>1, <4>2
    <3> QED BY <3>1, <3>4
  <2>2. PICK u \in User : parent'[u] = r /\ parent[u] # r BY <2>1 DEF Members
  <2>3. PICK o \in Request : Write(o) BY <2>2, OnlyWritesMove
  <2>4. PICK q : q = req[o] OBVIOUS
  <2>5. r # None BY OwnerAssumption DEF None
  <2>6. /\ q.op \in Admission
        /\ \E W \in SUBSET Joiners(q) :
              \A x \in User : parent'[x] = (IF x \in W THEN q.root ELSE parent[x])
    BY <2>2, <2>3, <2>4, <2>5, Moves
  <2>7. q.root = r BY <2>2, <2>6
  <2>8. CASE q.op = "register" BY <2>3, <2>4, <2>8, WriteMovesOn
  <2>9. CASE q.op # "register"
    <3>1. Writes(o, Operation)
      <4>1. q.op \in Operation BY <2>6, Paths DEF Admission
      <4> QED BY <2>3, <2>4, <4>1, WriteMovesOn
    <3>2. Members(q.root)' \subseteq Members(q.root) \cup Joiners(q) BY <2>6 DEF Members
    <3>3. ASSUME q.free = SeatsLeft(r) PROVE FALSE
      <4>1. Cardinality(Members(q.root)') <= Seats
        BY <2>3, <2>4, <2>6, <2>7, <2>9, <3>2, <3>3, AdmissionFits
      <4>2. IsFiniteSet(Members(r)')
        <5>1. Members(r)' \subseteq User BY DEF Members
        <5> QED BY <5>1, SeatsAssumption, FS_Subset
      <4>3. Cardinality(Members(r)') \in Nat BY <4>2, FS_CardinalityType
      <4> QED BY <2>7, <4>1, <4>3, SeatsAssumption
    <3> QED BY <2>4, <3>1, <3>3
  <2> QED BY <2>8, <2>9
<1>2. IInv /\ [Next]_vars => [A]_vars BY <1>1
<1> QED BY <1>2, Always, PTL DEF Spec, OnlyStaleCountsOversell

\* A team role and a team come and go together in every step but two that come too late for
\* what they have read: the update of the role of a member that has left, and the deletion for
\* good of an owner that a member has joined.
THEOREM UnpairingIsARace == Spec => OnlyRacesUnpair
<1> DEFINE Raced(u) == \E o \in Request :
                          \/ /\ Writes(o, {"updateTeamMemberRole"})
                             /\ req[o].to = u /\ parent[u] # req[o].root
                          \/ /\ Writes(o, {"hardDeleteUser"})
                             /\ req[o].to = parent[u] /\ u \notin req[o].who
           A == \A u \in User : Paired(u) /\ ~Paired(u)' => Raced(u)
<1>1. IInv /\ [Next]_vars => A
  <2> SUFFICES ASSUME IInv, [Next]_vars, NEW u \in User, Paired(u), ~Paired(u)'
               PROVE  Raced(u)
    OBVIOUS
  <2>1. PICK o \in Request : Write(o) BY OnlyWritesMove DEF Paired
  <2>2. PICK q : q = req[o] OBVIOUS
  <2>3. None \notin User /\ None \notin TeamRole BY OwnerAssumption DEF None, TeamRole
  <2>4. CASE /\ q.op = "updateTeamMemberRole" /\ parent' = parent
             /\ teamRole' = [teamRole EXCEPT ![q.to] = q.role]
    <3>1. Writes(o, {"updateTeamMemberRole"}) BY <2>1, <2>2, <2>4, WriteMovesOn
    <3>2. q.root \in User /\ q.to \in User /\ q.role \in TeamRole
      <4>1. Stage(o) = "write" BY <2>1 DEF Write
      <4> QED BY <2>2, <2>4, <4>1, InHand
    <3>3. teamRole \in [User -> TeamRole \cup {None}] BY DEF IInv, TypeOK
    <3>4. u = q.to BY <2>4, <3>3 DEF Paired
    <3>5. ASSUME parent[u] = q.root PROVE FALSE
      <4>1. teamRole'[u] # None /\ parent'[u] # None BY <2>3, <2>4, <3>2, <3>3, <3>4, <3>5
      <4> QED BY <4>1 DEF Paired
    <3> QED BY <2>2, <3>1, <3>4, <3>5
  <2>5. CASE \E W : \A x \in User : /\ parent'[x] = (IF x \in W THEN None ELSE parent[x])
                                    /\ teamRole'[x] = (IF x \in W THEN None ELSE teamRole[x])
    BY <2>5 DEF Paired
  <2>6. CASE q.root \in User /\ \E c \in TeamRole, W \in SUBSET Joiners(q) : \A x \in User :
                /\ parent'[x] = (IF x \in W THEN q.root ELSE parent[x])
                /\ teamRole'[x] = (IF x \in W THEN c ELSE teamRole[x])
    BY <2>3, <2>6 DEF Paired
  <2>7. CASE /\ q.op = "hardDeleteUser"
             /\ \A x \in User : \/ parent'[x] = None /\ teamRole'[x] = None
                                \/ parent'[x] = parent[x] /\ teamRole'[x] = teamRole[x]
                                \/ parent[x] = q.to /\ x \notin q.who /\ parent'[x] = None
    <3>1. Writes(o, {"hardDeleteUser"}) BY <2>1, <2>2, <2>7, WriteMovesOn
    <3>2. parent[u] = q.to /\ u \notin q.who BY <2>7 DEF Paired
    <3> QED BY <2>2, <3>1, <3>2
  <2>8. \/ /\ q.op = "updateTeamMemberRole" /\ parent' = parent
           /\ teamRole' = [teamRole EXCEPT ![q.to] = q.role]
        \/ \E W : \A x \in User : /\ parent'[x] = (IF x \in W THEN None ELSE parent[x])
                                  /\ teamRole'[x] = (IF x \in W THEN None ELSE teamRole[x])
        \/ q.root \in User /\ \E c \in TeamRole, W \in SUBSET Joiners(q) : \A x \in User :
              /\ parent'[x] = (IF x \in W THEN q.root ELSE parent[x])
              /\ teamRole'[x] = (IF x \in W THEN c ELSE teamRole[x])
        \/ /\ q.op = "hardDeleteUser"
           /\ \A x \in User : \/ parent'[x] = None /\ teamRole'[x] = None
                              \/ parent'[x] = parent[x] /\ teamRole'[x] = teamRole[x]
                              \/ parent[x] = q.to /\ x \notin q.who /\ parent'[x] = None
    BY <2>1, <2>2, Moves
  <2> QED BY <2>4, <2>5, <2>6, <2>7, <2>8
<1>2. IInv /\ [Next]_vars => [A]_vars BY <1>1
<1> QED BY <1>2, Always, PTL DEF Spec, OnlyRacesUnpair

\* A member passes from one team straight into another by an acceptance or an approval, and
\* otherwise only by a direct creation whose reading of the member is out of date.
THEOREM MembersStay == Spec => MembersAreNotTaken
<1> DEFINE A == \A u \in User :
                  parent[u] # None /\ parent'[u] \notin {None, parent[u]} =>
                     \E o \in Request :
                        \/ Writes(o, {"acceptInvitation", "approveTeamMember", "bulkApprove"})
                        \/ Writes(o, {"directCreateMember"}) /\ req[o].parent # parent[u]
<1>1. IInv /\ [Next]_vars => A
  <2> SUFFICES ASSUME IInv, [Next]_vars, NEW u \in User, parent[u] # None,
                      parent'[u] \notin {None, parent[u]}
               PROVE  \E o \in Request :
                         \/ Writes(o, {"acceptInvitation", "approveTeamMember", "bulkApprove"})
                         \/ Writes(o, {"directCreateMember"}) /\ req[o].parent # parent[u]
    OBVIOUS
  <2>1. PICK o \in Request : Write(o) BY OnlyWritesMove
  <2>2. PICK q : q = req[o] OBVIOUS
  <2>3. /\ q.op \in Admission /\ (q.op = "register" => account[q.to] = "absent")
        /\ \E W \in SUBSET Joiners(q) : parent'[u] = (IF u \in W THEN q.root ELSE parent[u])
    BY <2>1, <2>2, Moves
  <2>4. u \in Joiners(q) /\ q.root # parent[u] BY <2>3
  <2>5. CASE q.op \in {"acceptInvitation", "approveTeamMember", "bulkApprove"}
    BY <2>1, <2>2, <2>5, WriteMovesOn
  <2>6. CASE q.op = "directCreateMember"
    <3>1. Stage(o) = "write" BY <2>1 DEF Write
    <3>2. q.parent \in {None, q.root} BY <2>2, <2>6, <3>1, InHand
    <3>3. Writes(o, {"directCreateMember"}) BY <2>1, <2>2, <2>6, WriteMovesOn
    <3> QED BY <2>2, <2>4, <3>2, <3>3
  <2>7. CASE q.op = "register"
    <3>1. u = q.to BY <2>4, <2>7 DEF Joiners
    <3> QED BY <2>3, <2>7, <3>1 DEF IInv, Unknown
  <2> QED BY <2>3, <2>5, <2>6, <2>7 DEF Admission
<1>2. IInv /\ [Next]_vars => [A]_vars BY <1>1
<1> QED BY <1>2, Always, PTL DEF Spec, MembersAreNotTaken

\* A step that closes an invitation puts its addressee into the team that sent it, unless it is
\* an approval, or deletes the sender for good and the invitation with it.
THEOREM InvitationsLead == Spec => InvitationsLeadToTheirTeam
<1> DEFINE A == \A i \in Invitation :
                  Open(i) /\ ~Open(i)' =>
                     \/ parent'[invitation[i].to] = invitation[i].from
                     \/ \E o \in Request :
                           \/ Writes(o, {"approveTeamMember", "bulkApprove"})
                           \/ Writes(o, {"hardDeleteUser"}) /\ req[o].to = invitation[i].from
<1>1. IInv /\ [Next]_vars => A
  <2> SUFFICES ASSUME IInv, [Next]_vars, NEW i \in Invitation, Open(i), ~Open(i)'
               PROVE  \/ parent'[invitation[i].to] = invitation[i].from
                      \/ \E o \in Request :
                            \/ Writes(o, {"approveTeamMember", "bulkApprove"})
                            \/ Writes(o, {"hardDeleteUser"}) /\ req[o].to = invitation[i].from
    OBVIOUS
  <2>1. PICK o \in Request : Write(o) BY OnlyWritesMove DEF Open
  <2>2. PICK q : q = req[o] OBVIOUS
  <2>3. Stage(o) = "write" BY <2>1 DEF Write
  <2>4. /\ q.op \in Operation \ {"bulkDirectCreateMembers"}
        /\ q.op # "bulkApprove" => q.to \in User
    BY <2>2, <2>3, InHand
  <2>5. /\ q.op = "acceptInvitation" => q.key # None
        /\ q.op \in {"acceptInvitation", "register"} /\ q.key # None =>
              q.to = invitation[q.key].to /\ q.root = invitation[q.key].from
    BY <2>2, <2>3, InHand
  <2>6. Tables BY TypeParts DEF IInv
  <2>7. CASE q.op \in {"approveTeamMember", "bulkApprove"} BY <2>1, <2>2, <2>7, WriteMovesOn
  <2>8. CASE q.op \in {"acceptInvitation", "register"}
    <3>1. AcceptInvitation(q) \/ RegisterUser(q) BY <2>1, <2>2, <2>8 DEF Write
    <3>2. Accepts({q.key}) BY <3>1 DEF AcceptInvitation, RegisterUser
    <3>3. i = q.key
      <4>1. ASSUME i # q.key PROVE FALSE
        <5>1. invitation'[i] = invitation[i] BY <3>2, <4>1 DEF Accepts
        <5> QED BY <5>1 DEF Open
      <4> QED BY <4>1
    <3>4. q.key # None BY <3>3, SentAssumption DEF Invitation, None
    <3>5. Joins({q.to}, q.root, q.role) BY <3>1, <3>4 DEF AcceptInvitation, RegisterUser
    <3>6. q.to \in User BY <2>4, <2>8
    <3>7. parent'[q.to] = q.root BY <3>5, <3>6 DEF Joins
    <3> QED BY <2>5, <2>8, <3>3, <3>4, <3>7
  <2>9. CASE q.op = "inviteMember"
    <3>1. InviteMember(o, q) BY <2>1, <2>2, <2>9 DEF Write
    <3>2. PICK x : invitation' = [invitation EXCEPT ![o] = x] /\ x.status = "PENDING"
      <4>1. PICK x : x = [to |-> q.to, from |-> q.root, role |-> q.role, status |-> "PENDING",
                          overdue |-> FALSE]
        OBVIOUS
      <4>2. invitation' = [invitation EXCEPT ![o] = x] BY <3>1, <4>1 DEF InviteMember
      <4>3. x.status = "PENDING" BY <4>1
      <4> QED BY <4>2, <4>3
    <3>3. invitation'[i] = x \/ invitation'[i] = invitation[i] BY <2>6, <3>2 DEF Tables
    <3> QED BY <3>2, <3>3 DEF Open
  <2>10. CASE q.op \in {"directCreateMember", "rejectTeamMember", "removeTeamMember",
                        "updateTeamMemberRole", "requestToJoinTeam", "deleteUser"}
    <3>1. \/ DirectCreateMember(q) \/ RejectTeamMember(q) \/ RemoveTeamMember(q)
          \/ UpdateTeamMemberRole(q) \/ RequestToJoinTeam(q) \/ DeleteUser(q)
      BY <2>1, <2>2, <2>10 DEF Write
    <3>2. UNCHANGED invitation
      BY <3>1 DEF DirectCreateMember, RejectTeamMember, RemoveTeamMember, UpdateTeamMemberRole,
                  RequestToJoinTeam, DeleteUser
    <3> QED BY <3>2 DEF Open
  <2>11. CASE q.op = "hardDeleteUser"
    <3>1. HardDeleteUser(q) BY <2>1, <2>2, <2>11 DEF Write
    <3>2. i \in SentBy(q.to)
      <4>1. ASSUME i \notin SentBy(q.to) PROVE FALSE
        <5>1. invitation'[i] = invitation[i] BY <3>1, <4>1 DEF HardDeleteUser
        <5> QED BY <5>1 DEF Open
      <4> QED BY <4>1
    <3>3. Writes(o, {"hardDeleteUser"}) BY <2>1, <2>2, <2>11, WriteMovesOn
    <3> QED BY <2>2, <3>2, <3>3 DEF SentBy
  <2> QED BY <2>4, <2>7, <2>8, <2>9, <2>10, <2>11, Paths
<1>2. IInv /\ [Next]_vars => [A]_vars BY <1>1
<1> QED BY <1>2, Always, PTL DEF Spec, InvitationsLeadToTheirTeam

=============================================================================
