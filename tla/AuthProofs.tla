------------------------------- MODULE AuthProofs -------------------------------
(* Proofs about who is let in, for any number of requests: Sessions, which
   sessions survive what should end them and what can be used twice, and then
   Maintenance, the guard in front of the routes.

   What a request does late it decided early, so each proof relates what a request
   has read to what those have done that it overlapped (`met`) or came after
   (`before`), and a cached row to when the row was last written.            *)
EXTENDS Sessions, Maintenance, SequenceTheorems, TLAPS

USE DEF account

\* Which steps a kind of request passes through.
StepsOf(op) ==
    CASE op = "login"             -> {"save"}
      [] op = "handleGoogleCallback" -> {"link", "save"}
      [] op = "refreshToken"      -> {"check", "revoke", "save"}
      [] op = "forgotPassword"    -> {"create", "mail"}
      [] op = "resetPassword"     -> {"reset"}
      [] op = "verifyEmailOtp"    -> {"verify"}
      [] op = "toggleSuspendUser" -> {"toggle"}
      [] op = "update"            -> {"update"}
      [] op \in {"deleteUser", "hardDeleteUser"} -> {"delete"}
      [] OTHER                    -> {}

\* What a request was asked for, and which row it has found.
Asked ==
    \A o \in Request :
        /\ at[o] = "new" => req[o] = NoCall
        /\ o \in InFlight => at[o] \in StepsOf(req[o].op)
        /\ req[o].op # "refreshToken" => req[o].session = None
        /\ req[o].session \in Request => at[req[o].session] = "done"
        /\ req[o].code \in Request => at[req[o].code] \notin {"new", "create"}
        /\ at[o] \in {"link", "update"} => req[o].status \in UserStatus

\* The rows: a session has its own key, and both are there once their request has written them.
Rows ==
    /\ \A i, j \in DOMAIN sessions : sessions[i].by = sessions[j].by => i = j
    /\ \A i \in DOMAIN sessions : sessions[i].by \in Request => at[sessions[i].by] = "done"
    /\ \A i \in DOMAIN codes : codes[i].by \in Request => at[codes[i].by] \notin {"new", "create"}

\* Overlapping is mutual, all in flight overlap, and who is done came before or overlapped them.
History ==
    /\ \A o, x \in Request : x \in met[o] => o \in met[x]
    /\ \A o \in Request : at[o] = "new" => met[o] = {}
    /\ \A o, x \in InFlight : o # x => x \in met[o]
    /\ \A o \in InFlight : \A r \in Done : r \in before[o] \/ r \in met[o]

\* A refresh that has revoked its session, and may have saved the next one.
Refreshed(o) == req[o].op = "refreshToken" /\ at[o] \in {"save", "done"}

\* What a request has used up stays used...
Spent ==
    /\ \A o \in Request : Refreshed(o) =>
          \A i \in DOMAIN sessions : sessions[i].by = req[o].session => ~sessions[i].live
    /\ \A o \in Done : UsesCode(o) =>
          \A i \in DOMAIN codes : codes[i].by = req[o].code => ~codes[i].open

\* ...so that another that has found the same was there at the same time.
Shared ==
    /\ \A a, b \in Request :
          a # b /\ Refreshed(a) /\ req[b].op = "refreshToken" /\ at[b] # "failed"
             => (req[a].session = req[b].session => b \in met[a])
    /\ \A a, b \in Request :
          a # b /\ UsesCode(a) /\ at[a] = "done" /\ UsesCode(b) /\ at[b] # "failed"
             => (req[a].code = req[b].code => b \in met[a])

\* What the account is now was written by somebody who overlapped request o.
Overtaken(o) == \E d \in met[o] : wrote[d] = status

\* The account is still as request o has found it, or still lets it in.
Stands(o) ==
    IF at[o] \in {"toggle", "link"} THEN req[o].status = status ELSE status \in Admits(req[o].op)

\* Who relies on what the account was when it was read is right, or was overtaken.
Informed ==
    \A o \in Request :
        at[o] \in {"revoke", "save", "toggle", "link"} => Stands(o) \/ Overtaken(o)

IInv ==
    /\ TypeOK
    /\ Asked
    /\ Rows
    /\ History
    /\ Spent
    /\ Shared
    /\ Informed
    /\ OnlyLateSavesOutlive

----------------------------------------------------------------------------
(* What the steps have in common. *)

\* Rows are lost, revoked or closed, and nothing else.
Falls(s, t) ==
    /\ DOMAIN t \subseteq DOMAIN s
    /\ \A i \in DOMAIN t : t[i].by = s[i].by /\ (t[i].live => s[i].live)

Closes(c, d) ==
    /\ DOMAIN d \subseteq DOMAIN c
    /\ \A i \in DOMAIN d : d[i].by = c[i].by /\ (d[i].open => c[i].open)

\* Request o has added one row.
Grows(o, s, t) ==
    \E n : /\ n \notin DOMAIN s /\ DOMAIN t = DOMAIN s \cup {n}
           /\ t[n].by = o
           /\ \A i \in DOMAIN s : t[i] = s[i]

Calling == [op : Operations \cup {None}, session : Key \cup {None}, code : Key \cup {Letter, None},
            status : UserStatus \cup {None}]

\* q, as a request has it that has just passed its first checks.
Sound(q, step) ==
    /\ step \in StepsOf(q.op)
    /\ q \in Calling /\ q.op # None
    /\ IF q.op = "refreshToken" THEN \E i \in Live : q.session = sessions[i].by
                                ELSE q.session = None
    /\ IF q.op \in {"resetPassword", "verifyEmailOtp"} THEN \E i \in Open : q.code = codes[i].by
                                 ELSE q.code = None
    /\ q.op = "refreshToken" => step = "check"
    /\ step \in {"save", "revoke"} => status \in Admits(q.op)
    /\ step \in {"toggle", "link"} => q.status = status
    /\ step \in {"link", "update"} => q.status \in UserStatus

Arrival(o) == \E q, step : Arrive(o, q, step) /\ Sound(q, step)

Ways == {<<"check", "revoke">>, <<"revoke", "save">>, <<"save", "done">>, <<"create", "mail">>, <<"mail", "done">>,
         <<"reset", "done">>, <<"toggle", "done">>, <<"delete", "done">>, <<"link", "save">>, <<"verify", "done">>,
         <<"update", "done">>}

\* Request o goes on to `step`.
Moves(o, step) ==
    /\ o \in InFlight
    /\ Goes(o, step)
    /\ step = "failed" \/ <<at[o], step>> \in Ways
    /\ Falls(sessions, sessions') \/ (at[o] = "save" /\ step = "done" /\ Grows(o, sessions, sessions'))
    /\ Closes(codes, codes') \/ (step = "mail" /\ Grows(o, codes, codes'))
    /\ step = "save" => \A i \in DOMAIN sessions' : sessions'[i].by = req[o].session => ~sessions'[i].live
    /\ step = "done" /\ UsesCode(o) => \A i \in DOMAIN codes' : codes'[i].by = req[o].code => ~codes'[i].open
    /\ step = "done" /\ (IsReset(o) \/ IsDeletion(o)) => \A i \in DOMAIN sessions' : ~sessions'[i].live
    /\ UNCHANGED <<status, wrote>> \/ wrote' = [wrote EXCEPT ![o] = status']
    /\ at[o] = "revoke" => UNCHANGED <<status, wrote>>
    /\ step = "revoke" => status' = "ACTIVE"
    /\ at[o] = "link" /\ step = "save" => status' \in Admits(req[o].op)
    /\ status = "DELETED" /\ status' = "ACTIVE" =>
          \/ at[o] = "update" /\ req[o].status = "ACTIVE"
          \/ at[o] = "verify"
          \/ at[o] \in {"toggle", "link"} /\ req[o].status # "DELETED"

Move(o) == \E step : Moves(o, step)

\* A row expires.
Quiet ==
    /\ UNCHANGED <<account, req, at, met, before>>
    /\ Falls(sessions, sessions')
    /\ Closes(codes, codes')

LEMMA NoCallTyped == NoCall \in Calling
BY DEF NoCall, Calling

LEMMA RowTypes ==
    ASSUME TypeOK
    PROVE  /\ \A i \in DOMAIN sessions : sessions[i] \in Session
           /\ \A i \in DOMAIN codes : codes[i] \in Code
BY ElementOfSeq DEF TypeOK

LEMMA KeepsFalling == ASSUME TypeOK PROVE Falls(sessions, sessions) /\ Closes(codes, codes)
BY DEF Falls, Closes

LEMMA Calls == ASSUME TypeOK, NEW o \in Request, Call(o) PROVE Arrival(o)
<1>1. CASE Login(o)
  <2>1. Arrive(o, [NoCall EXCEPT !.op = "login"], "save") /\ status = "ACTIVE"
    BY <1>1 DEF Login
  <2> DEFINE q == [NoCall EXCEPT !.op = "login"]
  <2>2. "login" \in Operations
    BY <2>1 DEF Arrive
  <2>3. q \in Calling /\ q.op = "login" /\ q.session = None /\ q.code = None /\ q.status = None
    BY <2>2, NoCallTyped DEF NoCall, Calling
  <2>4. Sound(q, "save")
    <3> HIDE DEF q
    <3> QED BY <2>1, <2>2, <2>3 DEF Sound, StepsOf, None, Admits
  <2> QED BY <2>1, <2>4 DEF Arrival
<1>7. CASE HandleGoogleCallback(o)
  <2>1. PICK q, step :
          /\ Arrive(o, q, step) /\ status # "gone"
          /\ \/ step = "save" /\ q = [NoCall EXCEPT !.op = "handleGoogleCallback"] /\ status \notin Barred
             \/ step = "link" /\ q = [NoCall EXCEPT !.op = "handleGoogleCallback", !.status = status]
    BY <1>7 DEF HandleGoogleCallback
  <2>2. "handleGoogleCallback" \in Operations /\ status \in UserStatus
    <3>1. q.op = "handleGoogleCallback" BY <2>1 DEF NoCall
    <3> QED BY <2>1, <3>1 DEF Arrive, TypeOK
  <2>3. /\ q \in Calling /\ q.op = "handleGoogleCallback" /\ q.session = None /\ q.code = None
        /\ step = "link" => q.status = status
    BY <2>1, <2>2, NoCallTyped DEF NoCall, Calling
  <2>4. step = "save" => status \in Admits(q.op)
    BY <2>1, <2>2, <2>3 DEF Admits, Barred, UserStatus
  <2>5. Sound(q, step) BY <2>1, <2>2, <2>3, <2>4 DEF Sound, StepsOf, None
  <2> QED BY <2>1, <2>5 DEF Arrival
<1>8. CASE VerifyEmailOtp(o)
  <2>1. PICK i \in Open :
          codes[i].by = Letter /\ Arrive(o, [NoCall EXCEPT !.op = "verifyEmailOtp", !.code = Letter], "verify")
    BY <1>8 DEF VerifyEmailOtp
  <2> DEFINE q == [NoCall EXCEPT !.op = "verifyEmailOtp", !.code = Letter]
  <2>2. "verifyEmailOtp" \in Operations
    BY <2>1 DEF Arrive
  <2>3. q \in Calling /\ q.op = "verifyEmailOtp" /\ q.session = None /\ q.code = codes[i].by /\ q.status = None
    BY <2>1, <2>2, NoCallTyped DEF NoCall, Calling
  <2>4. Sound(q, "verify")
    <3> HIDE DEF q
    <3> QED BY <2>1, <2>2, <2>3 DEF Sound, StepsOf, None
  <2> QED BY <2>1, <2>4 DEF Arrival
<1>9. CASE UpdateUser(o)
  <2>1. PICK s \in AdminStatus : Arrive(o, [NoCall EXCEPT !.op = "update", !.status = s], "update")
    BY <1>9 DEF UpdateUser
  <2> DEFINE q == [NoCall EXCEPT !.op = "update", !.status = s]
  <2>2. s \in UserStatus /\ "update" \in Operations
    BY <2>1, StatusAssumption DEF Arrive
  <2>3. q \in Calling /\ q.op = "update" /\ q.session = None /\ q.code = None /\ q.status \in UserStatus
    BY <2>2, NoCallTyped DEF NoCall, Calling
  <2>4. Sound(q, "update")
    <3> HIDE DEF q
    <3> QED BY <2>1, <2>2, <2>3 DEF Sound, StepsOf, None
  <2> QED BY <2>1, <2>4 DEF Arrival
<1>2. CASE RefreshToken(o)
  <2>1. PICK i \in Last(Live) : Arrive(o, [NoCall EXCEPT !.op = "refreshToken", !.session = sessions[i].by], "check")
    BY <1>2 DEF RefreshToken
  <2> DEFINE q == [NoCall EXCEPT !.op = "refreshToken", !.session = sessions[i].by]
  <2>2. i \in Live /\ sessions[i].by \in Key /\ "refreshToken" \in Operations
    BY <2>1, RowTypes DEF Last, Live, Session, Arrive
  <2>3. q \in Calling /\ q.op = "refreshToken" /\ q.session = sessions[i].by /\ q.code = None /\ q.status = None
    BY <2>2, NoCallTyped DEF NoCall, Calling
  <2>4. Sound(q, "check")
    <3> HIDE DEF q
    <3> QED BY <2>1, <2>2, <2>3 DEF Sound, StepsOf, None
  <2> QED BY <2>1, <2>4 DEF Arrival
<1>3. CASE ForgotPassword(o)
  <2>1. Arrive(o, [NoCall EXCEPT !.op = "forgotPassword"], "create")
    BY <1>3 DEF ForgotPassword
  <2> DEFINE q == [NoCall EXCEPT !.op = "forgotPassword"]
  <2>2. "forgotPassword" \in Operations
    BY <2>1 DEF Arrive
  <2>3. q \in Calling /\ q.op = "forgotPassword" /\ q.session = None /\ q.code = None /\ q.status = None
    BY <2>2, NoCallTyped DEF NoCall, Calling
  <2>4. Sound(q, "create")
    <3> HIDE DEF q
    <3> QED BY <2>1, <2>2, <2>3 DEF Sound, StepsOf, None
  <2> QED BY <2>1, <2>4 DEF Arrival
<1>4. CASE ResetPassword(o)
  <2>1. PICK i \in Last({j \in Open : codes[j].by # Letter}) :
          Arrive(o, [NoCall EXCEPT !.op = "resetPassword", !.code = codes[i].by], "reset")
    BY <1>4 DEF ResetPassword
  <2> DEFINE q == [NoCall EXCEPT !.op = "resetPassword", !.code = codes[i].by]
  <2>2. i \in Open /\ codes[i].by \in Key \cup {Letter} /\ "resetPassword" \in Operations
    BY <2>1, RowTypes DEF Last, Open, Code, Arrive
  <2>3. q \in Calling /\ q.op = "resetPassword" /\ q.session = None /\ q.code = codes[i].by /\ q.status = None
    BY <2>2, NoCallTyped DEF NoCall, Calling
  <2>4. Sound(q, "reset")
    <3> HIDE DEF q
    <3> QED BY <2>1, <2>2, <2>3 DEF Sound, StepsOf, None
  <2> QED BY <2>1, <2>4 DEF Arrival
<1>5. CASE ToggleSuspendUser(o)
  <2>1. Arrive(o, [NoCall EXCEPT !.op = "toggleSuspendUser", !.status = status], "toggle") /\ status # "gone"
    BY <1>5 DEF ToggleSuspendUser
  <2> DEFINE q == [NoCall EXCEPT !.op = "toggleSuspendUser", !.status = status]
  <2>2. status \in UserStatus /\ "toggleSuspendUser" \in Operations
    BY <2>1 DEF Arrive, TypeOK
  <2>3. q \in Calling /\ q.op = "toggleSuspendUser" /\ q.session = None /\ q.code = None /\ q.status = status
    BY <2>2, NoCallTyped DEF NoCall, Calling
  <2>4. Sound(q, "toggle")
    <3> HIDE DEF q
    <3> QED BY <2>1, <2>2, <2>3 DEF Sound, StepsOf, None
  <2> QED BY <2>1, <2>4 DEF Arrival
<1>6. CASE DeleteUser(o)
  <2>1. PICK op \in {"deleteUser", "hardDeleteUser"} : Arrive(o, [NoCall EXCEPT !.op = op], "delete")
    BY <1>6 DEF DeleteUser
  <2> DEFINE q == [NoCall EXCEPT !.op = op]
  <2>2. op \in Operations
    BY <2>1 DEF Arrive
  <2>3. q \in Calling /\ q.op = op /\ q.session = None /\ q.code = None /\ q.status = None
    BY <2>2, NoCallTyped DEF NoCall, Calling
  <2>4. Sound(q, "delete")
    <3> HIDE DEF q
    <3> QED BY <2>1, <2>2, <2>3 DEF Sound, StepsOf, None
  <2> QED BY <2>1, <2>4 DEF Arrival
<1> QED BY <1>1, <1>2, <1>3, <1>4, <1>5, <1>6, <1>7, <1>8, <1>9 DEF Call

LEMMA Expires == ASSUME TypeOK, Expire PROVE Quiet
<1>1. CASE \E i \in Open : codes' = [codes EXCEPT ![i].open = FALSE] /\ UNCHANGED sessions
  BY <1>1, KeepsFalling DEF Expire, Quiet, Closes, TypeOK, Open, Code
<1>2. CASE \E i \in Live : sessions' = [sessions EXCEPT ![i].live = FALSE] /\ UNCHANGED codes
  BY <1>2, KeepsFalling DEF Expire, Quiet, Falls, TypeOK, Live, Session
<1> QED BY <1>1, <1>2 DEF Expire

LEMMA StepsMove == ASSUME IInv, NEW o \in Request, Step(o) PROVE Move(o)
<1> USE DEF Moves, Ways, InFlight
<1>0. /\ \A i \in DOMAIN sessions : sessions[i] \in Session
      /\ \A i \in DOMAIN codes : codes[i] \in Code
  BY RowTypes DEF IInv
<1>1. /\ TypeOK /\ Falls(sessions, sessions) /\ Closes(codes, codes)
      /\ o \in InFlight => at[o] \in StepsOf(req[o].op)
  BY KeepsFalling DEF IInv, Asked
<1>2. CASE CheckUser(o)
  <2>1. Moves(o, "revoke")
    BY <1>1, <1>2 DEF CheckUser, StepsOf, IsReset, IsDeletion, UsesCode
  <2> QED BY <2>1 DEF Move
<1>3. CASE RevokeSession(o)
  <2>1. PICK i \in DOMAIN sessions : /\ sessions[i].by = req[o].session
                                     /\ sessions' = [sessions EXCEPT ![i].live = FALSE]
    BY <1>3 DEF RevokeSession
  <2>2. \A j \in DOMAIN sessions : sessions[j].by = req[o].session => j = i
    BY <2>1 DEF IInv, Rows
  <2>3. /\ DOMAIN sessions' = DOMAIN sessions
        /\ \A j \in DOMAIN sessions : sessions'[j].by = sessions[j].by
        /\ \A j \in DOMAIN sessions \ {i} : sessions'[j] = sessions[j]
        /\ ~sessions'[i].live
    BY <2>1, <1>0 DEF Session
  <2>4. Falls(sessions, sessions') BY <2>3 DEF Falls
  <2>5. \A j \in DOMAIN sessions' : sessions'[j].by = req[o].session => ~sessions'[j].live
    BY <2>2, <2>3
  <2>6. Moves(o, "save")
    BY <1>1, <1>3, <2>4, <2>5 DEF RevokeSession
  <2> QED BY <2>6 DEF Move
<1>4. CASE SaveRefreshSession(o)
  <2>1. [by |-> o, live |-> TRUE] \in Session BY DEF Session, Key
  <2>2. Grows(o, sessions, sessions')
    <3>1. sessions \in Seq(Session) /\ sessions' = Append(sessions, [by |-> o, live |-> TRUE])
      BY <1>1, <1>4 DEF SaveRefreshSession, TypeOK
    <3>2. /\ Len(sessions) + 1 \notin DOMAIN sessions
          /\ DOMAIN sessions' = DOMAIN sessions \cup {Len(sessions) + 1}
          /\ sessions'[Len(sessions) + 1] = [by |-> o, live |-> TRUE]
          /\ \A i \in DOMAIN sessions : sessions'[i] = sessions[i]
      BY <2>1, <3>1
    <3> QED BY <3>2 DEF Grows
  <2>3. Moves(o, "done")
    BY <1>1, <1>4, <2>2 DEF SaveRefreshSession, StepsOf, IsReset, IsDeletion, UsesCode
  <2> QED BY <2>3 DEF Move
<1>5. CASE CreateOtp(o)
  <2>1. [by |-> o, open |-> TRUE, mailed |-> FALSE] \in Code BY DEF Code, Key
  <2>2. Grows(o, codes, codes')
    <3>1. codes \in Seq(Code) /\ codes' = Append(codes, [by |-> o, open |-> TRUE, mailed |-> FALSE])
      BY <1>1, <1>5 DEF CreateOtp, TypeOK
    <3>2. /\ Len(codes) + 1 \notin DOMAIN codes
          /\ DOMAIN codes' = DOMAIN codes \cup {Len(codes) + 1}
          /\ codes'[Len(codes) + 1] = [by |-> o, open |-> TRUE, mailed |-> FALSE]
          /\ \A i \in DOMAIN codes : codes'[i] = codes[i]
      BY <2>1, <3>1
    <3> QED BY <3>2 DEF Grows
  <2>3. Moves(o, "mail")
    BY <1>1, <1>5, <2>2 DEF CreateOtp
  <2> QED BY <2>3 DEF Move
<1>6. CASE SendOtp(o)
  <2>1. Closes(codes, codes') BY <1>0, <1>6 DEF SendOtp, Closes, Code
  <2>2. Moves(o, "done")
    BY <1>1, <1>6, <2>1 DEF SendOtp, StepsOf, IsReset, IsDeletion, UsesCode
  <2> QED BY <2>2 DEF Move
<1>7. CASE CommitReset(o)
  <2>1. /\ Closes(codes, codes')
        /\ \A i \in DOMAIN codes' : codes'[i].by = req[o].code => ~codes'[i].open
    BY <1>0, <1>7 DEF CommitReset, Used, Closes, Code
  <2>2. /\ Falls(sessions, sessions')
        /\ \A i \in DOMAIN sessions' : ~sessions'[i].live
    BY <1>0, <1>7 DEF CommitReset, Revoked, Falls, Session
  <2>3. Moves(o, "done")
    BY <1>1, <1>7, <2>1, <2>2 DEF CommitReset
  <2> QED BY <2>3 DEF Move
<1>8. CASE CommitToggle(o)
  <2>1. ~UsesCode(o) /\ ~IsReset(o) /\ ~IsDeletion(o)
    BY <1>1, <1>8 DEF CommitToggle, StepsOf, UsesCode, IsReset, IsDeletion
  <2>2. /\ wrote' = [wrote EXCEPT ![o] = status']
        /\ status' \in {"ACTIVE", "BLOCKED"} /\ (status' = "ACTIVE" => req[o].status = "BLOCKED")
    BY <1>8 DEF CommitToggle, NextStatus, Puts
  <2>3. Moves(o, "done")
    BY <1>1, <1>8, <2>1, <2>2 DEF CommitToggle
  <2> QED BY <2>3 DEF Move
<1>9. CASE CommitDelete(o)
  <2>1. ~UsesCode(o) /\ status' # "ACTIVE" /\ wrote' = [wrote EXCEPT ![o] = status']
    BY <1>1, <1>9 DEF CommitDelete, StepsOf, UsesCode, Puts
  <2>2. Falls(sessions, sessions') /\ DOMAIN sessions' = {}
    BY <1>9 DEF CommitDelete, Falls
  <2>3. Closes(codes, codes') BY <1>1, <1>9 DEF CommitDelete, Closes
  <2>4. Moves(o, "done")
    BY <1>1, <1>9, <2>1, <2>2, <2>3 DEF CommitDelete
  <2> QED BY <2>4 DEF Move
<1>10. CASE Fail(o)
  <2>1. Moves(o, "failed")
    BY <1>1, <1>10 DEF Fail
  <2> QED BY <2>1 DEF Move
<1>11. CASE CommitLink(o)
  <2>1. req[o].op = "handleGoogleCallback" /\ req[o].session = None /\ req[o].status \in UserStatus \cup {None}
    BY <1>1, <1>11 DEF IInv, Asked, CommitLink, StepsOf, TypeOK, Calling
  <2>2. /\ ~UsesCode(o) /\ ~IsReset(o) /\ ~IsDeletion(o)
        /\ \A i \in DOMAIN sessions : sessions[i].by # req[o].session
    BY <1>0, <2>1, EarlierAssumption DEF UsesCode, IsReset, IsDeletion, Session, Key, None
  <2>3. /\ wrote' = [wrote EXCEPT ![o] = status'] /\ status' = LinkedStatus(req[o].status)
        /\ sessions' = sessions /\ codes' = codes
    BY <1>11 DEF CommitLink, Puts
  <2>4. CASE req[o].status \in Barred
    <3>1. Moves(o, "failed")
      <4>1. status' = req[o].status /\ status' # "ACTIVE" BY <2>3, <2>4 DEF Barred, LinkedStatus
      <4> QED BY <1>1, <1>11, <2>3, <2>4, <4>1 DEF CommitLink
    <3> QED BY <3>1 DEF Move
  <2>5. CASE req[o].status \notin Barred
    <3>1. req[o].status # None
      <4>1. at[o] = "link" BY <1>11 DEF CommitLink
      <4>2. req[o].status \in UserStatus BY <4>1 DEF IInv, Asked
      <4> QED BY <4>2 DEF UserStatus, None
    <3>2. status' = "ACTIVE" /\ req[o].status # "DELETED"
      BY <2>1, <2>3, <2>5, <3>1 DEF Barred, LinkedStatus, UserStatus
    <3>3. Moves(o, "save")
      BY <1>1, <1>11, <2>1, <2>2, <2>3, <2>5, <3>2 DEF CommitLink, Admits
    <3> QED BY <3>3 DEF Move
  <2> QED BY <2>4, <2>5
<1>12. CASE CommitVerification(o)
  <2>1. Closes(codes, codes') /\ \A i \in DOMAIN codes' : codes'[i].by = req[o].code => ~codes'[i].open
    BY <1>0, <1>12 DEF CommitVerification, Used, Closes, Code
  <2>2. ~IsReset(o) /\ ~IsDeletion(o)
    BY <1>1, <1>12 DEF CommitVerification, StepsOf, IsReset, IsDeletion
  <2>3. Moves(o, "done")
    BY <1>1, <1>12, <2>1, <2>2 DEF CommitVerification, Puts
  <2> QED BY <2>3 DEF Move
<1>13. CASE CommitUpdate(o)
  <2>1. ~UsesCode(o) /\ ~IsReset(o) /\ ~IsDeletion(o)
    BY <1>1, <1>13 DEF CommitUpdate, StepsOf, UsesCode, IsReset, IsDeletion
  <2>2. Moves(o, "done")
    BY <1>1, <1>13, <2>1 DEF CommitUpdate, Puts
  <2> QED BY <2>2 DEF Move
<1> QED BY <1>2, <1>3, <1>4, <1>5, <1>6, <1>7, <1>8, <1>9, <1>10, <1>11, <1>12, <1>13 DEF Step

----------------------------------------------------------------------------
(* Every step preserves the invariant. *)

\* What an arrival changes.
Arrived(o, q, step) ==
    /\ at[o] = "new" /\ step \notin {"new", "done", "failed"}
    /\ at'[o] = step /\ req'[o] = q
    /\ met'[o] = InFlight /\ before'[o] = Done
    /\ \A p \in Request \ {o} :
          /\ at'[p] = at[p] /\ req'[p] = req[p] /\ before'[p] = before[p]
          /\ met'[p] = IF p \in InFlight THEN met[p] \cup {o} ELSE met[p]
    /\ InFlight' = InFlight \cup {o} /\ Done' = Done
    /\ UNCHANGED <<account, sessions, codes>>

LEMMA Arrivals ==
    ASSUME TypeOK, NEW o \in Request, NEW q, NEW step, Arrive(o, q, step), Sound(q, step)
    PROVE  Arrived(o, q, step)
<1>1. step \notin {"new", "done", "failed"} BY DEF Sound, StepsOf
<1>2. /\ at[o] = "new" /\ at'[o] = step /\ req'[o] = q /\ before'[o] = Done
      /\ UNCHANGED <<account, sessions, codes>>
      /\ \A p \in Request \ {o} : at'[p] = at[p] /\ req'[p] = req[p] /\ before'[p] = before[p]
  BY DEF Arrive, TypeOK
<1>3. o \notin InFlight BY <1>2 DEF InFlight
<1>4. /\ met'[o] = InFlight
      /\ \A p \in Request \ {o} : met'[p] = IF p \in InFlight THEN met[p] \cup {o} ELSE met[p]
  BY <1>3 DEF Arrive
<1>5. InFlight' = InFlight \cup {o} /\ Done' = Done
  BY <1>1, <1>2 DEF InFlight, Done
<1> QED BY <1>1, <1>2, <1>4, <1>5 DEF Arrived

\* What any other step of a request changes.
Moved(o, step) ==
    /\ o \in InFlight /\ at'[o] = step /\ step # "new"
    /\ \A p \in Request \ {o} : at'[p] = at[p]
    /\ InFlight' \subseteq InFlight /\ Done' = IF step = "done" THEN Done \cup {o} ELSE Done
    /\ UNCHANGED <<req, met, before>>

LEMMA Moving ==
    ASSUME TypeOK, NEW o \in Request, NEW step, Moves(o, step)
    PROVE  Moved(o, step)
<1>1. o \in InFlight /\ at'[o] = step /\ step # "new" /\ UNCHANGED <<req, met, before>>
  BY DEF Moves, Goes, Ways, TypeOK
<1>2. \A p \in Request \ {o} : at'[p] = at[p]
  BY DEF Moves, Goes, TypeOK
<1>3. InFlight' \subseteq InFlight BY <1>1, <1>2 DEF InFlight
<1>4. Done' = IF step = "done" THEN Done \cup {o} ELSE Done
  BY <1>1, <1>2 DEF Done, InFlight
<1> QED BY <1>1, <1>2, <1>3, <1>4 DEF Moved

LEMMA StepKinds ==
    ASSUME IInv, [Next]_vars
    PROVE  \/ \E o \in Request : \E q, step : Arrive(o, q, step) /\ Sound(q, step) /\ Arrived(o, q, step)
           \/ \E o \in Request : \E step : Moves(o, step) /\ Moved(o, step)
           \/ Quiet
<1>1. TypeOK BY DEF IInv
<1>2. CASE UNCHANGED vars
  BY <1>1, <1>2, KeepsFalling DEF Quiet, vars
<1>3. CASE Expire
  BY <1>1, <1>3, Expires
<1>4. ASSUME NEW o \in Request, Call(o)
      PROVE  \E q, step : Arrive(o, q, step) /\ Sound(q, step) /\ Arrived(o, q, step)
  BY <1>1, <1>4, Calls, Arrivals DEF Arrival
<1>5. ASSUME NEW o \in Request, Step(o)
      PROVE  \E step : Moves(o, step) /\ Moved(o, step)
  BY <1>1, <1>5, StepsMove, Moving DEF Move
<1> QED BY <1>2, <1>3, <1>4, <1>5 DEF Next

\* Writing to one row keeps the sequence one of rows.
LEMMA Revoking ==
    ASSUME TypeOK, NEW i \in DOMAIN sessions
    PROVE  [sessions EXCEPT ![i].live = FALSE] \in Seq(Session)
<1>1. sessions \in Seq(Session) /\ sessions[i] \in Session BY RowTypes DEF TypeOK
<1>2. [sessions[i] EXCEPT !.live = FALSE] \in Session BY <1>1 DEF Session
<1>3. [sessions EXCEPT ![i] = [sessions[i] EXCEPT !.live = FALSE]] \in Seq(Session)
  <2> DEFINE row == [sessions[i] EXCEPT !.live = FALSE]
  <2> HIDE DEF row
  <2>1. row \in Session BY <1>2 DEF row
  <2>2. [sessions EXCEPT ![i] = row] \in Seq(Session) BY <1>1, <2>1
  <2> QED BY <2>2 DEF row
<1> QED BY <1>3

LEMMA Closing ==
    ASSUME TypeOK, NEW i \in DOMAIN codes
    PROVE  [codes EXCEPT ![i].open = FALSE] \in Seq(Code)
<1>1. codes \in Seq(Code) /\ codes[i] \in Code BY RowTypes DEF TypeOK
<1>2. [codes[i] EXCEPT !.open = FALSE] \in Code BY <1>1 DEF Code
<1>3. [codes EXCEPT ![i] = [codes[i] EXCEPT !.open = FALSE]] \in Seq(Code)
  <2> DEFINE row == [codes[i] EXCEPT !.open = FALSE]
  <2> HIDE DEF row
  <2>1. row \in Code BY <1>2 DEF row
  <2>2. [codes EXCEPT ![i] = row] \in Seq(Code) BY <1>1, <2>1
  <2> QED BY <2>2 DEF row
<1> QED BY <1>3

LEMMA TypeKept == ASSUME IInv, [Next]_vars PROVE TypeOK'
<1>1. TypeOK BY DEF IInv
<1>2. CASE UNCHANGED vars
  BY <1>1, <1>2 DEF TypeOK, vars
<1>3. CASE Expire
  <2>1. sessions' \in Seq(Session)
    <3>1. CASE UNCHANGED sessions BY <1>1, <3>1 DEF TypeOK
    <3>2. CASE \E i \in Live : sessions' = [sessions EXCEPT ![i].live = FALSE]
      <4>1. PICK i \in Live : sessions' = [sessions EXCEPT ![i].live = FALSE] BY <3>2
      <4> QED BY <1>1, <4>1, Revoking DEF Live
    <3> QED BY <1>3, <3>1, <3>2 DEF Expire
  <2>2. codes' \in Seq(Code)
    <3>1. CASE UNCHANGED codes BY <1>1, <3>1 DEF TypeOK
    <3>2. CASE \E i \in Open : codes' = [codes EXCEPT ![i].open = FALSE]
      <4>1. PICK i \in Open : codes' = [codes EXCEPT ![i].open = FALSE] BY <3>2
      <4> QED BY <1>1, <4>1, Closing DEF Open
    <3> QED BY <1>3, <3>1, <3>2 DEF Expire
  <2> QED BY <1>1, <1>3, <2>1, <2>2 DEF Expire, TypeOK
<1>4. ASSUME NEW o \in Request, Call(o) PROVE TypeOK'
  <2>1. PICK q, step : Arrive(o, q, step) /\ Sound(q, step)
    BY <1>1, <1>4, Calls DEF Arrival
  <2>2. q \in Calling /\ step \in {"check", "revoke", "save", "link", "create", "mail", "reset", "verify",
                                  "toggle", "update", "delete"}
    BY <2>1 DEF Sound, StepsOf
  <2>3. met' \in [Request -> SUBSET Request]
    BY <1>1, <2>1 DEF Arrive, TypeOK, InFlight
  <2>4. before' \in [Request -> SUBSET Request]
    BY <1>1, <2>1 DEF Arrive, TypeOK, Done
  <2> QED BY <1>1, <2>1, <2>2, <2>3, <2>4 DEF Arrive, TypeOK, Calling
<1>5. ASSUME NEW o \in Request, Step(o) PROVE TypeOK'
  <2>1. PICK step : Moves(o, step) BY <1>5, StepsMove DEF Move
  <2>2. /\ at' \in [Request -> {"new", "check", "revoke", "save", "link", "create", "mail", "reset", "verify",
                                 "toggle", "update", "delete", "done", "failed"}]
        /\ UNCHANGED <<req, met, before>>
    BY <1>1, <2>1 DEF Moves, Goes, Ways, TypeOK
  <2>3. sessions' \in Seq(Session)
    <3>1. [by |-> o, live |-> TRUE] \in Session BY DEF Session, Key
    <3>2. CASE UNCHANGED sessions BY <1>1, <3>2 DEF TypeOK
    <3>3. CASE RevokeSession(o)
      <4>1. PICK i \in DOMAIN sessions : sessions' = [sessions EXCEPT ![i].live = FALSE]
        BY <3>3 DEF RevokeSession
      <4> QED BY <1>1, <4>1, Revoking
    <3>4. CASE SaveRefreshSession(o) BY <1>1, <3>1, <3>4 DEF SaveRefreshSession, TypeOK
    <3>5. CASE CommitReset(o)
      <4>1. sessions' = [i \in 1..Len(sessions) |-> [sessions[i] EXCEPT !.live = FALSE]]
        BY <1>1, <3>5 DEF CommitReset, Revoked, TypeOK
      <4>2. \A i \in 1..Len(sessions) : [sessions[i] EXCEPT !.live = FALSE] \in Session
        <5>1. \A i \in DOMAIN sessions : sessions[i] \in Session BY <1>1, RowTypes
        <5>2. DOMAIN sessions = 1..Len(sessions) BY <1>1 DEF TypeOK
        <5> QED BY <5>1, <5>2 DEF Session
      <4> QED BY <1>1, <4>1, <4>2 DEF TypeOK
    <3>6. CASE CommitDelete(o) BY <3>6 DEF CommitDelete
    <3> QED BY <1>5, <3>2, <3>3, <3>4, <3>5, <3>6
            DEF Step, CheckUser, CommitLink, CreateOtp, SendOtp, CommitVerification, CommitToggle,
                CommitUpdate, Fail
  <2>4. codes' \in Seq(Code)
    <3>1. [by |-> o, open |-> TRUE, mailed |-> FALSE] \in Code BY DEF Code, Key
    <3>2. CASE UNCHANGED codes BY <1>1, <3>2 DEF TypeOK
    <3>3. CASE CreateOtp(o) BY <1>1, <3>1, <3>3 DEF CreateOtp, TypeOK
    <3>4. CASE SendOtp(o)
      <4>1. codes' = [i \in 1..Len(codes) |-> IF codes[i].by = o THEN [codes[i] EXCEPT !.mailed = TRUE] ELSE codes[i]]
        BY <1>1, <3>4 DEF SendOtp, TypeOK
      <4>2. \A i \in 1..Len(codes) : [codes[i] EXCEPT !.mailed = TRUE] \in Code /\ codes[i] \in Code
        <5>1. \A i \in DOMAIN codes : codes[i] \in Code BY <1>1, RowTypes
        <5>2. DOMAIN codes = 1..Len(codes) BY <1>1 DEF TypeOK
        <5> QED BY <5>1, <5>2 DEF Code
      <4> QED BY <1>1, <4>1, <4>2 DEF TypeOK
    <3>5. CASE CommitReset(o) \/ CommitVerification(o)
      <4>1. codes' = [i \in 1..Len(codes) |-> IF codes[i].by = req[o].code THEN [codes[i] EXCEPT !.open = FALSE]
                                               ELSE codes[i]]
        BY <1>1, <3>5 DEF CommitReset, CommitVerification, Used, TypeOK
      <4>2. \A i \in 1..Len(codes) : [codes[i] EXCEPT !.open = FALSE] \in Code /\ codes[i] \in Code
        <5>1. \A i \in DOMAIN codes : codes[i] \in Code BY <1>1, RowTypes
        <5>2. DOMAIN codes = 1..Len(codes) BY <1>1 DEF TypeOK
        <5> QED BY <5>1, <5>2 DEF Code
      <4> QED BY <1>1, <4>1, <4>2 DEF TypeOK
    <3>6. CASE CommitDelete(o)
      <4>1. codes' = codes \/ codes' = <<>> BY <3>6 DEF CommitDelete
      <4>2. codes \in Seq(Code) /\ <<>> \in Seq(Code) BY <1>1 DEF TypeOK
      <4> QED BY <4>1, <4>2
    <3> QED BY <1>5, <3>2, <3>3, <3>4, <3>5, <3>6
            DEF Step, CheckUser, RevokeSession, SaveRefreshSession, CommitLink, CommitToggle, CommitUpdate, Fail
  <2>5. /\ status' \in UserStatus \cup {"gone"} /\ linked' \in BOOLEAN
        /\ wrote' \in [Request -> UserStatus \cup {"gone", None}]
    <3>1. CASE UNCHANGED account BY <1>1, <3>1 DEF TypeOK
    <3>2. CASE CommitLink(o)
      <4>1. req[o].status \in UserStatus BY <3>2 DEF IInv, Asked, CommitLink
      <4>2. LinkedStatus(req[o].status) \in UserStatus BY <4>1 DEF LinkedStatus, UserStatus
      <4> QED BY <1>1, <3>2, <4>2 DEF CommitLink, Puts, TypeOK
    <3>3. CASE CommitVerification(o) BY <1>1, <3>3 DEF CommitVerification, Puts, TypeOK, UserStatus
    <3>4. CASE CommitToggle(o) BY <1>1, <3>4 DEF CommitToggle, NextStatus, Puts, TypeOK, UserStatus
    <3>5. CASE CommitUpdate(o)
      <4>1. req[o].status \in UserStatus BY <3>5 DEF IInv, Asked, CommitUpdate
      <4> QED BY <1>1, <3>5, <4>1 DEF CommitUpdate, Puts, TypeOK
    <3>6. CASE CommitDelete(o) BY <1>1, <3>6 DEF CommitDelete, Puts, TypeOK, UserStatus
    <3> QED BY <1>5, <3>1, <3>2, <3>3, <3>4, <3>5, <3>6
            DEF Step, CheckUser, RevokeSession, SaveRefreshSession, CreateOtp, SendOtp, CommitReset, Fail
  <2> QED BY <1>1, <2>2, <2>3, <2>4, <2>5 DEF TypeOK
<1> QED BY <1>2, <1>3, <1>4, <1>5 DEF Next

LEMMA HistoryKept == ASSUME IInv, [Next]_vars PROVE History'
<1>1. TypeOK /\ History BY DEF IInv
<1>2. ASSUME NEW o \in Request, NEW q, NEW step, Arrived(o, q, step) PROVE History'
  <2>1. \A p \in Request \ {o} : o \notin met[p]
    BY <1>1, <1>2 DEF History, Arrived, TypeOK
  <2>2. o \notin InFlight /\ InFlight \subseteq Request BY <1>2 DEF Arrived, InFlight
  <2>3. \A p, x \in Request : x \in met'[p] => p \in met'[x]
    <3> SUFFICES ASSUME NEW p \in Request, NEW x \in Request, x \in met'[p] PROVE p \in met'[x]
      OBVIOUS
    <3>1. /\ met'[o] = InFlight
          /\ \A y \in Request \ {o} : met'[y] = IF y \in InFlight THEN met[y] \cup {o} ELSE met[y]
      BY <1>2 DEF Arrived
    <3>2. CASE p = o BY <2>2, <3>1, <3>2
    <3>3. CASE x = o BY <2>1, <2>2, <3>1, <3>3
    <3>4. CASE p # o /\ x # o
      <4>1. x \in met[p] BY <3>1, <3>4
      <4>2. p \in met[x] BY <1>1, <4>1 DEF History
      <4> QED BY <3>1, <3>4, <4>2
    <3> QED BY <3>2, <3>3, <3>4
  <2>4. \A p \in Request : at'[p] = "new" => met'[p] = {}
    BY <1>1, <1>2 DEF History, Arrived, InFlight
  <2>5. \A p, x \in InFlight' : p # x => x \in met'[p]
    <3> SUFFICES ASSUME NEW p \in InFlight', NEW x \in InFlight', p # x PROVE x \in met'[p]
      OBVIOUS
    <3>1. p \in InFlight \cup {o} /\ x \in InFlight \cup {o} BY <1>2 DEF Arrived
    <3>2. CASE p = o BY <1>2, <3>1, <3>2 DEF Arrived
    <3>3. CASE p # o
      <4>1. met'[p] = met[p] \cup {o} /\ p \in InFlight BY <1>2, <2>2, <3>1, <3>3 DEF Arrived
      <4> QED BY <1>1, <3>1, <4>1 DEF History
    <3> QED BY <3>2, <3>3
  <2>6. \A p \in InFlight' : \A r \in Done' : r \in before'[p] \/ r \in met'[p]
    <3> SUFFICES ASSUME NEW p \in InFlight', NEW r \in Done' PROVE r \in before'[p] \/ r \in met'[p]
      OBVIOUS
    <3>1. p \in InFlight \cup {o} /\ r \in Done BY <1>2 DEF Arrived
    <3>2. CASE p = o BY <1>2, <3>1, <3>2 DEF Arrived
    <3>3. CASE p # o
      <4>1. met'[p] = met[p] \cup {o} /\ p \in InFlight /\ before'[p] = before[p]
        BY <1>2, <2>2, <3>1, <3>3 DEF Arrived
      <4> QED BY <1>1, <3>1, <4>1 DEF History
    <3> QED BY <3>2, <3>3
  <2> QED BY <2>3, <2>4, <2>5, <2>6 DEF History
<1>3. ASSUME NEW o \in Request, NEW step, Moved(o, step) PROVE History'
  <2>1. /\ \A p \in Request : at'[p] = "new" => at[p] = "new"
        /\ o \notin InFlight' \/ step # "done"
    BY <1>3 DEF Moved, InFlight
  <2>2. \A p \in InFlight' : \A r \in Done' : r \in before'[p] \/ r \in met'[p]
    BY <1>1, <1>3, <2>1 DEF History, Moved
  <2> QED BY <1>1, <1>3, <2>1, <2>2 DEF History, Moved
<1>4. CASE Quiet
  BY <1>1, <1>4 DEF History, Quiet, InFlight, Done
<1> QED BY <1>2, <1>3, <1>4, StepKinds

LEMMA AskedKept == ASSUME IInv, [Next]_vars PROVE Asked'
<1>1. TypeOK /\ Asked /\ Rows BY DEF IInv
<1>2. ASSUME NEW o \in Request, NEW q, NEW step, Sound(q, step), Arrived(o, q, step) PROVE Asked'
  <2>1. /\ step \in StepsOf(q.op)
        /\ q.op # "refreshToken" => q.session = None
        /\ q.session \in Request => at[q.session] = "done"
        /\ q.code \in Request => at[q.code] \notin {"new", "create"}
        /\ step \in {"link", "update"} => q.status \in UserStatus
    BY <1>1, <1>2, EarlierAssumption DEF Sound, Rows, Live, Open, None
  <2>2. ASSUME NEW p \in Request
        PROVE  /\ at'[p] = "new" => req'[p] = NoCall
               /\ p \in InFlight' => at'[p] \in StepsOf(req'[p].op)
               /\ req'[p].op # "refreshToken" => req'[p].session = None
               /\ req'[p].session \in Request => at[req'[p].session] = "done"
               /\ req'[p].code \in Request => at[req'[p].code] \notin {"new", "create"}
               /\ at'[p] \in {"link", "update"} => req'[p].status \in UserStatus
    BY <1>1, <1>2, <2>1 DEF Arrived, Asked
  <2>3. \A p \in Request : at[p] # "new" => at'[p] = at[p]
    BY <1>2 DEF Arrived
  <2>4. ASSUME NEW p \in Request
        PROVE  /\ req'[p].session \in Request => at'[req'[p].session] = "done"
               /\ req'[p].code \in Request => at'[req'[p].code] \notin {"new", "create"}
    BY <2>2, <2>3
  <2> QED BY <2>2, <2>4 DEF Asked
<1>3. ASSUME NEW o \in Request, NEW step, Moves(o, step), Moved(o, step) PROVE Asked'
  <2>1. /\ at[o] \in StepsOf(req[o].op)
        /\ at[o] \notin {"new", "done", "failed"}
        /\ step \notin {"new", "create", "link", "update"}
        /\ step \in {"done", "failed"} \cup StepsOf(req[o].op)
    BY <1>1, <1>3 DEF Asked, Moves, Moved, InFlight, Ways, StepsOf
  <2>2. ASSUME NEW p \in Request
        PROVE  /\ at'[p] = "new" => req[p] = NoCall
               /\ p \in InFlight' => at'[p] \in StepsOf(req[p].op)
               /\ at'[p] \in {"link", "update"} => req[p].status \in UserStatus
    BY <1>1, <1>3, <2>1 DEF Asked, Moved, InFlight
  <2>3. \A p \in Request : /\ at[p] = "done" => at'[p] = "done"
                           /\ at[p] \notin {"new", "create"} => at'[p] \notin {"new", "create"}
    BY <1>3, <2>1 DEF Moved
  <2>4. req' = req BY <1>3 DEF Moved
  <2>5. ASSUME NEW p \in Request
        PROVE  /\ req[p].op # "refreshToken" => req[p].session = None
               /\ req[p].session \in Request => at'[req[p].session] = "done"
               /\ req[p].code \in Request => at'[req[p].code] \notin {"new", "create"}
    BY <1>1, <2>3 DEF Asked
  <2> QED BY <2>2, <2>4, <2>5 DEF Asked
<1>4. CASE Quiet
  BY <1>1, <1>4 DEF Asked, Quiet, InFlight
<1> QED BY <1>2, <1>3, <1>4, StepKinds

LEMMA RowsKept == ASSUME IInv, [Next]_vars PROVE Rows'
<1>1. Rows BY DEF IInv
<1>2. ASSUME NEW o \in Request, NEW q, NEW step, Arrived(o, q, step) PROVE Rows'
  <2>1. \A p \in Request : at[p] # "new" => at'[p] = at[p]
    BY <1>2 DEF Arrived
  <2>2. sessions' = sessions /\ codes' = codes BY <1>2 DEF Arrived
  <2> QED BY <1>1, <2>1, <2>2 DEF Rows
<1>3. ASSUME NEW o \in Request, NEW step, Moves(o, step), Moved(o, step) PROVE Rows'
  <2>1. step \notin {"new", "create"} /\ at[o] \notin {"new", "done"}
    BY <1>3 DEF Moves, Moved, Ways, InFlight
  <2>2. \A p \in Request : /\ at[p] = "done" => at'[p] = "done"
                           /\ at[p] \notin {"new", "create"} => at'[p] \notin {"new", "create"}
    BY <1>3, <2>1 DEF Moved
  <2>3. /\ \A i, j \in DOMAIN sessions' : sessions'[i].by = sessions'[j].by => i = j
        /\ \A i \in DOMAIN sessions' : sessions'[i].by \in Request => at'[sessions'[i].by] = "done"
    <3>1. CASE Falls(sessions, sessions')
      <4>1. \A i \in DOMAIN sessions' : i \in DOMAIN sessions /\ sessions'[i].by = sessions[i].by
        BY <3>1 DEF Falls
      <4>2. \A i, j \in DOMAIN sessions' : sessions'[i].by = sessions'[j].by => i = j
        BY <1>1, <4>1 DEF Rows
      <4>3. ASSUME NEW i \in DOMAIN sessions', sessions'[i].by \in Request PROVE at'[sessions'[i].by] = "done"
        <5>1. at[sessions[i].by] = "done" /\ sessions[i].by \in Request BY <1>1, <4>1, <4>3 DEF Rows
        <5> QED BY <2>2, <4>1, <5>1
      <4> QED BY <4>2, <4>3
    <3>2. CASE at[o] = "save" /\ step = "done" /\ Grows(o, sessions, sessions')
      <4>1. PICK n : /\ n \notin DOMAIN sessions /\ DOMAIN sessions' = DOMAIN sessions \cup {n}
                     /\ sessions'[n].by = o
                     /\ \A i \in DOMAIN sessions : sessions'[i] = sessions[i]
        BY <3>2 DEF Grows
      <4>2. \A i \in DOMAIN sessions : sessions[i].by # o
        BY <1>1, <3>2 DEF Rows
      <4>3. at'[o] = "done" BY <1>3, <3>2 DEF Moved
      <4>4. \A i, j \in DOMAIN sessions' : sessions'[i].by = sessions'[j].by => i = j
        BY <1>1, <4>1, <4>2 DEF Rows
      <4>5. ASSUME NEW i \in DOMAIN sessions', sessions'[i].by \in Request PROVE at'[sessions'[i].by] = "done"
        <5>1. CASE i = n BY <4>1, <4>3, <5>1
        <5>2. CASE i \in DOMAIN sessions
          <6>1. sessions'[i].by = sessions[i].by BY <4>1, <5>2
          <6>2. at[sessions[i].by] = "done" BY <1>1, <4>5, <5>2, <6>1 DEF Rows
          <6> QED BY <2>2, <4>5, <6>1, <6>2
        <5> QED BY <4>1, <4>5, <5>1, <5>2
      <4> QED BY <4>4, <4>5
    <3> QED BY <1>3, <3>1, <3>2 DEF Moves
  <2>4. \A i \in DOMAIN codes' : codes'[i].by \in Request => at'[codes'[i].by] \notin {"new", "create"}
    <3>1. CASE Closes(codes, codes')
      <4>1. ASSUME NEW i \in DOMAIN codes', codes'[i].by \in Request
            PROVE  at'[codes'[i].by] \notin {"new", "create"}
        <5>1. i \in DOMAIN codes /\ codes'[i].by = codes[i].by BY <3>1, <4>1 DEF Closes
        <5>2. at[codes[i].by] \notin {"new", "create"} BY <1>1, <4>1, <5>1 DEF Rows
        <5> QED BY <2>2, <4>1, <5>1, <5>2
      <4> QED BY <4>1
    <3>2. CASE step = "mail" /\ Grows(o, codes, codes')
      <4>1. PICK n : /\ n \notin DOMAIN codes /\ DOMAIN codes' = DOMAIN codes \cup {n}
                     /\ codes'[n].by = o
                     /\ \A i \in DOMAIN codes : codes'[i] = codes[i]
        BY <3>2 DEF Grows
      <4>2. at'[o] = "mail" BY <1>3, <3>2 DEF Moved
      <4>3. ASSUME NEW i \in DOMAIN codes', codes'[i].by \in Request
            PROVE  at'[codes'[i].by] \notin {"new", "create"}
        <5>1. CASE i = n BY <4>1, <4>2, <5>1
        <5>2. CASE i \in DOMAIN codes
          <6>1. codes'[i].by = codes[i].by BY <4>1, <5>2
          <6>2. at[codes[i].by] \notin {"new", "create"} BY <1>1, <4>3, <5>2, <6>1 DEF Rows
          <6> QED BY <2>2, <4>3, <6>1, <6>2
        <5> QED BY <4>1, <4>3, <5>1, <5>2
      <4> QED BY <4>3
    <3> QED BY <1>3, <3>1, <3>2 DEF Moves
  <2> QED BY <2>3, <2>4 DEF Rows
<1>4. CASE Quiet
  <2>1. at' = at /\ Falls(sessions, sessions') /\ Closes(codes, codes') BY <1>4 DEF Quiet
  <2> QED BY <1>1, <2>1 DEF Rows, Falls, Closes
<1> QED BY <1>2, <1>3, <1>4, StepKinds

LEMMA SpentKept == ASSUME IInv, [Next]_vars PROVE Spent'
<1>1. Asked /\ Spent BY DEF IInv
<1>2. ASSUME NEW o \in Request, NEW q, NEW step, Sound(q, step), Arrived(o, q, step) PROVE Spent'
  <2>1. ~Refreshed(o)'
    BY <1>2 DEF Refreshed, Arrived, Sound, StepsOf
  <2>2. \A p \in Request \ {o} : Refreshed(p)' = Refreshed(p) /\ UsesCode(p)' = UsesCode(p) /\ req'[p] = req[p]
    BY <1>2 DEF Refreshed, UsesCode, Arrived
  <2>3. sessions' = sessions /\ codes' = codes /\ Done' = Done /\ o \notin Done /\ Done \subseteq Request
    BY <1>2 DEF Arrived, Done
  <2> QED BY <1>1, <2>1, <2>2, <2>3 DEF Spent
<1>3. ASSUME NEW o \in Request, NEW step, Moves(o, step), Moved(o, step) PROVE Spent'
  <2>1. req' = req /\ at'[o] = step /\ at[o] \notin {"new", "done", "failed"}
        /\ \A p \in Request \ {o} : at'[p] = at[p]
    BY <1>3 DEF Moved, InFlight
  <2>2. ASSUME NEW p \in Request, Refreshed(p)', NEW i \in DOMAIN sessions', sessions'[i].by = req[p].session
        PROVE  ~sessions'[i].live
    <3>1. CASE Refreshed(p)
      <4>1. CASE Falls(sessions, sessions') BY <1>1, <2>2, <3>1, <4>1 DEF Spent, Falls
      <4>2. CASE at[o] = "save" /\ Grows(o, sessions, sessions')
        <5>1. o # req[p].session BY <1>1, <4>2 DEF Asked
        <5> QED BY <1>1, <2>2, <3>1, <4>2, <5>1 DEF Spent, Grows
      <4> QED BY <1>3, <4>1, <4>2 DEF Moves
    <3>2. CASE ~Refreshed(p)
      <4>1. p = o /\ step \in {"save", "done"} /\ req[o].op = "refreshToken" /\ at[o] # "save"
        BY <2>1, <2>2, <3>2 DEF Refreshed
      <4>2. at[o] \in {"check", "revoke"}
        BY <1>1, <1>3, <4>1 DEF Asked, Moved, StepsOf
      <4>3. step = "save" BY <1>3, <4>1, <4>2 DEF Moves, Ways
      <4> QED BY <1>3, <2>2, <4>1, <4>3 DEF Moves
    <3> QED BY <3>1, <3>2
  <2>3. ASSUME NEW p \in Done', UsesCode(p)', NEW i \in DOMAIN codes', codes'[i].by = req[p].code
        PROVE  ~codes'[i].open
    <3>1. p \in Request /\ UsesCode(p) BY <2>1, <2>3 DEF UsesCode, Done
    <3>2. CASE p \in Done
      <4>1. CASE Closes(codes, codes') BY <1>1, <2>3, <3>1, <3>2, <4>1 DEF Spent, Closes
      <4>2. CASE step = "mail" /\ Grows(o, codes, codes')
        <5>1. at[o] = "create" BY <1>3, <4>2 DEF Moves, Ways
        <5>2. o # req[p].code BY <1>1, <3>1, <5>1 DEF Asked
        <5> QED BY <1>1, <2>3, <3>1, <3>2, <4>2, <5>2 DEF Spent, Grows
      <4> QED BY <1>3, <4>1, <4>2 DEF Moves
    <3>3. CASE p \notin Done
      <4>1. p = o /\ step = "done" BY <1>3, <2>3, <3>3 DEF Moved
      <4> QED BY <1>3, <2>3, <3>1, <4>1 DEF Moves
    <3> QED BY <3>2, <3>3
  <2> QED BY <2>1, <2>2, <2>3 DEF Spent
<1>4. CASE Quiet
  <2>1. req' = req /\ at' = at /\ Falls(sessions, sessions') /\ Closes(codes, codes') BY <1>4 DEF Quiet
  <2> QED BY <1>1, <2>1 DEF Spent, Falls, Closes, Refreshed, UsesCode, Done
<1> QED BY <1>2, <1>3, <1>4, StepKinds

LEMMA SharedKept == ASSUME IInv, [Next]_vars PROVE Shared'
<1>1. TypeOK /\ Asked /\ History /\ Spent /\ Shared BY DEF IInv
<1>2. ASSUME NEW o \in Request, NEW q, NEW step, Sound(q, step), Arrived(o, q, step) PROVE Shared'
  <2>1. /\ \A p \in Request \ {o} : /\ at'[p] = at[p] /\ req'[p] = req[p]
                                    /\ met[p] \subseteq met'[p]
        /\ \A p \in InFlight : o \in met'[p]
        /\ at'[o] = step /\ req'[o] = q
    BY <1>2 DEF Arrived, InFlight
  <2>2. ASSUME NEW a \in Request, NEW b \in Request, a # b, Refreshed(a)', req'[b].op = "refreshToken",
               at'[b] # "failed", req'[a].session = req'[b].session
        PROVE  b \in met'[a]
    <3>1. a # o BY <1>2, <2>1, <2>2 DEF Refreshed, Sound, StepsOf
    <3>2. Refreshed(a) /\ req'[a] = req[a] BY <2>1, <2>2, <3>1 DEF Refreshed
    <3>3. CASE b # o BY <1>1, <2>1, <2>2, <3>1, <3>2, <3>3 DEF Shared
    <3>4. CASE b = o
      <4>1. PICK i \in Live : req[a].session = sessions[i].by
        BY <1>2, <2>1, <2>2, <3>2, <3>4 DEF Sound
      <4> QED BY <1>1, <3>2, <4>1 DEF Spent, Live
    <3> QED BY <3>3, <3>4
  <2>3. ASSUME NEW a \in Request, NEW b \in Request, a # b, UsesCode(a)', at'[a] = "done", UsesCode(b)',
               at'[b] # "failed", req'[a].code = req'[b].code
        PROVE  b \in met'[a]
    <3>1. a # o BY <1>2, <2>1, <2>3 DEF Arrived
    <3>2. UsesCode(a) /\ at[a] = "done" /\ req'[a] = req[a] BY <2>1, <2>3, <3>1 DEF UsesCode
    <3>3. CASE b # o BY <1>1, <2>1, <2>3, <3>1, <3>2, <3>3 DEF Shared, UsesCode
    <3>4. CASE b = o
      <4>1. PICK i \in Open : req[a].code = codes[i].by
        BY <1>2, <2>1, <2>3, <3>2, <3>4 DEF Sound, UsesCode
      <4> QED BY <1>1, <3>2, <4>1 DEF Spent, Open, Done
    <3> QED BY <3>3, <3>4
  <2> QED BY <2>2, <2>3 DEF Shared
<1>3. ASSUME NEW o \in Request, NEW step, Moves(o, step), Moved(o, step) PROVE Shared'
  <2>1. /\ req' = req /\ met' = met /\ at'[o] = step /\ o \in InFlight
        /\ \A p \in Request \ {o} : at'[p] = at[p]
        /\ \A p \in Request : at'[p] # "failed" => at[p] # "failed"
    BY <1>3 DEF Moved, InFlight
  <2>2. ASSUME NEW a \in Request, NEW b \in Request, a # b, Refreshed(a)', req[b].op = "refreshToken",
               at'[b] # "failed", req[a].session = req[b].session
        PROVE  b \in met[a]
    <3>1. CASE Refreshed(a) BY <1>1, <2>1, <2>2, <3>1 DEF Shared
    <3>2. CASE Refreshed(b)
      <4>1. at[a] # "failed" /\ req[a].op = "refreshToken" BY <2>1, <2>2 DEF Refreshed
      <4>2. a \in met[b] BY <1>1, <2>2, <3>2, <4>1 DEF Shared
      <4> QED BY <1>1, <4>2 DEF History
    <3>3. CASE ~Refreshed(a) /\ ~Refreshed(b)
      <4>1. a = o BY <2>1, <2>2, <3>3 DEF Refreshed
      <4>2. at[b] \notin {"failed", "done", "new"}
        BY <1>1, <2>1, <2>2, <3>3 DEF Refreshed, Asked, NoCall, None
      <4> QED BY <1>1, <2>1, <2>2, <4>1, <4>2 DEF History, InFlight
    <3> QED BY <3>1, <3>2, <3>3
  <2>3. ASSUME NEW a \in Request, NEW b \in Request, a # b, UsesCode(a), at'[a] = "done", UsesCode(b),
               at'[b] # "failed", req[a].code = req[b].code
        PROVE  b \in met[a]
    <3>1. CASE at[a] = "done" BY <1>1, <2>1, <2>3, <3>1 DEF Shared
    <3>2. CASE at[b] = "done"
      <4>1. at[a] # "failed" BY <2>1, <2>3
      <4>2. a \in met[b] BY <1>1, <2>3, <3>2, <4>1 DEF Shared
      <4> QED BY <1>1, <4>2 DEF History
    <3>3. CASE at[a] # "done" /\ at[b] # "done"
      <4>1. a = o BY <2>1, <2>3, <3>3
      <4>2. at[b] \notin {"failed", "done", "new"}
        BY <1>1, <2>1, <2>3, <3>3 DEF UsesCode, Asked, NoCall, None
      <4> QED BY <1>1, <2>1, <2>3, <4>1, <4>2 DEF History, InFlight
    <3> QED BY <3>1, <3>2, <3>3
  <2> QED BY <2>1, <2>2, <2>3 DEF Shared, UsesCode
<1>4. CASE Quiet
  <2>1. req' = req /\ at' = at /\ met' = met BY <1>4 DEF Quiet
  <2> QED BY <1>1, <2>1 DEF Shared, Refreshed, UsesCode
<1> QED BY <1>2, <1>3, <1>4, StepKinds

LEMMA InformedKept == ASSUME IInv, [Next]_vars PROVE Informed'
<1> DEFINE Relying == {"revoke", "save", "toggle", "link"}
<1>1. TypeOK /\ Asked /\ History /\ Informed BY DEF IInv
<1>2. ASSUME NEW o \in Request, NEW q, NEW step, Sound(q, step), Arrived(o, q, step) PROVE Informed'
  <2> SUFFICES ASSUME NEW p \in Request, at'[p] \in Relying
               PROVE  (Stands(p) \/ Overtaken(p))'
    BY DEF Informed
  <2>1. CASE p = o BY <1>2, <2>1 DEF Sound, Arrived, Stands
  <2>2. CASE p # o
    <3>1. /\ at'[p] = at[p] /\ req'[p] = req[p] /\ met[p] \subseteq met'[p]
          /\ status' = status /\ wrote' = wrote
      BY <1>2, <2>2 DEF Arrived
    <3>2. CASE Stands(p) BY <3>1, <3>2 DEF Stands
    <3>3. CASE Overtaken(p) BY <3>1, <3>3 DEF Overtaken
    <3> QED BY <1>1, <3>1, <3>2, <3>3 DEF Informed
  <2> QED BY <2>1, <2>2
<1>3. ASSUME NEW o \in Request, NEW step, Moves(o, step), Moved(o, step) PROVE Informed'
  <2> SUFFICES ASSUME NEW p \in Request, at'[p] \in Relying
               PROVE  (Stands(p) \/ Overtaken(p))'
    BY DEF Informed
  <2>1. /\ req' = req /\ met' = met /\ at'[o] = step /\ o \in InFlight
        /\ \A d \in Request \ {o} : at'[d] = at[d]
    BY <1>3 DEF Moved
  <2>2. CASE p = o
    <3>1. <<at[o], step>> \in {<<"check", "revoke">>, <<"revoke", "save">>, <<"link", "save">>}
      BY <1>3, <2>1, <2>2 DEF Moves, Ways
    <3>2. CASE at[o] = "check"
      BY <1>3, <2>1, <2>2, <3>1, <3>2 DEF Moves, Stands, Admits
    <3>3. CASE at[o] = "link"
      BY <1>3, <2>1, <2>2, <3>1, <3>3 DEF Moves, Stands
    <3>4. CASE at[o] = "revoke" /\ step = "save"
      <4>1. UNCHANGED <<status, wrote>> BY <1>3, <3>4 DEF Moves
      <4>2. Stands(o) \/ Overtaken(o) BY <1>1, <3>4 DEF Informed
      <4> QED BY <2>1, <2>2, <3>4, <4>1, <4>2 DEF Stands, Overtaken
    <3> QED BY <3>1, <3>2, <3>3, <3>4
  <2>3. CASE p # o /\ UNCHANGED <<status, wrote>>
    <3>1. at'[p] = at[p] /\ (Stands(p) \/ Overtaken(p)) BY <1>1, <2>1, <2>3 DEF Informed
    <3> QED BY <2>1, <2>3, <3>1 DEF Stands, Overtaken
  <2>4. CASE p # o /\ wrote' = [wrote EXCEPT ![o] = status']
    <3>1. wrote'[o] = status' BY <1>1, <2>4 DEF TypeOK
    <3>2. o \in met[p] BY <1>1, <2>1, <2>4 DEF History, InFlight
    <3> QED BY <2>1, <3>1, <3>2 DEF Overtaken
  <2> QED BY <1>3, <2>2, <2>3, <2>4 DEF Moves
<1>4. CASE Quiet
  <2>1. req' = req /\ at' = at /\ met' = met /\ status' = status /\ wrote' = wrote BY <1>4 DEF Quiet
  <2> QED BY <1>1, <2>1 DEF Informed, Stands, Overtaken
<1> QED BY <1>2, <1>3, <1>4, StepKinds

LEMMA OutliveKept == ASSUME IInv, [Next]_vars PROVE OnlyLateSavesOutlive'
<1>1. TypeOK /\ Rows /\ History /\ OnlyLateSavesOutlive BY DEF IInv
<1>2. ASSUME NEW o \in Request, NEW q, NEW step, Sound(q, step), Arrived(o, q, step)
      PROVE  OnlyLateSavesOutlive'
  <2>1. sessions' = sessions /\ Live' = Live /\ Done' = Done /\ o \notin Done /\ Done \subseteq Request
    BY <1>2 DEF Arrived, Done, Live
  <2>2. \A r \in Done : IsReset(r)' = IsReset(r) /\ IsDeletion(r)' = IsDeletion(r)
    BY <1>2, <2>1 DEF Arrived, IsReset, IsDeletion
  <2>3. \A i \in Live : sessions[i].by \in Request => sessions[i].by # o
    BY <1>1, <1>2 DEF Rows, Live, Arrived
  <2>4. \A p \in Request \ {o} : met[p] \subseteq met'[p] /\ before'[p] = before[p]
    BY <1>2 DEF Arrived
  <2> QED BY <1>1, <2>1, <2>2, <2>3, <2>4 DEF OnlyLateSavesOutlive
<1>3. ASSUME NEW o \in Request, NEW step, Moves(o, step), Moved(o, step) PROVE OnlyLateSavesOutlive'
  <2>1. /\ UNCHANGED <<req, met, before>> /\ o \in InFlight
        /\ Done' = IF step = "done" THEN Done \cup {o} ELSE Done
    BY <1>3 DEF Moved
  <2> SUFFICES ASSUME NEW i \in Live', NEW r \in Done', IsReset(r) \/ IsDeletion(r)
               PROVE  sessions'[i].by \in Request
                      /\ (r \in before[sessions'[i].by] \/ r \in met[sessions'[i].by])
    BY <2>1 DEF OnlyLateSavesOutlive, IsReset, IsDeletion
  <2>2. r \in Done
    <3>1. r = o => step # "done" BY <1>3 DEF Moves, Live
    <3> QED BY <2>1, <3>1
  <2>3. CASE Falls(sessions, sessions')
    <3>1. i \in Live /\ sessions'[i].by = sessions[i].by BY <2>3 DEF Falls, Live
    <3> QED BY <1>1, <2>2, <3>1 DEF OnlyLateSavesOutlive
  <2>4. CASE Grows(o, sessions, sessions')
    <3>1. PICK n : /\ n \notin DOMAIN sessions /\ DOMAIN sessions' = DOMAIN sessions \cup {n}
                   /\ sessions'[n].by = o
                   /\ \A j \in DOMAIN sessions : sessions'[j] = sessions[j]
      BY <2>4 DEF Grows
    <3>2. CASE i = n BY <1>1, <2>1, <2>2, <3>1, <3>2 DEF History
    <3>3. CASE i # n
      <4>1. i \in Live /\ sessions'[i].by = sessions[i].by BY <3>1, <3>3 DEF Live
      <4> QED BY <1>1, <2>2, <4>1 DEF OnlyLateSavesOutlive
    <3> QED BY <3>2, <3>3
  <2> QED BY <1>3, <2>3, <2>4 DEF Moves
<1>4. CASE Quiet
  <2>1. /\ UNCHANGED <<req, at, met, before>> /\ Falls(sessions, sessions') /\ Done' = Done
    BY <1>4 DEF Quiet, Done
  <2>2. \A i \in Live' : i \in Live /\ sessions'[i].by = sessions[i].by
    BY <2>1 DEF Falls, Live
  <2> QED BY <1>1, <2>1, <2>2 DEF OnlyLateSavesOutlive, IsReset, IsDeletion
<1> QED BY <1>2, <1>3, <1>4, StepKinds

----------------------------------------------------------------------------
LEMMA Initially == Init => IInv
<1> SUFFICES ASSUME Init PROVE IInv OBVIOUS
<1>1. sessions \in Seq(Session) /\ codes \in Seq(Code)
  <2> DEFINE mail(k) == [by |-> k, open |-> TRUE, mailed |-> TRUE]
  <2>1. [by |-> Earlier, live |-> TRUE] \in Session /\ mail(Earlier) \in Code /\ mail(Letter) \in Code
    BY DEF Session, Code, Key
  <2>2. codes = <<mail(Earlier)>> \/ codes = <<mail(Letter), mail(Earlier)>> BY DEF Init
  <2>3. <<mail(Earlier)>> \in Seq(Code) /\ <<mail(Letter), mail(Earlier)>> \in Seq(Code)
    <3> HIDE DEF mail
    <3> QED BY <2>1
  <2>4. <<[by |-> Earlier, live |-> TRUE]>> \in Seq(Session) BY <2>1
  <2>5. sessions = <<[by |-> Earlier, live |-> TRUE]>> BY DEF Init
  <2> QED BY <2>2, <2>3, <2>4, <2>5
<1>2. TypeOK BY <1>1, NoCallTyped DEF Init, TypeOK, Calling, UserStatus
<1>3. \A o \in Request : at[o] = "new" /\ req[o] = NoCall /\ met[o] = {} BY DEF Init
<1>4. InFlight = {} /\ Done = {} BY <1>3 DEF InFlight, Done
<1>5. /\ DOMAIN sessions = {1} /\ sessions[1].by = Earlier
      /\ \A i \in DOMAIN codes : codes[i].by \in {Letter, Earlier}
  BY DEF Init
<1>6. Asked BY <1>3, <1>4, EarlierAssumption DEF Asked, NoCall, None
<1>7. Rows BY <1>5, EarlierAssumption DEF Rows
<1>8. History BY <1>3, <1>4 DEF History
<1>9. Spent /\ Shared BY <1>3, <1>4 DEF Spent, Shared, Refreshed, UsesCode, NoCall, None
<1>10. Informed /\ OnlyLateSavesOutlive BY <1>3, <1>4 DEF Informed, OnlyLateSavesOutlive
<1> QED BY <1>2, <1>6, <1>7, <1>8, <1>9, <1>10 DEF IInv

LEMMA Inductive == IInv /\ [Next]_vars => IInv'
BY TypeKept, AskedKept, RowsKept, HistoryKept, SpentKept, SharedKept, InformedKept, OutliveKept
   DEF IInv

\* The strengthening of the invariants below holds throughout.
THEOREM Always == Spec => []IInv
BY Initially, Inductive, PTL DEF Spec

\* Rows, requests and histories keep their form.
THEOREM TypeCorrect == Spec => []TypeOK
<1>1. IInv => TypeOK BY DEF IInv
<1> QED BY <1>1, Always, PTL

\* A session is replaced once, but for refreshes that overlap: who has revoked it leaves none
\* that could be found.
THEOREM OverlapAloneForks == Spec => []OnlyOverlapForksSession
<1>1. IInv => OnlyOverlapForksSession
  BY DEF IInv, OnlyOverlapForksSession, Asked, Shared, Saved, Refreshed
<1> QED BY <1>1, Always, PTL

\* A reset or a deletion ends every session there is: what is live later was saved by a
\* request that came later or was under way.
THEOREM LateSavesAloneOutlive == Spec => []OnlyLateSavesOutlive
<1>1. IInv => OnlyLateSavesOutlive BY DEF IInv
<1> QED BY <1>1, Always, PTL

\* A code is used once, to reset the password or to verify the address, but for uses that overlap.
THEOREM OverlapAloneReuses == Spec => []OnlyOverlapReusesCode
<1>1. IInv => OnlyOverlapReusesCode
  BY DEF IInv, OnlyOverlapReusesCode, Shared, Done
<1> QED BY <1>1, Always, PTL

\* No session is saved for an account whose status admits none, unless that status was written by
\* a request that overlapped the login or refresh.
THEOREM OvertakenSavesAloneEvade == Spec => OnlyOvertakenSavesEvade
<1>1. ASSUME IInv, [Next]_vars, NEW o \in Request, at[o] = "save", at'[o] = "done",
             status \notin Admits(req[o].op)
      PROVE  \E d \in met[o] : wrote[d] = status
  BY <1>1 DEF IInv, Informed, Stands, Overtaken
<1>2. IInv /\ [Next]_vars =>
        [\A o \in Request :
           at[o] = "save" /\ at'[o] = "done" /\ status \notin Admits(req[o].op) =>
             \E d \in met[o] : wrote[d] = status]_vars
  BY <1>1
<1> QED BY <1>2, Always, PTL DEF Spec, OnlyOvertakenSavesEvade

\* Of all that writes the status, a toggle or a Google login, neither of which means to, revives a
\* deleted account only when it overlapped the deletion; an administrator's own setting and the code
\* of a registration may do so at any time.
THEOREM StaleReadsAloneRevive == Spec => OnlyStaleReadsRevive
<1>1. ASSUME IInv, [Next]_vars, status = "DELETED", status' = "ACTIVE"
      PROVE  \E o \in Request :
                /\ at[o] # at'[o]
                /\ \/ at[o] = "update" /\ req[o].status = "ACTIVE"
                   \/ at[o] = "verify"
                   \/ at[o] \in {"toggle", "link"} /\ \E d \in met[o] : wrote[d] = "DELETED"
  <2>0. PICK o \in Request : \E step : Moves(o, step) /\ Moved(o, step)
    BY <1>1, StepKinds DEF Arrived, Quiet
  <2>1. PICK step : Moves(o, step) /\ Moved(o, step)
    BY <2>0
  <2>2. at'[o] = step /\ at[o] # step
    BY <2>1 DEF Moves, Moved, Ways, InFlight
  <2>3. \/ at[o] = "update" /\ req[o].status = "ACTIVE"
        \/ at[o] = "verify"
        \/ at[o] \in {"toggle", "link"} /\ req[o].status # "DELETED"
    BY <1>1, <2>1 DEF Moves
  <2>4. CASE at[o] \in {"toggle", "link"} /\ req[o].status # "DELETED"
    <3>1. \E d \in met[o] : wrote[d] = "DELETED"
      BY <1>1, <2>4 DEF IInv, Informed, Stands, Overtaken
    <3> QED BY <2>2, <2>4, <3>1
  <2> QED BY <2>2, <2>3, <2>4
<1>2. IInv /\ [Next]_vars =>
        [status = "DELETED" /\ status' = "ACTIVE" =>
           \E o \in Request :
              /\ at[o] # at'[o]
              /\ \/ at[o] = "update" /\ req[o].status = "ACTIVE"
                 \/ at[o] = "verify"
                 \/ at[o] \in {"toggle", "link"} /\ \E d \in met[o] : wrote[d] = "DELETED"]_vars
  BY <1>1
<1> QED BY <1>2, Always, PTL DEF Spec, OnlyStaleReadsRevive

----------------------------------------------------------------------------
(* Maintenance.                                                              *)
\* What the cache holds is what the row says, or was asked for before the last change.
CacheTold ==
    Len(rows) = 1 /\ cache # NoCache =>
        \/ cache.on = rows[1].on /\ cache.endTime = rows[1].endTime
        \/ cache.lastChecked <= changedAt

\* So it is with what a request is about to put there.
FetchTold ==
    \A p \in Process : stage[p] = "fill" /\ Len(rows) = 1 =>
        task[p].seen = rows[1] \/ task[p].arrived <= changedAt

Announcing == {p \in Process : stage[p] = "announce"}

\* Nobody announces, or has announced, anything before there is a row.
NothingToTell == rows = <<>> => announced # "on" /\ Announcing = {}

\* A writer that is not marked as contended is the only one, and announces what it has written.
Alone ==
    \A p \in Writing : ~task[p].contended =>
        /\ Writing = {p}
        /\ stage[p] = "announce" /\ Len(rows) = 1 => rows[1].on = task[p].to.on

\* What was announced is true, or about to be announced again.
ToldTruly ==
    Len(rows) = 1 /\ announced # "unclear" =>
        (announced = "on" <=> rows[1].on) \/ Announcing # {}

MaintenanceInv == MaintenanceTypeOK /\ CacheTold /\ FetchTold /\ NothingToTell /\ Alone /\ ToldTruly

----------------------------------------------------------------------------
(* Types. *)
Stage == Answers \cup {"idle", "fetch", "fill", "role", "credentials",
                       "create", "write", "announce", "invalidate"}

\* What a request may carry.
Carried == [login : BOOLEAN, admin : BOOLEAN, arrived : 0..now, to : Switch,
            row : 0..Len(rows), seen : Switch, contended : BOOLEAN]

\* What the cache may hold.
Cached == [on : BOOLEAN, endTime : EndTime \cup {OpenEnd}, lastChecked : 0..now]

LEMMA TypeParts ==
    ASSUME MaintenanceTypeOK
    PROVE  /\ now \in Nat /\ changedAt \in Nat /\ changedAt <= now /\ now <= MaxTime
           /\ rows \in Seq(Switch) /\ Len(rows) \in Nat /\ DOMAIN rows = 1..Len(rows)
           /\ \A k \in DOMAIN rows : rows[k] \in Switch
           /\ cache = NoCache \/ cache \in Cached
           /\ task \in [Process -> Carried] /\ stage \in [Process -> Stage]
           /\ \A p \in Process : task[p] \in Carried
BY BoundAssumption, ElementOfSeq DEF MaintenanceTypeOK, Cached, Carried, Stage

LEMMA Switches ==
    /\ Off \in Switch
    /\ \A s \in Switch : s.on \in BOOLEAN /\ s.endTime \in EndTime \cup {OpenEnd}
    /\ \A s \in Switch : s.endTime \in Int
    /\ \A s, t \in Switch : s.on = t.on /\ s.endTime = t.endTime => s = t
<1>1. Switch \subseteq [on : BOOLEAN, endTime : EndTime \cup {OpenEnd}]
  <2>1. Off \in [on : BOOLEAN, endTime : EndTime \cup {OpenEnd}] BY DEF Off
  <2>2. \A s \in [on : {TRUE}, endTime : EndTime \cup {OpenEnd}] :
           s \in [on : BOOLEAN, endTime : EndTime \cup {OpenEnd}]
    <3> TAKE s \in [on : {TRUE}, endTime : EndTime \cup {OpenEnd}]
    <3>1. s = [on |-> s.on, endTime |-> s.endTime] /\ s.on = TRUE /\ s.endTime \in EndTime \cup {OpenEnd}
      OBVIOUS
    <3>2. s.on \in BOOLEAN BY <3>1
    <3> QED BY <3>1, <3>2
  <2> QED BY <2>1, <2>2 DEF Switch
<1>2. Off \in Switch BY DEF Switch
<1>3. EndTime \cup {OpenEnd} \subseteq Int BY BoundAssumption, TimeAssumption DEF OpenEnd
<1>4. \A s \in Switch : s.on \in BOOLEAN /\ s.endTime \in EndTime \cup {OpenEnd} BY <1>1
<1>5. \A s, t \in Switch : s.on = t.on /\ s.endTime = t.endTime => s = t BY <1>1
<1> QED BY <1>2, <1>3, <1>4, <1>5

\* Who finds a row finds one that is there.
LEMMA Finding ==
    ASSUME MaintenanceTypeOK, NEW k \in Found
    PROVE  /\ k \in 0..Len(rows) /\ Row(k) \in Switch
           /\ Len(rows) = 1 => k = 1 /\ Row(k) = rows[1]
BY TypeParts, Switches DEF Found, Row, NoRow

\* What was carried may still be carried when the clock went on and rows were added.
LEMMA StillCarried ==
    ASSUME MaintenanceTypeOK, now' \in Nat, now <= now', Len(rows') \in Nat, Len(rows) <= Len(rows')
    PROVE  Carried \subseteq Carried' /\ Cached \subseteq Cached'
<1>1. 0..now \subseteq 0..now' /\ 0..Len(rows) \subseteq 0..Len(rows') BY TypeParts
<1> QED BY <1>1 DEF Carried, Cached

\* Only request p has moved.
HasMoved(p) ==
    /\ stage' \in [Process -> Stage] /\ task' \in [Process -> Carried']
    /\ \A q \in Process \ {p} : stage'[q] = stage[q] /\ task'[q] = task[q]

LEMMA Going ==
    ASSUME MaintenanceTypeOK, Carried \subseteq Carried',
           NEW p \in Process, \E s \in Stage : \E r \in Carried' : Proceeds(p, s, r)
    PROVE  HasMoved(p)
BY TypeParts DEF Proceeds, HasMoved

LEMMA Typed ==
    ASSUME MaintenanceTypeOK, NEW p \in Process, HasMoved(p),
           now' \in now..MaxTime, changedAt' \in {changedAt, now'}, rows' \in Seq(Switch),
           cache' = NoCache \/ cache' \in Cached', announced' \in {"on", "off", "unclear"}
    PROVE  MaintenanceTypeOK'
<1>1. now' \in 0..MaxTime /\ changedAt' \in 0..now' BY TypeParts
<1> QED BY <1>1 DEF MaintenanceTypeOK, HasMoved, Stage, Carried, Cached

LEMMA Idling ==
    ASSUME MaintenanceTypeOK
    PROVE  /\ Idle \in Carried
           /\ \A r \in Carried, s \in Switch : [r EXCEPT !.seen = s] \in Carried
<1>1. Idle \in Carried BY TypeParts, Switches DEF Idle, Carried, NoRow
<1>2. ASSUME NEW r \in Carried, NEW s \in Switch
      PROVE  [r EXCEPT !.seen = s] \in Carried
  BY <1>2 DEF Carried
<1> QED BY <1>1, <1>2

----------------------------------------------------------------------------
(* What is left as it is. *)

\* Steps that neither begin nor end an announcement.
LEMMA Unannounced ==
    ASSUME MaintenanceInv, NEW p \in Process, HasMoved(p), rows' = rows, announced' = announced,
           stage[p] # "announce", stage'[p] \notin {"write", "announce"}
    PROVE  NothingToTell' /\ Alone' /\ ToldTruly'
<1>1. Announcing' = Announcing /\ Writing' = Writing \ {p}
  BY DEF Announcing, Writing, HasMoved
<1>2. NothingToTell' /\ ToldTruly'
  BY <1>1 DEF MaintenanceInv, NothingToTell, ToldTruly
<1>3. Alone'
  <2> SUFFICES ASSUME NEW q \in Writing', ~task'[q].contended
               PROVE  /\ Writing' = {q}
                      /\ stage'[q] = "announce" /\ Len(rows') = 1 => rows'[1].on = task'[q].to.on
    BY DEF Alone
  <2>1. q \in Writing /\ q \in Process /\ q # p BY <1>1 DEF Writing
  <2>2. stage'[q] = stage[q] /\ task'[q] = task[q] BY <2>1 DEF HasMoved
  <2>3. Writing = {q} BY <2>1, <2>2 DEF MaintenanceInv, Alone
  <2>4. Writing' = {q} BY <2>3, <1>1
  <2> QED BY <2>1, <2>2, <2>4 DEF MaintenanceInv, Alone
<1> QED BY <1>2, <1>3

\* Steps that touch neither the row nor the cache, and fetch nothing.
LEMMA Unfetched ==
    ASSUME MaintenanceInv, NEW p \in Process, HasMoved(p), UNCHANGED <<rows, changedAt, cache>>,
           stage'[p] # "fill"
    PROVE  CacheTold' /\ FetchTold'
BY DEF MaintenanceInv, CacheTold, FetchTold, HasMoved
\* Steps of a request or a job that only read, or give up.
LEMMA Reading ==
    ASSUME MaintenanceInv, NEW p \in Process, \E s \in Stage : \E r \in Carried : Proceeds(p, s, r),
           stage[p] # "announce", stage'[p] \notin {"write", "announce", "fill"},
           UNCHANGED <<now, rows, changedAt, cache, announced>>
    PROVE  MaintenanceInv'
<1>1. MaintenanceTypeOK BY DEF MaintenanceInv
<1>2. Carried' = Carried /\ Cached' = Cached BY DEF Carried, Cached
<1>3. HasMoved(p) BY <1>1, <1>2, Going
<1>4. MaintenanceTypeOK' BY <1>1, <1>2, <1>3, Typed, TypeParts DEF MaintenanceTypeOK
<1> QED BY <1>3, <1>4, Unannounced, Unfetched DEF MaintenanceInv

----------------------------------------------------------------------------
(* The guard. *)

\* The guard has decided by c, which is what the row says or was asked for before it changed.
LEMMA Judging ==
    ASSUME MaintenanceInv, NEW o \in HttpRequest, stage[o] # "announce", NEW r \in Carried, NEW c \in Cached,
           Judge(o, r, c),
           Len(rows) = 1 => (c.on = rows[1].on /\ c.endTime = rows[1].endTime)
                            \/ c.lastChecked <= changedAt
    PROVE  MaintenanceInv'
<1>1. MaintenanceTypeOK /\ o \in Process BY DEF MaintenanceInv, Process
<1>2. Carried' = Carried /\ Cached' = Cached BY DEF Judge, Carried, Cached
<1>3. Verdict(r, c) \in {"credentials", "admitted", "refused", "role"}
  BY <1>1, TypeParts DEF Verdict, Passed, Carried
<1>4. [r EXCEPT !.seen = Off] \in Carried BY <1>1, Idling, Switches
<1>5. stage'[o] = Verdict(r, c) BY <1>1, TypeParts DEF Judge, Proceeds
<1>6. Proceeds(o, Verdict(r, c), [r EXCEPT !.seen = Off]) BY DEF Judge
<1>7. HasMoved(o)
  <2>1. Verdict(r, c) \in Stage BY <1>3 DEF Stage, Answers
  <2>2. \E s \in Stage : \E t \in Carried' : Proceeds(o, s, t) BY <2>1, <1>2, <1>4, <1>6
  <2> QED BY <2>2, <1>1, <1>2, Going
<1>8. cache' = NoCache \/ cache' = c BY DEF Judge
<1>9. MaintenanceTypeOK' BY <1>1, <1>2, <1>7, <1>8, Typed, TypeParts DEF Judge, MaintenanceTypeOK
<1>10. NothingToTell' /\ Alone' /\ ToldTruly'
  BY <1>1, <1>3, <1>5, <1>7, Unannounced DEF Judge
<1>11. CacheTold' BY <1>8 DEF Judge, CacheTold
<1>12. FetchTold' BY <1>1, <1>3, <1>5, <1>7 DEF MaintenanceInv, FetchTold, Judge, HasMoved
<1> QED BY <1>9, <1>10, <1>11, <1>12 DEF MaintenanceInv

LEMMA CanActivateKeeps ==
    ASSUME MaintenanceInv, NEW o \in HttpRequest, CanActivate(o)
    PROVE  MaintenanceInv'
<1>1. PICK login \in BOOLEAN, admin \in BOOLEAN :
         LET r == [Idle EXCEPT !.login = login, !.admin = admin, !.arrived = now] IN
         IF Fresh THEN Judge(o, r, cache)
                  ELSE /\ Proceeds(o, "fetch", r)
                       /\ UNCHANGED <<now, rows, changedAt, cache, announced>>
  BY DEF CanActivate
<1> DEFINE r == [Idle EXCEPT !.login = login, !.admin = admin, !.arrived = now]
<1>2. MaintenanceTypeOK /\ o \in Process /\ stage[o] = "idle" BY DEF MaintenanceInv, Process, CanActivate
<1>3. r \in Carried
  <2>1. Idle \in Carried /\ now \in 0..now BY <1>2, Idling, TypeParts
  <2> QED BY <2>1 DEF Carried
<1>4. CASE Fresh
  <2>1. Judge(o, r, cache) BY <1>1, <1>4
  <2>2. cache \in Cached /\ cache # NoCache BY <1>2, <1>4, TypeParts DEF Fresh
  <2> HIDE DEF r
  <2> QED BY <1>2, <1>3, <2>1, <2>2, Judging DEF MaintenanceInv, CacheTold
<1>5. CASE ~Fresh
  <2>1. Proceeds(o, "fetch", r) /\ UNCHANGED <<now, rows, changedAt, cache, announced>>
    BY <1>1, <1>5
  <2> HIDE DEF r
  <2>2. stage'[o] = "fetch" BY <1>2, <2>1, TypeParts DEF Proceeds
  <2>3. \E s \in Stage : \E t \in Carried : Proceeds(o, s, t) BY <1>3, <2>1 DEF Stage
  <2> QED BY <1>2, <2>1, <2>2, <2>3, Reading
<1> QED BY <1>4, <1>5

LEMMA FetchRowKeeps ==
    ASSUME MaintenanceInv, NEW o \in HttpRequest, FetchRow(o)
    PROVE  MaintenanceInv'
<1>1. MaintenanceTypeOK /\ o \in Process /\ stage[o] = "fetch" BY DEF MaintenanceInv, Process, FetchRow
<1>2. PICK k \in Found : Proceeds(o, "fill", [task[o] EXCEPT !.seen = Row(k)])
  BY DEF FetchRow
<1>3. Row(k) \in Switch /\ (Len(rows) = 1 => Row(k) = rows[1]) BY <1>1, Finding
<1>4. task[o] \in Carried /\ [task[o] EXCEPT !.seen = Row(k)] \in Carried
  BY <1>1, <1>3, TypeParts, Idling
<1>5. UNCHANGED <<now, rows, changedAt, cache, announced>> BY DEF FetchRow
<1>6. Carried' = Carried /\ Cached' = Cached BY <1>5 DEF Carried, Cached
<1>7. HasMoved(o)
  <2>1. \E s \in Stage : \E t \in Carried' : Proceeds(o, s, t) BY <1>2, <1>4, <1>6 DEF Stage
  <2> QED BY <2>1, <1>1, <1>6, Going
<1>8. stage'[o] = "fill" /\ task'[o].seen = Row(k)
  BY <1>1, <1>2, <1>4, TypeParts DEF Proceeds, Carried
<1>9. MaintenanceTypeOK' BY <1>1, <1>5, <1>6, <1>7, Typed, TypeParts DEF MaintenanceTypeOK
<1>10. NothingToTell' /\ Alone' /\ ToldTruly' BY <1>1, <1>5, <1>7, <1>8, Unannounced
<1>11. CacheTold' BY <1>5 DEF MaintenanceInv, CacheTold
<1>12. FetchTold' BY <1>3, <1>5, <1>7, <1>8 DEF MaintenanceInv, FetchTold, HasMoved
<1> QED BY <1>9, <1>10, <1>11, <1>12 DEF MaintenanceInv

LEMMA FillCacheKeeps ==
    ASSUME MaintenanceInv, NEW o \in HttpRequest, FillCache(o)
    PROVE  MaintenanceInv'
<1> DEFINE c == [on |-> task[o].seen.on, endTime |-> task[o].seen.endTime,
                 lastChecked |-> task[o].arrived]
<1>1. MaintenanceTypeOK /\ o \in Process /\ stage[o] = "fill" BY DEF MaintenanceInv, Process, FillCache
<1>2. task[o] \in Carried BY <1>1, TypeParts
<1>3. c \in Cached
  <2>1. task[o].seen \in Switch /\ task[o].arrived \in 0..now BY <1>2 DEF Carried
  <2> QED BY <2>1, Switches DEF Cached
<1>4. Len(rows) = 1 => (c.on = rows[1].on /\ c.endTime = rows[1].endTime)
                       \/ c.lastChecked <= changedAt
  BY <1>1 DEF MaintenanceInv, FetchTold
<1>5. Judge(o, task[o], c) BY DEF FillCache
<1> HIDE DEF c
<1> QED BY <1>1, <1>2, <1>3, <1>4, <1>5, Judging
\* The steps that only read: what the guard, login and the job do without the cache.
Reads(p) ==
    \/ FetchFails(p) \/ FindRole(p) \/ LoginCheck(p)
    \/ GetMaintenanceStatus(p) \/ Answered(p) \/ Skip(p) \/ DatabaseFails(p)

LEMMA ReadsKeep ==
    ASSUME MaintenanceInv, NEW p \in Process, Reads(p)
    PROVE  MaintenanceInv'
<1>1. MaintenanceTypeOK /\ task[p] \in Carried /\ Idle \in Carried BY Idling, TypeParts DEF MaintenanceInv
<1>2. stage[p] # "announce" /\ UNCHANGED <<now, rows, changedAt, cache, announced>>
  BY DEF Reads, FetchFails, FindRole, LoginCheck, GetMaintenanceStatus, Answered, Skip,
         DatabaseFails, Answers
<1>3. \E s \in {"idle", "create", "credentials", "admitted", "refused", "failed"} :
         \E r \in Carried : Proceeds(p, s, r)
  <2>1. CASE FetchFails(p) BY <1>1, <2>1 DEF FetchFails, Passed
  <2>2. CASE FindRole(p)
    <3>1. task[p].admin \in BOOLEAN BY <1>1 DEF Carried
    <3> QED BY <1>1, <2>2, <3>1 DEF FindRole
  <2>3. CASE LoginCheck(p) BY <1>1, <2>3 DEF LoginCheck
  <2>4. CASE GetMaintenanceStatus(p) BY <1>1, <2>4 DEF GetMaintenanceStatus
  <2>5. CASE Answered(p) BY <1>1, <2>5 DEF Answered
  <2>6. CASE Skip(p) BY <1>1, <2>6 DEF Skip
  <2>7. CASE DatabaseFails(p) BY <1>1, <2>7 DEF DatabaseFails
  <2> QED BY <2>1, <2>2, <2>3, <2>4, <2>5, <2>6, <2>7 DEF Reads
<1>4. \E s \in Stage : \E r \in Carried : Proceeds(p, s, r) BY <1>3 DEF Stage, Answers
<1>5. stage'[p] \notin {"write", "announce", "fill"} BY <1>1, <1>3, TypeParts DEF Proceeds
<1> QED BY <1>2, <1>4, <1>5, Reading

----------------------------------------------------------------------------
(* The row and its writers. *)

LEMMA TickKeeps ==
    ASSUME MaintenanceInv, Tick
    PROVE  MaintenanceInv'
<1>1. /\ MaintenanceTypeOK /\ now' = now + 1 /\ now < MaxTime
      /\ UNCHANGED <<rows, changedAt, cache, announced, task, stage>>
  BY DEF MaintenanceInv, Tick
<1>2. now \in Nat /\ Carried \subseteq Carried' /\ Cached \subseteq Cached'
  BY <1>1, StillCarried, TypeParts
<1>3. now' \in 0..MaxTime /\ changedAt' \in 0..now' BY <1>1, TypeParts, BoundAssumption
<1>4. task' \in [Process -> Carried'] BY <1>1, <1>2, TypeParts
<1>5. MaintenanceTypeOK' BY <1>1, <1>2, <1>3, <1>4 DEF MaintenanceTypeOK, Carried, Cached
<1> QED BY <1>1, <1>5
        DEF MaintenanceInv, CacheTold, FetchTold, NothingToTell, Announcing, Alone, Writing, ToldTruly

\* A row is written: whatever was read or asked for before is older than the change.
LEMMA Changing ==
    ASSUME MaintenanceInv, NEW p \in Process, changedAt' = now, UNCHANGED <<now, cache>>,
           HasMoved(p), stage'[p] # "fill"
    PROVE  CacheTold' /\ FetchTold'
<1>1. MaintenanceTypeOK BY DEF MaintenanceInv
<1>2. CacheTold'
  <2>1. cache = NoCache \/ cache.lastChecked <= now BY <1>1, TypeParts DEF Cached
  <2> QED BY <2>1 DEF CacheTold
<1>3. FetchTold'
  <2>1. \A q \in Process : task[q].arrived <= now BY <1>1, TypeParts DEF Carried
  <2> QED BY <2>1 DEF FetchTold, HasMoved
<1> QED BY <1>2, <1>3

LEMMA CreateRowKeeps ==
    ASSUME MaintenanceInv, NEW o \in HttpRequest, CreateRow(o)
    PROVE  MaintenanceInv'
<1>1. MaintenanceTypeOK /\ o \in Process /\ stage[o] = "create" BY DEF MaintenanceInv, Process, CreateRow
<1>2. UNCHANGED <<now, cache, announced>> /\ changedAt' = now /\ rows' = Append(rows, Off)
  BY DEF CreateRow
<1>3. rows' \in Seq(Switch) /\ Len(rows') = Len(rows) + 1
  BY <1>1, <1>2, Switches, TypeParts
<1>4. Carried \subseteq Carried' /\ Cached' = Cached
  BY <1>1, <1>2, <1>3, StillCarried, TypeParts DEF Cached
<1>5. HasMoved(o) /\ stage'[o] = "idle"
  <2>1. Proceeds(o, "idle", Idle) BY DEF CreateRow
  <2>2. \E s \in Stage : \E r \in Carried' : Proceeds(o, s, r)
    BY <1>1, <1>4, <2>1, Idling DEF Stage
  <2> QED BY <1>1, <1>4, <2>1, <2>2, Going, TypeParts DEF Proceeds
<1>6. MaintenanceTypeOK' BY <1>1, <1>2, <1>3, <1>4, <1>5, Typed, TypeParts DEF MaintenanceTypeOK
<1>7. CacheTold' /\ FetchTold' BY <1>1, <1>2, <1>5, Changing
<1>8. Announcing' = Announcing /\ Writing' = Writing /\ o \notin Writing
  BY <1>1, <1>5 DEF Announcing, Writing, HasMoved
<1>9. Len(rows') = 1 => rows = <<>> /\ rows'[1] = Off
  BY <1>1, <1>2, <1>3, TypeParts, EmptySeq
<1>10. NothingToTell' BY <1>3, <1>1, TypeParts, EmptySeq DEF NothingToTell
<1>11. ToldTruly' BY <1>2, <1>9 DEF MaintenanceInv, NothingToTell, ToldTruly, Off
<1>12. Alone'
  <2> SUFFICES ASSUME NEW q \in Writing, ~task'[q].contended
               PROVE  Writing = {q} /\ ~(stage'[q] = "announce" /\ Len(rows') = 1)
    BY <1>8 DEF Alone
  <2>1. q \in Process /\ stage'[q] = stage[q] /\ task'[q] = task[q] BY <1>5, <1>8 DEF Writing, HasMoved
  <2>2. Writing = {q} BY <2>1 DEF MaintenanceInv, Alone
  <2>3. stage[q] = "announce" => rows # <<>> BY <2>1 DEF MaintenanceInv, NothingToTell, Announcing
  <2> QED BY <1>9, <2>1, <2>2, <2>3
<1> QED BY <1>6, <1>7, <1>10, <1>11, <1>12 DEF MaintenanceInv
\* An update, or a run of the job, begins: whoever writes meanwhile is contended.
LEMMA Starting ==
    ASSUME MaintenanceInv, NEW p \in Process, NEW r \in Carried, Starts(p, r)
    PROVE  MaintenanceInv'
<1>1. MaintenanceTypeOK /\ stage[p] = "idle" BY DEF MaintenanceInv, Starts
<1>2. UNCHANGED <<now, rows, changedAt, cache, announced>> BY DEF Starts
<1>3. Carried' = Carried /\ Cached' = Cached BY <1>2 DEF Carried, Cached
<1>4. /\ stage' \in [Process -> Stage] /\ stage'[p] = "write"
      /\ \A q \in Process \ {p} : stage'[q] = stage[q]
  BY <1>1, TypeParts DEF Starts, Stage
<1>5. \A q \in Process \ {p} :
         task'[q] = [task[q] EXCEPT !.contended = task[q].contended \/ q \in Writing]
  BY <1>1, TypeParts DEF Starts
<1>6. task'[p] = [r EXCEPT !.contended = Writing # {}] BY <1>1 DEF Starts
<1>7. \A q \in Process : task'[q] \in Carried
  <2>1. \A t \in Carried, b \in BOOLEAN : [t EXCEPT !.contended = b] \in Carried BY DEF Carried
  <2>2. task'[p] \in Carried
    <3>1. (Writing # {}) \in BOOLEAN OBVIOUS
    <3> QED BY <1>6, <2>1, <3>1, Zenon
  <2>3. ASSUME NEW q \in Process \ {p} PROVE task'[q] \in Carried
    <3>1. (task[q].contended \/ q \in Writing) \in BOOLEAN OBVIOUS
    <3>2. task[q] \in Carried BY <1>1, TypeParts
    <3> QED BY <1>5, <2>1, <3>1, <3>2, Zenon
  <2> QED BY <2>2, <2>3
<1>8. task' \in [Process -> Carried'] BY <1>3, <1>7 DEF Starts
<1>9. MaintenanceTypeOK' BY <1>1, <1>2, <1>3, <1>4, <1>8 DEF MaintenanceTypeOK, Stage, Carried, Cached
<1>10. \A q \in Process \ {p} : /\ task'[q].seen = task[q].seen
                               /\ task'[q].arrived = task[q].arrived
                               /\ task'[q].contended = (task[q].contended \/ q \in Writing)
  <2> SUFFICES ASSUME NEW q \in Process \ {p}
               PROVE  /\ task'[q].seen = task[q].seen
                      /\ task'[q].arrived = task[q].arrived
                      /\ task'[q].contended = (task[q].contended \/ q \in Writing)
    OBVIOUS
  <2>1. task[q] \in Carried BY <1>1, TypeParts
  <2>2. task'[q] = [task[q] EXCEPT !.contended = task[q].contended \/ q \in Writing] BY <1>5
  <2> QED BY <2>1, <2>2 DEF Carried
<1>11. CacheTold' /\ FetchTold' BY <1>2, <1>4, <1>10 DEF MaintenanceInv, CacheTold, FetchTold
<1>12. Announcing' = Announcing /\ Writing' = Writing \cup {p} /\ p \notin Writing
  BY <1>1, <1>4 DEF Announcing, Writing
<1>13. NothingToTell' /\ ToldTruly' BY <1>2, <1>12 DEF MaintenanceInv, NothingToTell, ToldTruly
<1>14. Alone'
  <2>1. \A q \in Writing : task'[q].contended BY <1>10, <1>12 DEF Writing
  <2>2. task'[p].contended = (Writing # {}) BY <1>6 DEF Carried
  <2> QED BY <1>4, <1>12, <2>1, <2>2 DEF Alone
<1> QED BY <1>9, <1>11, <1>13, <1>14 DEF MaintenanceInv

LEMMA UpdateKeeps ==
    ASSUME MaintenanceInv, NEW o \in HttpRequest, UpdateMaintenanceStatus(o)
    PROVE  MaintenanceInv'
<1>1. PICK s \in Switch, k \in Found : Starts(o, [Idle EXCEPT !.to = s, !.row = k])
  BY DEF UpdateMaintenanceStatus
<1>2. MaintenanceTypeOK /\ o \in Process BY DEF MaintenanceInv, Process
<1>3. [Idle EXCEPT !.to = s, !.row = k] \in Carried
  <2>1. Idle \in Carried /\ k \in 0..Len(rows) BY <1>2, Idling, Finding
  <2> QED BY <2>1 DEF Carried
<1> QED BY <1>1, <1>2, <1>3, Starting

LEMMA AutoDisableKeeps ==
    ASSUME MaintenanceInv, NEW j \in Job, HandleMaintenanceAutoDisable(j)
    PROVE  MaintenanceInv'
<1>1. PICK k \in Found : Starts(j, [Idle EXCEPT !.row = k, !.seen = Row(k)])
  BY DEF HandleMaintenanceAutoDisable
<1>2. MaintenanceTypeOK /\ j \in Process BY DEF MaintenanceInv, Process
<1>3. [Idle EXCEPT !.row = k, !.seen = Row(k)] \in Carried
  <2>1. Idle \in Carried /\ k \in 0..Len(rows) /\ Row(k) \in Switch BY <1>2, Idling, Finding
  <2> QED BY <2>1 DEF Carried
<1> QED BY <1>1, <1>2, <1>3, Starting

LEMMA WriteRowKeeps ==
    ASSUME MaintenanceInv, NEW p \in Process, WriteRow(p)
    PROVE  MaintenanceInv'
<1> DEFINE r == [task[p] EXCEPT !.row = NoRow, !.seen = Off]
<1>1. MaintenanceTypeOK /\ stage[p] = "write" /\ task[p] \in Carried BY TypeParts DEF MaintenanceInv, WriteRow
<1>2. UNCHANGED <<now, cache, announced>> /\ changedAt' = now BY DEF WriteRow
<1>3. task[p].row \in 0..Len(rows) /\ task[p].to \in Switch BY <1>1 DEF Carried
<1>4. /\ rows' \in Seq(Switch) /\ Len(rows') >= Len(rows) /\ Len(rows') > 0 /\ Len(rows') \in Nat
      /\ Len(rows') = 1 => rows'[1] = task[p].to
  <2>1. CASE task[p].row = NoRow
    <3>1. rows' = Append(rows, task[p].to) BY <2>1 DEF WriteRow
    <3> QED BY <1>1, <1>3, <3>1, TypeParts
  <2>2. CASE task[p].row # NoRow
    <3>1. rows' = [rows EXCEPT ![task[p].row] = task[p].to] BY <2>2 DEF WriteRow
    <3>2. task[p].row \in 1..Len(rows) BY <1>1, <1>3, <2>2, TypeParts DEF NoRow
    <3> QED BY <1>1, <1>3, <3>1, <3>2, TypeParts
  <2> QED BY <2>1, <2>2
<1>5. Carried \subseteq Carried' /\ Cached' = Cached
  BY <1>1, <1>2, <1>4, StillCarried, TypeParts DEF Cached
<1>6. r \in Carried
  <2>1. NoRow \in 0..Len(rows) /\ Off \in Switch BY <1>1, TypeParts, Switches DEF NoRow
  <2> QED BY <1>1, <2>1 DEF Carried
<1>7. Proceeds(p, "announce", r) BY DEF WriteRow
<1>8. r.to = task[p].to /\ r.contended = task[p].contended BY <1>1 DEF Carried
<1> HIDE DEF r
<1>9. HasMoved(p) /\ stage'[p] = "announce" /\ task'[p] = r
  <2>1. \E s \in Stage : \E t \in Carried' : Proceeds(p, s, t) BY <1>5, <1>6, <1>7 DEF Stage
  <2> QED BY <1>1, <1>5, <1>7, <2>1, Going, TypeParts DEF Proceeds
<1>10. MaintenanceTypeOK' BY <1>1, <1>2, <1>4, <1>5, <1>9, Typed, TypeParts DEF MaintenanceTypeOK
<1>11. CacheTold' /\ FetchTold' BY <1>2, <1>9, Changing
<1>12. p \in Announcing' /\ Writing' = Writing BY <1>1, <1>9 DEF Announcing, Writing, HasMoved
<1>13. NothingToTell' BY <1>4, EmptySeq DEF NothingToTell
<1>14. ToldTruly' BY <1>12 DEF ToldTruly
<1>15. Alone'
  <2> SUFFICES ASSUME NEW q \in Writing, ~task'[q].contended
               PROVE  /\ Writing = {q}
                      /\ Len(rows') = 1 => rows'[1].on = task'[q].to.on
    BY <1>12 DEF Alone
  <2>1. q \in Process /\ ~task[q].contended BY <1>8, <1>9 DEF Writing, HasMoved
  <2>2. Writing = {q} BY <2>1 DEF MaintenanceInv, Alone
  <2>3. q = p BY <1>1, <2>2 DEF Writing
  <2> QED BY <1>4, <1>8, <1>9, <2>2, <2>3
<1> QED BY <1>10, <1>11, <1>13, <1>14, <1>15 DEF MaintenanceInv

LEMMA AnnounceKeeps ==
    ASSUME MaintenanceInv, NEW p \in Process, Announce(p)
    PROVE  MaintenanceInv'
<1>1. MaintenanceTypeOK /\ stage[p] = "announce" BY DEF MaintenanceInv, Announce
<1>2. UNCHANGED <<now, rows, changedAt, cache>> BY DEF Announce
<1>3. Carried' = Carried /\ Cached' = Cached BY <1>2 DEF Carried, Cached
<1>4. HasMoved(p) /\ stage'[p] = "invalidate"
  <2>1. Proceeds(p, "invalidate", Idle) BY DEF Announce
  <2>2. \E s \in Stage : \E t \in Carried' : Proceeds(p, s, t)
    BY <1>1, <1>3, <2>1, Idling DEF Stage
  <2> QED BY <1>1, <1>3, <2>1, <2>2, Going, TypeParts DEF Proceeds
<1>5. announced' \in {"on", "off", "unclear"} BY DEF Announce
<1>6. MaintenanceTypeOK' BY <1>1, <1>2, <1>3, <1>4, <1>5, Typed, TypeParts DEF MaintenanceTypeOK
<1>7. CacheTold' /\ FetchTold' BY <1>2, <1>4, Unfetched
<1>8. Announcing' = Announcing \ {p} /\ Writing' = Writing \ {p} /\ p \in Writing /\ p \in Announcing
  BY <1>1, <1>4 DEF Announcing, Writing, HasMoved
<1>9. NothingToTell' BY <1>2, <1>8 DEF MaintenanceInv, NothingToTell
<1>10. ToldTruly'
  <2> SUFFICES ASSUME Len(rows) = 1, announced' # "unclear"
               PROVE  announced' = "on" <=> rows[1].on
    BY <1>2 DEF ToldTruly
  <2>1. ~task[p].contended /\ announced' = IF task[p].to.on THEN "on" ELSE "off"
    BY DEF Announce
  <2>2. rows[1].on = task[p].to.on BY <1>1, <1>8, <2>1 DEF MaintenanceInv, Alone
  <2> QED BY <2>1, <2>2
<1>11. Alone'
  <2> SUFFICES ASSUME NEW q \in Writing \ {p} PROVE task'[q].contended
    BY <1>8 DEF Alone
  <2>1. task'[q] = task[q] BY <1>4 DEF Writing, HasMoved
  <2> QED BY <1>8, <2>1 DEF MaintenanceInv, Alone
<1> QED BY <1>6, <1>7, <1>9, <1>10, <1>11 DEF MaintenanceInv

LEMMA InvalidateKeeps ==
    ASSUME MaintenanceInv, NEW p \in Process, InvalidateMaintenanceCache(p)
    PROVE  MaintenanceInv'
<1>1. MaintenanceTypeOK /\ stage[p] = "invalidate" /\ cache' = NoCache
  BY DEF MaintenanceInv, InvalidateMaintenanceCache
<1>2. UNCHANGED <<now, rows, changedAt, announced>> BY DEF InvalidateMaintenanceCache
<1>3. Carried' = Carried /\ Cached' = Cached BY <1>2 DEF Carried, Cached
<1>4. HasMoved(p) /\ stage'[p] = "idle"
  <2>1. Proceeds(p, "idle", Idle) BY DEF InvalidateMaintenanceCache
  <2>2. \E s \in Stage : \E t \in Carried' : Proceeds(p, s, t)
    BY <1>1, <1>3, <2>1, Idling DEF Stage
  <2> QED BY <1>1, <1>3, <2>1, <2>2, Going, TypeParts DEF Proceeds
<1>5. MaintenanceTypeOK' BY <1>1, <1>2, <1>3, <1>4, Typed, TypeParts DEF MaintenanceTypeOK
<1>6. CacheTold' /\ FetchTold' BY <1>1, <1>2, <1>4 DEF MaintenanceInv, CacheTold, FetchTold, HasMoved
<1> QED BY <1>1, <1>2, <1>4, <1>5, <1>6, Unannounced DEF MaintenanceInv
----------------------------------------------------------------------------
(* The theorems. *)

LEMMA InitHolds == MaintenanceInit => MaintenanceInv
<1> SUFFICES ASSUME MaintenanceInit PROVE MaintenanceInv OBVIOUS
<1>1. rows = <<>> /\ rows \in Seq(Switch) /\ Len(rows) = 0 BY DEF MaintenanceInit
<1>2. Idle \in Carried BY <1>1, Switches DEF MaintenanceInit, Idle, Carried, NoRow
<1>3. MaintenanceTypeOK BY <1>1, <1>2, BoundAssumption DEF MaintenanceInit, MaintenanceTypeOK, Carried
<1>4. Writing = {} /\ Announcing = {} BY DEF MaintenanceInit, Writing, Announcing
<1> QED BY <1>1, <1>3, <1>4
        DEF MaintenanceInit, MaintenanceInv, CacheTold, FetchTold, NothingToTell, Alone, ToldTruly

LEMMA StepHolds == MaintenanceInv /\ [MaintenanceNext]_maintenanceVars => MaintenanceInv'
<1> SUFFICES ASSUME MaintenanceInv, [MaintenanceNext]_maintenanceVars PROVE MaintenanceInv' OBVIOUS
<1>1. CASE UNCHANGED maintenanceVars
  BY <1>1 DEF maintenanceVars, MaintenanceInv, MaintenanceTypeOK, CacheTold, FetchTold, NothingToTell, Announcing,
              Alone, Writing, ToldTruly
<1>2. CASE Tick BY <1>2, TickKeeps
<1>3. ASSUME NEW p \in Process, Update(p) PROVE MaintenanceInv'
  BY <1>3, WriteRowKeeps, AnnounceKeeps, InvalidateKeeps DEF Update
<1>4. ASSUME NEW o \in HttpRequest, Guard(o) PROVE MaintenanceInv'
  BY <1>4, CanActivateKeeps, FetchRowKeeps, FillCacheKeeps, ReadsKeep DEF Guard, Reads, Process
<1>5. ASSUME NEW o \in HttpRequest,
             UpdateMaintenanceStatus(o) \/ GetMaintenanceStatus(o) \/ CreateRow(o) \/ Answered(o)
      PROVE  MaintenanceInv'
  BY <1>5, UpdateKeeps, CreateRowKeeps, ReadsKeep DEF Reads, Process
<1>6. ASSUME NEW j \in Job, Run(j) PROVE MaintenanceInv'
  BY <1>3, <1>6, AutoDisableKeeps, ReadsKeep DEF Run, Reads, Process
<1>7. ASSUME NEW p \in Process, DatabaseFails(p) PROVE MaintenanceInv'
  BY <1>7, ReadsKeep DEF Reads
<1> QED BY <1>1, <1>2, <1>3, <1>4, <1>5, <1>6, <1>7 DEF MaintenanceNext, Process

LEMMA MaintenanceAlways == MaintenanceSpec => []MaintenanceInv
BY InitHolds, StepHolds, PTL DEF MaintenanceSpec

\* Rows, cache and requests keep their form; a cache never claims to be from the future.
THEOREM MaintenanceTypeCorrect == MaintenanceSpec => []MaintenanceTypeOK
<1>1. MaintenanceInv => MaintenanceTypeOK BY DEF MaintenanceInv
<1> QED BY <1>1, MaintenanceAlways, PTL

\* What users were told last is what the row says, once nobody is about to tell them anything
\* else (updateMaintenanceStatus and the cron job).
THEOREM ToldInTheEnd == MaintenanceSpec => []AnnouncedInTheEnd
<1>1. MaintenanceInv => AnnouncedInTheEnd
  <2>1. Announcing \subseteq Writing BY DEF Announcing, Writing
  <2> QED BY <2>1 DEF MaintenanceInv, ToldTruly, AnnouncedInTheEnd
<1> QED BY <1>1, MaintenanceAlways, PTL

\* What one step of the guard may do about request o while the row is in force.
Excused(o) ==
    stage[o] # "admitted" /\ stage'[o] = "admitted" /\ ~task'[o].admin
    /\ Len(rows) = 1 /\ InForce(rows[1])
    => task'[o].arrived <= changedAt \/ now - changedAt <= CacheLife \/ stage[o] = "fetch"

\* A cache that lets somebody in who is no administrator does not say what the row says.
LEMMA JudgedLate ==
    ASSUME MaintenanceInv, NEW o \in HttpRequest, NEW r \in Carried, NEW c \in Cached, Judge(o, r, c),
           stage'[o] = "admitted", ~task'[o].admin, Len(rows) = 1, InForce(rows[1])
    PROVE  /\ task'[o].arrived = r.arrived
           /\ ~(c.on = rows[1].on /\ c.endTime = rows[1].endTime)
<1>1. MaintenanceTypeOK /\ o \in Process BY DEF MaintenanceInv, Process
<1>2. stage'[o] = Verdict(r, c) /\ task'[o] = [r EXCEPT !.seen = Off]
  BY <1>1, TypeParts DEF Judge, Proceeds
<1>3. task'[o].arrived = r.arrived /\ task'[o].admin = r.admin BY <1>2 DEF Carried
<1>4. ~InForce(c)
  <2>1. r.admin = FALSE /\ (r.login = TRUE \/ r.login = FALSE) BY <1>3 DEF Carried
  <2> QED BY <1>2, <2>1 DEF Verdict
<1> QED BY <1>3, <1>4 DEF InForce, Over

LEMMA GuardExcused ==
    ASSUME MaintenanceInv, NEW o \in HttpRequest, Guard(o)
    PROVE  Excused(o)
<1>1. MaintenanceTypeOK /\ o \in Process BY DEF MaintenanceInv, Process
<1>2. task[o] \in Carried /\ Idle \in Carried BY <1>1, TypeParts, Idling
<1> SUFFICES ASSUME stage'[o] = "admitted", ~task'[o].admin, Len(rows) = 1, InForce(rows[1])
             PROVE  \/ task'[o].arrived <= changedAt \/ now - changedAt <= CacheLife
                    \/ stage[o] = "fetch"
  BY DEF Excused
<1>3. CASE CanActivate(o)
  <2>1. PICK login \in BOOLEAN, admin \in BOOLEAN :
           LET r == [Idle EXCEPT !.login = login, !.admin = admin, !.arrived = now] IN
           IF Fresh THEN Judge(o, r, cache)
                    ELSE /\ Proceeds(o, "fetch", r)
                         /\ UNCHANGED <<now, rows, changedAt, cache, announced>>
    BY <1>3 DEF CanActivate
  <2> DEFINE r == [Idle EXCEPT !.login = login, !.admin = admin, !.arrived = now]
  <2>2. r \in Carried
    <3>1. now \in 0..now BY <1>1, TypeParts
    <3> QED BY <1>2, <3>1 DEF Carried
  <2> HIDE DEF r
  <2>3. Fresh /\ Judge(o, r, cache) BY <1>1, <2>1, TypeParts DEF Proceeds, r
  <2>4. cache \in Cached /\ cache # NoCache /\ now - cache.lastChecked <= CacheLife
    BY <1>1, <2>3, TypeParts DEF Fresh
  <2>5. ~(cache.on = rows[1].on /\ cache.endTime = rows[1].endTime)
    BY <2>2, <2>3, <2>4, JudgedLate
  <2>6. cache.lastChecked <= changedAt BY <2>4, <2>5 DEF MaintenanceInv, CacheTold
  <2>7. cache.lastChecked \in Int BY <2>4, <1>1, TypeParts DEF Cached
  <2> QED BY <2>4, <2>6, <2>7, <1>1, TypeParts, TimeAssumption
<1>4. CASE FillCache(o)
  <2> DEFINE c == [on |-> task[o].seen.on, endTime |-> task[o].seen.endTime,
                   lastChecked |-> task[o].arrived]
  <2>1. c \in Cached
    <3>1. task[o].seen \in Switch /\ task[o].arrived \in 0..now BY <1>2 DEF Carried
    <3> QED BY <3>1, Switches DEF Cached
  <2>2. Judge(o, task[o], c) BY <1>4 DEF FillCache
  <2>3. c.on = task[o].seen.on /\ c.endTime = task[o].seen.endTime OBVIOUS
  <2> HIDE DEF c
  <2>4. task'[o].arrived = task[o].arrived /\ task[o].seen # rows[1]
    BY <1>2, <2>1, <2>2, <2>3, JudgedLate
  <2> QED BY <1>1, <1>4, <2>4 DEF MaintenanceInv, FetchTold, FillCache
<1>5. CASE FetchFails(o) BY <1>5 DEF FetchFails
<1>6. CASE FetchRow(o) \/ FindRole(o) BY <1>1, <1>6, TypeParts DEF FetchRow, FindRole, Proceeds
<1>7. CASE LoginCheck(o)
  <2>1. PICK k \in Found :
           Proceeds(o, IF InForce(Row(k)) /\ ~task[o].admin THEN "refused" ELSE "admitted", task[o])
    BY <1>7 DEF LoginCheck
  <2>2. InForce(Row(k)) BY <1>1, Finding
  <2>3. task'[o] = task[o] /\ stage'[o] = "refused" BY <1>1, <2>1, <2>2, TypeParts DEF Proceeds
  <2> QED BY <2>3
<1> QED BY <1>3, <1>4, <1>5, <1>6, <1>7 DEF Guard

\* No other step lets anybody in.
LEMMA OthersExcused ==
    ASSUME MaintenanceInv, MaintenanceNext, NEW o \in HttpRequest
    PROVE  Excused(o)
<1>1. MaintenanceTypeOK BY DEF MaintenanceInv
<1>2. ASSUME NEW p \in Process, NEW s \in Stage, NEW r, Proceeds(p, s, r), s # "admitted"
      PROVE  Excused(o)
  BY <1>1, <1>2, TypeParts DEF Proceeds, Excused, Process
<1>3. ASSUME NEW p \in Process, p # o, \E s, r : Proceeds(p, s, r)
      PROVE  Excused(o)
  BY <1>1, <1>3, TypeParts DEF Proceeds, Excused, Process
<1>4. CASE Tick BY <1>4 DEF Tick, Excused
<1>5. ASSUME NEW p \in Process, Update(p) \/ DatabaseFails(p) PROVE Excused(o)
  <2>1. \E s \in Stage \ {"admitted"} : \E r : Proceeds(p, s, r)
    BY <1>5 DEF Update, WriteRow, Announce, InvalidateMaintenanceCache, DatabaseFails, Stage, Answers
  <2> QED BY <2>1, <1>2
<1>6. ASSUME NEW p \in Process, NEW r, Starts(p, r) PROVE Excused(o)
  BY <1>1, <1>6, TypeParts DEF Starts, Excused, Process
<1>7. ASSUME NEW p \in HttpRequest, Guard(p) PROVE Excused(o)
  <2>1. CASE p = o BY <1>7, <2>1, GuardExcused
  <2>2. CASE p # o
    <3>1. \E s, r : Proceeds(p, s, r)
      BY <1>7 DEF Guard, CanActivate, FetchRow, FillCache, FetchFails, FindRole, LoginCheck, Judge
    <3> QED BY <2>2, <3>1, <1>3 DEF Process
  <2> QED BY <2>1, <2>2
<1>8. ASSUME NEW p \in HttpRequest,
             UpdateMaintenanceStatus(p) \/ GetMaintenanceStatus(p) \/ CreateRow(p) \/ Answered(p)
      PROVE  Excused(o)
  <2>1. CASE UpdateMaintenanceStatus(p)
    BY <2>1, <1>6 DEF UpdateMaintenanceStatus, Process
  <2>2. CASE GetMaintenanceStatus(p) \/ CreateRow(p) \/ Answered(p)
    <3>1. \E s \in Stage \ {"admitted"} : \E r : Proceeds(p, s, r)
      BY <2>2 DEF GetMaintenanceStatus, CreateRow, Answered, Stage, Answers
    <3> QED BY <3>1, <1>2 DEF Process
  <2> QED BY <1>8, <2>1, <2>2
<1>9. ASSUME NEW j \in Job, Run(j) PROVE Excused(o)
  <2>1. CASE HandleMaintenanceAutoDisable(j)
    BY <2>1, <1>6 DEF HandleMaintenanceAutoDisable, Process
  <2>2. CASE Skip(j)
    <3>1. \E s \in Stage \ {"admitted"} : \E r : Proceeds(j, s, r)
      BY <2>2 DEF Skip, Stage, Answers
    <3> QED BY <3>1, <1>2 DEF Process
  <2>3. CASE Update(j) BY <2>3, <1>5 DEF Process
  <2> QED BY <1>9, <2>1, <2>2, <2>3 DEF Run
<1> QED BY <1>4, <1>5, <1>7, <1>8, <1>9 DEF MaintenanceNext, Process

\* The guard lets nobody but administrators through a maintenance in force for longer than the
\* life of its cache, whatever requests, updates and runs of the job interleave, unless the
\* request came before the change or the guard could not read the row.
THEOREM SwitchAlwaysHolds == MaintenanceSpec => SwitchHolds
<1>1. MaintenanceInv /\ [MaintenanceNext]_maintenanceVars =>
      [\A o \in HttpRequest :
          /\ stage[o] # "admitted" /\ stage'[o] = "admitted" /\ ~task'[o].admin
          /\ Len(rows) = 1 /\ InForce(rows[1])
          => \/ task'[o].arrived <= changedAt
             \/ now - changedAt <= CacheLife
             \/ stage[o] = "fetch"]_maintenanceVars
  BY OthersExcused DEF Excused
<1> QED BY <1>1, MaintenanceAlways, PTL DEF MaintenanceSpec, SwitchHolds
=============================================================================
