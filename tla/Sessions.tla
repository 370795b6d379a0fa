------------------------------- MODULE Sessions -------------------------------
(* The sessions of an account and what ends them: login by password or Google, refresh,
   the codes that reset a password or verify an address, suspension, deletion and what
   else writes the status of the account.  Accounts share nothing here, so there is one,
   whose address has been verified; another row that takes its address after a hard
   deletion is another account.

   A request reads, hashes, and writes in separate steps, and requests interleave
   between any two.  bcrypt hashes 72 bytes, which in a refresh token end inside
   the id of its user: every refresh token of an account matches every
   session of it, and the newest session is the one found.                   *)
EXTENDS Naturals, Sequences, FiniteSets

CONSTANTS
    Request,      \* each request is made once
    Earlier,      \* the login and the code from before the run
    Letter,       \* a code from a registration, which may still be open
    Operations,   \* what is asked for
    AdminStatus   \* what administrators set the status to

UserStatus == {"ACTIVE", "PENDING_VERIFICATION", "INACTIVE", "BLOCKED", "DELETED"}
Barred     == {"INACTIVE", "BLOCKED", "DELETED"}

ASSUME EarlierAssumption == /\ Earlier \notin Request /\ Letter \notin Request \cup {Earlier}
                            /\ "none" \notin Request \cup {Earlier, Letter}
ASSUME OperationsAssumption ==
    Operations \subseteq {"login", "handleGoogleCallback", "refreshToken", "forgotPassword", "resetPassword",
                          "verifyEmailOtp", "toggleSuspendUser", "update", "deleteUser", "hardDeleteUser"}
ASSUME StatusAssumption == AdminStatus \subseteq UserStatus

VARIABLES
    status,      \* User.status, "gone" without a row
    linked,      \* whether the account has its Google provider
    sessions,    \* UserSession in the order of creation, each with the request that saved it
    codes,       \* UserOtp in the order of creation, likewise; the letter is for EMAIL_VERIFICATION
    req,         \* what a request was asked for and what it has read
    at,          \* the step it is about to take
    met,         \* the requests that were in flight together with it (history)
    before,      \* the requests that were done when it came (history)
    wrote        \* what a request has written as the status (history)

account == <<status, linked, wrote>>
vars    == <<account, sessions, codes, req, at, met, before>>

None == "none"
Key  == Request \cup {Earlier}

Session == [by : Key, live : BOOLEAN]
Code    == [by : Key \cup {Letter}, open : BOOLEAN, mailed : BOOLEAN]
NoCall  == [op |-> None, session |-> None, code |-> None, status |-> None]

InFlight == {o \in Request : at[o] \notin {"new", "done", "failed"}}
Done     == {o \in Request : at[o] = "done"}

Live    == {i \in DOMAIN sessions : sessions[i].live}
Open    == {i \in DOMAIN codes : codes[i].open}

\* The last of the positions in S, if there is one.
Last(S) == {i \in S : \A j \in S : j <= i}

Init ==
    /\ status = "ACTIVE" /\ linked \in BOOLEAN
    /\ sessions = <<[by |-> Earlier, live |-> TRUE]>>
    /\ LET mail(k) == [by |-> k, open |-> TRUE, mailed |-> TRUE]
       IN  codes \in {<<mail(Earlier)>>, <<mail(Letter), mail(Earlier)>>}
    /\ req = [o \in Request |-> NoCall]
    /\ at = [o \in Request |-> "new"]
    /\ met = [o \in Request |-> {}]
    /\ before = [o \in Request |-> {}]
    /\ wrote = [o \in Request |-> None]

----------------------------------------------------------------------------
\* Request o comes, asks for what q says and has passed its first checks.
Arrive(o, q, step) ==
    /\ at[o] = "new" /\ q.op \in Operations
    /\ at' = [at EXCEPT ![o] = step]
    /\ req' = [req EXCEPT ![o] = q]
    /\ met' = [p \in Request |-> CASE p = o        -> InFlight
                                   [] p \in InFlight -> met[p] \cup {o}
                                   [] OTHER        -> met[p]]
    /\ before' = [before EXCEPT ![o] = Done]
    /\ UNCHANGED <<account, sessions, codes>>

Goes(o, step) == at' = [at EXCEPT ![o] = step] /\ UNCHANGED <<req, met, before>>

\* The status becomes s by request o.
Puts(o, s) == status' = s /\ wrote' = [wrote EXCEPT ![o] = s]

Login(o) ==
    /\ status = "ACTIVE"
    /\ Arrive(o, [NoCall EXCEPT !.op = "login"], "save")

\* By the provider's id, or by the address of an account that has no provider yet.  Who comes by
\* the provider is turned away if the account is barred when it is read.
HandleGoogleCallback(o) ==
    /\ status # "gone"
    /\ \/ linked  /\ status \notin Barred /\ Arrive(o, [NoCall EXCEPT !.op = "handleGoogleCallback"], "save")
       \/ ~linked /\ Arrive(o, [NoCall EXCEPT !.op = "handleGoogleCallback", !.status = status], "link")

\* Mutant: whoever comes by Google is active.
LinkedStatusActive(s) == "ACTIVE"

\* A pending account is active now, any other has the status that was read.
LinkedStatus(s) == IF s = "PENDING_VERIFICATION" THEN "ACTIVE" ELSE s

\* The status and the provider, which is unique, in one transaction; only then is the status judged.
CommitLink(o) ==
    /\ at[o] = "link" /\ status # "gone" /\ ~linked
    /\ linked' = TRUE
    /\ Puts(o, LinkedStatus(req[o].status))
    /\ Goes(o, IF req[o].status \in Barred THEN "failed" ELSE "save")
    /\ UNCHANGED <<sessions, codes>>

\* verifyRefreshToken, findMany newest first, and the first match.
RefreshToken(o) ==
    \E i \in Last(Live) :
        Arrive(o, [NoCall EXCEPT !.op = "refreshToken", !.session = sessions[i].by], "check")

\* Mutants: a suspended account may refresh; the session found is left as it is.
CheckUserExists(o) ==
    /\ at[o] = "check" /\ status # "gone"
    /\ Goes(o, "revoke")
    /\ UNCHANGED <<account, sessions, codes>>

CheckUserAndSave(o) ==
    /\ at[o] = "check" /\ status = "ACTIVE"
    /\ Goes(o, "save")
    /\ UNCHANGED <<account, sessions, codes>>

CheckUser(o) ==
    /\ at[o] = "check" /\ status = "ACTIVE"
    /\ Goes(o, "revoke")
    /\ UNCHANGED <<account, sessions, codes>>

\* An update by id: it succeeds on a session that is revoked already, not on a deleted one.
RevokeSession(o) ==
    /\ at[o] = "revoke"
    /\ \E i \in DOMAIN sessions :
          /\ sessions[i].by = req[o].session
          /\ sessions' = [sessions EXCEPT ![i].live = FALSE]
    /\ Goes(o, "save")
    /\ UNCHANGED <<account, codes>>

SaveRefreshSession(o) ==
    /\ at[o] = "save" /\ status # "gone"
    /\ sessions' = Append(sessions, [by |-> o, live |-> TRUE])
    /\ Goes(o, "done")
    /\ UNCHANGED <<account, codes>>

----------------------------------------------------------------------------
ForgotPassword(o) ==
    /\ status # "gone"
    /\ Arrive(o, [NoCall EXCEPT !.op = "forgotPassword"], "create")

\* Older codes stay as they are.
CreateOtp(o) ==
    /\ at[o] = "create" /\ status # "gone"
    /\ codes' = Append(codes, [by |-> o, open |-> TRUE, mailed |-> FALSE])
    /\ Goes(o, "mail")
    /\ UNCHANGED <<account, sessions>>

\* A code whose mail fails (Fail) stays the latest all the same.
SendOtp(o) ==
    /\ at[o] = "mail"
    /\ codes' = [i \in DOMAIN codes |-> IF codes[i].by = o THEN [codes[i] EXCEPT !.mailed = TRUE]
                                                           ELSE codes[i]]
    /\ Goes(o, "done")
    /\ UNCHANGED <<account, sessions>>

\* The code presented is the latest that is neither used nor expired.
ResetPassword(o) ==
    /\ status # "gone"
    /\ \E i \in Last({j \in Open : codes[j].by # Letter}) :
          /\ codes[i].mailed
          /\ Arrive(o, [NoCall EXCEPT !.op = "resetPassword", !.code = codes[i].by], "reset")

\* Mutant: a reset ends the newest session only.
RevokedLast(s) == [i \in DOMAIN s |-> IF i \in Last(Live) THEN [s[i] EXCEPT !.live = FALSE] ELSE s[i]]

Revoked(s) == [i \in DOMAIN s |-> [s[i] EXCEPT !.live = FALSE]]

\* Mutant: the code is not marked as used.
UsedNever(c, k) == c

Used(c, k) == [i \in DOMAIN c |-> IF c[i].by = k THEN [c[i] EXCEPT !.open = FALSE] ELSE c[i]]

\* Password, code and sessions in one transaction; the code is not looked at again.
CommitReset(o) ==
    /\ at[o] = "reset" /\ status # "gone"
    /\ codes' = Used(codes, req[o].code)
    /\ sessions' = Revoked(sessions)
    /\ Goes(o, "done")
    /\ UNCHANGED account

\* The status is not looked at.
VerifyEmailOtp(o) ==
    /\ status # "gone"
    /\ \E i \in Open :
          /\ codes[i].by = Letter
          /\ Arrive(o, [NoCall EXCEPT !.op = "verifyEmailOtp", !.code = Letter], "verify")

\* Code and user in one transaction.
CommitVerification(o) ==
    /\ at[o] = "verify" /\ status # "gone"
    /\ codes' = Used(codes, req[o].code)
    /\ Puts(o, "ACTIVE")
    /\ Goes(o, "done")
    /\ UNCHANGED <<linked, sessions>>

\* Five minutes for a code, thirty days for a session.
Expire ==
    /\ \/ \E i \in Open : codes' = [codes EXCEPT ![i].open = FALSE] /\ UNCHANGED sessions
       \/ \E i \in Live : sessions' = [sessions EXCEPT ![i].live = FALSE] /\ UNCHANGED codes
    /\ UNCHANGED <<account, req, at, met, before>>

----------------------------------------------------------------------------
ToggleSuspendUser(o) ==
    /\ status # "gone"
    /\ Arrive(o, [NoCall EXCEPT !.op = "toggleSuspendUser", !.status = status], "toggle")

\* Mutant: a suspension is a status of its own.
NextStatusSuspended(s) == IF s = "SUSPENDED" THEN "ACTIVE" ELSE "SUSPENDED"

NextStatus(s) == IF s = "BLOCKED" THEN "ACTIVE" ELSE "BLOCKED"

\* Sessions are left alone.
CommitToggle(o) ==
    /\ at[o] = "toggle" /\ status # "gone"
    /\ Puts(o, NextStatus(req[o].status))
    /\ Goes(o, "done")
    /\ UNCHANGED <<linked, sessions, codes>>

\* An administrator sets the status; whether there is a user is asked before.
UpdateUser(o) ==
    /\ status # "gone"
    /\ \E s \in AdminStatus : Arrive(o, [NoCall EXCEPT !.op = "update", !.status = s], "update")

CommitUpdate(o) ==
    /\ at[o] = "update" /\ status # "gone"
    /\ Puts(o, req[o].status)
    /\ Goes(o, "done")
    /\ UNCHANGED <<linked, sessions, codes>>

DeleteUser(o) ==
    /\ status # "gone"
    /\ \E op \in {"deleteUser", "hardDeleteUser"} : Arrive(o, [NoCall EXCEPT !.op = op], "delete")

CommitDelete(o) ==
    /\ at[o] = "delete" /\ status # "gone"
    /\ sessions' = <<>>
    /\ \/ req[o].op = "deleteUser"     /\ Puts(o, "DELETED") /\ codes' = codes
       \/ req[o].op = "hardDeleteUser" /\ Puts(o, "gone")    /\ codes' = <<>>
    /\ Goes(o, "done")
    /\ UNCHANGED linked

\* A check, a query or the server fails, or the row is gone: nothing more is written.
Fail(o) ==
    /\ o \in InFlight
    /\ Goes(o, "failed")
    /\ UNCHANGED <<account, sessions, codes>>

Call(o) == \/ Login(o) \/ HandleGoogleCallback(o) \/ RefreshToken(o)
           \/ ForgotPassword(o) \/ ResetPassword(o) \/ VerifyEmailOtp(o)
           \/ ToggleSuspendUser(o) \/ UpdateUser(o) \/ DeleteUser(o)

Step(o) == \/ CheckUser(o) \/ RevokeSession(o) \/ SaveRefreshSession(o) \/ CommitLink(o)
           \/ CreateOtp(o) \/ SendOtp(o) \/ CommitReset(o) \/ CommitVerification(o)
           \/ CommitToggle(o) \/ CommitUpdate(o) \/ CommitDelete(o) \/ Fail(o)

Next == Expire \/ \E o \in Request : Call(o) \/ Step(o)

Spec == Init /\ [][Next]_vars

----------------------------------------------------------------------------
TypeOK ==
    /\ status \in UserStatus \cup {"gone"} /\ linked \in BOOLEAN
    /\ sessions \in Seq(Session) /\ codes \in Seq(Code)
    /\ req \in [Request -> [op : Operations \cup {None}, session : Key \cup {None},
                            code : Key \cup {Letter, None}, status : UserStatus \cup {None}]]
    /\ at \in [Request -> {"new", "check", "revoke", "save", "link", "create", "mail", "reset", "verify",
                           "toggle", "update", "delete", "done", "failed"}]
    /\ met \in [Request -> SUBSET Request] /\ before \in [Request -> SUBSET Request]
    /\ wrote \in [Request -> UserStatus \cup {"gone", None}]

IsReset(r)    == req[r].op = "resetPassword"
IsDeletion(r) == req[r].op \in {"deleteUser", "hardDeleteUser"}
UsesCode(r)   == req[r].op \in {"resetPassword", "verifyEmailOtp"}
Saved(o)      == at[o] = "done" /\ req[o].op \in {"login", "handleGoogleCallback", "refreshToken"}

\* The status with which a session is given out.
Admits(op) == {"ACTIVE"} \cup (IF op = "handleGoogleCallback" THEN {"PENDING_VERIFICATION"} ELSE {})

\* A session is replaced once: two sessions come from the same one only if their refreshes
\* were under way at the same time (refreshToken).
OnlyOverlapForksSession ==
    \A a, b \in Request :
        a # b /\ Saved(a) /\ Saved(b) /\ req[a].session = req[b].session /\ req[a].session # None
            => b \in met[a]

\* After a password reset or a deletion nobody is logged in by a session from before: a live
\* session began after it, or was on its way to the table, between check and save, when it
\* happened (resetPassword, deleteUser).
OnlyLateSavesOutlive ==
    \A i \in Live : \A r \in Done :
        IsReset(r) \/ IsDeletion(r) =>
            LET o == sessions[i].by IN
            o \in Request /\ (r \in before[o] \/ r \in met[o])

\* A code resets the password or verifies the address once, unless two who use it overlap
\* (resetPassword and verifyEmailOtp read usedAt long before it is set).
OnlyOverlapReusesCode ==
    \A a, b \in Done :
        a # b /\ UsesCode(a) /\ UsesCode(b) /\ req[a].code = req[b].code => b \in met[a]

\* A session is saved for an account whose status admits none only when a request that overlapped
\* the login or refresh has written that very status (login, handleGoogleCallback, refreshToken).
OnlyOvertakenSavesEvade ==
    [][\A o \in Request :
          at[o] = "save" /\ at'[o] = "done" /\ status \notin Admits(req[o].op) =>
             \E d \in met[o] : wrote[d] = status]_vars

\* A deleted account becomes active in one step when an administrator sets that status or a
\* registration's code is presented, neither of which asks what the status was, and otherwise only by
\* a toggle or a first Google login that had read the account before an overlapping request
\* deleted it (toggleSuspendUser, handleGoogleCallback).
OnlyStaleReadsRevive ==
    [][status = "DELETED" /\ status' = "ACTIVE" =>
          \E o \in Request :
             /\ at[o] # at'[o]
             /\ \/ at[o] = "update" /\ req[o].status = "ACTIVE"
                \/ at[o] = "verify"
                \/ at[o] \in {"toggle", "link"} /\ \E d \in met[o] : wrote[d] = "DELETED"]_vars
=============================================================================
