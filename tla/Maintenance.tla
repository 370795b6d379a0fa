------------------------------ MODULE Maintenance ------------------------------
(* Maintenance mode: the row with the switch, the endpoints that read and set
   it, the cron job that ends an overdue maintenance, the guard in front of all
   other routes with its cache of the row, and the second check inside login.

   The row is created on first use and always fetched by findFirst without an
   order, so where there are several rows any of them may be the one found.
   The clock goes on between any two steps.                                  *)
EXTENDS Integers, Sequences, FiniteSets

CONSTANTS
    HttpRequest, \* HTTP requests, each used again after it has been answered
    Caller,      \* the requests that may be for any other route
    Job,         \* runs of the cron job that may overlap
    MaxTime,     \* bound of the clock
    MaxRows,     \* with more rows than this no further request is followed
    CacheLife,   \* how old the cache may be (three seconds in the code)
    EndTime      \* the end times that administrators ask for

ASSUME ProcessAssumption ==
    IsFiniteSet(HttpRequest) /\ Caller \subseteq HttpRequest /\ HttpRequest \cap Job = {}
ASSUME BoundAssumption   == MaxTime \in Nat /\ MaxRows \in Nat
ASSUME TimeAssumption    == CacheLife \in Nat /\ EndTime \subseteq 0..MaxTime

VARIABLES
    now,         \* the clock
    rows,        \* SystemMaintenance, in the order of creation
    changedAt,   \* when a row was last written (history)
    cache,       \* maintenanceCache
    announced,   \* what the last broadcast said, unclear when it was lost or contended
    task,        \* what a request or job carries and what it has read
    stage        \* the step it is about to take, or how it was answered

maintenanceVars == <<now, rows, changedAt, cache, announced, task, stage>>

Process == HttpRequest \cup Job

OpenEnd == MaxTime + 1                      \* no end time: not reached by the clock
Off     == [on |-> FALSE, endTime |-> OpenEnd]
Switch  == {Off} \cup [on : {TRUE}, endTime : EndTime \cup {OpenEnd}]

NoCache == [on |-> FALSE, endTime |-> OpenEnd, lastChecked |-> -1]
NoRow   == 0
Idle    == [login |-> FALSE, admin |-> FALSE, arrived |-> 0, to |-> Off, row |-> NoRow,
            seen |-> Off, contended |-> FALSE]

Over(s)    == s.endTime <= now
InForce(s) == s.on /\ ~Over(s)

\* findFirst: the rows it may find, and what is known when there is none.
Found == IF rows = <<>> THEN {NoRow} ELSE DOMAIN rows

Row(k) == IF k = NoRow THEN Off ELSE rows[k]

Answers == {"admitted", "refused", "failed"}
Writing == {p \in Process : stage[p] \in {"write", "announce"}}

MaintenanceInit ==
    /\ now = 0 /\ rows = <<>> /\ changedAt = 0 /\ cache = NoCache
    /\ announced = "off"
    /\ task = [p \in Process |-> Idle]
    /\ stage = [p \in Process |-> "idle"]

Tick == /\ now < MaxTime
        /\ now' = now + 1
        /\ UNCHANGED <<rows, changedAt, cache, announced, task, stage>>

\* Process p goes on to step s with what it carries in r.
Proceeds(p, s, r) == stage' = [stage EXCEPT ![p] = s] /\ task' = [task EXCEPT ![p] = r]

----------------------------------------------------------------------------
(* The guard.                                                                *)
Fresh == cache # NoCache /\ now - cache.lastChecked <= CacheLife

Passed(r) == IF r.login THEN "credentials" ELSE "admitted"

\* From the cache c to the answer, without an await in between.
Verdict(r, c) ==
    CASE ~InForce(c)            -> Passed(r)
      [] InForce(c) /\ r.login  -> "role"
      [] InForce(c) /\ ~r.login -> IF r.admin THEN "admitted" ELSE "refused"

Judge(o, r, c) ==
    /\ Proceeds(o, Verdict(r, c), [r EXCEPT !.seen = Off])
    /\ cache' = IF c.on /\ Over(c) THEN NoCache ELSE c
    /\ UNCHANGED <<now, rows, changedAt, announced>>

CanActivate(o) ==
    /\ stage[o] = "idle" /\ o \in Caller /\ Len(rows) <= MaxRows
    /\ \E login, admin \in BOOLEAN :
          LET r == [Idle EXCEPT !.login = login, !.admin = admin, !.arrived = now] IN
          IF Fresh THEN Judge(o, r, cache)
                   ELSE /\ Proceeds(o, "fetch", r)
                        /\ UNCHANGED <<now, rows, changedAt, cache, announced>>

FetchRow(o) ==
    /\ stage[o] = "fetch"
    /\ \E k \in Found : Proceeds(o, "fill", [task[o] EXCEPT !.seen = Row(k)])
    /\ UNCHANGED <<now, rows, changedAt, cache, announced>>

\* Mutant: the age counts from when the answer is there.
FillCacheNow(o) ==
    /\ stage[o] = "fill"
    /\ Judge(o, task[o], [on |-> task[o].seen.on, endTime |-> task[o].seen.endTime,
                          lastChecked |-> now])

\* The age of the cache counts from before the query.
FillCache(o) ==
    /\ stage[o] = "fill"
    /\ Judge(o, task[o], [on |-> task[o].seen.on, endTime |-> task[o].seen.endTime,
                          lastChecked |-> task[o].arrived])

\* A guard that cannot read the row lets the request through.
FetchFails(o) ==
    /\ stage[o] = "fetch"
    /\ Proceeds(o, Passed(task[o]), task[o])
    /\ UNCHANGED <<now, rows, changedAt, cache, announced>>

\* Logins wait for the role of the account; by then the cache that the refusal quotes may be
\* gone, and the login fails with an internal error.
FindRole(o) ==
    /\ stage[o] = "role"
    /\ Proceeds(o, CASE task[o].admin                      -> "credentials"
                     [] ~task[o].admin /\ cache # NoCache  -> "refused"
                     [] ~task[o].admin /\ cache = NoCache  -> "failed", task[o])
    /\ UNCHANGED <<now, rows, changedAt, cache, announced>>

LoginCheck(o) ==
    /\ stage[o] = "credentials"
    /\ \E k \in Found :
          Proceeds(o, IF InForce(Row(k)) /\ ~task[o].admin THEN "refused" ELSE "admitted", task[o])
    /\ UNCHANGED <<now, rows, changedAt, cache, announced>>

----------------------------------------------------------------------------
(* The endpoints of the switch, which the guard lets through, and the cron job. *)
\* A call is known from its first query on.  Reading a row that exists changes nothing.
GetMaintenanceStatus(o) ==
    /\ stage[o] = "idle" /\ rows = <<>>
    /\ Proceeds(o, "create", Idle)
    /\ UNCHANGED <<now, rows, changedAt, cache, announced>>

CreateRow(o) ==
    /\ stage[o] = "create"
    /\ rows' = Append(rows, Off) /\ changedAt' = now
    /\ Proceeds(o, "idle", Idle)
    /\ UNCHANGED <<now, cache, announced>>

\* Two writers in flight at once are marked as such (history).
Starts(p, r) ==
    /\ stage[p] = "idle"
    /\ stage' = [stage EXCEPT ![p] = "write"]
    /\ task'  = [q \in Process |->
                 IF q = p THEN [r EXCEPT !.contended = Writing # {}]
                 ELSE [task[q] EXCEPT !.contended = @ \/ q \in Writing]]
    /\ UNCHANGED <<now, rows, changedAt, cache, announced>>

\* Mutant: an open end becomes the time of the call, as it does in the broadcast.
UpdateEndingNow(o) ==
    /\ Len(rows) <= MaxRows
    /\ \E s \in Switch, k \in Found :
          LET end == IF s.endTime = OpenEnd THEN now ELSE s.endTime IN
          Starts(o, [Idle EXCEPT !.row = k, !.to = [s EXCEPT !.endTime = end]])

UpdateMaintenanceStatus(o) ==
    /\ Len(rows) <= MaxRows
    /\ \E s \in Switch, k \in Found : Starts(o, [Idle EXCEPT !.to = s, !.row = k])

HandleMaintenanceAutoDisable(j) ==
    \E k \in Found : Starts(j, [Idle EXCEPT !.row = k, !.seen = Row(k)])

\* What the job has read is not overdue.
Skip(j) ==
    /\ stage[j] = "write"
    /\ ~(task[j].seen.on /\ Over(task[j].seen))
    /\ Proceeds(j, "idle", Idle)
    /\ UNCHANGED <<now, rows, changedAt, cache, announced>>

\* Mutant: the job ends a maintenance only in the very minute.
MayEndPunctually(p) == p \in Job => task[p].seen.on /\ task[p].seen.endTime = now

MayEnd(p) == p \in Job => task[p].seen.on /\ Over(task[p].seen)

WriteRow(p) ==
    /\ stage[p] = "write" /\ MayEnd(p)
    /\ rows' = IF task[p].row = NoRow THEN Append(rows, task[p].to)
                                      ELSE [rows EXCEPT ![task[p].row] = task[p].to]
    /\ changedAt' = now
    /\ Proceeds(p, "announce", [task[p] EXCEPT !.row = NoRow, !.seen = Off])
    /\ UNCHANGED <<now, cache, announced>>

\* Mutant: whatever the update, users are told that maintenance begins.
AnnounceStart(p) ==
    /\ stage[p] = "announce"
    /\ announced' \in IF task[p].contended THEN {"unclear"} ELSE {"unclear", "on"}
    /\ Proceeds(p, "invalidate", Idle)
    /\ UNCHANGED <<now, rows, changedAt, cache>>

\* The alert and the broadcast; a failure of either is logged and passed over.
Announce(p) ==
    /\ stage[p] = "announce"
    /\ announced' \in IF task[p].contended THEN {"unclear"}
                                           ELSE {"unclear", IF task[p].to.on THEN "on" ELSE "off"}
    /\ Proceeds(p, "invalidate", Idle)
    /\ UNCHANGED <<now, rows, changedAt, cache>>

InvalidateMaintenanceCache(p) ==
    /\ stage[p] = "invalidate"
    /\ cache' = NoCache
    /\ Proceeds(p, "idle", Idle)
    /\ UNCHANGED <<now, rows, changedAt, announced>>

\* A query that is not the guard's fails: so does the request.
DatabaseFails(p) ==
    /\ stage[p] \in {"role", "credentials", "create", "write"}
    /\ Proceeds(p, "idle", Idle)
    /\ UNCHANGED <<now, rows, changedAt, cache, announced>>

Answered(o) ==
    /\ stage[o] \in Answers
    /\ Proceeds(o, "idle", Idle)
    /\ UNCHANGED <<now, rows, changedAt, cache, announced>>

----------------------------------------------------------------------------
Guard(o) ==
    \/ CanActivate(o) \/ FetchRow(o) \/ FillCache(o) \/ FetchFails(o) \/ FindRole(o) \/ LoginCheck(o)

Update(p) == WriteRow(p) \/ Announce(p) \/ InvalidateMaintenanceCache(p)

Run(j) == HandleMaintenanceAutoDisable(j) \/ Skip(j) \/ Update(j)

MaintenanceNext ==
    \/ Tick
    \/ \E o \in HttpRequest : \/ Guard(o) \/ Update(o) \/ UpdateMaintenanceStatus(o)
                              \/ GetMaintenanceStatus(o) \/ CreateRow(o) \/ Answered(o)
    \/ \E j \in Job : Run(j)
    \/ \E p \in Process : DatabaseFails(p)

\* The job is started every minute and goes on after each await; a query that is tried again
\* and again succeeds in the end.
Fairness == \A j \in Job : WF_maintenanceVars(Run(j)) /\ SF_maintenanceVars(WriteRow(j))

MaintenanceSpec == MaintenanceInit /\ [][MaintenanceNext]_maintenanceVars /\ Fairness

----------------------------------------------------------------------------
MaintenanceTypeOK ==
    /\ now \in 0..MaxTime /\ changedAt \in 0..now
    /\ rows \in Seq(Switch)
    /\ \/ cache = NoCache
       \/ cache \in [on : BOOLEAN, endTime : EndTime \cup {OpenEnd}, lastChecked : 0..now]
    /\ announced \in {"on", "off", "unclear"}
    /\ task \in [Process -> [login : BOOLEAN, admin : BOOLEAN, arrived : 0..now, to : Switch,
                             row : 0..Len(rows), seen : Switch, contended : BOOLEAN]]
    /\ stage \in [Process -> Answers \cup {"idle", "fetch", "fill", "role", "credentials",
                                           "create", "write", "announce", "invalidate"}]

\* A maintenance holds for everybody but administrators once the cache has had time to expire:
\* who is admitted while the row says otherwise came before the last change, or within the
\* life of a cache that was read before it, or could not be checked (MaintenanceGuard).
SwitchHolds ==
    [][\A o \in HttpRequest :
          /\ stage[o] # "admitted" /\ stage'[o] = "admitted" /\ ~task'[o].admin
          /\ Len(rows) = 1 /\ InForce(rows[1])
          => \/ task'[o].arrived <= changedAt
             \/ now - changedAt <= CacheLife
             \/ stage[o] = "fetch"]_maintenanceVars

\* When no update is under way users have last been told what the row says, unless the last
\* announcement was lost or came from updates that overlapped.
AnnouncedInTheEnd ==
    Len(rows) = 1 /\ Writing = {} /\ announced # "unclear" => (announced = "on" <=> rows[1].on)

\* An overdue maintenance is ended or extended, however often the database fails the cron job,
\* as long as there is one row.
Overdue     == Len(rows) = 1 /\ rows[1].on /\ Over(rows[1])
OverdueEnds == Overdue ~> ~Overdue
=============================================================================
