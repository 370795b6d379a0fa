-------------------------------- MODULE Library --------------------------------
(* Who reads a document: the access model of the document, its access rules, and what
   a reader is entitled to by a subscription, a team or a Patreon membership.

   There is one document, the one a slug leads to, and one reader with an account;
   everybody else is a guest.  A request for the document reads, one query after the
   other, the document, the entitlements, the Patreon connection and the rules, decides,
   and reads the document again by its slug to answer.  Meanwhile the document is edited
   (modelled in Catalog), rules come and go, Patreon is asked about the membership, and
   subscriptions are given and cancelled (modelled in Access).                 *)
EXTENDS Naturals, Sequences, FiniteSets, SequencesExt

CONSTANTS
    Request,       \* each request is made once
    Earlier,       \* the request that made what there is at first
    Operations,    \* what is asked for
    Documents,     \* the documents to begin with
    Rules,         \* the access rules a document can have
    EditedTo,      \* the access models a document is changed to
    Memberships,   \* what Patreon answers: [status, tier], None without one
    MaxRules,      \* bound: the rules of a document
    MaxProgress    \* bound: progress is 0..MaxProgress

None  == "none"
Guest == "guest"
Ann   == "ann"

(* The endpoints. *)
Reading   == {"checkAccess", "getAccessibleContentBySlug", "findPublicBySlug"}
Patreon   == {"handleCallback", "refreshMyStatus", "disconnect"}
Billing   == {"cancelSubscription", "assignPlanManually"}
RuleEdits == {"createRule", "updateRule", "removeRule"}
Curating  == {"updateContent"} \cup RuleEdits
Keeping   == {"toggleBookmark", "trackProgress"}
Listing   == {"findPublicAll", "getBookmarks"}

\* These have no guard that looks at the token, whoever presents one.
Unguarded == {"checkAccess", "getAccessibleContentBySlug"}

\* Who an endpoint can take its caller for.
Askers(op) == CASE op \in Unguarded \cup {"findPublicAll"} -> {Guest}
                [] op = "findPublicBySlug"                -> {Guest, Ann}
                [] OTHER                                  -> {Ann}

Model    == {"PUBLIC", "AUTHENTICATED", "PREMIUM", "PATREON", "TIER_BASED", "CUSTOM"}
Document == [live : BOOLEAN, model : Model, downloadable : BOOLEAN]
Rule     == [type : {"SUBSCRIPTION_STATUS", "PLAN", "PATREON_TIER", "ROLE", "COUNTRY", "CUSTOM"},
             operator : {"EXISTS", "EQUALS", "NOT_EQUALS", "IN", "NOT_IN"},
             values : SUBSET {"ACTIVE", "INACTIVE", "plan", "gold", "STUDENT", "ENTERPRISE"},
             allow : BOOLEAN]

ASSUME OperationsAssumption ==
    Operations \subseteq Reading \cup Patreon \cup Billing \cup Curating \cup Keeping \cup Listing
ASSUME RulesAssumption ==
    Documents \subseteq Document /\ Rules \subseteq Rule /\ EditedTo \subseteq Model /\ MaxRules \in Nat \ {0}
ASSUME BoundAssumption == MaxProgress \in Nat /\ Earlier \notin Request /\ None \notin Request \cup {Earlier}

VARIABLES
    item,        \* the document: whether it is published, its access model, whether its file is a download
    rules,       \* its active rules, by priority and age
    team,        \* what team the reader is in: None, or one whose owner has a subscription or not
    plan,        \* the reader has a live entitlement by a subscription of its own
    connection,  \* PatreonConnection of the reader
    patronage,   \* the Entitlements it has by Patreon, by the request that created them
    kept,        \* bookmark and reading progress of the reader
    given,       \* what the answer to a request contained
    req,         \* what a request was asked for and what it has read
    at,          \* the step it is about to take
    met          \* the requests that were in flight together with it (history)

document == <<item, rules>>
reader   == <<team, plan, connection, patronage>>
vars     == <<document, reader, kept, given, req, at, met>>

Step == {"new", "entitlements", "connection", "rules", "read", "download", "upsert", "find", "entitle",
         "unlink", "revoke", "findKept", "keep", "done", "failed"}

NoConnection == [linked |-> FALSE, active |-> FALSE, status |-> None, tier |-> None]
NoCall == [op |-> None, as |-> Guest, model |-> None, listed |-> FALSE, allowed |-> FALSE,
           membership |-> [status |-> None, tier |-> None], found |-> None, value |-> 0]

InFlight == {o \in Request : at[o] \notin {"new", "done", "failed"}}

\* A membership counts as active by its status or by its tier.
IsActivePatron(m) == m.status \in {"active_patron", "paid_patron"} \/ m.tier # None

Linked(m) == [linked |-> TRUE, active |-> IsActivePatron(m), status |-> m.status, tier |-> m.tier]

Init ==
    /\ item \in Documents
    /\ rules \in {<<>>} \cup {<<r>> : r \in Rules}
    /\ item.model \in {"PUBLIC", "AUTHENTICATED", "PREMIUM"} => rules = <<>>
    /\ team \in {None, "subscribed", "unsubscribed"}
    /\ plan \in BOOLEAN
    /\ connection \in {NoConnection} \cup {Linked(m) : m \in Memberships}
    /\ patronage = IF ~connection.linked THEN {}
                   ELSE {[by |-> Earlier, ended |-> FALSE,
                          status |-> IF connection.active THEN "ACTIVE" ELSE "PENDING"]}
    /\ kept = [bookmark |-> FALSE, row |-> FALSE, progress |-> 0]
    /\ given = [o \in Request |-> {}]
    /\ req = [o \in Request |-> NoCall]
    /\ at = [o \in Request |-> "new"]
    /\ met = [o \in Request |-> {}]

----------------------------------------------------------------------------
\* Request o comes, asks for what q says and has made its first reads.
Arrives(o, q, step) ==
    /\ at[o] = "new" /\ q.op \in Operations
    /\ at' = [at EXCEPT ![o] = step]
    /\ req' = [req EXCEPT ![o] = q]
    /\ met' = [p \in Request |-> CASE p = o        -> InFlight
                                   [] p \in InFlight -> met[p] \cup {o}
                                   [] OTHER        -> met[p]]

Arrive(o, q, step) == Arrives(o, q, step) /\ UNCHANGED <<document, reader, kept, given>>

Goes(o, step) == at' = [at EXCEPT ![o] = step] /\ UNCHANGED met

\* The document is gone, Patreon or the database refuses, or the server stops.
Fail(o) ==
    /\ o \in InFlight
    /\ Goes(o, "failed")
    /\ UNCHANGED <<document, reader, kept, given, req>>

----------------------------------------------------------------------------
(* Reading: checkAccess, and what follows it. *)

\* Mutant: an entitlement counts whatever its status.
CountsAlways(e) == ~e.ended

Counts(e) == e.status = "ACTIVE" /\ ~e.ended

\* PREMIUM_ACCESS of the reader itself: what a download asks for.
HasDownloadAccess == \E e \in patronage : Counts(e)

\* PLAN_ACCESS and PREMIUM_ACCESS of the team's owner, or of a reader without a team.
HasSubscriptionEntitlement == IF team = None THEN plan \/ HasDownloadAccess ELSE team = "subscribed"

PlanCodes == IF (team = None /\ plan) \/ team = "subscribed" THEN {"plan"} ELSE {}

\* What a rule of the type looks at; the reader is a student.
Actual(type) ==
    CASE type = "SUBSCRIPTION_STATUS" -> {IF HasSubscriptionEntitlement THEN "ACTIVE" ELSE "INACTIVE"}
      [] type = "PLAN"                -> PlanCodes
      [] type = "PATREON_TIER"        -> IF connection.active /\ connection.status # None
                                           THEN {connection.tier} \ {None} ELSE {}
      [] type = "ROLE"                -> {"STUDENT"}

EvaluateOperator(op, actual, values) ==
    CASE op = "EXISTS"                   -> actual # {}
      [] op \in {"EQUALS", "IN"}         -> actual \cap values # {}
      [] op \in {"NOT_EQUALS", "NOT_IN"} -> actual \cap values = {}

\* A rule about the country never matches.
Matches(r) ==
    \/ r.type = "CUSTOM"
    \/ r.type # "COUNTRY" /\ EvaluateOperator(r.operator, Actual(r.type), r.values)

DenyRules == {i \in DOMAIN rules : ~rules[i].allow}

\* The rules that match the reader; of those that are looked at in turn the first decides.
Matching == {i \in DOMAIN rules : Matches(rules[i])}
FirstAdmits == \E i \in Matching : rules[i].allow /\ \A j \in Matching : i <= j

\* Mutant: who matches no rule is refused.
EvaluateRulesStrictly(as) ==
    rules = <<>> \/ IF as = Guest THEN DenyRules = {} ELSE FirstAdmits

\* A guest, and whom no rule matches, is refused by the presence of a rule that refuses anybody.
EvaluateRules(as) == IF as # Guest /\ Matching # {} THEN FirstAdmits ELSE DenyRules = {}

\* Where a request goes on to once checkAccess has decided.
Answered(op, allowed) ==
    IF op = "checkAccess" \/ (op = "getAccessibleContentBySlug" /\ ~allowed) THEN "done" ELSE "read"

\* What the document alone decides, and the step that decides the rest.
Lookup(o) ==
    \E op \in Reading : \E as \in Askers(op) :
        LET m == item.model
            q == [NoCall EXCEPT !.op = op, !.as = as, !.model = m, !.listed = rules # <<>>,
                                !.allowed = m = "PUBLIC" \/ (m = "AUTHENTICATED" /\ as # Guest)]
        IN  /\ item.live
            /\ Arrive(o, q, CASE m = "CUSTOM"                                   -> "rules"
                              [] m \in {"PREMIUM", "TIER_BASED"} /\ as # Guest -> "entitlements"
                              [] m = "PATREON" /\ as # Guest                   -> "connection"
                              [] OTHER                                          -> Answered(op, q.allowed))

Decide(o, allowed) ==
    /\ req' = [req EXCEPT ![o].allowed = allowed]
    /\ Goes(o, Answered(req[o].op, allowed))
    /\ UNCHANGED <<document, reader, kept, given>>

GoesToRules(o) == Goes(o, "rules") /\ UNCHANGED <<document, reader, kept, given, req>>

CheckEntitlements(o) ==
    /\ at[o] = "entitlements"
    /\ IF HasSubscriptionEntitlement /\ req[o].model = "TIER_BASED" THEN GoesToRules(o)
       ELSE Decide(o, HasSubscriptionEntitlement)

CheckConnection(o) ==
    /\ at[o] = "connection"
    /\ IF connection.active /\ connection.status # None THEN GoesToRules(o) ELSE Decide(o, FALSE)

\* For a patron the rules count only when there were some at the first look.
CheckRules(o) ==
    /\ at[o] = "rules"
    /\ Decide(o, EvaluateRules(req[o].as) \/ (req[o].model = "PATREON" /\ ~req[o].listed))

\* The document is looked up again, whatever it is by now.
ReadContent(o) ==
    LET q == req[o] IN
    /\ at[o] = "read" /\ item.live
    /\ given' = [given EXCEPT ![o] = IF ~q.allowed THEN {}
                                       ELSE {"body"} \cup IF q.op = "getAccessibleContentBySlug" \/ ~item.downloadable
                                                          THEN {"file"} ELSE {}]
    /\ Goes(o, IF q.op = "findPublicBySlug" /\ q.allowed /\ item.downloadable /\ q.as # Guest
               THEN "download" ELSE "done")
    /\ UNCHANGED <<document, reader, kept, req>>

CheckDownloadAccess(o) ==
    /\ at[o] = "download"
    /\ given' = [given EXCEPT ![o] = @ \cup IF HasDownloadAccess THEN {"file"} ELSE {}]
    /\ Goes(o, "done")
    /\ UNCHANGED <<document, reader, kept, req>>

\* Lists show the file of what is not gated, to whoever asks.
Gated == {"PREMIUM", "PATREON", "TIER_BASED", "CUSTOM"}

List(o) ==
    \E op \in Listing : \E as \in Askers(op) :
        /\ Arrives(o, [NoCall EXCEPT !.op = op, !.as = as], "done")
        /\ given' = [given EXCEPT ![o] = IF item.live /\ item.model \notin Gated
                                            /\ (op = "getBookmarks" => kept.bookmark) THEN {"file"} ELSE {}]
        /\ UNCHANGED <<document, reader, kept>>

----------------------------------------------------------------------------
(* Curating the document. *)

\* An edit changes the access model, the kind of file, or takes the document off the site.
UpdateContent(o) ==
    \E new \in {[item EXCEPT !.model = m] : m \in EditedTo}
               \cup {[item EXCEPT !.downloadable = ~@], [item EXCEPT !.live = FALSE]} :
        /\ Arrives(o, [NoCall EXCEPT !.op = "updateContent"], "done")
        /\ item' = new
        /\ UNCHANGED <<rules, reader, kept, given>>

EditRules(o, op, new) ==
    /\ Len(new) <= MaxRules
    /\ Arrives(o, [NoCall EXCEPT !.op = op], "done")
    /\ rules' = new
    /\ UNCHANGED <<item, reader, kept, given>>

\* Its priority gives a new rule its place among the others.
CreateRule(o) ==
    \E r \in Rules : \E i \in 1..Len(rules) + 1 : EditRules(o, "createRule", InsertAt(rules, i, r))

\* A rule is changed, moved or switched off: it leaves its place and may take another.
UpdateRule(o) ==
    \E i \in DOMAIN rules :
        LET others == RemoveAt(rules, i)
        IN  \/ EditRules(o, "updateRule", others)
            \/ \E r \in Rules : \E j \in 1..Len(others) + 1 : EditRules(o, "updateRule", InsertAt(others, j, r))

RemoveRule(o) == \E i \in DOMAIN rules : EditRules(o, "removeRule", RemoveAt(rules, i))

----------------------------------------------------------------------------
(* Patreon and subscriptions.  The controller names the account "USER_ID_HERE" for refreshes
   and disconnections, where the callback takes it from the OAuth state; here the service is
   called for the reader each time.                                             *)

\* Patreon is asked on the way in: first for a token, then for the membership.
HandleCallback(o) ==
    \E m \in Memberships : Arrive(o, [NoCall EXCEPT !.op = "handleCallback", !.membership = m], "upsert")

\* A disconnected reader can refresh as well: the token stays.
RefreshMyStatus(o) ==
    /\ connection.linked
    /\ \E m \in Memberships : Arrive(o, [NoCall EXCEPT !.op = "refreshMyStatus", !.membership = m], "upsert")

UpsertConnection(o) ==
    /\ at[o] = "upsert"
    /\ connection' = Linked(req[o].membership)
    /\ Goes(o, "find")
    /\ UNCHANGED <<document, team, plan, patronage, kept, given, req>>

\* Mutant: an entitlement that was revoked is not found.
FindActiveEntitlement(o) ==
    LET live == {e \in patronage : e.status = "ACTIVE"} IN
    /\ at[o] = "find"
    /\ \E f \in IF live = {} THEN {None} ELSE {e.by : e \in live} : req' = [req EXCEPT ![o].found = f]
    /\ Goes(o, "entitle")
    /\ UNCHANGED <<document, reader, kept, given>>

\* Any of the Patreon entitlements may be the first found.
FindEntitlement(o) ==
    /\ at[o] = "find"
    /\ \E f \in IF patronage = {} THEN {None} ELSE {e.by : e \in patronage} : req' = [req EXCEPT ![o].found = f]
    /\ Goes(o, "entitle")
    /\ UNCHANGED <<document, reader, kept, given>>

\* An end date that a cancelled subscription has set stays.
SyncEntitlement(o) ==
    LET active == IsActivePatron(req[o].membership)
        found  == req[o].found
    IN  /\ at[o] = "entitle"
        /\ patronage' =
             IF found = None
             THEN patronage \cup {[by |-> o, ended |-> FALSE, status |-> IF active THEN "ACTIVE" ELSE "PENDING"]}
             ELSE {IF e.by = found THEN [e EXCEPT !.status = IF active THEN "ACTIVE" ELSE "REVOKED"] ELSE e :
                     e \in patronage}
        /\ Goes(o, "done")
        /\ UNCHANGED <<document, team, plan, connection, kept, given, req>>

Disconnect(o) ==
    Arrive(o, [NoCall EXCEPT !.op = "disconnect"], IF connection.linked THEN "unlink" ELSE "done")

\* Mutant: the connection is deleted.
UnlinkForGood(o) ==
    /\ at[o] = "unlink"
    /\ connection' = NoConnection
    /\ Goes(o, "revoke")
    /\ UNCHANGED <<document, team, plan, patronage, kept, given, req>>

Unlink(o) ==
    /\ at[o] = "unlink"
    /\ connection' = [connection EXCEPT !.active = FALSE]
    /\ Goes(o, "revoke")
    /\ UNCHANGED <<document, team, plan, patronage, kept, given, req>>

RevokeEntitlements(o) ==
    /\ at[o] = "revoke"
    /\ patronage' = {[e EXCEPT !.status = "REVOKED"] : e \in patronage}
    /\ Goes(o, "done")
    /\ UNCHANGED <<document, team, plan, connection, kept, given, req>>

\* One transaction ends every ACTIVE entitlement of the reader, those by Patreon too; an
\* assignment then gives one for its plan.  A subscription that has ended can be cancelled again.
ReplaceEntitlements(o) ==
    \E op \in Billing :
        /\ Arrives(o, [NoCall EXCEPT !.op = op], "done")
        /\ patronage' = {IF e.status = "ACTIVE" THEN [e EXCEPT !.status = "REVOKED", !.ended = TRUE] ELSE e :
                           e \in patronage}
        /\ plan' = (op = "assignPlanManually")
        /\ UNCHANGED <<document, team, connection, kept, given>>

----------------------------------------------------------------------------
(* Bookmark and progress. *)

ToggleBookmark(o) ==
    \E as \in Askers("toggleBookmark") :
        item.live /\ Arrive(o, [NoCall EXCEPT !.op = "toggleBookmark", !.as = as], "findKept")

\* Progress is tracked of a document that is off the site too.
TrackProgress(o) ==
    \E as \in Askers("trackProgress") : \E n \in 0..MaxProgress :
        Arrive(o, [NoCall EXCEPT !.op = "trackProgress", !.as = as, !.value = n], "findKept")

\* Mutant: progress is what the client says.
FindKeptAsGiven(o) ==
    /\ at[o] = "findKept"
    /\ LET exists == IF req[o].op = "toggleBookmark" THEN kept.bookmark ELSE kept.row
       IN  req' = [req EXCEPT ![o].found = IF exists THEN Earlier ELSE None]
    /\ Goes(o, "keep")
    /\ UNCHANGED <<document, reader, kept, given>>

\* For progress, what is to be written is settled here: the greater of the two.
FindKept(o) ==
    /\ at[o] = "findKept"
    /\ LET isMark == req[o].op = "toggleBookmark"
           exists == IF isMark THEN kept.bookmark ELSE kept.row
           value  == IF ~isMark /\ req[o].value < kept.progress THEN kept.progress ELSE req[o].value
       IN  req' = [req EXCEPT ![o].found = IF exists THEN Earlier ELSE None, ![o].value = value]
    /\ Goes(o, "keep")
    /\ UNCHANGED <<document, reader, kept, given>>

\* A row that another request created or deleted meanwhile makes this one fail.
WriteBookmark(o) ==
    /\ at[o] = "keep" /\ req[o].op = "toggleBookmark"
    /\ IF (req[o].found # None) = kept.bookmark
       THEN kept' = [kept EXCEPT !.bookmark = ~@] /\ Goes(o, "done")
       ELSE Goes(o, "failed") /\ UNCHANGED kept
    /\ UNCHANGED <<document, reader, given, req>>

WriteProgress(o) ==
    /\ at[o] = "keep" /\ req[o].op = "trackProgress"
    /\ IF (req[o].found # None) = kept.row
       THEN kept' = [kept EXCEPT !.row = TRUE, !.progress = req[o].value] /\ Goes(o, "done")
       ELSE Goes(o, "failed") /\ UNCHANGED kept
    /\ UNCHANGED <<document, reader, given, req>>

\* Every request has ended.
Terminating == (\A o \in Request : at[o] \in {"done", "failed"}) /\ UNCHANGED vars

Next ==
    \/ \E o \in Request :
          \/ Lookup(o) \/ CheckEntitlements(o) \/ CheckConnection(o) \/ CheckRules(o)
          \/ ReadContent(o) \/ CheckDownloadAccess(o) \/ List(o)
          \/ UpdateContent(o) \/ CreateRule(o) \/ UpdateRule(o) \/ RemoveRule(o)
          \/ HandleCallback(o) \/ RefreshMyStatus(o) \/ UpsertConnection(o)
          \/ FindEntitlement(o) \/ SyncEntitlement(o)
          \/ Disconnect(o) \/ Unlink(o) \/ RevokeEntitlements(o) \/ ReplaceEntitlements(o)
          \/ ToggleBookmark(o) \/ TrackProgress(o) \/ FindKept(o) \/ WriteBookmark(o) \/ WriteProgress(o)
          \/ Fail(o)
    \/ Terminating

Spec == Init /\ [][Next]_vars

----------------------------------------------------------------------------
TypeOK ==
    /\ item \in Document
    /\ rules \in BoundedSeq(Rules, MaxRules)
    /\ team \in {None, "subscribed", "unsubscribed"} /\ plan \in BOOLEAN
    /\ connection \in {NoConnection} \cup
         [linked : {TRUE}, active : BOOLEAN, status : {m.status : m \in Memberships},
          tier : {m.tier : m \in Memberships}]
    /\ patronage \subseteq [by : Request \cup {Earlier}, ended : BOOLEAN,
                            status : {"ACTIVE", "PENDING", "REVOKED"}]
    /\ kept \in [bookmark : BOOLEAN, row : BOOLEAN, progress : 0..MaxProgress]
    /\ given \in [Request -> SUBSET {"body", "file"}]
    /\ at \in [Request -> Step]
    /\ patronage # {} => connection.linked

\* A rule refuses the reader: there is a rule that refuses, and no rule that admits him
\* comes before every rule that matches him and refuses.
RefusedByRule(as) ==
    /\ \E i \in DOMAIN rules : ~rules[i].allow
    /\ \/ as = Guest
       \/ ~\E i \in DOMAIN rules : rules[i].allow /\ Matches(rules[i])
                                   /\ \A j \in 1..i - 1 : ~Matches(rules[j])

Subscribes == \/ team = "subscribed"
              \/ team = None /\ (plan \/ \E e \in patronage : e.status = "ACTIVE" /\ ~e.ended)

\* Who may read, said once for each access model.
MayRead(as) ==
    CASE item.model = "PUBLIC"        -> TRUE
      [] item.model = "AUTHENTICATED" -> as # Guest
      [] item.model = "PREMIUM"       -> as # Guest /\ Subscribes
      [] item.model = "TIER_BASED"    -> as # Guest /\ Subscribes /\ ~RefusedByRule(as)
      [] item.model = "PATREON"       -> as # Guest /\ connection.active /\ connection.status # None
                                         /\ ~RefusedByRule(as)
      [] item.model = "CUSTOM"        -> ~RefusedByRule(as)

Changes == Patreon \cup Billing \cup Curating

\* A body is handed out to somebody who may not read it only when the document, its rules or
\* what the reader is entitled to changed while the request was on its way.
OnlyOverlapReveals ==
    [][\A o \in Request :
          "body" \in given'[o] \ given[o] =>
             MayRead(req[o].as) \/ \E x \in met[o] : req[x].op \in Changes]_vars

\* Whatever a guest can read the reader can read: no rule turns a login into a refusal.
LoggingInLosesNothing ==
    \A o \in Request :
       at[o] = "rules" /\ req[o].as # Guest /\ EvaluateRules(Guest) => EvaluateRules(req[o].as)

Patrons == {o \in Request : req[o].op \in Patreon}

\* The reader has one Patreon entitlement, and it is not ACTIVE while the connection is not,
\* unless two requests about the membership overlapped, or one is on its way or broke off.
OnlyOverlapKeepsPatrons ==
    \/ Cardinality(patronage) <= 1 /\ (connection.active \/ \A e \in patronage : e.status # "ACTIVE")
    \/ \E o \in Patrons : at[o] # "done" \/ met[o] \cap Patrons # {}

\* Progress falls only when another request tracked it between the look and the write.
OnlyOverlapLosesProgress ==
    [][kept'.progress < kept.progress =>
          \E o \in Request : /\ at[o] = "keep" /\ at'[o] = "done" /\ req[o].op = "trackProgress"
                             /\ \E x \in met[o] : req[x].op = "trackProgress"]_vars

\* README.md, "Patreon Flow": after "Sync membership" comes "Unlock content", here for a
\* request about an active membership that had the reader to itself.
SyncUnlocks ==
    [][\A o \in Request :
          at[o] = "entitle" /\ at'[o] = "done" /\ IsActivePatron(req[o].membership) /\ met[o] = {}
             => \E e \in patronage' : e.status = "ACTIVE" /\ ~e.ended]_vars
=============================================================================
