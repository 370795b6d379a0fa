# Dodani backend: TLA+ models, checks and proofs

The repository is a NestJS service over PostgreSQL (Prisma) for a learning and
consulting platform: accounts and logins, plans and subscriptions billed through
Stripe or by purchase order, enterprise teams with seats, chat over Socket.IO,
content that subscriptions and Patreon memberships unlock, a catalogue of services
and products, and the administration of all this. One process serves HTTP requests
and sockets. It keeps its state in the database; what makes it hard is that a
request is an `async` function whose queries interleave with those of every other
request, mostly outside transactions, and with what Stripe and Patreon answer.

This directory models the parts whose correctness depends on such
interleavings. Each module is translated from the code named in `PROJECT.json`
(`map`), each property is checked by TLC on a small instance, and for eight of the
nine state machines the properties are also proved by TLAPS for any number of
requests and rows.

## 1. Inventory

| component | code (under `src/src/`) | state it keeps | operations | interacts with | hard part | model |
|---|---|---|---|---|---|---|
| Subscriptions | `module/subscription` | `Subscription`, `Entitlement`, `CustomSubscriptionAssignment` | checkout, verification of a Stripe session, purchase order and payment link, manual assignment, cancellation, free plan | writes `UserRole`; Stripe; chat | several tables must agree; overlapping transactions at READ COMMITTED; replayed verification | `Access` |
| User management | `module/user-management` | `User.status`, roles, subscriptions | suspend/restore, update, change of subscription, soft and hard deletion | the same tables as subscriptions | the same, and partial closing | `Access`, `Team`, `Chat`, `Sessions` |
| Authentication | `module/auth` | `User`, `UserOtp`, `AuthProvider`, `UserSession` | register, verify code, login, Google login, refresh, password reset | creates the free plan, roles, team membership | several transactions per login; what was read before a transaction is stale in it | `Access`, `Team`, `Sessions` |
| Authorisation | `common/guards`, `common/strategies` | none | derives roles per request | subscriptions of the team's owner | roles are read anew for every request, the maintenance row is cached for three seconds | in `Team`, `Maintenance` |
| Teams | `module/team` | `User.parentUserId`, `User.teamRole`, `TeamInvitation`, `TeamJoinRequest` | invite, accept, create members singly or in bulk, join requests, approve, reject, remove, change role | seats of the subscription; chat | check-then-act on seats and memberships; work inside a transaction that is not part of it | `Team` |
| Chat | `module/chat` | `Conversation`, `ConversationMember`, `Message`; rooms of sockets in memory | open, add, block, send, load, join | team membership; sockets | no unique keys, rooms that outlive permissions, save and emit are two steps | `Chat` |
| Plans | `module/plan` | `Plan`; product and price at Stripe | create, update, change of status, removal | Stripe; purchases that are open meanwhile | Stripe takes part in no transaction; the plan read is written back after Stripe has answered | `Pricing` |
| Patreon | `module/patreon` | `PatreonConnection`, entitlements | connect, refresh, disconnect | Patreon; entitlements | connection and entitlement are written one after the other; no unique key on the entitlement | `Library` |
| Content access | `module/content-access` | `ContentAccessRule` | decide who reads, edit rules | content, entitlements, teams, Patreon | a decision over several tables, query by query | `Library` |
| Content | `module/content` | `Content`, bookmarks, progress | create, update, publish, remove; read, list, bookmark, track progress | access rules; categories, tags, types | access is checked, then the document is read again; slug and links are checked before they are written | `Catalog`, `Library` |
| Categories, tags, content types, insights and their categories | `module/content-master`, `insight`, `insight-category` | one table each and the links | create, update, remove | content, insights | "unused" is checked before the removal, and the foreign key cascades | `Catalog` |
| Service groups and products: the order | `module/service-group`, `product` | an order number per row | create, move, remove, reorder | none | renumbering row by row under a unique column | `Shelf`, `Ranking` |
| Services, submissions | `module/service`, `product-submission`, `service-submission` | one table each | create, update, remove | groups, products | a service without a group is public; statuses are written back as they were read | `Catalog` |
| Support tickets | `module/ticket` | `Ticket`, its activities | create, update | none | the status is written back as it was read, and told in the activity | `Catalog` |
| Settings, maintenance | `module/app-setting`, `maintenance.guard` | one row, a cron job | enable, disable, expire | every request; notifications | stale read in the cron job, a cache filled by what was read before it was emptied, two rows | `Maintenance` |
| Notifications, alerts, users and profiles | the modules of these names | one table each | create, read, update, mark as read | few | one statement each | not modelled |
| Audit, webhook log, analytics, mail, files, health, navigation | the other modules | logs or nothing | append, query, call out | called by all | nothing reads what they write to decide | not modelled |

What makes each modelled component correct:

* **Access.** An entitlement that is ACTIVE is backed by a live subscription; a role for
  enterprises is backed by an enterprise's subscription; a paid session yields
  one subscription however often it is verified; every login ends.
* **Teams.** A team has no more members than seats; a user has a team role
  exactly as long as a team; nobody is moved to another team without a decision
  that was about that; invitations lead to the team that sent them.
* **Chat.** A client that follows a conversation misses no message; a user is in a
  conversation once; a block cannot be bypassed.
* **Sessions.** A reset or a deletion ends every session there is; a session and a
  reset code are used once; a suspended account gets no new session, and a deleted one
  comes back only when somebody decides that it does.
* **Maintenance.** Everybody sees a change of the switch after the life of the cache; a
  maintenance ends when its time is over; users are told what holds.
* **Pricing.** What a plan costs is what Stripe charges for it; what is recorded of a
  purchase is what was paid, nothing for a trial; a plan that somebody has bought stays.
* **Library.** A document is shown to those its access model and rules admit; logging in
  never takes away what a guest may see; a reader has one Patreon entitlement and it is
  live only while the connection is; progress does not go back; a sync unlocks.
* **Shelf.** Rows that are added, moved or removed leave the others in their order, no two
  are at one place, and the renumbering never runs into the unique column.
* **Catalog.** An update changes what it was asked to change and nothing else; a removal
  takes no link along of which it was checked that there is none; what is hidden stays
  hidden until somebody decides otherwise.

## 2. The modules

```
Ledger            what an account is promised about what it has paid for
ReadCommitted     transactions of PostgreSQL, as Prisma runs them
  AccessTables    the rows of account access and the statements on them
    Access        the requests of subscription, user-management and auth: how they keep Ledger
      MCAccess    TLC
      AccessInv   the inductive invariants
        AccessProofs   lemmas about each transaction body, and the theorems
Ranking           what an arranged list promises
  Shelf           how service groups and products keep it    MCShelf    ShelfProofs
Pricing           plans, Stripe and purchases                MCPricing  PricingProofs
Sessions          sessions, reset codes, status              MCSessions
Maintenance       switch, cron job, guard, cache             MCMaintenance
  AuthProofs      lemmas and theorems about Sessions and about Maintenance
Team              members, seats, invitations, join requests MCTeam     TeamProofs
Chat              conversations, messages, sockets           MCChat     ChatProofs
Catalog           documents and their labels                 MCCatalog  CatalogProofs
Library           access to a document, Patreon              MCLibrary  LibraryProofs
```

The modules share a vocabulary: `at[o]` is the step request `o` is about to take, `req[o]` what it was
asked for and what it has read, `met[o]` (history) who was in flight together with it. A step is what the
code does between two awaits. In `Maintenance` these are `stage` and `task`, and its specification is
`MaintenanceSpec`: `AuthProofs` extends it together with `Sessions`, so the two share no names.

### ReadCommitted, AccessTables, Access, Ledger

A row of the database is `<<table, user, key>>`; `db` holds what is committed and
`pend[o]` what the transaction of request `o` has written, which is also its set
of row locks. A statement takes two steps: `Snapshot` fixes the rows that its
WHERE clause matches among the committed ones, `Apply` waits for their locks,
evaluates the clause again on their newest versions and writes. This is READ
COMMITTED: a row that another transaction commits in between is overlooked, and a
second statement sees what the first did not.

`Access` gives every operation its transaction *body*, a sequence of statements
in the order of the code (`Checkout`, `AssignManually`, `Update`, `Suspend`,
`Delete`, ...). A request arrives with what it has read, opens its transaction
and runs it; login, Google login and code verification pass through several
transactions (`AfterCommit`, `AfterAbort` say which comes next, and that a failed
baseline is swallowed). Subscriptions and entitlements are keyed by the request that
creates them. `older` orders the subscriptions by `createdAt`, which decides what
`findFirst` returns.

`Ledger` is the abstract specification: the life of each subscription with the entitlement it pays
for, from `none` over `backed` (live, and the entitlement ACTIVE) to `ended`. A `Grant` makes both at once and
may withdraw others; a `Suspend` stops subscriptions and may leave entitlements `orphaned`; a `Restore` gives a
subscription without an entitlement (`bare`). Each step is about one account and happens at once, and nothing that
has ended comes back. `Access` implements it with `life <- Life`, read off the committed rows: in it the same changes are made
statement by statement, among those of other transactions, some of which see half of them. Every step but a
commit is a stutter. `Ledger` lets any step be a `Suspend`; that none but a suspension is one that orphans, is the property
`OnlySuspensionOrphans`.

Left out: audit and e-mail logs, session rows, the maintenance check of login,
the creation of a brand-new account by Google, a change of status alone (which is in `Sessions`), custom plans made on the way, and
what Stripe does beyond reporting a session as paid.

### Team

A request is a path of steps, `Path[op]`, and `at[o]` is where it is; `req[o]` holds what
it has read (`free` seats, the `parent` of the target, the `key` of an
invitation...) and may be out of date when it is used. `Write` is the request's transaction or its
one update. A bulk creation runs the path of a single creation once per address
and goes on after a failure. `FindConversation`, `Converse` and `Skip` are
`ensureTeamConversation`, which runs outside the transaction of its caller even
where it is called inside (team.service.ts:760) and whose failures are swallowed.

An account is deleted in two ways by one endpoint. A soft deletion (`DeleteUser`) keeps the row. Its two
statements on users are one step: who is admitted between them keeps the deleted owner as its parent,
as does who is admitted later. A hard deletion is two steps of one transaction, since what comes between matters. `Detach` is
the statement that takes the members out of the team; the transaction holds the locks of their rows
until it ends, so nobody else writes them (`Unlocked`) or sees what it has written, and what it
writes appears at the commit. `HardDeleteUser` is the deletion of the row and the commit: invitations,
join requests and memberships of conversations go with it (Cascade), and whoever was admitted since `Detach`
loses the parent and keeps the role (SetNull). The account is then `"gone"` for good: no write may refer to it
(`Kept`), nor to an invitation it has sent (`Stands`), and a request that tries fails. An address that registers again after a hard
deletion is another user. That a deleted account may be made ACTIVE again is in `Sessions`, not here.

Subscriptions are an input of this module: they are what `Access` leaves, and only
the deletion of an account changes them here. The row of the caller and the
subscription of its team are one read: whatever changes between the two comes
before both or after both as far as the request can tell. Whether the invitation
sent before the run is overdue is chosen at the start. The roles are the ones
that are stored: the team role OWNER of the schema is treated by the guards like
MEMBER and never assigned. SUPER_ADMIN as a caller, `updateBlockStatus` and the
dashboards are left out; `TeamTestController` is not registered by the code.

### Chat

The same paths of steps; a request arrives with its first read, since it knows
nothing before. A row of `ConversationMember` is known by the request that added
it, because the table allows several rows of one user. Where the code takes the
first row it finds, the model takes any. `room`, `seen` and `caughtUp` are about
sockets: `caughtUp` records who has loaded the messages of a conversation since it
entered its room. `Restart` empties the rooms and drops every request between two
steps; the tables stay. Changes of teams and the hard deletion of accounts are
single steps here (`Team` has their steps). A user has one socket; renaming a group, read receipts, typing
indicators and the paging of history (a page holds all messages) are left out.

### Sessions

One account whose address is verified, with a session and a mailed reset code from before, and perhaps a code from its
registration that was never presented (`Letter`). A request checks, waits
(bcrypt, other queries) and writes: `Arrive` is its checks, `at[o]` its next write. Which session a
refresh token finds does not depend on the token: bcrypt hashes its first 72 bytes,
which end inside the id of the user, so the newest live session matches.

Everything that writes `User.status` of an account that is there is an action: a suspension (`CommitToggle`) sets the status it computed when it came; the first login
by Google (`CommitLink`) writes back the status it read, `ACTIVE` for a pending account, and judges it
only afterwards; a verified code (`CommitVerification`) sets `ACTIVE` without a look; an administrator
(`CommitUpdate`) sets any of `AdminStatus`; a deletion (`CommitDelete`) sets `DELETED`, or removes the row, and ends the
sessions. A login by a provider that is known already (`linked`) reads and writes no status. `met`, `before` and `wrote` are
history: who was in flight together, who had finished before, and what status a request has written. The creation of a new account by Google
is left out, since it has no sessions before; so are the e-mails, and the update of the subscription in the administrators' update, which is in `Access`.
Passwords have no identity here (no property tells two apart); hence
`changePassword`, which touches no session, is left out, as is
`verifyPasswordResetOtp`, whose `verifiedAt` is never read. `Access` has the roles and the e-mail codes.

### Maintenance

`rows` is the table of the switch in the order of creation; `findFirst` finds any of them. `cache` is
the module variable of the guard. A caller's request goes through the guard (`CanActivate`, `FetchRow`,
`FillCache`, `FindRole`), a login then through its own check. Administrators and
the cron job share the steps `WriteRow`, `Announce` and `InvalidateMaintenanceCache`.
`DatabaseFails` ends a request, except in the guard, which then lets it pass (`FetchFails`).
White-listed routes and the e-mails are left out; texts are not told apart.

### Pricing

An administrator's request reads the plan (`Update`, `Remove`, ...), then calls Stripe for a product (`CreateStripeProduct`) and a
price (`CreateStripePrice`), each of which may fail and leaves behind at Stripe what was made before, and then
writes the row with the fields it has read or made. A purchase reads the price when the checkout
session is opened and the plan again when the client comes back with the paid session. A session may begin with a trial (`trial`): Stripe
then takes nothing (`Paid`) and reports `no_payment_required`, and 0.00 is recorded (`Recorded`) whatever the plan costs. The trial days of a
plan are not followed; whether there are any is chosen with the session. Custom plans come back by the same code and are not told apart; plans that cost nothing are
activated at once. `TypeOK` says also that no subscription outlives its plan: the foreign key refuses the
removal that has counted no subscribers before one came. Prices that differ only by currency or interval are
one amount here; lists and statistics are left out.

### Library

One document, one reader with an account, and guests. `checkAccess`, `getAccessibleContentBySlug` and `findPublicBySlug` read
the document, the entitlements (of the reader, or of the owner of its team: `team` is `None`, "subscribed"
or "unsubscribed"), the connection and the rules, one query after the other; `EvaluateRules` lets the
first rule that matches decide, in the order of priority (`Matching`, `FirstAdmits`); and the answer is read from the document anew. Meanwhile
`updateContent` edits it, rules are created, changed and removed, subscriptions are assigned and cancelled, and the Patreon
requests run their two writes (`UpsertConnection`, `SyncEntitlement`; `Unlink`, `RevokeEntitlements`). The entitlements of Patreon are
a set of rows by the request that created them, since no key keeps it to one.
The access model is checked against `MayRead`, which says who may read once per model and without the
order of the queries. Two endpoints have no guard that looks at the token, so they answer everybody as
a guest. Patreon is external: it answers one of `Memberships`. Ratings, view counts and the lists for
administrators are left out.

### Shelf and Ranking

`order` is the committed order of each row, `pend[o]` what the open transaction of `o` has written and so
locks. A request reads its row, opens a transaction, reads the rows to shift without a lock
and makes their UPDATEs one by one, in the direction the code sorts them (`Due`). The unique column of service groups
is checked at each (`Collides`), waits for an undecided row (`Undecided`), and a collision aborts the transaction.
Products have no unique column and a `reorder` that writes a list twice, negative first.

`Ranking` is the abstract specification: the list is a ranking without ties, and whoever puts an item in, moves
or removes one leaves the others in their order. `Shelf` implements it with
`shelf <- Listed, above <- Above, calm <- Calm`; every UPDATE but the commit is a stutter. The promise is made while
requests come one at a time. Two moves that overlap shift by what each read before the other committed: among
groups one of them may run into the unique column and fail, and products may be left with ties or gaps. No property covers that.

### Catalog

Seven pairs of a document and a label (content and category, tag or type; insight and category; service and
group; product and service submissions) and tickets, chosen by `kind`, with the operators that say in what they
differ: which have slugs, which check that a label is unused, what the foreign key does (`OnDelete`:
Cascade, Restrict or SetNull). A request looks for the row and for the slug (`CreateContent`, `UpdateContent`, ...), then for the
labels (`Validate`), and then writes; the unique column decides at the write. Other fields than title, slug, status and
labels are written as asked and not told apart. A group or product has its status changed by an endpoint of its own
(`UpdateLabelStatus`) and by its update as well (`UpdateLabel`).

## 3. What is checked

Every run of a bounded instance is exhaustive. Requests are interchangeable
(symmetry); so are users, documents and labels in the same position.

| run | instance | shows |
|---|---|---|
| `access_serial` | one account, three requests one after another, all operations, two plans | `SessionSettled`: a Stripe session yields at most one subscription and settles its assignment. `OnlySuspensionUnbacksEnterprise`: the one kind of step that leaves a role of an enterprise without its subscription, and no other. |
| `access_concurrent` | two requests, statement by statement, all operations but registration and refresh | `OnlySuspensionOrphans`: whatever overlaps, only a suspension leaves an ACTIVE entitlement without a live subscription. `KeepsLedger`: refinement of `Ledger`. |
| `access_progress` | registration, code, login, Google login, two at a time, fairness | `EveryRequestEnds`. |
| `team` | two requests at once, two owners, one candidate, one seat, every operation | `OnlyStaleCountsOversell`, `OnlyRacesUnpair`, `MembersAreNotTaken`, `InvitationsLeadToTheirTeam`: every way in which an overlap, of a hard deletion also, breaks a rule of the team, and that there is no other. |
| `chat` | two users, one earlier conversation, two requests at once, every operation, restarts | `NothingMissed`: entering the room and then loading leaves no gap, but for messages about to be passed on. `OnlyDuplicatesEvadeBlocks`: a blocked member acts only through a second row. `OnlyOverlapDuplicatesMembers`: and has one only by an overlap. |
| `sessions` | three requests at once, with or without a registration code that is still open; administrators set three of the statuses | `OnlyLateSavesOutlive`: after a reset or a deletion the only live sessions are newer or were being saved when it happened. `OnlyOverlapForksSession`, `OnlyOverlapReusesCode`: what is meant for one use is used twice by overlapping requests only. `OnlyOvertakenSavesEvade`: who gets round a suspension or deletion. `OnlyStaleReadsRevive`: how a deleted account becomes active, by decision or by one of two stale reads. |
| `maintenance` | two requests, one of which may call other routes, the cron job, three moments, fairness of the job | `SwitchHolds`: nobody is admitted by a cache older than its life. `AnnouncedInTheEnd`: users were told last what holds. `OverdueEnds`: what is overdue is ended in the end. |
| `pricing` | two plans, prices 0 to 2, two requests | `OnlyDriftMisprices`: a plan's price parts from its price at Stripe only by overlapping updates, or by one while the plan is off Stripe. `OnlyRepricingMisrecords`: what is recorded differs from what was paid only when it was no trial and the plan was repriced meanwhile. |
| `library` | one document of any access model, three rules to choose two from, two requests | `OnlyOverlapReveals`, `LoggingInLosesNothing`, `OnlyOverlapKeepsPatrons`, `OnlyOverlapLosesProgress`. |
| `library_sync` | cancellation and the Patreon callback | violated: `SyncUnlocks` (finding). |
| `shelf` | three rows with a gap and a free id, two requests, groups and products | `KeepsRanks`: refinement of `Ranking`. `LoneNeverCollides`: a request on its own meets no collision at any of its UPDATEs. |
| `catalog` | two documents, two labels, three names of which two share a slug, two requests, all eight kinds | `OnlyOverlapUndoes`, `OnlyOverlapDropsLinks`, `OnlyRemovalReveals`. |

Many properties have the form "only this step can break the rule". The rule itself
is false of the code; the property says exactly how far, so that a change that
adds another way to break it is noticed. `TypeOK` is an invariant of a run of each module.

**Bounds.** Two requests at once are enough for every race between a check and a
write, since each of these races is a pair of requests. In `Access` three requests in
a row cover the sequences the properties talk about: something is set up, changed,
and changed again. In `Chat` a request that has created nothing gives its key
back, so any number of joins, loads and blocks may happen. In `Sessions` three requests are enough for a session
or code to be used twice and for a third to fall in between; of the statuses that administrators set (`AdminStatus`) there is one that admits, one
that Google turns into another and one that bars. In `Maintenance`
requests are used again; the life of the cache is one tick of three, so that it
expires within the run, and once there are two rows only what is in flight is
followed, since then nothing is promised. In `Team` there is one seat, which is where the
off-by-one is, and a bulk creation has one address: what it shares with a single creation is the
count, and a second address adds only a repetition of the same steps. In `Shelf` the highest order asked for (`MaxTarget`) is that
of the last row, so that moves go over the gap in both directions, and a reorder takes one or
two rows. In `Library` two rules are enough for one to come before another, and a document is changed
to one access model. In `Catalog` an update asks for one field (`MaxAsked`), so that all others are written back, and
two names share a slug, so that it can be taken. In `Pricing` a plan may be free or have either of
two prices. What the bounds cannot show, sequences of more than two overlapping requests, the
proofs do where there are any. The constants `Operations`, `Batches`, `Granted`, `Invited`, `Candidate`,
`AdminStatus`, `Accounts`, `Documents`, `Rules` and `Memberships` select what clients do in a run.

Deadlock is an error in `shelf`, `catalog`, `pricing`, `library` and `maintenance`; it is not checked in
the others, where a run ends when all requests are used up.

**Fairness.** `maintenance` assumes that the cron job is started again and again and goes on after
each await, which the scheduler and Node do, and that its update does not fail every
time it is tried. `access_progress` assumes weak fairness of each running request.
An `async` function whose query has answered continues; PostgreSQL grants a lock
when it becomes free or ends one of the transactions of a deadlock; and Prisma
ends an interactive transaction after its timeout, which is why `Run` contains an
abort that is always possible. No client is assumed to send anything.

## 4. What is proved

The theorems hold for every value of the constants: any number of requests, also at once, of users,
plans, rows, sessions and codes. They assume what the modules assume of their constants (`...Assumption`):
keys are disjoint, amounts are natural numbers, the operations are endpoints there are. TLC has
checked each inductive invariant before it was proved, and the properties on the instances above.

| module | theorems | state |
|---|---|---|
| `AccessProofs` | `Inductive`, `TypeCorrect`, `SuspensionAloneOrphans`, `LedgerIsKept`, `SessionsSettle`, `EnterpriseStaysBacked` | all but the liveness of Access; the last two for requests that do not overlap |
| `PricingProofs` | `PlansOutliveSubscriptions`, `OnlyDriftPartsPrices`, `RecordsArePaid` | all three properties of `pricing` |
| `ShelfProofs` | `OrdersStayOrders`, `ServicesRank`, `LoneNeverCollidesHolds` | all properties of `shelf` |
| `AuthProofs`, on Sessions | `TypeCorrect`, `OverlapAloneForks`, `LateSavesAloneOutlive`, `OverlapAloneReuses`, `OvertakenSavesAloneEvade`, `StaleReadsAloneRevive` | all properties of `sessions` |
| `AuthProofs`, on Maintenance | `MaintenanceTypeCorrect`, `ToldInTheEnd`, `SwitchAlwaysHolds` | all but the liveness of `maintenance` |
| `TeamProofs` | `Always`, `TypeCorrect`, `OversellingIsStale`, `UnpairingIsARace`, `MembersStay`, `InvitationsLead` | all properties of `team` |
| `ChatProofs` | `Invariance`, `TypesHold`, `NothingMissedHolds`, `DuplicatesHold`, `BlocksHold` | all properties of `chat` |
| `CatalogProofs` | `Invariance`, `TypesHold`, `UndoingHolds`, `DroppingHolds`, `RevealingHolds` | all properties of `catalog` |
| `LibraryProofs` | `Invariance`, `TypesHold`, `LoggingInHolds`, `PatronsHold`, `RevealingHolds`, `ProgressHolds` | all properties of `library` |

### Access

`SuspensionAloneOrphans` is the one that matters: why can no overlap at READ COMMITTED leave an
entitlement behind? A transaction closes a subscription and revokes the
entitlements in two statements, and between them another one may commit a new
subscription with its entitlement, of which the first sees the one and not the
other. The invariant (`AccessInv`) has three ideas:

1. `RevocationAhead`: if a transaction that is not a suspension has closed a
   subscription whose entitlement it still sees ACTIVE, then its program has the
   revocation still to come, or running with that entitlement among its matched
   rows. This is inductive only because every body closes before it revokes: the
   mutant `DeleteRevokingFirst` breaks it.
2. `OwnRows`, `GrantedAfterCreated`, `CreatedLive`: a subscription and its entitlement are
   inserted by one transaction, the subscription first, so that they become visible
   to others at the same moment.
3. `WrittenByStatement`, `Snapshots`, `Transactional`, `LocksExclusive`: the bookkeeping that ties what a
   transaction has written to the statements it has run and keeps two writers of a
   row apart.

The first half of `AccessProofs` states, for each transaction body, the facts about its statements
that the proof needs (where it creates, closes and revokes), so that the
second half has one step per action and none per operation.

`LedgerIsKept` shows the refinement for any number of overlapping transactions. A step that does not commit leaves `Life` as
it is, so all is about what a transaction holds when it commits. `LedgerInv` follows it to that point:

* `Paired`: there is no entitlement row whose subscription was never made, so a pair starts from `none`.
* `LiveByInsert`: the only subscription a transaction makes live is the one it inserts, under its own key, and what it
  closes or revokes (`RevokesGranted`) was committed before. The mutant `RestoreReopening` breaks this: it brings back what has ended.
* `Entitled`: a granting transaction that is past the statement which inserts the entitlement (`Entitles`) has it ACTIVE among
  its own writes. No statement after that one touches the row, and nobody else knows of it.

Each body is looked at once, for where it does these things (`PairPlace`). At the commit `RevocationAhead` excludes that a
closed subscription leaves its entitlement behind, as for `SuspensionAloneOrphans`; what the transaction inserted is a `Grant` or a
`Restore`, what it only closed is a `Withdraw` or, in a suspension, a `Suspend`.

`SessionsSettle` and `EnterpriseStaysBacked` are about one request at a time, whence their hypothesis `MaxInFlight = 1`:
two clients that come back from one payment at once may both find no subscription of the session yet, and
both create one. How many requests there are, one after another, and of how many users, is left open. Each has an invariant of
its own beside `IInv`:

* `SettledInv`: a session that was never opened has left no trace, and an open one has yielded a subscription exactly if
  its assignment is PAID (`Settled`). Within the transaction of a checkout the two come apart, so `Marks` says how far it has
  come: past its second statement the assignment is PAID among its own writes. `HasSession` says that it set out from a session that had
  yielded nothing. `SessionAssumption`: the mark for "no session" is not the id of one.
* `BackedInv`: a request gives the role of the plan it subscribes to (`RoleOfPlan`), and every
  transaction that closes subscriptions, but a suspension, deactivates the roles too. `DeactivatesFirst` follows that statement: once it has run, the
  transaction sees ENTERPRISE on only if it has given that role since, for a subscription of its own. `Owns` ties a
  subscription to the user and plan of its request.

### Pricing

Both properties rest on what a request in flight knows: its plan is as it has read it, or somebody
who overlapped it has changed the plan. `Mutual` makes "overlapped" symmetric, `OwnId` keeps the row that a creation
is about to write from others, `StripeKeys` says that a stored price was made by a request that is done (so nobody
changes it any more), and `AboutToPrice` what an update has in hand at each of its steps. `AtItsPrice` is the
same for a purchase; what a trial takes and records is nothing on both sides, so it needs no reading. The foreign key gives the types: a plan with a subscription is not removed.

### Shelf

The loop of UPDATEs is followed by saying of every row where the request will leave it (`Target`, by the order it
has now): a row still in the plan has its target there, any other row is there already (`OnTheWay`). When the loop is
through, the committed orders are the targets, and `Target` is monotone and leaves the row's own place
free; so the commit is a step of `Ranking`, and each UPDATE before it a stutter.

`LoneNeverCollidesHolds` is about each of those UPDATEs. The next row of the loop goes to its target. A row that has
been moved is at its own, which is another; one that is still to be moved is on the side the next row
comes from, because the loop goes the right way (`Due`); and the row that makes the others move is hidden at a negative
order, deleted or not there yet. It needs the committed groups to be without ties, also after overlaps
have made a mess of the list: `Separate` proves that of the unique column as PostgreSQL checks it, statement by
statement, with uncommitted rows of others. `Arranged` is stated of a request that is on its own (`Lone`), whatever came before.

`OrdersStayOrders` needs no calm: a
row that is hidden behind a negative order is written again by the same transaction before it commits.

### Sessions

What a request does late it decided early. `Shared` says that two requests which have found the same session or
code to be unused were there at the same time: the first to use it up makes it so that a later one no
longer finds it (`Spent`). `Informed` is about what a request has read of the status: it is still so (`Stands`), or a request that overlapped has
written what the status is now (`Overtaken`). With it both properties of the status follow, whichever of the five writes came last: a session for an
account that admits none was overtaken by whoever wrote that, and a suspension or a first Google login that makes a deleted account active had
read another status. That a verification and an administrator need no such excuse is said in the property, not assumed: they set `ACTIVE` whatever
the status is. `History` ties `met` and `before`
together: of two requests one came before the other or they overlapped.

### Maintenance

`CacheTold` says what a cache is worth: it holds what the row says, or was asked for before the last change. It is
inductive because the age counts from before the query (`FetchTold`: what a request has fetched is what the
row says, or the request came before the change). Hence a cache that lets somebody in wrongly is older than the
change, and the guard throws it away after its life. `Alone` and `ToldTruly` do the same for the broadcasts.

### Team

The requests of `Team` have nothing in common but that each goes along its path, so the invariant goes along the path
too. `Learnt(q, S)` says what a request that has the stages in `S` behind it still knows at the moment, whatever the
others have done since: that the owner it found is a user, that there was a seat free for each it is going
to admit (`free`, which is a memory and no longer the count), that an invitation it found was sent and so has an
addressee, a sender and a role. It says nothing that others can undo, such as who is in which team; that is what the
properties are about. `Unknown` (who has no account is in no team and waits for none) and `Complete` (what was sent
stays as it was sent, and its sender sends nothing more under its key) keep these memories true.

Of each property only one direction needs the invariant. For `OversellingIsStale` a write that admits users
makes the team larger by no more than it admits (`AdmissionFits`), and a request whose `free` is still the
number of seats left has read that they fit: a team that outgrows its seats in that step contradicts it. A bulk creation compares the
number of addresses with the seats once, but each address then goes along the path of a single creation with a count of its
own. For the other three properties the tables are compared before and after each kind of write, and what differs
is traced to the request that wrote it. For `UnpairingIsARace` a hard deletion is followed to its commit: whoever it detached (`who`) loses both parent and role
there, and the others in the team only the parent, which is the second race of the property; that the rows it has detached are not written
meanwhile is `Unlocked`, a condition on each write and not an assumption about requests. The users are assumed to be finitely many, since their number is compared
with the seats; of the seats nothing is assumed, there may be none.

### Chat

`NothingMissed` is nearly inductive: it needs `Passed`, that a message in the table is the message of a request
which has sent it on or is at the step that will (`emit`), in the conversation the message is in. Otherwise a
message could be there that nobody is going to send. `Added` and `OpenedBefore` tie the rows of members to the
requests that made them, and `Knows` says what a request has in hand at each of its steps: one that
is about to add a user has looked at the members and not found him (`q.to \notin q.known`), which is all that
`DuplicatesHold` needs. `BlocksHold` turns on the first read, which decides: a blocked member passes only if a
row of his that is not blocked was the one found (`Evasions`), and as the table is finite he then has two rows (`TwoRows`).
The proof assumes that the roles asked for are roles (`GrantedAssumption`).

### Catalog

An update writes back what it has read, so the invariant follows the reading: while no other request for the document
has overlapped it, what it holds of title, slug and status is what the row says (`AsRead`, `StillSo`). `Together` makes overlaps
symmetric: who writes while the update is on its way is in its `met`. `Reserved` keeps the id of a
label that is about to be inserted from other requests, which the hiding of services needs: a label that
was not there hid nothing. `Unused` does for removals what `StillSo` does for updates: a document has come by the label that was found
unused only by a request that overlapped.

### Library

`OnRead` is the heart of `RevealingHolds`: what the steps of a reading request have found so far (its model is the
document's, the reader subscribes, the connection is live) is still so, or somebody who may change it has come meanwhile. It must be
kept at every one of the four reads, since the decision is made of all of them, and the listing of rules at the
first read is used at the last. `RulesAgree` connects the loop over the rules with `RefusedByRule`: the rule that decides is
the first that matches, so none before it refuses. `LoggingInHolds` needs that a set of numbers has a least
element (`Least`, from the well-foundedness of the order): if no rule refuses, the first that matches admits.

`Settled` is about the membership: while no two requests about it have met and none has broken off, there is at most one
entitlement, the request that is on its way has the connection as it asked for (`Halfway`), and when none is, no
entitlement is ACTIVE without a live connection (`Mirrored`). A request that breaks off half-way, or meets
another, ends this for good, which is what the property concedes. `OnKeep` says that the progress has not passed what a report
has seen, but by another report.

### Only model-checked

* Liveness (`EveryRequestEnds`, `OverdueEnds`): out of the prover's reach under fairness.

Every other property of a passing run is a theorem.

## 5. Findings

`library_sync` shows that the code does not do what a text of the repository says; the quotation is in
`PROJECT.json`. A cancellation of a subscription sets an end date on every live entitlement, Patreon's
included; a later sync makes that entitlement ACTIVE again and leaves the date, so the reader stays locked out of what asks for an
entitlement; documents of the model PATREON ask for the connection and open again.

Passing runs describe more:

* overlapping creations give a team more members than seats (`OnlyStaleCountsOversell`; compare
  `docs/enterprise-trials-and-credentials-guide.md:288`);
* a deleted account becomes active by a suspension or a first Google login that was decided before, and by a code from its registration or
  an administrator's update, neither of which looks at the status (`OnlyStaleReadsRevive`); in the same way a code sent before a suspension
  lifts it (auth.service.ts:371; compare user-management.service.ts:454, "restored by SuperAdmin");
* a member admitted while its owner is being deleted for good is left with a team role and no team (`OnlyRacesUnpair`);
* a plan and its price at Stripe drift apart by overlapping updates (`OnlyDriftMisprices`), and a purchase is recorded at
  a price that was not paid (`OnlyRepricingMisrecords`);
* what a group or status hid is public once the group is removed (`OnlyRemovalReveals`).

Observed, but without a run of their own:

* a blocked member whose socket is in the room goes on receiving messages (chat.gateway.ts:122; compare
  `docs/chat-frontend-implementation.md:829`);
* a Google login leaves an ENTERPRISE member with two active roles (compare subscription.service.ts:194, "STRICTLY ONE
  ACTIVE ROLE RULE"), and gives a SUPER_ADMIN a free subscription (compare the comment at auth.service.ts:471);
* `JwtStrategy` does not look at the status of the account, so an access token outlives a soft deletion by up to a day (compare
  `docs/platform-enhancements-frontend-implementation.md:293`), and counts every member of a paying team as
  ENTERPRISE, so the guard of the team endpoints admits plain members (compare `docs/b2b-frontend-implementation.md:334`);
* a reset code that was superseded is the latest again once the newer one is used or expired;
* once a former team member is in a team conversation, the team endpoints refuse its owner (chat.service.ts:928, compare
  `docs/chat-frontend-implementation.md:210`); any group the owner has opened may be taken for the
  team conversation (chat.service.ts:943); an owner may approve himself and become his own parent;
* the endpoints of content-access that answer by the reader's entitlements have no guard, so they see every caller as a guest;
  a reader whom no rule matches is let in; rules about a country never match;
* the controller of Patreon calls refresh and disconnect for the account `USER_ID_HERE`;
* the file of a document for those who are logged in is shown in the public lists.

## 6. Plan

The modules were written in the order of the risk: `Access` first, then `Team`, `Chat` and `Sessions`, `Maintenance`, `Pricing`,
`Library`, `Shelf`, `Catalog`; each was checked before it was proved. What is open:

* liveness: `EveryRequestEnds` and `OverdueEnds` are checked on their instances and wait for a prover that reasons about fairness;
* abstract specifications for the components other than `Access` and `Shelf`, whose properties say what a step may not do,
  but not all that it may;
* one composition of `Access` with `Team`: the seats of a team are a constant of `Team`, and a subscription that
  changes while a request counts them is not followed.

## 7. Not modelled

* Notifications, alerts, profiles: one statement per request, and nothing decides by them.
* Audit and webhook logs, analytics, dashboards: written on the side or queries only.
* Mail, files, images, navigation, health and bootstrap: calls of other services and static answers.
* In modelled components: `updateBlockStatus`, the dashboards of teams and `TeamTestController`, which is not registered; the renaming of
  groups, read receipts and typing; `verifyPasswordResetOtp` and `changePassword`, since nothing reads what the one
  sets and the other touches no session; ratings and view counts; the making of a custom plan on the way to an
  assignment. They write fields that no decision of the code depends on, or repeat steps that are modelled.
