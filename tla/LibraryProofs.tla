----------------------------- MODULE LibraryProofs -----------------------------
(* Proofs about Library for any number of requests, rules and memberships: who is shown a
   document, what overlaps do to entitlements and progress.  *)
EXTENDS Library, SequenceTheorems, FiniteSetTheorems, WellFoundedInduction, TLAPS

CallType ==
    [op : Operations \cup {None}, as : {Guest, Ann}, model : Model \cup {None}, listed : BOOLEAN, allowed : BOOLEAN,
     membership : Memberships \cup {NoCall.membership}, found : Request \cup {Earlier, None}, value : 0..MaxProgress]

\* Requests that are in flight have met, and nobody has met one that is still to come.
Together ==
    /\ \A o, x \in InFlight : x # o => x \in met[o]
    /\ \A o \in Request : \A x \in met[o] : at[x] # "new"

\* Something that could change who may read came while o was on its way.
Meanwhile(o) == \E x \in met[o] : req[x].op \in Changes

\* What the steps so far have found is still so.
StillSo(o) ==
    LET q == req[o]
    IN  /\ at[o] \in {"entitlements", "connection", "rules"} => q.model = item.model /\ (~q.listed => rules = <<>>)
        /\ at[o] = "rules" =>
              /\ q.model = "TIER_BASED" => Subscribes
              /\ q.model = "PATREON" => connection.active /\ connection.status # None
        /\ at[o] = "read" /\ q.allowed => MayRead(q.as)

OnRead(o) ==
    LET q == req[o]
    IN  /\ at[o] = "entitlements" => q.model \in {"PREMIUM", "TIER_BASED"} /\ q.as # Guest
        /\ at[o] = "connection" => q.model = "PATREON" /\ q.as # Guest
        /\ at[o] = "rules" => q.model = "CUSTOM" \/ (q.model \in {"TIER_BASED", "PATREON"} /\ q.as # Guest)
        /\ at[o] \in {"entitlements", "connection", "rules", "read"} => Meanwhile(o) \/ StillSo(o)

\* Progress is not behind what a report has seen, but for other reports.
OnKeep(o) ==
    at[o] = "keep" /\ req[o].op = "trackProgress" =>
       kept.progress <= req[o].value \/ \E x \in met[o] : req[x].op = "trackProgress"

Moving == {"upsert", "find", "entitle", "unlink", "revoke"}

OnPatreon(o) ==
    /\ at[o] \in Moving => req[o].op \in Patreon
    /\ at[o] \in {"upsert", "find", "entitle"} => req[o].membership \in Memberships
    /\ at[o] \in {"find", "entitle"} => connection.linked
    /\ at[o] = "new" => req[o].op = None

\* No two requests about the membership have met, and none broke off.
Undisturbed == \A o \in Patrons : at[o] # "failed" /\ met[o] \cap Patrons = {}

\* What the one that is on its way has done to connection and entitlement.
Halfway(o) ==
    /\ at[o] \in {"find", "entitle"} => connection.active = IsActivePatron(req[o].membership)
    /\ at[o] = "entitle" => /\ req[o].found = None => patronage = {}
                            /\ req[o].found # None => \A e \in patronage : e.by = req[o].found
    /\ at[o] = "revoke" => ~connection.active

Mirrored == connection.active \/ \A e \in patronage : e.status # "ACTIVE"

Settled ==
    Undisturbed =>
       /\ \A e, f \in patronage : e = f
       /\ \A o \in Patrons : Halfway(o)
       /\ (\A o \in Patrons : at[o] \notin Moving) => Mirrored

IInv ==
    /\ TypeOK /\ req \in [Request -> CallType] /\ met \in [Request -> SUBSET Request]
    /\ Together
    /\ \A o \in Request : OnRead(o) /\ OnKeep(o) /\ OnPatreon(o)
    /\ Settled

----------------------------------------------------------------------------
(* Types. *)
Entitlement == [by : Request \cup {Earlier}, ended : BOOLEAN, status : {"ACTIVE", "PENDING", "REVOKED"}]
Membership  == Memberships \cup {NoCall.membership}
Links       == [linked : {TRUE}, active : BOOLEAN, status : {m.status : m \in Memberships},
                tier : {m.tier : m \in Memberships}]

LEMMA TypeParts ==
    ASSUME TypeOK
    PROVE  /\ item \in Document /\ item.live \in BOOLEAN /\ item.model \in Model /\ item.downloadable \in BOOLEAN
           /\ team \in {None, "subscribed", "unsubscribed"} /\ plan \in BOOLEAN
           /\ connection \in {NoConnection} \cup Links
           /\ connection.linked \in BOOLEAN /\ connection.active \in BOOLEAN
           /\ patronage \subseteq Entitlement
           /\ \A e \in patronage : e.by \in Request \cup {Earlier} /\ e.ended \in BOOLEAN
                                  /\ e.status \in {"ACTIVE", "PENDING", "REVOKED"}
           /\ kept \in [bookmark : BOOLEAN, row : BOOLEAN, progress : 0..MaxProgress]
           /\ kept.bookmark \in BOOLEAN /\ kept.row \in BOOLEAN /\ kept.progress \in 0..MaxProgress
           /\ given \in [Request -> SUBSET {"body", "file"}] /\ at \in [Request -> Step]
           /\ patronage # {} => connection.linked
<1>1. /\ item \in Document /\ team \in {None, "subscribed", "unsubscribed"} /\ plan \in BOOLEAN
      /\ connection \in {NoConnection} \cup Links /\ patronage \subseteq Entitlement
      /\ kept \in [bookmark : BOOLEAN, row : BOOLEAN, progress : 0..MaxProgress]
      /\ given \in [Request -> SUBSET {"body", "file"}] /\ at \in [Request -> Step]
      /\ patronage # {} => connection.linked
  BY DEF TypeOK, Entitlement, Links
<1>2. item.live \in BOOLEAN /\ item.model \in Model /\ item.downloadable \in BOOLEAN  BY <1>1 DEF Document
<1>3. connection.linked \in BOOLEAN /\ connection.active \in BOOLEAN
  <2>1. CASE connection = NoConnection  BY <2>1 DEF NoConnection
  <2>2. CASE connection \in Links  BY <2>2 DEF Links
  <2> QED  BY <1>1, <2>1, <2>2
<1>4. \A e \in patronage : e.by \in Request \cup {Earlier} /\ e.ended \in BOOLEAN
                          /\ e.status \in {"ACTIVE", "PENDING", "REVOKED"}
  BY <1>1 DEF Entitlement
<1>5. kept.bookmark \in BOOLEAN /\ kept.row \in BOOLEAN /\ kept.progress \in 0..MaxProgress  BY <1>1
<1> QED  BY <1>1, <1>2, <1>3, <1>4, <1>5

LEMMA RulesType ==
    BoundedSeq(Rules, MaxRules) = {s \in Seq(Rules) : Len(s) <= MaxRules}
<1>1. ASSUME NEW s \in BoundedSeq(Rules, MaxRules)
      PROVE  s \in Seq(Rules) /\ Len(s) <= MaxRules
  <2>1. PICK m \in 0..MaxRules : s \in [1..m -> Rules]  BY DEF BoundedSeq, SeqOf
  <2> QED  BY <2>1, RulesAssumption
<1>2. ASSUME NEW s \in Seq(Rules), Len(s) <= MaxRules
      PROVE  s \in BoundedSeq(Rules, MaxRules)
  <2>1. Len(s) \in 0..MaxRules /\ s \in [1..Len(s) -> Rules]  BY <1>2, RulesAssumption
  <2> QED  BY <2>1 DEF BoundedSeq, SeqOf
<1> QED  BY <1>1, <1>2

LEMMA CallParts ==
    ASSUME NEW q \in CallType
    PROVE  /\ q.op \in Operations \cup {None} /\ q.as \in {Guest, Ann} /\ q.model \in Model \cup {None}
           /\ q.listed \in BOOLEAN /\ q.allowed \in BOOLEAN /\ q.membership \in Membership
           /\ q.found \in Request \cup {Earlier, None} /\ q.value \in 0..MaxProgress
BY DEF CallType, Membership

LEMMA NoCallTypes ==
    /\ NoCall \in CallType /\ NoCall.op = None /\ NoCall.as = Guest /\ NoCall.model = None /\ NoCall.listed = FALSE
    /\ NoCall.allowed = FALSE /\ NoCall.found = None /\ NoCall.value = 0
<1>1. 0 \in 0..MaxProgress  BY BoundAssumption
<1> QED  BY <1>1 DEF NoCall, CallType

LEMMA ActiveIsBoolean ==
    \A m : IsActivePatron(m) \in BOOLEAN
BY DEF IsActivePatron

LEMMA LinkedType ==
    ASSUME NEW m \in Memberships
    PROVE  Linked(m) \in Links /\ Linked(m).linked /\ Linked(m).active = IsActivePatron(m)
BY ActiveIsBoolean DEF Linked, Links

----------------------------------------------------------------------------
(* How requests move: of a step of request o, what the others see. *)
Moves(o) ==
    /\ at' \in [Request -> Step] /\ req' \in [Request -> CallType] /\ met' \in [Request -> SUBSET Request]
    /\ Together'
    /\ \A p \in Request : p # o => at'[p] = at[p] /\ req'[p] = req[p] /\ met[p] \subseteq met'[p]
    /\ \A p \in InFlight : p # o => o \in met'[p]
    /\ \A p \in Request : \A x \in met[p] : req'[x].op = req[x].op
    /\ at[o] # "failed"
    /\ req'[o].op = req[o].op \/ req[o].op = None

LEMMA ArrivesMoves ==
    ASSUME IInv, NEW o \in Request, NEW q \in CallType, NEW step \in Step \ {"new", "failed"}, Arrives(o, q, step)
    PROVE  /\ Moves(o) /\ at[o] = "new" /\ at'[o] = step /\ req'[o] = q /\ met'[o] = InFlight
           /\ at' = [at EXCEPT ![o] = step]
<1>1. /\ at[o] = "new" /\ at' = [at EXCEPT ![o] = step] /\ req' = [req EXCEPT ![o] = q]
      /\ met' = [p \in Request |-> CASE p = o -> InFlight [] p \in InFlight -> met[p] \cup {o} [] OTHER -> met[p]]
  BY DEF Arrives
<1>2. /\ at \in [Request -> Step] /\ met \in [Request -> SUBSET Request] /\ req \in [Request -> CallType]
      /\ Together /\ OnPatreon(o)
  BY TypeParts DEF IInv
<1>3. at' \in [Request -> Step] /\ req' \in [Request -> CallType]  BY <1>1, <1>2
<1>4. InFlight \subseteq Request /\ o \notin InFlight  BY <1>1 DEF InFlight
<1>5. /\ met' \in [Request -> SUBSET Request] /\ met'[o] = InFlight
      /\ \A p \in Request : p # o => met'[p] = IF p \in InFlight THEN met[p] \cup {o} ELSE met[p]
  BY <1>1, <1>2, <1>4
<1>6. InFlight' \subseteq InFlight \cup {o}  BY <1>1, <1>2 DEF InFlight
<1>7. /\ at'[o] = step /\ req'[o] = q
      /\ \A p \in Request : p # o => at'[p] = at[p] /\ req'[p] = req[p] /\ met[p] \subseteq met'[p]
  BY <1>1, <1>2, <1>5
<1>8. \A p \in Request : \A x \in met[p] : x \in Request /\ x # o  BY <1>1, <1>2 DEF Together
<1>9. Together'
  <2>1. \A p, x \in InFlight' : x # p => x \in met'[p]  BY <1>2, <1>4, <1>5, <1>6 DEF Together
  <2>2. ASSUME NEW p \in Request, NEW x \in met'[p]  PROVE at'[x] # "new"
    <3>1. x \in Request  BY <1>5
    <3>2. CASE x = o  BY <1>7, <3>2
    <3>3. CASE x # o
      <4>1. x \in InFlight \/ x \in met[p]  BY <1>5, <3>3
      <4>2. at[x] # "new"  BY <1>2, <4>1 DEF Together, InFlight
      <4> QED  BY <1>7, <3>1, <3>3, <4>2
    <3> QED  BY <3>2, <3>3
  <2> QED  BY <2>1, <2>2 DEF Together
<1>10. \A p \in InFlight : p # o => o \in met'[p]  BY <1>4, <1>5
<1> QED  BY <1>1, <1>2, <1>3, <1>5, <1>7, <1>8, <1>9, <1>10 DEF Moves, OnPatreon

LEMMA GoesMoves ==
    ASSUME IInv, NEW o \in InFlight, NEW step \in Step \ {"new"}, Goes(o, step), req' \in [Request -> CallType],
           \A p \in Request : p # o => req'[p] = req[p], req'[o].op = req[o].op
    PROVE  Moves(o) /\ at'[o] = step /\ met' = met /\ o \in Request
<1>1. at' = [at EXCEPT ![o] = step] /\ met' = met  BY DEF Goes
<1>2. at \in [Request -> Step] /\ met \in [Request -> SUBSET Request] /\ Together  BY TypeParts DEF IInv
<1>3. o \in Request /\ at[o] # "failed"  BY DEF InFlight
<1>4. /\ at' \in [Request -> Step] /\ at'[o] = step /\ \A p \in Request : p # o => at'[p] = at[p]
  BY <1>1, <1>2, <1>3
<1>5. InFlight' \subseteq InFlight  BY <1>3, <1>4 DEF InFlight
<1>6. Together'  BY <1>1, <1>2, <1>4, <1>5 DEF Together
<1>7. \A p \in InFlight : p # o => o \in met'[p]  BY <1>1, <1>2 DEF Together
<1>8. \A p \in Request : \A x \in met[p] : req'[x].op = req[x].op  BY <1>2
<1> QED  BY <1>1, <1>2, <1>3, <1>4, <1>6, <1>7, <1>8 DEF Moves

\* The same where the request only goes on.
LEMMA GoesOn ==
    ASSUME IInv, NEW o \in InFlight, NEW step \in Step \ {"new"}, Goes(o, step), req' = req
    PROVE  Moves(o) /\ at'[o] = step /\ met' = met /\ o \in Request
BY GoesMoves DEF IInv

----------------------------------------------------------------------------
(* What the others know. *)
LEMMA OthersRead ==
    ASSUME IInv, NEW o \in Request, NEW p \in Request, p # o, Moves(o),
           UNCHANGED <<document, reader>> \/ req'[o].op \in Changes
    PROVE  OnRead(p)'
<1>1. /\ at'[p] = at[p] /\ req'[p] = req[p] /\ met[p] \subseteq met'[p]
      /\ \A x \in met[p] : req'[x].op = req[x].op
      /\ p \in InFlight => o \in met'[p]
  BY DEF Moves
<1>2. OnRead(p)  BY DEF IInv
<1>3. Meanwhile(p) => Meanwhile(p)'  BY <1>1 DEF Meanwhile
<1>4. ASSUME at[p] \in {"entitlements", "connection", "rules", "read"}
      PROVE  Meanwhile(p)' \/ StillSo(p)'
  <2>1. p \in InFlight  BY <1>4 DEF InFlight
  <2>2. CASE req'[o].op \in Changes  BY <1>1, <2>1, <2>2 DEF Meanwhile, Changes
  <2>3. CASE UNCHANGED <<document, reader>>
    <3>1. /\ item' = item /\ rules' = rules /\ team' = team /\ plan' = plan
          /\ connection' = connection /\ patronage' = patronage
      BY <2>3 DEF document, reader
    <3>2. Subscribes' <=> Subscribes  BY <3>1 DEF Subscribes
    <3>3. MayRead(req[p].as)' = MayRead(req[p].as)
      BY <1>1, <3>1 DEF MayRead, Subscribes, RefusedByRule, Matches, EvaluateOperator, Actual, HasSubscriptionEntitlement,
                  HasDownloadAccess, Counts, PlanCodes
    <3>4. StillSo(p) => StillSo(p)'
      BY <1>1, <3>1, <3>2, <3>3 DEF StillSo
    <3> QED  BY <1>2, <1>3, <1>4, <3>4 DEF OnRead
  <2> QED  BY <2>2, <2>3
<1> QED  BY <1>1, <1>2, <1>4 DEF OnRead

LEMMA OthersKeep ==
    ASSUME IInv, NEW o \in Request, NEW p \in Request, p # o, Moves(o),
           kept'.progress <= kept.progress \/ req'[o].op = "trackProgress", kept'.progress \in 0..MaxProgress
    PROVE  OnKeep(p)'
<1>1. /\ at'[p] = at[p] /\ req'[p] = req[p] /\ met[p] \subseteq met'[p]
      /\ \A x \in met[p] : req'[x].op = req[x].op
      /\ p \in InFlight => o \in met'[p]
  BY DEF Moves
<1>2. OnKeep(p) /\ kept.progress \in Nat /\ kept'.progress \in Nat /\ req[p].value \in Nat
  BY TypeParts, CallParts, BoundAssumption DEF IInv
<1>3. at[p] = "keep" => p \in InFlight  BY DEF InFlight
<1> QED  BY <1>1, <1>2, <1>3 DEF OnKeep

LEMMA OthersPatreon ==
    ASSUME IInv, NEW o \in Request, NEW p \in Request, p # o, Moves(o), connection.linked => connection'.linked
    PROVE  OnPatreon(p)'
<1>1. at'[p] = at[p] /\ req'[p] = req[p]  BY DEF Moves
<1>2. OnPatreon(p)  BY DEF IInv
<1> QED  BY <1>1, <1>2 DEF OnPatreon

\* A step is good if it is so for the tables and for the request that takes it.
LEMMA StepHolds ==
    ASSUME IInv, NEW o \in Request, Moves(o), TypeOK', OnRead(o)', OnKeep(o)', OnPatreon(o)', Settled',
           UNCHANGED <<document, reader>> \/ req'[o].op \in Changes,
           kept'.progress <= kept.progress \/ req'[o].op = "trackProgress",
           connection.linked => connection'.linked
    PROVE  IInv'
<1>1. kept'.progress \in 0..MaxProgress  BY DEF TypeOK
<1>2. \A p \in Request : p # o => OnRead(p)' /\ OnKeep(p)' /\ OnPatreon(p)'
  BY <1>1, OthersRead, OthersKeep, OthersPatreon
<1> QED  BY <1>2 DEF IInv, Moves

----------------------------------------------------------------------------
(* Requests about the membership. *)
LEMMA PatronsStay ==
    ASSUME IInv, NEW o \in Request, Moves(o)
    PROVE  /\ Patrons \subseteq Patrons'
           /\ \A p \in Patrons' : p # o => p \in Patrons
           /\ Undisturbed' => /\ \A p \in Patrons : p # o => at[p] # "failed" /\ met[p] \cap Patrons = {}
                              /\ met[o] \subseteq met'[o] => Undisturbed
<1>1. None \notin Patreon  BY DEF Patreon, None
<1>2. /\ \A p \in Request : p # o => at'[p] = at[p] /\ req'[p] = req[p] /\ met[p] \subseteq met'[p]
      /\ req'[o].op = req[o].op \/ req[o].op = None
      /\ at[o] # "failed"
  BY DEF Moves
<1>3. Patrons \subseteq Patrons' /\ \A p \in Patrons' : p # o => p \in Patrons
  BY <1>1, <1>2 DEF Patrons
<1>4. ASSUME Undisturbed', NEW p \in Patrons, p # o \/ met[o] \subseteq met'[o]
      PROVE  at[p] # "failed" /\ met[p] \cap Patrons = {}
  <2>1. p \in Request /\ p \in Patrons'  BY <1>3 DEF Patrons
  <2>2. at'[p] # "failed" /\ met'[p] \cap Patrons' = {}  BY <1>4, <2>1 DEF Undisturbed
  <2>3. met[p] \subseteq met'[p]  BY <1>2, <1>4, <2>1
  <2> QED  BY <1>2, <1>3, <2>1, <2>2, <2>3
<1> QED  BY <1>3, <1>4 DEF Undisturbed

\* A request about the membership that is on its way, and met no other, is the only one.
LEMMA Alone ==
    ASSUME IInv, Undisturbed, NEW o \in Patrons, at[o] \in Moving, NEW p \in Patrons, p # o
    PROVE  at[p] \notin Moving
<1>1. ASSUME at[p] \in Moving  PROVE FALSE
  <2>1. o \in InFlight /\ p \in InFlight  BY <1>1 DEF Moving, Patrons, InFlight
  <2>2. p \in met[o]  BY <2>1 DEF IInv, Together
  <2> QED  BY <2>2 DEF Undisturbed
<1> QED  BY <1>1

\* Steps that leave the connection alone and make no entitlement ACTIVE.
LEMMA SettledAside ==
    ASSUME IInv, NEW o \in Request, Moves(o), at[o] \notin Moving, o \notin Patrons \/ met[o] \subseteq met'[o],
           connection' = connection,
           \A e \in patronage' : \E f \in patronage : e.by = f.by /\ (e.status = "ACTIVE" => f.status = "ACTIVE"),
           (\A e, f \in patronage : e = f) => (\A e, f \in patronage' : e = f),
           at'[o] \notin {"find", "entitle", "revoke"}
    PROVE  Settled'
<1> SUFFICES ASSUME Undisturbed'
             PROVE  /\ \A e, f \in patronage' : e = f
                    /\ \A p \in Patrons' : Halfway(p)'
                    /\ (\A p \in Patrons' : at'[p] \notin Moving) => Mirrored'
  BY DEF Settled, Moving
<1>1. Patrons \subseteq Patrons' /\ \A p \in Patrons' : p # o => p \in Patrons  BY PatronsStay
<1>2. Undisturbed  BY PatronsStay DEF Undisturbed
<1>3. Settled  BY DEF IInv
<1>4. \A p \in Request : p # o => at'[p] = at[p] /\ req'[p] = req[p]  BY DEF Moves
<1>5. \A e, f \in patronage' : e = f  BY <1>2, <1>3 DEF Settled
<1>6. ASSUME NEW p \in Patrons'  PROVE Halfway(p)'
  <2>1. CASE p = o  BY <2>1 DEF Halfway
  <2>2. CASE p # o
    <3>1. p \in Patrons /\ p \in Request  BY <1>1, <2>2 DEF Patrons
    <3>2. Halfway(p)  BY <1>2, <1>3, <3>1 DEF Settled
    <3>3. at'[p] = at[p] /\ req'[p] = req[p]  BY <1>4, <2>2, <3>1
    <3>4. patronage = {} => patronage' = {}
      OBVIOUS
    <3>5. \A k : (\A e \in patronage : e.by = k) => (\A e \in patronage' : e.by = k)
      OBVIOUS
    <3>6. IsActivePatron(req'[p].membership) = IsActivePatron(req[p].membership)  BY <3>3
    <3> QED  BY <3>2, <3>3, <3>4, <3>5, <3>6 DEF Halfway, IsActivePatron
  <2> QED  BY <2>1, <2>2
<1>7. (\A p \in Patrons' : at'[p] \notin Moving) => Mirrored'
  <2> SUFFICES ASSUME \A p \in Patrons' : at'[p] \notin Moving  PROVE Mirrored'
    OBVIOUS
  <2>1. \A p \in Patrons : at[p] \notin Moving  BY <1>1, <1>4 DEF Patrons
  <2>2. Mirrored  BY <1>2, <1>3, <2>1 DEF Settled
  <2> QED  BY <2>2 DEF Mirrored
<1> QED  BY <1>5, <1>6, <1>7

\* Steps of a request about the membership.
LEMMA SettledMoving ==
    ASSUME IInv, NEW o \in Request, Moves(o), at[o] \in Moving, met' = met,
           Undisturbed => /\ \A e, f \in patronage' : e = f
                          /\ Halfway(o)'
                          /\ at'[o] \notin Moving => Mirrored'
    PROVE  Settled'
<1> SUFFICES ASSUME Undisturbed'
             PROVE  /\ \A e, f \in patronage' : e = f
                    /\ \A p \in Patrons' : Halfway(p)'
                    /\ (\A p \in Patrons' : at'[p] \notin Moving) => Mirrored'
  BY DEF Settled, Moving
<1>1. Patrons \subseteq Patrons' /\ \A p \in Patrons' : p # o => p \in Patrons  BY PatronsStay
<1>2. Undisturbed  BY PatronsStay DEF Undisturbed
<1>3. o \in Patrons  BY DEF IInv, OnPatreon, Patrons
<1>4. ASSUME NEW p \in Patrons', p # o  PROVE Halfway(p)'
  <2>1. p \in Patrons /\ p \in Request  BY <1>1, <1>4 DEF Patrons
  <2>2. at[p] \notin Moving  BY <1>2, <1>3, <1>4, <2>1, Alone
  <2>3. at'[p] = at[p]  BY <1>4, <2>1 DEF Moves
  <2> QED  BY <2>2, <2>3 DEF Halfway, Moving
<1>5. (\A p \in Patrons' : at'[p] \notin Moving) => at'[o] \notin Moving  BY <1>1, <1>3
<1> QED  BY <1>2, <1>4, <1>5

----------------------------------------------------------------------------
(* Steps that change neither the tables nor the reader. *)
LEMMA TypesSame ==
    ASSUME TypeOK, UNCHANGED <<document, reader, kept>>, given' \in [Request -> SUBSET {"body", "file"}],
           at' \in [Request -> Step]
    PROVE  TypeOK'
BY DEF TypeOK, document, reader

LEMMA NoPatronYet ==
    ASSUME IInv, NEW o \in Request, at[o] = "new"
    PROVE  o \notin Patrons
BY DEF IInv, OnPatreon, Patrons, Patreon, None

LEMMA QuietStep ==
    ASSUME IInv, NEW o \in Request, Moves(o), at[o] \notin Moving, at'[o] \notin Moving \cup {"keep", "new"},
           UNCHANGED <<document, reader, kept>>, given' \in [Request -> SUBSET {"body", "file"}],
           o \notin Patrons \/ met[o] \subseteq met'[o], OnRead(o)'
    PROVE  IInv'
<1>1. connection' = connection /\ patronage' = patronage /\ kept' = kept  BY DEF reader
<1>2. TypeOK'  BY TypesSame DEF IInv, Moves
<1>3. OnKeep(o)' /\ OnPatreon(o)'  BY DEF OnKeep, OnPatreon, Moving
<1>4. Settled'  BY <1>1, SettledAside DEF Moving
<1>5. kept'.progress <= kept.progress  BY <1>1, TypeParts, BoundAssumption DEF IInv
<1> QED  BY <1>1, <1>2, <1>3, <1>4, <1>5, StepHolds

\* A request that arrives and has nothing to read.
LEMMA QuietArrival ==
    ASSUME IInv, NEW o \in Request, NEW q \in CallType, NEW step \in {"done", "findKept"}, Arrives(o, q, step),
           UNCHANGED <<document, reader, kept>>, given' \in [Request -> SUBSET {"body", "file"}]
    PROVE  IInv'
<1>1. Moves(o) /\ at[o] = "new" /\ at'[o] = step  BY ArrivesMoves DEF Step
<1>2. OnRead(o)'  BY <1>1 DEF OnRead
<1> QED  BY <1>1, <1>2, NoPatronYet, QuietStep DEF Moving

----------------------------------------------------------------------------
(* Reading. *)
LEMMA SubscribesIs ==
    HasSubscriptionEntitlement => Subscribes
BY DEF HasSubscriptionEntitlement, Subscribes, HasDownloadAccess, Counts, None

\* Rules that admit do not refuse: the first that matches tells.
LEMMA RulesAgree ==
    ASSUME TypeOK, NEW as, EvaluateRules(as)
    PROVE  ~RefusedByRule(as)
<1>1. CASE as # Guest /\ Matching # {}
  <2>1. PICK i \in Matching : rules[i].allow /\ \A j \in Matching : i <= j
    BY <1>1 DEF EvaluateRules, FirstAdmits
  <2>2. i \in DOMAIN rules /\ Matches(rules[i])  BY <2>1 DEF Matching
  <2>3. rules \in Seq(Rules)  BY RulesType DEF TypeOK
  <2>4. DOMAIN rules = 1..Len(rules) /\ Len(rules) \in Nat  BY <2>3
  <2>5. ASSUME NEW j \in 1..i - 1  PROVE ~Matches(rules[j])
    <3>1. j \in DOMAIN rules /\ ~(i <= j)  BY <2>2, <2>4
    <3> QED  BY <2>1, <3>1 DEF Matching
  <2> QED  BY <1>1, <2>1, <2>2, <2>5 DEF RefusedByRule
<1>2. CASE ~(as # Guest /\ Matching # {})
  <2>1. DenyRules = {}  BY <1>2 DEF EvaluateRules
  <2> QED  BY <2>1 DEF RefusedByRule, DenyRules
<1> QED  BY <1>1, <1>2

LEMMA NoRulesAgree ==
    ASSUME rules = <<>>, NEW as
    PROVE  ~RefusedByRule(as)
BY DEF RefusedByRule

LEMMA LookupHolds ==
    ASSUME IInv, NEW o \in Request, Lookup(o)
    PROVE  IInv'
<1>0. PICK op \in Reading : \E as \in Askers(op) :
        LET m == item.model
            q == [NoCall EXCEPT !.op = op, !.as = as, !.model = m, !.listed = rules # <<>>,
                                !.allowed = m = "PUBLIC" \/ (m = "AUTHENTICATED" /\ as # Guest)]
        IN  Arrive(o, q, CASE m = "CUSTOM"                                   -> "rules"
                           [] m \in {"PREMIUM", "TIER_BASED"} /\ as # Guest -> "entitlements"
                           [] m = "PATREON" /\ as # Guest                   -> "connection"
                           [] OTHER                                          -> Answered(op, q.allowed))
  BY DEF Lookup
<1>1. PICK as \in Askers(op) :
        LET m == item.model
            q == [NoCall EXCEPT !.op = op, !.as = as, !.model = m, !.listed = rules # <<>>,
                                !.allowed = m = "PUBLIC" \/ (m = "AUTHENTICATED" /\ as # Guest)]
        IN  Arrive(o, q, CASE m = "CUSTOM"                                   -> "rules"
                           [] m \in {"PREMIUM", "TIER_BASED"} /\ as # Guest -> "entitlements"
                           [] m = "PATREON" /\ as # Guest                   -> "connection"
                           [] OTHER                                          -> Answered(op, q.allowed))
  BY <1>0
<1>2. PICK l \in BOOLEAN : l = (rules # <<>>)  OBVIOUS
<1>3. PICK a \in BOOLEAN : a = (item.model = "PUBLIC" \/ (item.model = "AUTHENTICATED" /\ as # Guest))  OBVIOUS
<1>4. PICK q : q = [NoCall EXCEPT !.op = op, !.as = as, !.model = item.model, !.listed = l, !.allowed = a]  OBVIOUS
<1>5. PICK step : step = CASE item.model = "CUSTOM"                                   -> "rules"
                           [] item.model \in {"PREMIUM", "TIER_BASED"} /\ as # Guest -> "entitlements"
                           [] item.model = "PATREON" /\ as # Guest                   -> "connection"
                           [] OTHER                                                  -> Answered(op, q.allowed)
  OBVIOUS
<1>6. Arrive(o, q, step)  BY <1>1, <1>2, <1>3, <1>4, <1>5
<1>7. item.model \in Model /\ as \in {Guest, Ann}  BY TypeParts DEF IInv, Askers
<1>8. Answered(op, q.allowed) \in {"done", "read"}  BY DEF Answered
<1>9. /\ q.op = op /\ q.as = as /\ q.model = item.model /\ q.listed = l /\ q.allowed = a
  BY <1>4 DEF NoCall
<1>10. op \in Operations  BY <1>6, <1>9 DEF Arrive, Arrives
<1>11. q \in CallType  BY <1>4, <1>7, <1>10, NoCallTypes DEF CallType
<1>12. /\ step \in {"rules", "entitlements", "connection", "done", "read"}
       /\ step = "rules" => item.model = "CUSTOM"
       /\ step = "entitlements" => item.model \in {"PREMIUM", "TIER_BASED"} /\ as # Guest
       /\ step = "connection" => item.model = "PATREON" /\ as # Guest
  BY <1>5, <1>7, <1>8 DEF Model
<1>13. /\ Moves(o) /\ at[o] = "new" /\ at'[o] = step /\ req'[o] = q
       /\ item' = item /\ rules' = rules /\ UNCHANGED <<document, reader, kept>> /\ given' = given
  BY <1>6, <1>11, <1>12, ArrivesMoves DEF Arrive, Step, document
<1>14. a => MayRead(as)  BY <1>3, <1>7 DEF MayRead, Model
<1>15. MayRead(as)' = MayRead(as)
  BY <1>13 DEF MayRead, Subscribes, RefusedByRule, Matches, EvaluateOperator, Actual, HasSubscriptionEntitlement,
               HasDownloadAccess, Counts, PlanCodes, document, reader
<1>16. MayRead(req[o].as)' = MayRead(as)'  BY <1>9, <1>13 DEF MayRead, RefusedByRule
<1>17. StillSo(o)'
  <2>1. a => MayRead(req[o].as)'  BY <1>14, <1>15, <1>16
  <2> QED  BY <1>2, <1>9, <1>12, <1>13, <2>1 DEF StillSo
<1>18. OnRead(o)'  BY <1>9, <1>12, <1>13, <1>17 DEF OnRead
<1>19. given' \in [Request -> SUBSET {"body", "file"}]  BY <1>13, TypeParts DEF IInv
<1> QED  BY <1>12, <1>13, <1>18, <1>19, NoPatronYet, QuietStep DEF Moving

LEMMA MayReadStays ==
    ASSUME UNCHANGED <<document, reader>>, NEW o, req'[o].as = req[o].as
    PROVE  MayRead(req[o].as)' = MayRead(req[o].as)
BY DEF MayRead, Subscribes, RefusedByRule, Matches, EvaluateOperator, Actual, HasSubscriptionEntitlement,
       HasDownloadAccess, Counts, PlanCodes, document, reader

LEMMA DecideHolds ==
    ASSUME IInv, NEW o \in Request, at[o] \in {"entitlements", "connection", "rules"}, NEW a \in BOOLEAN, Decide(o, a),
           Meanwhile(o) \/ (a => MayRead(req[o].as))
    PROVE  IInv'
<1>1. o \in InFlight  BY DEF InFlight
<1>2. /\ req' = [req EXCEPT ![o].allowed = a] /\ Goes(o, Answered(req[o].op, a))
      /\ UNCHANGED <<document, reader, kept>> /\ given' = given
  BY DEF Decide
<1>3. req \in [Request -> CallType]  BY DEF IInv
<1>4. PICK r : r = [req[o] EXCEPT !.allowed = a]  OBVIOUS
<1>5. r \in CallType /\ r.op = req[o].op /\ r.as = req[o].as /\ r.allowed = a
  <2>1. req[o] \in CallType  BY <1>3
  <2> QED  BY <1>4, <2>1 DEF CallType
<1>6. req' \in [Request -> CallType] /\ req'[o] = r /\ \A p \in Request : p # o => req'[p] = req[p]
  BY <1>2, <1>3, <1>4, <1>5
<1>7. PICK step : step = Answered(req[o].op, a)  OBVIOUS
<1>8. step \in {"done", "read"}  BY <1>7 DEF Answered
<1>9. Moves(o) /\ at'[o] = step /\ met' = met
  BY <1>1, <1>2, <1>5, <1>6, <1>7, <1>8, GoesMoves DEF Step
<1>10. Meanwhile(o) => Meanwhile(o)'  BY <1>9 DEF Meanwhile, Moves
<1>11. MayRead(req[o].as)' = MayRead(req[o].as)  BY <1>2, <1>5, <1>6, MayReadStays
<1>12. Meanwhile(o)' \/ (a => MayRead(req[o].as)')  BY <1>10, <1>11
<1>13. OnRead(o)'  BY <1>5, <1>6, <1>8, <1>9, <1>12 DEF OnRead, StillSo
<1>14. given' \in [Request -> SUBSET {"body", "file"}]  BY <1>2, TypeParts DEF IInv
<1> QED  BY <1>2, <1>8, <1>9, <1>13, <1>14, QuietStep DEF Moving

LEMMA GoesToRulesHolds ==
    ASSUME IInv, NEW o \in Request, at[o] \in {"entitlements", "connection"}, GoesToRules(o),
           req[o].model = "TIER_BASED" => Subscribes,
           req[o].model = "PATREON" => connection.active /\ connection.status # None,
           req[o].model \in {"TIER_BASED", "PATREON"}
    PROVE  IInv'
<1>1. o \in InFlight  BY DEF InFlight
<1>2. req' = req /\ Goes(o, "rules") /\ UNCHANGED <<document, reader, kept>> /\ given' = given
  BY DEF GoesToRules
<1>3. Moves(o) /\ at'[o] = "rules" /\ met' = met  BY <1>1, <1>2, GoesOn DEF Step
<1>4. Meanwhile(o) => Meanwhile(o)'  BY <1>2, <1>3 DEF Meanwhile
<1>5. OnRead(o)  BY DEF IInv
<1>6. item' = item /\ rules' = rules /\ connection' = connection /\ (Subscribes' <=> Subscribes)
  BY <1>2 DEF document, reader, Subscribes
<1>7. StillSo(o) => StillSo(o)'  BY <1>2, <1>3, <1>6 DEF StillSo
<1>8. OnRead(o)'  BY <1>2, <1>3, <1>4, <1>5, <1>7 DEF OnRead
<1>9. given' \in [Request -> SUBSET {"body", "file"}]  BY <1>2, TypeParts DEF IInv
<1> QED  BY <1>2, <1>3, <1>8, <1>9, QuietStep DEF Moving

LEMMA CheckEntitlementsHolds ==
    ASSUME IInv, NEW o \in Request, CheckEntitlements(o)
    PROVE  IInv'
<1>1. at[o] = "entitlements" /\ OnRead(o)  BY DEF CheckEntitlements, IInv
<1>2. req[o].model \in {"PREMIUM", "TIER_BASED"} /\ req[o].as # Guest  BY <1>1 DEF OnRead
<1>3. CASE HasSubscriptionEntitlement /\ req[o].model = "TIER_BASED"
  <2>1. GoesToRules(o)  BY <1>3 DEF CheckEntitlements
  <2> QED  BY <1>1, <1>3, <2>1, SubscribesIs, GoesToRulesHolds
<1>4. CASE ~(HasSubscriptionEntitlement /\ req[o].model = "TIER_BASED")
  <2>1. PICK a \in BOOLEAN : a = HasSubscriptionEntitlement
    BY DEF HasSubscriptionEntitlement, HasDownloadAccess
  <2>2. Decide(o, a)  BY <1>4, <2>1 DEF CheckEntitlements
  <2>3. StillSo(o) => (a => MayRead(req[o].as))
    BY <1>1, <1>2, <1>4, <2>1, SubscribesIs DEF StillSo, MayRead
  <2> QED  BY <1>1, <2>2, <2>3, DecideHolds DEF OnRead
<1> QED  BY <1>3, <1>4

LEMMA CheckConnectionHolds ==
    ASSUME IInv, NEW o \in Request, CheckConnection(o)
    PROVE  IInv'
<1>1. at[o] = "connection" /\ OnRead(o)  BY DEF CheckConnection, IInv
<1>2. req[o].model = "PATREON"  BY <1>1 DEF OnRead
<1>3. CASE connection.active /\ connection.status # None
  <2>1. GoesToRules(o)  BY <1>3 DEF CheckConnection
  <2> QED  BY <1>1, <1>2, <1>3, <2>1, GoesToRulesHolds
<1>4. CASE ~(connection.active /\ connection.status # None)
  <2>1. Decide(o, FALSE)  BY <1>4 DEF CheckConnection
  <2> QED  BY <1>1, <2>1, DecideHolds
<1> QED  BY <1>3, <1>4

LEMMA CheckRulesHolds ==
    ASSUME IInv, NEW o \in Request, CheckRules(o)
    PROVE  IInv'
<1>1. at[o] = "rules" /\ OnRead(o) /\ TypeOK  BY DEF CheckRules, IInv
<1>2. req[o].model = "CUSTOM" \/ (req[o].model \in {"TIER_BASED", "PATREON"} /\ req[o].as # Guest)  BY <1>1 DEF OnRead
<1>3. PICK a \in BOOLEAN : a = (EvaluateRules(req[o].as) \/ (req[o].model = "PATREON" /\ ~req[o].listed))  OBVIOUS
<1>4. Decide(o, a)  BY <1>3 DEF CheckRules
<1>5. StillSo(o) /\ a => MayRead(req[o].as)
  <2> SUFFICES ASSUME StillSo(o), a  PROVE MayRead(req[o].as)
    OBVIOUS
  <2>1. ~RefusedByRule(req[o].as)
    <3>1. CASE EvaluateRules(req[o].as)  BY <1>1, <3>1, RulesAgree
    <3>2. CASE ~req[o].listed
      <4>1. rules = <<>>  BY <1>1, <3>2 DEF StillSo
      <4> QED  BY <4>1, NoRulesAgree
    <3> QED  BY <1>3, <3>1, <3>2
  <2>2. item.model = req[o].model  BY <1>1 DEF StillSo
  <2>3. CASE req[o].model = "CUSTOM"  BY <2>1, <2>2, <2>3 DEF MayRead
  <2>4. CASE req[o].model = "TIER_BASED"
    <3>1. Subscribes /\ req[o].as # Guest  BY <1>1, <1>2, <2>4 DEF StillSo
    <3> QED  BY <2>1, <2>2, <2>4, <3>1 DEF MayRead
  <2>5. CASE req[o].model = "PATREON"
    <3>1. connection.active /\ connection.status # None /\ req[o].as # Guest  BY <1>1, <1>2, <2>5 DEF StillSo
    <3> QED  BY <2>1, <2>2, <2>5, <3>1 DEF MayRead
  <2> QED  BY <1>2, <2>3, <2>4, <2>5
<1> QED  BY <1>1, <1>4, <1>5, DecideHolds DEF OnRead

LEMMA GivenGrows ==
    ASSUME TypeOK, NEW o \in Request, NEW G \in SUBSET {"body", "file"}, given' = [given EXCEPT ![o] = G]
    PROVE  given' \in [Request -> SUBSET {"body", "file"}]
BY TypeParts

LEMMA AnswerHolds ==
    ASSUME IInv, NEW o \in Request, ReadContent(o) \/ CheckDownloadAccess(o)
    PROVE  IInv'
<1>1. at[o] \in {"read", "download"} /\ o \in InFlight /\ req' = req /\ UNCHANGED <<document, reader, kept>>
  BY DEF ReadContent, CheckDownloadAccess, InFlight
<1>2. PICK step \in {"download", "done"} : Goes(o, step)  BY DEF ReadContent, CheckDownloadAccess
<1>3. given' \in [Request -> SUBSET {"body", "file"}]
  <2>1. CASE ReadContent(o)
    <3>1. PICK G \in SUBSET {"body", "file"} : given' = [given EXCEPT ![o] = G]  BY <2>1 DEF ReadContent
    <3> QED  BY <3>1, GivenGrows DEF IInv
  <2>2. CASE CheckDownloadAccess(o)
    <3>1. given[o] \in SUBSET {"body", "file"}  BY TypeParts DEF IInv
    <3>2. PICK G \in SUBSET {"body", "file"} : given' = [given EXCEPT ![o] = G]  BY <2>2, <3>1 DEF CheckDownloadAccess
    <3> QED  BY <3>2, GivenGrows DEF IInv
  <2> QED  BY <2>1, <2>2
<1>4. Moves(o) /\ at'[o] = step /\ met' = met  BY <1>1, <1>2, GoesOn DEF Step
<1>5. OnRead(o)'  BY <1>4 DEF OnRead
<1> QED  BY <1>1, <1>3, <1>4, <1>5, QuietStep DEF Moving

LEMMA ListHolds ==
    ASSUME IInv, NEW o \in Request, List(o)
    PROVE  IInv'
<1>1. PICK op \in Listing : \E as \in {Guest, Ann} :
        /\ Arrives(o, [NoCall EXCEPT !.op = op, !.as = as], "done")
        /\ \E G \in SUBSET {"body", "file"} : given' = [given EXCEPT ![o] = G]
        /\ UNCHANGED <<document, reader, kept>>
  BY DEF List, Askers
<1>2. PICK as \in {Guest, Ann} :
        /\ Arrives(o, [NoCall EXCEPT !.op = op, !.as = as], "done")
        /\ \E G \in SUBSET {"body", "file"} : given' = [given EXCEPT ![o] = G]
        /\ UNCHANGED <<document, reader, kept>>
  BY <1>1
<1>3. PICK q : q = [NoCall EXCEPT !.op = op, !.as = as]  OBVIOUS
<1>4. q.op = op  BY <1>3 DEF NoCall
<1>5. Arrives(o, q, "done") /\ op \in Operations  BY <1>2, <1>3, <1>4 DEF Arrives
<1>6. q \in CallType  BY <1>3, <1>5, NoCallTypes DEF CallType
<1>7. given' \in [Request -> SUBSET {"body", "file"}]  BY <1>2, GivenGrows DEF IInv
<1> QED  BY <1>2, <1>5, <1>6, <1>7, QuietArrival

----------------------------------------------------------------------------
(* Curating. *)

\* A request that arrives and changes what may decide who reads, but no entitlement for the better.
LEMMA ChangingArrival ==
    ASSUME IInv, NEW o \in Request, NEW q \in CallType, NEW step \in {"done", "upsert", "unlink"}, Arrives(o, q, step),
           q.op \in Changes, step \in Moving => q.op \in Patreon,
           step = "upsert" => q.membership \in Memberships,
           TypeOK', UNCHANGED <<connection, kept>>,
           \A e \in patronage' : \E f \in patronage : e.by = f.by /\ (e.status = "ACTIVE" => f.status = "ACTIVE"),
           (\A e, f \in patronage : e = f) => (\A e, f \in patronage' : e = f)
    PROVE  IInv'
<1>1. Moves(o) /\ at[o] = "new" /\ at'[o] = step /\ req'[o] = q  BY ArrivesMoves DEF Step
<1>2. OnRead(o)' /\ OnKeep(o)'  BY <1>1 DEF OnRead, OnKeep
<1>3. OnPatreon(o)'  BY <1>1 DEF OnPatreon
<1>4. Settled'  BY <1>1, NoPatronYet, SettledAside DEF Moving
<1>5. kept'.progress <= kept.progress  BY TypeParts, BoundAssumption DEF IInv
<1> QED  BY <1>1, <1>2, <1>3, <1>4, <1>5, StepHolds

LEMMA TypesArrive ==
    ASSUME IInv, NEW o \in Request, NEW q \in CallType, NEW step \in Step \ {"new", "failed"}, Arrives(o, q, step)
    PROVE  at' \in [Request -> Step]
BY ArrivesMoves DEF Moves

LEMMA CallOf ==
    ASSUME NEW op \in Operations
    PROVE  [NoCall EXCEPT !.op = op] \in CallType /\ [NoCall EXCEPT !.op = op].op = op
BY NoCallTypes DEF NoCall, CallType

LEMMA UpdateContentHolds ==
    ASSUME IInv, NEW o \in Request, UpdateContent(o)
    PROVE  IInv'
<1>1. PICK new \in {[item EXCEPT !.model = m] : m \in EditedTo}
               \cup {[item EXCEPT !.downloadable = ~@], [item EXCEPT !.live = FALSE]} :
        /\ Arrives(o, [NoCall EXCEPT !.op = "updateContent"], "done")
        /\ item' = new
        /\ UNCHANGED <<rules, reader, kept, given>>
  BY DEF UpdateContent
<1>2. PICK q : q = [NoCall EXCEPT !.op = "updateContent"]  OBVIOUS
<1>3. q.op = "updateContent" /\ Arrives(o, q, "done")  BY <1>1, <1>2 DEF NoCall
<1>4. q \in CallType  BY <1>2, <1>3, CallOf DEF Arrives
<1>5. item' \in Document
  <2>1. item \in Document  BY TypeParts DEF IInv
  <2>2. CASE new \in {[item EXCEPT !.model = m] : m \in EditedTo}
    BY <1>1, <2>1, <2>2, RulesAssumption DEF Document
  <2>3. CASE new \in {[item EXCEPT !.downloadable = ~@], [item EXCEPT !.live = FALSE]}
    BY <1>1, <2>1, <2>3 DEF Document
  <2> QED  BY <1>1, <2>2, <2>3
<1>6. at' \in [Request -> Step]  BY <1>3, <1>4, TypesArrive DEF Step
<1>7. TypeOK'  BY <1>1, <1>5, <1>6 DEF IInv, TypeOK, reader
<1>8. connection' = connection /\ patronage' = patronage /\ kept' = kept  BY <1>1 DEF reader
<1>9. q.op \in Changes  BY <1>3 DEF Changes, Curating
<1> QED  BY <1>3, <1>4, <1>7, <1>8, <1>9, ChangingArrival DEF Moving

LEMMA EditRulesHolds ==
    ASSUME IInv, NEW o \in Request, NEW op \in RuleEdits, NEW new \in Seq(Rules), EditRules(o, op, new)
    PROVE  IInv'
<1>1. /\ Len(new) <= MaxRules /\ Arrives(o, [NoCall EXCEPT !.op = op], "done") /\ rules' = new
      /\ UNCHANGED <<item, reader, kept, given>>
  BY DEF EditRules
<1>2. PICK q : q = [NoCall EXCEPT !.op = op]  OBVIOUS
<1>3. q.op = op /\ Arrives(o, q, "done")  BY <1>1, <1>2 DEF NoCall
<1>4. q \in CallType  BY <1>2, <1>3, CallOf DEF Arrives
<1>5. rules' \in BoundedSeq(Rules, MaxRules)  BY <1>1, RulesType
<1>6. at' \in [Request -> Step]  BY <1>3, <1>4, TypesArrive DEF Step
<1>7. TypeOK'  BY <1>1, <1>5, <1>6 DEF IInv, TypeOK, reader
<1>8. connection' = connection /\ patronage' = patronage /\ kept' = kept  BY <1>1 DEF reader
<1>9. q.op \in Changes  BY <1>3 DEF Changes, Curating
<1> QED  BY <1>3, <1>4, <1>7, <1>8, <1>9, ChangingArrival DEF Moving

\* A rule taken out and a rule put in leave a sequence of rules.
LEMMA PartOfRules ==
    ASSUME NEW s \in Seq(Rules), NEW i \in Int, NEW j \in Int, i >= 1, j <= Len(s)
    PROVE  SubSeq(s, i, j) \in Seq(Rules)
<1>1. \A k \in i .. j : s[k] \in Rules  OBVIOUS
<1> QED  BY <1>1, SubSeqProperties

LEMMA InsertType ==
    ASSUME NEW s \in Seq(Rules), NEW i \in 1..Len(s) + 1, NEW r \in Rules
    PROVE  InsertAt(s, i, r) \in Seq(Rules)
<1>1. SubSeq(s, 1, i - 1) \in Seq(Rules) /\ SubSeq(s, i, Len(s)) \in Seq(Rules)  BY PartOfRules
<1>2. <<r>> \in Seq(Rules)  OBVIOUS
<1>3. SubSeq(s, 1, i - 1) \o <<r>> \in Seq(Rules)  BY <1>1, <1>2, ConcatProperties
<1>4. (SubSeq(s, 1, i - 1) \o <<r>>) \o SubSeq(s, i, Len(s)) \in Seq(Rules)  BY <1>1, <1>3, ConcatProperties
<1> QED  BY <1>4 DEF InsertAt

LEMMA RemoveType ==
    ASSUME NEW s \in Seq(Rules), NEW i \in 1..Len(s)
    PROVE  RemoveAt(s, i) \in Seq(Rules)
<1>1. SubSeq(s, 1, i - 1) \in Seq(Rules) /\ SubSeq(s, i + 1, Len(s)) \in Seq(Rules)  BY PartOfRules
<1>2. SubSeq(s, 1, i - 1) \o SubSeq(s, i + 1, Len(s)) \in Seq(Rules)  BY <1>1, ConcatProperties
<1> QED  BY <1>2 DEF RemoveAt

LEMMA RulesAreRules ==
    ASSUME IInv
    PROVE  rules \in Seq(Rules) /\ DOMAIN rules = 1..Len(rules)
<1>1. rules \in Seq(Rules)  BY RulesType DEF IInv, TypeOK
<1> QED  BY <1>1

LEMMA RuleEditsHold ==
    ASSUME IInv, NEW o \in Request, CreateRule(o) \/ UpdateRule(o) \/ RemoveRule(o)
    PROVE  IInv'
<1>1. rules \in Seq(Rules) /\ DOMAIN rules = 1..Len(rules)  BY RulesAreRules
<1>2. CASE CreateRule(o)
  <2>1. PICK r \in Rules : \E i \in 1..Len(rules) + 1 : EditRules(o, "createRule", InsertAt(rules, i, r))
    BY <1>2 DEF CreateRule
  <2>2. PICK i \in 1..Len(rules) + 1 : EditRules(o, "createRule", InsertAt(rules, i, r))  BY <2>1
  <2>3. InsertAt(rules, i, r) \in Seq(Rules)  BY <1>1, InsertType
  <2> QED  BY <2>2, <2>3, EditRulesHolds DEF RuleEdits
<1>3. CASE UpdateRule(o)
  <2>1. PICK i \in DOMAIN rules :
           \/ EditRules(o, "updateRule", RemoveAt(rules, i))
           \/ \E r \in Rules : \E j \in 1..Len(RemoveAt(rules, i)) + 1 :
                EditRules(o, "updateRule", InsertAt(RemoveAt(rules, i), j, r))
    BY <1>3 DEF UpdateRule
  <2>2. RemoveAt(rules, i) \in Seq(Rules)  BY <1>1, RemoveType
  <2>3. CASE EditRules(o, "updateRule", RemoveAt(rules, i))  BY <2>2, <2>3, EditRulesHolds DEF RuleEdits
  <2>4. CASE \E r \in Rules : \E j \in 1..Len(RemoveAt(rules, i)) + 1 :
                EditRules(o, "updateRule", InsertAt(RemoveAt(rules, i), j, r))
    <3>1. PICK r \in Rules : \E j \in 1..Len(RemoveAt(rules, i)) + 1 :
                EditRules(o, "updateRule", InsertAt(RemoveAt(rules, i), j, r))
      BY <2>4
    <3>2. PICK j \in 1..Len(RemoveAt(rules, i)) + 1 : EditRules(o, "updateRule", InsertAt(RemoveAt(rules, i), j, r))
      BY <3>1
    <3>3. InsertAt(RemoveAt(rules, i), j, r) \in Seq(Rules)  BY <2>2, InsertType
    <3> QED  BY <3>2, <3>3, EditRulesHolds DEF RuleEdits
  <2> QED  BY <2>1, <2>3, <2>4
<1>4. CASE RemoveRule(o)
  <2>1. PICK i \in DOMAIN rules : EditRules(o, "removeRule", RemoveAt(rules, i))  BY <1>4 DEF RemoveRule
  <2>2. RemoveAt(rules, i) \in Seq(Rules)  BY <1>1, RemoveType
  <2> QED  BY <2>1, <2>2, EditRulesHolds DEF RuleEdits
<1> QED  BY <1>2, <1>3, <1>4

----------------------------------------------------------------------------
(* Patreon and subscriptions. *)

\* What is known of a step by a request about the membership that is on its way.
LEMMA MovingStep ==
    ASSUME IInv, NEW o \in Request, at[o] \in Moving, Moves(o), met' = met, req'[o].op = req[o].op,
           at'[o] \in {"find", "entitle", "revoke", "done"},
           TypeOK', kept' = kept, connection.linked => connection'.linked, OnPatreon(o)',
           Undisturbed => /\ \A e, f \in patronage' : e = f
                          /\ Halfway(o)'
                          /\ at'[o] \notin Moving => Mirrored'
    PROVE  IInv'
<1>1. req'[o].op \in Changes  BY DEF IInv, OnPatreon, Changes
<1>2. OnRead(o)' /\ OnKeep(o)'  BY DEF OnRead, OnKeep
<1>3. Settled'  BY SettledMoving
<1>4. kept'.progress <= kept.progress  BY TypeParts, BoundAssumption DEF IInv
<1> QED  BY <1>1, <1>2, <1>3, <1>4, StepHolds

\* What is known of it before.
LEMMA MovingRequest ==
    ASSUME IInv, NEW o \in Request, at[o] \in Moving
    PROVE  /\ o \in InFlight /\ o \in Patrons /\ OnPatreon(o) /\ req[o].op \in Patreon
           /\ Undisturbed => (\A e, f \in patronage : e = f) /\ Halfway(o)
BY DEF IInv, InFlight, Moving, OnPatreon, Patrons, Settled

LEMMA ArrivalsHold ==
    ASSUME IInv, NEW o \in Request, HandleCallback(o) \/ RefreshMyStatus(o)
    PROVE  IInv'
<1>1. PICK op \in {"handleCallback", "refreshMyStatus"} :
         \E m \in Memberships : Arrive(o, [NoCall EXCEPT !.op = op, !.membership = m], "upsert")
  BY DEF HandleCallback, RefreshMyStatus
<1>2. PICK m \in Memberships : Arrive(o, [NoCall EXCEPT !.op = op, !.membership = m], "upsert")  BY <1>1
<1>3. PICK q : q = [NoCall EXCEPT !.op = op, !.membership = m]  OBVIOUS
<1>4. q.op = op /\ q.membership = m  BY <1>3 DEF NoCall
<1>5. Arrives(o, q, "upsert") /\ UNCHANGED <<document, reader, kept, given>> /\ op \in Operations
  BY <1>2, <1>3, <1>4 DEF Arrive, Arrives
<1>6. q \in CallType  BY <1>3, <1>5, NoCallTypes DEF CallType
<1>7. at' \in [Request -> Step]  BY <1>5, <1>6, TypesArrive DEF Step
<1>8. connection' = connection /\ patronage' = patronage /\ kept' = kept /\ given' = given  BY <1>5 DEF reader
<1>9. given' \in [Request -> SUBSET {"body", "file"}]  BY <1>8, TypeParts DEF IInv
<1>10. TypeOK'  BY <1>5, <1>7, <1>9, TypesSame DEF IInv
<1>11. q.op \in Changes /\ q.op \in Patreon  BY <1>4 DEF Changes, Patreon
<1> QED  BY <1>4, <1>5, <1>6, <1>8, <1>10, <1>11, ChangingArrival

LEMMA DisconnectHolds ==
    ASSUME IInv, NEW o \in Request, Disconnect(o)
    PROVE  IInv'
<1>1. PICK step \in {"unlink", "done"} : Arrive(o, [NoCall EXCEPT !.op = "disconnect"], step)  BY DEF Disconnect
<1>2. PICK q : q = [NoCall EXCEPT !.op = "disconnect"]  OBVIOUS
<1>3. q.op = "disconnect"  BY <1>2 DEF NoCall
<1>4. Arrives(o, q, step) /\ UNCHANGED <<document, reader, kept, given>>  BY <1>1, <1>2 DEF Arrive
<1>5. q \in CallType  BY <1>2, <1>3, <1>4, CallOf DEF Arrives
<1>6. at' \in [Request -> Step]  BY <1>4, <1>5, TypesArrive DEF Step
<1>7. connection' = connection /\ patronage' = patronage /\ kept' = kept /\ given' = given  BY <1>4 DEF reader
<1>8. given' \in [Request -> SUBSET {"body", "file"}]  BY <1>7, TypeParts DEF IInv
<1>9. TypeOK'  BY <1>4, <1>6, <1>8, TypesSame DEF IInv
<1>10. q.op \in Changes /\ q.op \in Patreon  BY <1>3 DEF Changes, Patreon
<1> QED  BY <1>4, <1>5, <1>7, <1>9, <1>10, ChangingArrival

LEMMA UpsertConnectionHolds ==
    ASSUME IInv, NEW o \in Request, UpsertConnection(o)
    PROVE  IInv'
<1>1. /\ at[o] = "upsert" /\ connection' = Linked(req[o].membership) /\ Goes(o, "find")
      /\ UNCHANGED <<document, team, plan, patronage, kept, given, req>>
  BY DEF UpsertConnection
<1>2. at[o] \in Moving  BY <1>1 DEF Moving
<1>3. o \in InFlight /\ OnPatreon(o) /\ (Undisturbed => \A e, f \in patronage : e = f)  BY <1>2, MovingRequest
<1>4. Moves(o) /\ at'[o] = "find" /\ met' = met /\ req' = req  BY <1>1, <1>3, GoesOn DEF Step
<1>5. req[o].membership \in Memberships /\ req[o].op \in Patreon  BY <1>1, <1>2, <1>3 DEF OnPatreon
<1>6. /\ connection' \in Links /\ connection'.linked
      /\ connection'.active = IsActivePatron(req[o].membership)
  BY <1>1, <1>5, LinkedType
<1>7. TypeOK'  BY <1>1, <1>4, <1>6 DEF IInv, TypeOK, Links, document, Moves
<1>8. OnPatreon(o)'  BY <1>4, <1>5, <1>6 DEF OnPatreon, Moving
<1>9. IsActivePatron(req[o].membership)' = IsActivePatron(req[o].membership)  BY <1>4 DEF IsActivePatron
<1>10. Halfway(o)'  BY <1>4, <1>6, <1>9 DEF Halfway
<1>11. patronage' = patronage /\ kept' = kept  BY <1>1
<1>12. Undisturbed => \A e, f \in patronage' : e = f  BY <1>3, <1>11
<1> QED  BY <1>2, <1>4, <1>6, <1>7, <1>8, <1>10, <1>11, <1>12, MovingStep DEF Moving

LEMMA FindEntitlementHolds ==
    ASSUME IInv, NEW o \in Request, FindEntitlement(o)
    PROVE  IInv'
<1>1. /\ at[o] = "find" /\ Goes(o, "entitle") /\ UNCHANGED <<document, reader, kept, given>>
      /\ \E f \in IF patronage = {} THEN {None} ELSE {e.by : e \in patronage} : req' = [req EXCEPT ![o].found = f]
  BY DEF FindEntitlement
<1>2. at[o] \in Moving  BY <1>1 DEF Moving
<1>3. /\ o \in InFlight /\ OnPatreon(o) /\ (Undisturbed => \A e, f \in patronage : e = f) /\ req[o].op \in Patreon
      /\ Undisturbed => Halfway(o)
  BY <1>2, MovingRequest
<1>4. PICK f \in IF patronage = {} THEN {None} ELSE {e.by : e \in patronage} : req' = [req EXCEPT ![o].found = f]
  BY <1>1
<1>5. /\ f \in Request \cup {Earlier, None} /\ (f = None => patronage = {})
      /\ (\A e, g \in patronage : e = g) => \A e \in patronage : e.by = f
  <2>1. \A e \in patronage : e.by \in Request \cup {Earlier}  BY TypeParts DEF IInv
  <2>2. CASE patronage = {}  BY <1>4, <2>2
  <2>3. CASE patronage # {}
    <3>1. PICK g \in patronage : f = g.by  BY <1>4, <2>3
    <3>2. f # None  BY <2>1, <3>1, BoundAssumption
    <3> QED  BY <2>1, <3>1, <3>2
  <2> QED  BY <2>2, <2>3
<1>6. req[o] \in CallType /\ req \in [Request -> CallType]  BY DEF IInv
<1>7. PICK q : q = [req[o] EXCEPT !.found = f]  OBVIOUS
<1>8. q \in CallType /\ q.op = req[o].op /\ q.membership = req[o].membership /\ q.found = f
  BY <1>5, <1>6, <1>7 DEF CallType
<1>9. req' \in [Request -> CallType] /\ req'[o] = q /\ \A p \in Request : p # o => req'[p] = req[p]
  BY <1>4, <1>6, <1>7, <1>8
<1>10. Moves(o) /\ at'[o] = "entitle" /\ met' = met  BY <1>1, <1>3, <1>8, <1>9, GoesMoves DEF Step
<1>11. connection' = connection /\ patronage' = patronage /\ kept' = kept /\ given' = given  BY <1>1 DEF reader
<1>12. given' \in [Request -> SUBSET {"body", "file"}]  BY <1>11, TypeParts DEF IInv
<1>13. TypeOK'  BY <1>1, <1>10, <1>12, TypesSame DEF IInv, Moves
<1>14. OnPatreon(o)'  BY <1>1, <1>3, <1>8, <1>9, <1>10, <1>11 DEF OnPatreon
<1>15. IsActivePatron(req[o].membership)' = IsActivePatron(req[o].membership)  BY <1>8, <1>9 DEF IsActivePatron
<1>16. Undisturbed => Halfway(o)'
  <2> SUFFICES ASSUME Undisturbed  PROVE Halfway(o)'
    OBVIOUS
  <2>1. connection.active = IsActivePatron(req[o].membership)  BY <1>1, <1>3 DEF Halfway
  <2> QED  BY <1>3, <1>5, <1>8, <1>9, <1>10, <1>11, <1>15, <2>1 DEF Halfway
<1>17. Undisturbed => \A e, g \in patronage' : e = g  BY <1>3, <1>11
<1> QED  BY <1>2, <1>8, <1>9, <1>10, <1>11, <1>13, <1>14, <1>16, <1>17, MovingStep DEF Moving

\* An entitlement that is given another status is an entitlement still.
LEMMA StatusType ==
    ASSUME NEW e \in Entitlement, NEW s \in {"ACTIVE", "PENDING", "REVOKED"}
    PROVE  /\ [e EXCEPT !.status = s] \in Entitlement
           /\ [e EXCEPT !.status = s].by = e.by /\ [e EXCEPT !.status = s].status = s
BY DEF Entitlement

LEMMA SyncEntitlementHolds ==
    ASSUME IInv, NEW o \in Request, SyncEntitlement(o)
    PROVE  IInv'
<1>a. PICK s : s = IF IsActivePatron(req[o].membership) THEN "ACTIVE" ELSE "PENDING"  OBVIOUS
<1>b. PICK t : t = IF IsActivePatron(req[o].membership) THEN "ACTIVE" ELSE "REVOKED"  OBVIOUS
<1>c. PICK n : n = [by |-> o, ended |-> FALSE, status |-> s]  OBVIOUS
<1>1. /\ at[o] = "entitle" /\ Goes(o, "done") /\ UNCHANGED <<document, team, plan, connection, kept, given, req>>
      /\ patronage' = IF req[o].found = None THEN patronage \cup {n}
                      ELSE {IF e.by = req[o].found THEN [e EXCEPT !.status = t] ELSE e : e \in patronage}
  BY <1>a, <1>b, <1>c DEF SyncEntitlement
<1>2. at[o] \in Moving  BY <1>1 DEF Moving
<1>3. /\ o \in InFlight /\ OnPatreon(o) /\ req[o].op \in Patreon
      /\ Undisturbed => (\A e, f \in patronage : e = f) /\ Halfway(o)
  BY <1>2, MovingRequest
<1>4. connection.linked  BY <1>1, <1>3 DEF OnPatreon
<1>5. Moves(o) /\ at'[o] = "done" /\ met' = met /\ req' = req  BY <1>1, <1>3, GoesOn DEF Step
<1>6. patronage \subseteq Entitlement  BY TypeParts DEF IInv
<1>7. n \in Entitlement /\ n.status = s /\ t \in {"ACTIVE", "PENDING", "REVOKED"}
  BY <1>a, <1>b, <1>c DEF Entitlement
<1>8. patronage' \subseteq Entitlement
  <2>1. \A e \in patronage : [e EXCEPT !.status = t] \in Entitlement  BY <1>6, <1>7, StatusType
  <2> QED  BY <1>1, <1>6, <1>7, <2>1
<1>9. TypeOK'  BY <1>1, <1>4, <1>5, <1>8 DEF IInv, TypeOK, Entitlement, document, Moves
<1>10. OnPatreon(o)'  BY <1>5 DEF OnPatreon, Moving
<1>11. Halfway(o)'  BY <1>5 DEF Halfway
<1>12. Undisturbed => (\A e, f \in patronage' : e = f) /\ Mirrored'
  <2> SUFFICES ASSUME Undisturbed  PROVE (\A e, f \in patronage' : e = f) /\ Mirrored'
    OBVIOUS
  <2>1. /\ connection.active = IsActivePatron(req[o].membership) /\ \A e, f \in patronage : e = f
        /\ req[o].found = None => patronage = {}
        /\ req[o].found # None => \A e \in patronage : e.by = req[o].found
    BY <1>1, <1>3 DEF Halfway
  <2>2. CASE req[o].found = None
    <3>1. patronage' = {n}  BY <1>1, <2>1, <2>2
    <3>2. connection.active \/ n.status # "ACTIVE"  BY <1>a, <1>7, <2>1
    <3> QED  BY <1>1, <3>1, <3>2 DEF Mirrored
  <2>3. CASE req[o].found # None
    <3>1. patronage' = {[e EXCEPT !.status = t] : e \in patronage}  BY <1>1, <2>1, <2>3
    <3>2. \A e, f \in patronage' : e = f  BY <2>1, <3>1
    <3>3. ASSUME NEW e \in patronage'  PROVE e.status = t
      <4>1. PICK f \in patronage : e = [f EXCEPT !.status = t]  BY <3>1
      <4> QED  BY <1>6, <1>7, <4>1, StatusType
    <3>4. connection.active \/ t # "ACTIVE"  BY <1>b, <2>1
    <3> QED  BY <1>1, <3>2, <3>3, <3>4 DEF Mirrored
  <2> QED  BY <2>2, <2>3
<1> QED  BY <1>1, <1>2, <1>5, <1>9, <1>10, <1>11, <1>12, MovingStep DEF Moving

LEMMA UnlinkHolds ==
    ASSUME IInv, NEW o \in Request, Unlink(o)
    PROVE  IInv'
<1>1. /\ at[o] = "unlink" /\ connection' = [connection EXCEPT !.active = FALSE] /\ Goes(o, "revoke")
      /\ UNCHANGED <<document, team, plan, patronage, kept, given, req>>
  BY DEF Unlink
<1>2. at[o] \in Moving  BY <1>1 DEF Moving
<1>3. o \in InFlight /\ OnPatreon(o) /\ req[o].op \in Patreon /\ (Undisturbed => \A e, f \in patronage : e = f)
  BY <1>2, MovingRequest
<1>4. Moves(o) /\ at'[o] = "revoke" /\ met' = met /\ req' = req  BY <1>1, <1>3, GoesOn DEF Step
<1>5. /\ connection' \in {NoConnection} \cup Links /\ ~connection'.active
      /\ connection.linked = connection'.linked
  <2>1. CASE connection = NoConnection
    <3>1. connection' = NoConnection  BY <1>1, <2>1 DEF NoConnection
    <3> QED  BY <2>1, <3>1 DEF NoConnection
  <2>2. CASE connection \in Links  BY <1>1, <2>2 DEF Links
  <2> QED  BY <2>1, <2>2, TypeParts DEF IInv
<1>6. TypeOK'  BY <1>1, <1>4, <1>5 DEF IInv, TypeOK, Links, document, Moves
<1>7. OnPatreon(o)' /\ Halfway(o)'  BY <1>3, <1>4, <1>5 DEF OnPatreon, Moving, Halfway
<1>8. patronage' = patronage /\ kept' = kept  BY <1>1
<1>9. Undisturbed => \A e, f \in patronage' : e = f  BY <1>3, <1>8
<1> QED  BY <1>2, <1>4, <1>5, <1>6, <1>7, <1>8, <1>9, MovingStep DEF Moving

LEMMA RevokeEntitlementsHolds ==
    ASSUME IInv, NEW o \in Request, RevokeEntitlements(o)
    PROVE  IInv'
<1>1. /\ at[o] = "revoke" /\ patronage' = {[e EXCEPT !.status = "REVOKED"] : e \in patronage} /\ Goes(o, "done")
      /\ UNCHANGED <<document, team, plan, connection, kept, given, req>>
  BY DEF RevokeEntitlements
<1>2. at[o] \in Moving  BY <1>1 DEF Moving
<1>3. o \in InFlight /\ (Undisturbed => \A e, f \in patronage : e = f)  BY <1>2, MovingRequest
<1>4. Moves(o) /\ at'[o] = "done" /\ met' = met /\ req' = req  BY <1>1, <1>3, GoesOn DEF Step
<1>5. patronage \subseteq Entitlement /\ (patronage # {} => connection.linked)  BY TypeParts DEF IInv
<1>6. \A e \in patronage : [e EXCEPT !.status = "REVOKED"] \in Entitlement /\ [e EXCEPT !.status = "REVOKED"].status = "REVOKED"
  BY <1>5, StatusType
<1>7. patronage' \subseteq Entitlement /\ \A e \in patronage' : e.status = "REVOKED"  BY <1>1, <1>6
<1>8. TypeOK'
  <2>1. patronage' # {} => connection'.linked  BY <1>1, <1>5
  <2> QED  BY <1>1, <1>4, <1>7, <2>1 DEF IInv, TypeOK, Entitlement, document, Moves
<1>9. OnPatreon(o)' /\ Halfway(o)'  BY <1>4 DEF OnPatreon, Moving, Halfway
<1>10. Mirrored'  BY <1>7 DEF Mirrored
<1>11. (\A e, f \in patronage : e = f) => (\A e, f \in patronage' : e = f)  BY <1>1
<1>12. kept' = kept /\ connection' = connection  BY <1>1
<1> QED  BY <1>2, <1>3, <1>4, <1>8, <1>9, <1>10, <1>11, <1>12, MovingStep DEF Moving

LEMMA ReplaceEntitlementsHolds ==
    ASSUME IInv, NEW o \in Request, ReplaceEntitlements(o)
    PROVE  IInv'
<1>1. PICK op \in Billing :
        /\ Arrives(o, [NoCall EXCEPT !.op = op], "done")
        /\ patronage' = {IF e.status = "ACTIVE" THEN [e EXCEPT !.status = "REVOKED", !.ended = TRUE] ELSE e :
                           e \in patronage}
        /\ plan' = (op = "assignPlanManually")
        /\ UNCHANGED <<document, team, connection, kept, given>>
  BY DEF ReplaceEntitlements
<1>2. PICK q : q = [NoCall EXCEPT !.op = op]  OBVIOUS
<1>3. q.op = op /\ Arrives(o, q, "done")  BY <1>1, <1>2 DEF NoCall
<1>4. q \in CallType  BY <1>2, <1>3, CallOf DEF Arrives
<1>5. patronage \subseteq Entitlement /\ (patronage # {} => connection.linked)  BY TypeParts DEF IInv
<1>6. ASSUME NEW e \in patronage'
      PROVE  e \in Entitlement /\ \E f \in patronage : e.by = f.by /\ (e.status = "ACTIVE" => f.status = "ACTIVE")
  <2>1. PICK f \in patronage : e = IF f.status = "ACTIVE" THEN [f EXCEPT !.status = "REVOKED", !.ended = TRUE] ELSE f
    BY <1>1
  <2>2. f \in Entitlement  BY <1>5
  <2> QED  BY <2>1, <2>2 DEF Entitlement
<1>7. (\A e, f \in patronage : e = f) => (\A e, f \in patronage' : e = f)  BY <1>1
<1>8. patronage' # {} => connection.linked  BY <1>5, <1>6
<1>9. at' \in [Request -> Step]  BY <1>3, <1>4, TypesArrive DEF Step
<1>10. plan' \in BOOLEAN  BY <1>1
<1>11. patronage' \subseteq Entitlement  BY <1>6
<1>12. TypeOK'  BY <1>1, <1>8, <1>9, <1>10, <1>11 DEF IInv, TypeOK, Entitlement, document
<1>13. connection' = connection /\ kept' = kept /\ q.op \in Changes  BY <1>1, <1>3 DEF Changes
<1> QED  BY <1>3, <1>4, <1>6, <1>7, <1>12, <1>13, ChangingArrival DEF Moving

----------------------------------------------------------------------------
(* Bookmark and progress. *)
LEMMA KeepingHolds ==
    ASSUME IInv, NEW o \in Request, ToggleBookmark(o) \/ TrackProgress(o)
    PROVE  IInv'
<1>1. PICK q \in CallType : Arrive(o, q, "findKept")
  <2>1. CASE ToggleBookmark(o)
    <3>1. PICK q : q = [NoCall EXCEPT !.op = "toggleBookmark", !.as = Ann]  OBVIOUS
    <3>2. q.op = "toggleBookmark"  BY <3>1 DEF NoCall
    <3>3. Arrive(o, q, "findKept")  BY <2>1, <3>1 DEF ToggleBookmark, Askers, Unguarded
    <3>4. q \in CallType  BY <3>1, <3>2, <3>3, NoCallTypes DEF CallType, Arrive, Arrives
    <3> QED  BY <3>3, <3>4
  <2>2. CASE TrackProgress(o)
    <3>1. PICK n \in 0..MaxProgress : Arrive(o, [NoCall EXCEPT !.op = "trackProgress", !.as = Ann, !.value = n], "findKept")
      BY <2>2 DEF TrackProgress, Askers, Unguarded
    <3>2. PICK q : q = [NoCall EXCEPT !.op = "trackProgress", !.as = Ann, !.value = n]  OBVIOUS
    <3>3. q.op = "trackProgress" /\ Arrive(o, q, "findKept")  BY <3>1, <3>2 DEF NoCall
    <3>4. q \in CallType  BY <3>2, <3>3, NoCallTypes DEF CallType, Arrive, Arrives
    <3> QED  BY <3>3, <3>4
  <2> QED  BY <2>1, <2>2
<1>2. Arrives(o, q, "findKept") /\ UNCHANGED <<document, reader, kept>> /\ given' = given  BY <1>1 DEF Arrive
<1>3. given' \in [Request -> SUBSET {"body", "file"}]  BY <1>2, TypeParts DEF IInv
<1> QED  BY <1>2, <1>3, QuietArrival

\* A request that neither changes who may read nor, but for a report, the progress.
LEMMA KeptStep ==
    ASSUME IInv, NEW o \in InFlight, at[o] \notin Moving, NEW step \in {"keep", "done", "failed"}, Moves(o),
           at'[o] = step, met' = met, UNCHANGED <<document, reader, given>>,
           kept' \in [bookmark : BOOLEAN, row : BOOLEAN, progress : 0..MaxProgress],
           kept'.progress <= kept.progress \/ req'[o].op = "trackProgress", OnKeep(o)',
           step = "failed" => o \notin Patrons'
    PROVE  IInv'
<1>1. connection' = connection /\ patronage' = patronage  BY DEF reader
<1>2. TypeOK'  BY DEF IInv, TypeOK, document, reader, Moves
<1>3. OnRead(o)' /\ OnPatreon(o)'  BY DEF OnRead, OnPatreon, Moving
<1>4. o \in Request  BY DEF InFlight
<1>5. Settled'  BY <1>1, <1>4, SettledAside
<1> QED  BY <1>1, <1>2, <1>3, <1>4, <1>5, StepHolds

LEMMA FindKeptHolds ==
    ASSUME IInv, NEW o \in Request, FindKept(o)
    PROVE  IInv'
<1>1. /\ at[o] = "findKept" /\ Goes(o, "keep") /\ UNCHANGED <<document, reader, given>> /\ kept' = kept
      /\ LET isMark == req[o].op = "toggleBookmark"
             exists == IF isMark THEN kept.bookmark ELSE kept.row
             value  == IF ~isMark /\ req[o].value < kept.progress THEN kept.progress ELSE req[o].value
         IN  req' = [req EXCEPT ![o].found = IF exists THEN Earlier ELSE None, ![o].value = value]
  BY DEF FindKept
<1>2. o \in InFlight  BY <1>1 DEF InFlight
<1>3. PICK f \in {Earlier, None} :
         \E v : /\ v = IF ~(req[o].op = "toggleBookmark") /\ req[o].value < kept.progress THEN kept.progress ELSE req[o].value
                /\ req' = [req EXCEPT ![o].found = f, ![o].value = v]
  BY <1>1
<1>4. PICK v : /\ v = IF ~(req[o].op = "toggleBookmark") /\ req[o].value < kept.progress THEN kept.progress ELSE req[o].value
               /\ req' = [req EXCEPT ![o].found = f, ![o].value = v]
  BY <1>3
<1>5. /\ req \in [Request -> CallType] /\ req[o].value \in 0..MaxProgress /\ kept.progress \in 0..MaxProgress
      /\ kept \in [bookmark : BOOLEAN, row : BOOLEAN, progress : 0..MaxProgress]
  BY TypeParts, CallParts DEF IInv
<1>6. v \in 0..MaxProgress /\ (req[o].op = "trackProgress" => kept.progress <= v)
  BY <1>4, <1>5, BoundAssumption
<1>7. PICK q : q = [req[o] EXCEPT !.found = f, !.value = v]  OBVIOUS
<1>8. q \in CallType /\ q.op = req[o].op /\ q.value = v
  <2>1. req[o] \in CallType  BY <1>5
  <2> QED  BY <1>6, <1>7, <2>1 DEF CallType
<1>9. req' \in [Request -> CallType] /\ req'[o] = q /\ \A p \in Request : p # o => req'[p] = req[p]
  <2>1. req' = [req EXCEPT ![o] = q]  BY <1>4, <1>5, <1>7
  <2> QED  BY <1>5, <1>8, <2>1
<1>10. Moves(o) /\ at'[o] = "keep" /\ met' = met  BY <1>1, <1>2, <1>8, <1>9, GoesMoves DEF Step
<1>11. OnKeep(o)'  BY <1>1, <1>6, <1>8, <1>9 DEF OnKeep
<1>12. kept'.progress <= kept.progress  BY <1>1, <1>5, BoundAssumption
<1> QED  BY <1>1, <1>2, <1>5, <1>10, <1>11, <1>12, KeptStep DEF Moving

LEMMA WriteHolds ==
    ASSUME IInv, NEW o \in Request, WriteBookmark(o) \/ WriteProgress(o)
    PROVE  IInv'
<1>1. /\ at[o] = "keep" /\ o \in InFlight /\ req' = req /\ UNCHANGED <<document, reader, given>>
      /\ req[o].op \in {"toggleBookmark", "trackProgress"}
  BY DEF WriteBookmark, WriteProgress, InFlight
<1>2. PICK step \in {"done", "failed"} : Goes(o, step)  BY DEF WriteBookmark, WriteProgress
<1>3. Moves(o) /\ at'[o] = step /\ met' = met  BY <1>1, <1>2, GoesOn DEF Step
<1>4. /\ kept \in [bookmark : BOOLEAN, row : BOOLEAN, progress : 0..MaxProgress]
      /\ kept.progress \in 0..MaxProgress /\ kept.bookmark \in BOOLEAN /\ req[o].value \in 0..MaxProgress
  BY TypeParts, CallParts DEF IInv
<1>5. /\ kept' \in [bookmark : BOOLEAN, row : BOOLEAN, progress : 0..MaxProgress]
      /\ kept'.progress <= kept.progress \/ req[o].op = "trackProgress"
  <2>1. CASE kept' = kept  BY <1>4, <2>1, BoundAssumption
  <2>2. CASE WriteBookmark(o) /\ kept' = [kept EXCEPT !.bookmark = ~@]
    <3>1. PICK b \in BOOLEAN : kept' = [kept EXCEPT !.bookmark = b]  BY <2>2
    <3>2. kept' \in [bookmark : BOOLEAN, row : BOOLEAN, progress : 0..MaxProgress] /\ kept'.progress = kept.progress
      BY <1>4, <3>1
    <3> QED  BY <1>4, <3>2, BoundAssumption
  <2>3. CASE WriteProgress(o) /\ kept' = [kept EXCEPT !.row = TRUE, !.progress = req[o].value]
    BY <1>4, <2>3 DEF WriteProgress
  <2> QED  BY <2>1, <2>2, <2>3 DEF WriteBookmark, WriteProgress
<1>6. OnKeep(o)'  BY <1>3 DEF OnKeep
<1>7. o \notin Patrons'  BY <1>1 DEF Patrons, Patreon
<1> QED  BY <1>1, <1>3, <1>5, <1>6, <1>7, KeptStep DEF Moving

LEMMA FailHolds ==
    ASSUME IInv, NEW o \in Request, Fail(o)
    PROVE  IInv'
<1>1. /\ o \in InFlight /\ Goes(o, "failed") /\ UNCHANGED <<document, reader, kept>> /\ given' = given /\ req' = req
  BY DEF Fail
<1>2. Moves(o) /\ at'[o] = "failed" /\ met' = met  BY <1>1, GoesOn DEF Step
<1>3. connection' = connection /\ patronage' = patronage /\ kept' = kept  BY <1>1 DEF reader
<1>4. given' \in [Request -> SUBSET {"body", "file"}]  BY <1>1, TypeParts DEF IInv
<1>5. TypeOK'  BY <1>1, <1>2, <1>4, TypesSame DEF IInv, Moves
<1>6. OnRead(o)' /\ OnKeep(o)' /\ OnPatreon(o)'  BY <1>2 DEF OnRead, OnKeep, OnPatreon, Moving
<1>7. Settled'
  <2>1. CASE o \in Patrons
    <3>1. o \in Patrons'  BY <1>1, <2>1 DEF Patrons
    <3>2. ~Undisturbed'  BY <1>2, <3>1 DEF Undisturbed
    <3> QED  BY <3>2 DEF Settled
  <2>2. CASE o \notin Patrons
    <3>1. at[o] \notin Moving  BY <2>2, MovingRequest
    <3> QED  BY <1>2, <1>3, <2>2, <3>1, SettledAside
  <2> QED  BY <2>1, <2>2
<1>8. kept'.progress <= kept.progress  BY <1>3, TypeParts, BoundAssumption DEF IInv
<1> QED  BY <1>1, <1>2, <1>3, <1>5, <1>6, <1>7, <1>8, StepHolds

----------------------------------------------------------------------------
(* The invariant. *)
LEMMA InitHolds ==
    ASSUME Init
    PROVE  IInv
<1>1. /\ req = [o \in Request |-> NoCall] /\ at = [o \in Request |-> "new"] /\ met = [o \in Request |-> {}]
      /\ given = [o \in Request |-> {}] /\ kept = [bookmark |-> FALSE, row |-> FALSE, progress |-> 0]
  BY DEF Init
<1>2. /\ \A o \in Request : at[o] = "new" /\ req[o] = NoCall /\ met[o] = {}
      /\ InFlight = {}
  BY <1>1 DEF InFlight
<1>3. /\ req \in [Request -> CallType] /\ met \in [Request -> SUBSET Request] /\ at \in [Request -> Step]
      /\ given \in [Request -> SUBSET {"body", "file"}]
  BY <1>1, NoCallTypes DEF Step
<1>4. item \in Document  BY RulesAssumption DEF Init
<1>5. rules \in BoundedSeq(Rules, MaxRules)
  <2>1. CASE rules = <<>>  BY <2>1, RulesType, RulesAssumption
  <2>2. CASE rules \in {<<r>> : r \in Rules}
    <3>1. PICK r \in Rules : rules = <<r>>  BY <2>2
    <3>2. <<r>> \in Seq(Rules) /\ Len(<<r>>) = 1  OBVIOUS
    <3>3. 1 <= MaxRules  BY RulesAssumption
    <3> QED  BY <3>1, <3>2, <3>3, RulesType
  <2> QED  BY <2>1, <2>2 DEF Init
<1>6. connection \in {NoConnection} \cup Links /\ (connection = NoConnection \/ connection.linked)
  <2>1. CASE connection = NoConnection  BY <2>1
  <2>2. CASE connection \in {Linked(m) : m \in Memberships}  BY <2>2, LinkedType
  <2> QED  BY <2>1, <2>2 DEF Init
<1>7. /\ patronage \subseteq Entitlement /\ (patronage # {} => connection.linked)
      /\ \A e, f \in patronage : e = f
      /\ Mirrored
  <2>1. CASE ~connection.linked  BY <2>1 DEF Init, Mirrored
  <2>2. CASE connection.linked
    <3>1. PICK s : s = IF connection.active THEN "ACTIVE" ELSE "PENDING"  OBVIOUS
    <3>2. PICK e : e = [by |-> Earlier, ended |-> FALSE, status |-> s]  OBVIOUS
    <3>3. patronage = {e}  BY <2>2, <3>1, <3>2 DEF Init
    <3>4. e \in Entitlement /\ e.status = s  BY <3>1, <3>2 DEF Entitlement
    <3> QED  BY <2>2, <3>1, <3>3, <3>4 DEF Mirrored
  <2> QED  BY <2>1, <2>2
<1>8. team \in {None, "subscribed", "unsubscribed"} /\ plan \in BOOLEAN  BY DEF Init
<1>9. kept \in [bookmark : BOOLEAN, row : BOOLEAN, progress : 0..MaxProgress]  BY <1>1, BoundAssumption
<1>10. TypeOK  BY <1>3, <1>4, <1>5, <1>6, <1>7, <1>8, <1>9 DEF TypeOK, Entitlement, Links
<1>11. Together  BY <1>2 DEF Together
<1>12. \A o \in Request : OnRead(o) /\ OnKeep(o) /\ OnPatreon(o)
  BY <1>2, NoCallTypes DEF OnRead, OnKeep, OnPatreon, Moving
<1>13. Patrons = {}  BY <1>2, NoCallTypes DEF Patrons, Patreon, None
<1>14. Settled  BY <1>7, <1>13 DEF Settled
<1> QED  BY <1>3, <1>10, <1>11, <1>12, <1>14 DEF IInv

LEMMA NextHolds ==
    ASSUME IInv, [Next]_vars
    PROVE  IInv'
<1>1. ASSUME NEW o \in Request,
             \/ Lookup(o) \/ CheckEntitlements(o) \/ CheckConnection(o) \/ CheckRules(o)
             \/ ReadContent(o) \/ CheckDownloadAccess(o) \/ List(o)
      PROVE  IInv'
  BY <1>1, LookupHolds, CheckEntitlementsHolds, CheckConnectionHolds, CheckRulesHolds, AnswerHolds, ListHolds
<1>2. ASSUME NEW o \in Request, UpdateContent(o) \/ CreateRule(o) \/ UpdateRule(o) \/ RemoveRule(o)
      PROVE  IInv'
  BY <1>2, UpdateContentHolds, RuleEditsHold
<1>3. ASSUME NEW o \in Request,
             \/ HandleCallback(o) \/ RefreshMyStatus(o) \/ UpsertConnection(o)
             \/ FindEntitlement(o) \/ SyncEntitlement(o)
             \/ Disconnect(o) \/ Unlink(o) \/ RevokeEntitlements(o) \/ ReplaceEntitlements(o)
      PROVE  IInv'
  BY <1>3, ArrivalsHold, UpsertConnectionHolds, FindEntitlementHolds, SyncEntitlementHolds, DisconnectHolds, UnlinkHolds,
     RevokeEntitlementsHolds, ReplaceEntitlementsHolds
<1>4. ASSUME NEW o \in Request,
             ToggleBookmark(o) \/ TrackProgress(o) \/ FindKept(o) \/ WriteBookmark(o) \/ WriteProgress(o) \/ Fail(o)
      PROVE  IInv'
  BY <1>4, KeepingHolds, FindKeptHolds, WriteHolds, FailHolds
<1>5. CASE UNCHANGED vars
  <2>1. /\ UNCHANGED <<document, reader, kept, given, req, at, met>>
        /\ item' = item /\ rules' = rules /\ team' = team /\ plan' = plan
        /\ connection' = connection /\ patronage' = patronage
    BY <1>5 DEF vars, document, reader
  <2>2. TypeOK'  BY <2>1, TypesSame, TypeParts DEF IInv
  <2>3. Together'  BY <2>1 DEF IInv, Together, InFlight
  <2>4. ASSUME NEW o \in Request  PROVE OnRead(o)' /\ OnKeep(o)' /\ OnPatreon(o)'
    <3>1. OnRead(o) /\ OnKeep(o) /\ OnPatreon(o)  BY DEF IInv
    <3>2. MayRead(req[o].as)' = MayRead(req[o].as)  BY <2>1, MayReadStays
    <3>3. Subscribes' <=> Subscribes  BY <2>1 DEF Subscribes
    <3>4. StillSo(o) => StillSo(o)'  BY <2>1, <3>2, <3>3 DEF StillSo
    <3>5. Meanwhile(o) => Meanwhile(o)'  BY <2>1 DEF Meanwhile
    <3>6. OnRead(o)'  BY <2>1, <3>1, <3>4, <3>5 DEF OnRead
    <3> QED  BY <2>1, <3>1, <3>6 DEF OnKeep, OnPatreon
  <2>5. Settled'  BY <2>1 DEF IInv, Settled, Undisturbed, Patrons, Halfway, Mirrored, IsActivePatron
  <2> QED  BY <2>1, <2>2, <2>3, <2>4, <2>5 DEF IInv
<1> QED  BY <1>1, <1>2, <1>3, <1>4, <1>5 DEF Next, Terminating

\* What is found is still so, but for changes that overlap; connection and entitlement agree
\* when the requests about the membership come one at a time.
THEOREM Invariance == Spec => []IInv
<1>1. Init => IInv  BY InitHolds
<1>2. IInv /\ [Next]_vars => IInv'  BY NextHolds
<1> QED  BY <1>1, <1>2, PTL DEF Spec

\* Every variable keeps its type, and who has a Patreon entitlement has a connection.
THEOREM TypesHold == Spec => []TypeOK
<1>1. IInv => TypeOK  BY DEF IInv
<1> QED  BY <1>1, Invariance, PTL

----------------------------------------------------------------------------
(* The properties. *)

\* A set of numbers that is not empty has a least one.
LEMMA Least ==
    ASSUME NEW S \in SUBSET Nat, S # {}
    PROVE  \E i \in S : \A j \in S : i <= j
<1>1. PICK i \in S : \A j \in S : <<j, i>> \notin OpToRel(<, Nat)  BY NatLessThanWellFounded, WFMin
<1>2. \A j \in S : ~(j < i)  BY <1>1 DEF OpToRel
<1> QED  BY <1>2

\* A guest who is not refused has no rule that refuses anybody before him.
THEOREM LoggingInHolds == Spec => []LoggingInLosesNothing
<1>1. IInv => LoggingInLosesNothing
  <2> SUFFICES ASSUME IInv, NEW as, as # Guest, EvaluateRules(Guest)  PROVE EvaluateRules(as)
    BY DEF LoggingInLosesNothing
  <2>1. DenyRules = {}  BY DEF EvaluateRules
  <2>2. CASE Matching = {}  BY <2>1, <2>2 DEF EvaluateRules
  <2>3. CASE Matching # {}
    <3>1. Matching \subseteq DOMAIN rules /\ DOMAIN rules \subseteq Nat  BY RulesAreRules DEF Matching
    <3>2. PICK i \in Matching : \A j \in Matching : i <= j  BY <2>3, <3>1, Least
    <3>3. rules[i].allow  BY <2>1, <3>1, <3>2 DEF DenyRules
    <3> QED  BY <2>3, <3>2, <3>3 DEF EvaluateRules, FirstAdmits
  <2> QED  BY <2>2, <2>3
<1> QED  BY <1>1, Invariance, PTL

\* Connection and entitlement agree unless requests about the membership overlapped or broke off.
THEOREM PatronsHold == Spec => []OnlyOverlapKeepsPatrons
<1>1. IInv => OnlyOverlapKeepsPatrons
  <2> SUFFICES ASSUME IInv, \A o \in Patrons : at[o] = "done" /\ met[o] \cap Patrons = {}
               PROVE  Cardinality(patronage) <= 1 /\ (connection.active \/ \A e \in patronage : e.status # "ACTIVE")
    BY DEF OnlyOverlapKeepsPatrons
  <2>1. Undisturbed /\ \A o \in Patrons : at[o] \notin Moving  BY DEF Undisturbed, Moving
  <2>2. Mirrored /\ \A e, f \in patronage : e = f  BY <2>1 DEF IInv, Settled
  <2>3. CASE patronage = {}  BY <2>2, <2>3, FS_EmptySet DEF Mirrored
  <2>4. CASE patronage # {}
    <3>1. PICK e : patronage = {e}  BY <2>2, <2>4
    <3>2. Cardinality(patronage) = 1  BY <3>1, FS_Singleton
    <3> QED  BY <2>2, <3>2 DEF Mirrored
  <2> QED  BY <2>3, <2>4
<1> QED  BY <1>1, Invariance, PTL

\* Only answers change what has been given.
LEMMA GivenChanges ==
    ASSUME [Next]_vars
    PROVE  given' = given \/ \E o \in Request : ReadContent(o) \/ CheckDownloadAccess(o) \/ List(o)
<1>1. ASSUME NEW o \in Request, Lookup(o) \/ CheckEntitlements(o) \/ CheckConnection(o) \/ CheckRules(o)
      PROVE  given' = given
  BY <1>1 DEF Lookup, Arrive, CheckEntitlements, CheckConnection, CheckRules, GoesToRules, Decide
<1>2. ASSUME NEW o \in Request, UpdateContent(o) \/ CreateRule(o) \/ UpdateRule(o) \/ RemoveRule(o)
      PROVE  given' = given
  BY <1>2 DEF UpdateContent, CreateRule, UpdateRule, RemoveRule, EditRules
<1>3. ASSUME NEW o \in Request,
             \/ HandleCallback(o) \/ RefreshMyStatus(o) \/ UpsertConnection(o)
             \/ FindEntitlement(o) \/ SyncEntitlement(o)
             \/ Disconnect(o) \/ Unlink(o) \/ RevokeEntitlements(o) \/ ReplaceEntitlements(o)
      PROVE  given' = given
  BY <1>3 DEF HandleCallback, RefreshMyStatus, UpsertConnection, FindEntitlement, SyncEntitlement, Disconnect, Unlink,
              RevokeEntitlements, ReplaceEntitlements, Arrive
<1>4. ASSUME NEW o \in Request,
             ToggleBookmark(o) \/ TrackProgress(o) \/ FindKept(o) \/ WriteBookmark(o) \/ WriteProgress(o) \/ Fail(o)
      PROVE  given' = given
  BY <1>4 DEF ToggleBookmark, TrackProgress, FindKept, WriteBookmark, WriteProgress, Fail, Arrive
<1>5. CASE UNCHANGED vars  BY <1>5 DEF vars
<1> QED  BY <1>1, <1>2, <1>3, <1>4, <1>5 DEF Next, Terminating

\* A body goes to whom the steps before found allowed, which is so still but for changes
\* that came meanwhile.
THEOREM RevealingHolds == Spec => OnlyOverlapReveals
<1>1. ASSUME IInv, [Next]_vars, NEW o \in Request, "body" \in given'[o] \ given[o]
      PROVE  MayRead(req[o].as) \/ \E x \in met[o] : req[x].op \in Changes
  <2>1. given \in [Request -> SUBSET {"body", "file"}]  BY <1>1, TypeParts DEF IInv
  <2>2. PICK p \in Request : ReadContent(p) \/ CheckDownloadAccess(p) \/ List(p)  BY <1>1, GivenChanges
  <2>3. ReadContent(p) /\ p = o /\ req[o].allowed
    <3>1. CASE ReadContent(p)  BY <1>1, <2>1, <3>1 DEF ReadContent
    <3>2. CASE CheckDownloadAccess(p)
      <4>1. PICK G \in SUBSET {"file"} : given' = [given EXCEPT ![p] = @ \cup G]  BY <3>2 DEF CheckDownloadAccess
      <4> QED  BY <1>1, <2>1, <4>1
    <3>3. CASE List(p)
      <4>1. PICK G \in SUBSET {"file"} : given' = [given EXCEPT ![p] = G]  BY <3>3 DEF List
      <4> QED  BY <1>1, <2>1, <4>1
    <3> QED  BY <2>2, <3>1, <3>2, <3>3
  <2>4. at[o] = "read" /\ OnRead(o)  BY <1>1, <2>3 DEF ReadContent, IInv
  <2> QED  BY <2>3, <2>4 DEF OnRead, Meanwhile, StillSo
<1>2. IInv /\ [Next]_vars =>
        [\A o \in Request :
          "body" \in given'[o] \ given[o] =>
             MayRead(req[o].as) \/ \E x \in met[o] : req[x].op \in Changes]_vars
  BY <1>1
<1> QED  BY <1>2, Invariance, PTL DEF Spec, OnlyOverlapReveals

\* Only the two writes change what is kept of a reader.
LEMMA KeptChanges ==
    ASSUME [Next]_vars
    PROVE  kept' = kept \/ \E o \in Request : WriteBookmark(o) \/ WriteProgress(o)
<1>1. ASSUME NEW o \in Request,
             \/ Lookup(o) \/ CheckEntitlements(o) \/ CheckConnection(o) \/ CheckRules(o)
             \/ ReadContent(o) \/ CheckDownloadAccess(o) \/ List(o)
      PROVE  kept' = kept
  BY <1>1 DEF Lookup, Arrive, CheckEntitlements, CheckConnection, CheckRules, GoesToRules, Decide, ReadContent,
              CheckDownloadAccess, List
<1>2. ASSUME NEW o \in Request, UpdateContent(o) \/ CreateRule(o) \/ UpdateRule(o) \/ RemoveRule(o)
      PROVE  kept' = kept
  BY <1>2 DEF UpdateContent, CreateRule, UpdateRule, RemoveRule, EditRules
<1>3. ASSUME NEW o \in Request,
             \/ HandleCallback(o) \/ RefreshMyStatus(o) \/ UpsertConnection(o)
             \/ FindEntitlement(o) \/ SyncEntitlement(o)
             \/ Disconnect(o) \/ Unlink(o) \/ RevokeEntitlements(o) \/ ReplaceEntitlements(o)
      PROVE  kept' = kept
  BY <1>3 DEF HandleCallback, RefreshMyStatus, UpsertConnection, FindEntitlement, SyncEntitlement, Disconnect, Unlink,
              RevokeEntitlements, ReplaceEntitlements, Arrive
<1>4. ASSUME NEW o \in Request, ToggleBookmark(o) \/ TrackProgress(o) \/ FindKept(o) \/ Fail(o)
      PROVE  kept' = kept
  BY <1>4 DEF ToggleBookmark, TrackProgress, FindKept, Fail, Arrive
<1>5. CASE UNCHANGED vars  BY <1>5 DEF vars
<1> QED  BY <1>1, <1>2, <1>3, <1>4, <1>5 DEF Next, Terminating

\* A report writes no less than the progress it has read, so that only another report that
\* came meanwhile is undone.
THEOREM ProgressHolds == Spec => OnlyOverlapLosesProgress
<1>1. ASSUME IInv, [Next]_vars, kept'.progress < kept.progress
      PROVE  \E o \in Request : /\ at[o] = "keep" /\ at'[o] = "done" /\ req[o].op = "trackProgress"
                                /\ \E x \in met[o] : req[x].op = "trackProgress"
  <2>1. /\ kept \in [bookmark : BOOLEAN, row : BOOLEAN, progress : 0..MaxProgress]
        /\ kept.progress \in Nat /\ at \in [Request -> Step]
    BY <1>1, TypeParts, BoundAssumption DEF IInv
  <2>2. kept' # kept
    <3>1. ~(kept.progress < kept.progress)  BY <2>1
    <3> QED  BY <1>1, <3>1
  <2>3. PICK o \in Request : WriteBookmark(o) \/ WriteProgress(o)  BY <1>1, <2>2, KeptChanges
  <2>4. CASE WriteBookmark(o)
    <3>1. kept'.progress = kept.progress  BY <2>1, <2>2, <2>4 DEF WriteBookmark
    <3> QED  BY <1>1, <2>1, <3>1
  <2>5. CASE WriteProgress(o)
    <3>1. /\ at[o] = "keep" /\ req[o].op = "trackProgress" /\ Goes(o, "done")
          /\ kept' = [kept EXCEPT !.row = TRUE, !.progress = req[o].value]
      BY <2>2, <2>5 DEF WriteProgress
    <3>2. kept'.progress = req[o].value /\ at'[o] = "done"  BY <2>1, <3>1 DEF Goes
    <3>3. req[o].value \in Nat /\ OnKeep(o)  BY CallParts, BoundAssumption, <1>1 DEF IInv
    <3>4. ~(kept.progress <= req[o].value)  BY <1>1, <2>1, <3>2, <3>3
    <3> QED  BY <3>1, <3>2, <3>3, <3>4 DEF OnKeep
  <2> QED  BY <2>3, <2>4, <2>5
<1>2. IInv /\ [Next]_vars =>
        [kept'.progress < kept.progress =>
          \E o \in Request : /\ at[o] = "keep" /\ at'[o] = "done" /\ req[o].op = "trackProgress"
                             /\ \E x \in met[o] : req[x].op = "trackProgress"]_vars
  BY <1>1
<1> QED  BY <1>2, Invariance, PTL DEF Spec, OnlyOverlapLosesProgress
=============================================================================
