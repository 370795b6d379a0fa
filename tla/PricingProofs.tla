----------------------------- MODULE PricingProofs -----------------------------
(* Proofs about Pricing for any number of plans and requests: no subscription
   outlives its plan, and which overlaps part a plan from its price at Stripe and
   what is recorded from what was asked for.

   Both rest on what a request in flight knows: its plan is as it has read it, or
   somebody who overlapped it has changed the plan.                          *)
EXTENDS Pricing, TLAPS

\* Which steps a kind of request passes through.
StepsOf(op) ==
    CASE op \in {"create", "update"}      -> {"product", "price", "write"}
      [] op = "updateStatus"              -> {"write"}
      [] op = "remove"                    -> {"archive", "softDelete", "hardDelete"}
      [] op = "createCheckoutSession"     -> {"activate", "pay", "verify"}
      [] OTHER                            -> {"activate"}

\* A request that has come names a plan, and is at a step of its kind.
Asked ==
    \A o \in Request :
        /\ at[o] = "new" => req[o] = NoCall
        /\ at[o] # "new" => req[o].op \in Operations /\ req[o].plan \in Plan
        /\ o \in InFlight => at[o] \in StepsOf(req[o].op)

\* Two requests in flight know of each other.
Mutual == \A o, x \in InFlight : o # x => x \in met[o]

\* The id a creation has chosen is its own until the row is there.
OwnId ==
    \A o \in InFlight : req[o].op = "create" =>
        /\ ~plans[req[o].plan].here
        /\ \A x \in Request \ {o} : req[x].plan # req[o].plan

\* A subscription is what a request that is done has asked for.
Bought ==
    \A s \in subs : s.by # First =>
        s.by \in Request /\ at[s.by] = "done" /\ req[s.by].plan = s.plan

\* Somebody who overlapped request o changed the amount of its plan.
Repriced(o) == \E x \in met[o] : x \in Updates(req[o].plan) /\ "amount" \in req[x].asks

\* A purchase in flight is at the price of its plan, and one that is free is activated.
AtItsPrice ==
    \A o \in InFlight : req[o].op = "createCheckoutSession" =>
        /\ req[o].amount = plans[req[o].plan].amount \/ Repriced(o)
        /\ at[o] = "activate" => req[o].amount = 0

\* The plan has been updated by two at once or while off Stripe.
Drift(p) == \E o \in Updates(p) : met[o] \cap Updates(p) # {} \/ ~req[o].stripe

Settled(k) == k \in Request => at[k] = "done"

\* A price that is stored or was read belongs to a request that is done; no price without a product.
StripeKeys ==
    /\ \A p \in Plan :
          /\ Settled(plans[p].price)
          /\ plans[p].product = None => plans[p].price = None
    /\ \A o \in Request :
          /\ req[o].price # o => Settled(req[o].price)
          /\ req[o].product = None => req[o].price = None
          /\ at[o] = "product" => req[o].product = None
          /\ at[o] = "price" => req[o].product # None

\* The price p is what amount n costs at Stripe.
Matches(k, n) == n = 0 \/ k = None \/ prices[k] = n

\* Without drift, a plan with a price is on Stripe and has its price there.
Priced ==
    \A p \in Plan : plans[p].here /\ ~Drift(p) =>
        /\ plans[p].price = None \/ plans[p].stripe
        /\ Matches(plans[p].price, plans[p].amount)

\* What a creation or an update without drift is about to write, it has seen or made at Stripe.
AboutToPrice ==
    \A o \in InFlight : req[o].op \in {"create", "update"} /\ ~Drift(req[o].plan) =>
        /\ "amount" \notin req[o].asks => req[o].amount = plans[req[o].plan].amount
        /\ "stripe" \notin req[o].asks => req[o].stripe = plans[req[o].plan].stripe
        /\ req[o].price = None \/ req[o].stripe
        /\ req[o].op = "create" => req[o].asks = Field
        /\ at[o] = "write" => Matches(req[o].price, req[o].amount)
        /\ at[o] = "price" => req[o].stripe
        /\ at[o] = "product" => req[o].stripe

IInv ==
    /\ TypeOK
    /\ Asked
    /\ Mutual
    /\ OwnId
    /\ Bought
    /\ AtItsPrice
    /\ OnlyRepricingMisrecords
    /\ StripeKeys
    /\ Priced
    /\ AboutToPrice

----------------------------------------------------------------------------
(* The kinds of steps. *)

\* What a request that comes has in common with the row it is about.
Sound(q, step) ==
    /\ q \in Call /\ q.op \in Operations /\ q.plan \in Plan
    /\ step \in StepsOf(q.op)
    /\ IF q.op = "create" THEN q.plan \in Fresh ELSE plans[q.plan].here
    /\ q.op = "createCheckoutSession" =>
          q.amount = plans[q.plan].amount /\ (step = "activate" => q.amount = 0)
    /\ q.op = "create" =>
          /\ q.asks = Field /\ q.product = None /\ q.price = None
          /\ step = "write" \/ (step = "product" /\ q.stripe)
    /\ q.op = "update" =>
          /\ "amount" \notin q.asks => q.amount = plans[q.plan].amount
          /\ "stripe" \notin q.asks => q.stripe = plans[q.plan].stripe
          /\ q.product = plans[q.plan].product /\ q.price = plans[q.plan].price
          /\ step = "product" => q.stripe /\ q.product = None
          /\ step = "price" => q.stripe /\ q.product # None
          /\ step = "write" => ~q.stripe \/ ~NeedsPrice(plans[q.plan], q)
    /\ q.op \notin {"create", "update"} => q.price = None

Arrival(o) == \E q \in Call, step \in Step : Arrive(o, q, step) /\ Sound(q, step)

\* A step that changes nothing but where the request is, and perhaps a product.
Advance(o) ==
    /\ o \in InFlight
    /\ \E step \in {"failed", "verify", "softDelete", "hardDelete"} :
          Goes(o, step) /\ (step = "failed" \/ step \in StepsOf(req[o].op))
    /\ products' \in [Key -> {None, "active", "archived"}]
    /\ UNCHANGED <<plans, prices, subs, req>>

LEMMA CreateArrives ==
    ASSUME TypeOK, NEW o \in Request, Create(o)
    PROVE  Arrival(o)
<1>1. PICK p \in Fresh, n \in Amount, onStripe \in BOOLEAN, named \in BOOLEAN, on \in BOOLEAN :
        Arrive(o, [NoCall EXCEPT !.op = "create", !.plan = p, !.asks = Field, !.amount = n,
                                 !.stripe = onStripe, !.active = on],
                  IF onStripe /\ named THEN "product" ELSE "write")
  BY DEF Create
<1> DEFINE q    == [NoCall EXCEPT !.op = "create", !.plan = p, !.asks = Field, !.amount = n,
                                  !.stripe = onStripe, !.active = on]
           step == IF onStripe /\ named THEN "product" ELSE "write"
<1>2. q.op \in Operations BY <1>1 DEF Arrive
<1>3. q \in Call BY <1>2 DEF Call, NoCall, Fresh, Amount
<1>4. Sound(q, step) BY <1>2, <1>3 DEF Sound, NoCall, StepsOf, Fresh
<1>5. step \in Step BY DEF Step
<1> QED BY <1>1, <1>3, <1>4, <1>5 DEF Arrival

LEMMA UpdateArrives ==
    ASSUME TypeOK, StripeKeys, NEW o \in Request, Update(o)
    PROVE  Arrival(o)
<1>1. PICK p \in Here, asks \in SUBSET Field, n \in Amount, onStripe \in BOOLEAN, on \in BOOLEAN :
        LET row == plans[p]
            q   == [NoCall EXCEPT !.op = "update", !.plan = p, !.asks = asks, !.amount = n, !.stripe = onStripe,
                                  !.active = on, !.product = row.product, !.price = row.price]
        IN  /\ "amount" \notin asks => n = row.amount
            /\ "stripe" \notin asks => onStripe = row.stripe
            /\ "active" \notin asks => on
            /\ Arrive(o, q, IF onStripe /\ row.product = None THEN "product"
                         ELSE IF onStripe /\ NeedsPrice(row, q) THEN "price"
                         ELSE "write")
  BY DEF Update
<1> DEFINE q    == [NoCall EXCEPT !.op = "update", !.plan = p, !.asks = asks, !.amount = n, !.stripe = onStripe,
                                  !.active = on, !.product = plans[p].product, !.price = plans[p].price]
           step == IF onStripe /\ plans[p].product = None THEN "product"
                   ELSE IF onStripe /\ NeedsPrice(plans[p], q) THEN "price"
                   ELSE "write"
<1>2. Arrive(o, q, step) /\ q.op \in Operations BY <1>1 DEF Arrive
<1>3. p \in Plan /\ plans[p] \in PlanRow /\ plans[p].here BY DEF Here, TypeOK
<1>4. q \in Call BY <1>2, <1>3 DEF Call, NoCall, Amount, PlanRow
<1>5. step \in Step /\ step \in {"product", "price", "write"} BY DEF Step
<1>6. /\ step = "product" => onStripe /\ plans[p].product = None
      /\ step = "price" => onStripe /\ plans[p].product # None
      /\ step = "write" => ~onStripe \/ ~NeedsPrice(plans[p], q)
  <2> HIDE DEF q
  <2> QED OBVIOUS
<1>7. /\ q.op = "update" /\ q.plan = p /\ q.asks = asks /\ q.amount = n /\ q.stripe = onStripe
      /\ q.product = plans[p].product /\ q.price = plans[p].price
  BY DEF NoCall
<1>8. Sound(q, step)
  <2> HIDE DEF q, step
  <2>1. step \in StepsOf(q.op) BY <1>5, <1>7 DEF StepsOf
  <2> QED BY <1>1, <1>2, <1>3, <1>4, <1>6, <1>7, <2>1 DEF Sound
<1> QED BY <1>2, <1>4, <1>5, <1>8 DEF Arrival

\* Every other endpoint asks for a plan that is there, and reads no price.
LEMMA OthersArrive ==
    ASSUME TypeOK, NEW o \in Request,
           \/ UpdateStatus(o) \/ Remove(o) \/ CreateCheckoutSession(o)
           \/ EnsureFreePlan(o) \/ AssignPlanManually(o)
    PROVE  Arrival(o)
<1>0. \A p \in Here : p \in Plan /\ plans[p] \in PlanRow /\ plans[p].here
  BY DEF Here, TypeOK
<1>z. 0 \in Amount /\ NoCall \in Call
  <2>1. 0 \in Amount BY AmountAssumption DEF Amount
  <2> QED BY <2>1 DEF NoCall, Call
<1>1. CASE UpdateStatus(o)
  <2>1. PICK p \in Here, on \in BOOLEAN :
          Arrive(o, [NoCall EXCEPT !.op = "updateStatus", !.plan = p, !.asks = {"active"}, !.active = on], "write")
    BY <1>1 DEF UpdateStatus
  <2> DEFINE q == [NoCall EXCEPT !.op = "updateStatus", !.plan = p, !.asks = {"active"}, !.active = on]
  <2>2. q.op \in Operations BY <2>1 DEF Arrive
  <2>3. q \in Call BY <1>0, <1>z, <2>2 DEF Call, NoCall, Field
  <2>4. Sound(q, "write") BY <1>0, <2>2, <2>3 DEF Sound, NoCall, StepsOf
  <2> QED BY <2>1, <2>3, <2>4 DEF Arrival, Step
<1>2. CASE Remove(o)
  <2>1. PICK p \in Here, step \in {"archive", "softDelete", "hardDelete"} :
          Arrive(o, [NoCall EXCEPT !.op = "remove", !.plan = p, !.product = plans[p].product,
                                   !.soft = SubsOf(p) # {}], step)
    BY <1>2 DEF Remove
  <2> DEFINE q == [NoCall EXCEPT !.op = "remove", !.plan = p, !.product = plans[p].product,
                                 !.soft = SubsOf(p) # {}]
  <2>2. q.op \in Operations BY <2>1 DEF Arrive
  <2>3. q \in Call BY <1>0, <1>z, <2>2 DEF Call, NoCall, PlanRow
  <2>4. Sound(q, step) BY <1>0, <2>2, <2>3 DEF Sound, NoCall, StepsOf
  <2> QED BY <2>1, <2>3, <2>4 DEF Arrival, Step
<1>3. CASE CreateCheckoutSession(o)
  <2>1. PICK p \in OnSale, trial \in BOOLEAN :
          Arrive(o, [NoCall EXCEPT !.op = "createCheckoutSession", !.plan = p, !.amount = plans[p].amount,
                                   !.trial = trial],
                    IF plans[p].amount = 0 THEN "activate" ELSE "pay")
    BY <1>3 DEF CreateCheckoutSession
  <2> DEFINE q    == [NoCall EXCEPT !.op = "createCheckoutSession", !.plan = p, !.amount = plans[p].amount,
                                    !.trial = trial]
             step == IF plans[p].amount = 0 THEN "activate" ELSE "pay"
  <2>2. q.op \in Operations BY <2>1 DEF Arrive
  <2>3. q \in Call BY <1>0, <1>z, <2>2 DEF Call, NoCall, PlanRow, OnSale
  <2>4. Sound(q, step) BY <1>0, <2>2, <2>3 DEF Sound, NoCall, StepsOf, OnSale
  <2> QED BY <2>1, <2>3, <2>4 DEF Arrival, Step
<1>4. CASE EnsureFreePlan(o) \/ AssignPlanManually(o)
  <2>1. PICK p \in OnSale, op \in {"ensureFreePlan", "assignPlanManually"} :
          Arrive(o, [NoCall EXCEPT !.op = op, !.plan = p], "activate")
    BY <1>4 DEF EnsureFreePlan, AssignPlanManually
  <2> DEFINE q == [NoCall EXCEPT !.op = op, !.plan = p]
  <2>2. q.op \in Operations BY <2>1 DEF Arrive
  <2>3. q \in Call BY <1>0, <1>z, <2>2 DEF Call, NoCall, OnSale
  <2>4. Sound(q, "activate") BY <1>0, <2>2, <2>3 DEF Sound, NoCall, StepsOf, OnSale
  <2> QED BY <2>1, <2>3, <2>4 DEF Arrival, Step
<1> QED BY <1>1, <1>2, <1>3, <1>4

LEMMA Advances ==
    ASSUME TypeOK, Asked, NEW o \in Request, Fail(o) \/ Pay(o) \/ ArchiveStripeProduct(o)
    PROVE  Advance(o)
<1>1. CASE Fail(o) BY <1>1 DEF Fail, Advance, TypeOK
<1>2. CASE Pay(o)
  <2>1. o \in InFlight BY <1>2 DEF Pay, InFlight
  <2>2. "verify" \in StepsOf(req[o].op) BY <1>2, <2>1 DEF Pay, Asked, StepsOf
  <2> QED BY <1>2, <2>1, <2>2 DEF Pay, Advance, TypeOK
<1>3. CASE ArchiveStripeProduct(o)
  <2>1. o \in InFlight BY <1>3 DEF ArchiveStripeProduct, InFlight
  <2>2. {"softDelete", "hardDelete"} \subseteq StepsOf(req[o].op)
    BY <1>3, <2>1 DEF ArchiveStripeProduct, Asked, StepsOf
  <2>3. products' \in [Key -> {None, "active", "archived"}]
    BY <1>3 DEF ArchiveStripeProduct, TypeOK
  <2>4. PICK step \in {"softDelete", "hardDelete"} : Goes(o, step)
    BY <1>3 DEF ArchiveStripeProduct
  <2> QED BY <1>3, <2>1, <2>2, <2>3, <2>4 DEF ArchiveStripeProduct, Advance
<1> QED BY <1>1, <1>2, <1>3

Kinds(o) ==
    \/ Arrival(o) \/ Advance(o) \/ CreateStripeProduct(o) \/ CreateStripePrice(o)
    \/ Write(o) \/ SoftDelete(o) \/ HardDelete(o) \/ Activate(o) \/ VerifySession(o)

LEMMA StepKinds ==
    ASSUME TypeOK, Asked, StripeKeys, [Next]_vars
    PROVE  (\E o \in Request : Kinds(o)) \/ UNCHANGED vars
<1>1. ASSUME NEW o \in Request, Create(o) PROVE Kinds(o) BY <1>1, CreateArrives DEF Kinds
<1>2. ASSUME NEW o \in Request, Update(o) PROVE Kinds(o) BY <1>2, UpdateArrives DEF Kinds
<1>3. ASSUME NEW o \in Request,
             \/ UpdateStatus(o) \/ Remove(o) \/ CreateCheckoutSession(o)
             \/ EnsureFreePlan(o) \/ AssignPlanManually(o)
      PROVE  Kinds(o)
  BY <1>3, OthersArrive DEF Kinds
<1>4. ASSUME NEW o \in Request, Fail(o) \/ Pay(o) \/ ArchiveStripeProduct(o) PROVE Kinds(o)
  BY <1>4, Advances DEF Kinds
<1> QED BY <1>1, <1>2, <1>3, <1>4 DEF Next, Terminating, Kinds

----------------------------------------------------------------------------
(* Frames: what a step of request o leaves as it was.                        *)

Arrived(o, q, step) ==
    /\ at[o] = "new" /\ at'[o] = step /\ step \notin {"new", "done", "failed"}
    /\ req'[o] = q
    /\ met'[o] = InFlight
    /\ \A x \in Request \ {o} :
          /\ at'[x] = at[x] /\ req'[x] = req[x] /\ met[x] \subseteq met'[x]
          /\ x \in InFlight => o \in met'[x]
    /\ UNCHANGED <<plans, products, prices, subs>>

LEMMA ArrivalFrame ==
    ASSUME TypeOK, NEW o \in Request, NEW q \in Call, NEW step \in Step, Arrive(o, q, step), Sound(q, step)
    PROVE  Arrived(o, q, step)
<1>1. step \notin {"new", "done", "failed"} BY DEF Sound, StepsOf
<1>2. o \notin InFlight BY DEF Arrive, InFlight
<1> QED BY <1>1, <1>2 DEF Arrived, Arrive, TypeOK

\* What a request was asked for stays.
SameCall(x) ==
    /\ req'[x].op = req[x].op /\ req'[x].plan = req[x].plan /\ req'[x].asks = req[x].asks
    /\ req'[x].amount = req[x].amount /\ req'[x].stripe = req[x].stripe /\ req'[x].trial = req[x].trial

Continued(o) ==
    /\ o \in InFlight
    /\ at'[o] \in {"done", "failed", "price", "write", "verify", "softDelete", "hardDelete"}
    /\ at'[o] \in {"done", "failed"} \cup StepsOf(req[o].op)
    /\ SameCall(o)
    /\ \A x \in Request \ {o} : at'[x] = at[x] /\ req'[x] = req[x]
    /\ met' = met

LEMMA ContinuedFrame ==
    ASSUME TypeOK, Asked, NEW o \in Request, Kinds(o), ~Arrival(o)
    PROVE  Continued(o)
<1>1. CASE Advance(o)
  <2>1. PICK step \in {"failed", "verify", "softDelete", "hardDelete"} :
          Goes(o, step) /\ (step = "failed" \/ step \in StepsOf(req[o].op))
    BY <1>1 DEF Advance
  <2> QED BY <1>1, <2>1 DEF Advance, Goes, Continued, SameCall, TypeOK
<1>2. CASE CreateStripeProduct(o)
  <2>1. o \in InFlight BY <1>2 DEF CreateStripeProduct, InFlight
  <2>2. {"price", "write"} \subseteq StepsOf(req[o].op)
    BY <1>2, <2>1 DEF CreateStripeProduct, Asked, StepsOf
  <2>3. SameCall(o) /\ \A x \in Request \ {o} : req'[x] = req[x]
    BY <1>2 DEF CreateStripeProduct, SameCall, TypeOK, Call
  <2> QED BY <1>2, <2>1, <2>2, <2>3 DEF CreateStripeProduct, Goes, Continued, TypeOK
<1>3. CASE CreateStripePrice(o)
  <2>1. o \in InFlight BY <1>3 DEF CreateStripePrice, InFlight
  <2>2. "write" \in StepsOf(req[o].op)
    BY <1>3, <2>1 DEF CreateStripePrice, Asked, StepsOf
  <2>3. SameCall(o) /\ \A x \in Request \ {o} : req'[x] = req[x]
    BY <1>3 DEF CreateStripePrice, SameCall, TypeOK, Call
  <2> QED BY <1>3, <2>1, <2>2, <2>3 DEF CreateStripePrice, Goes, Continued, TypeOK
<1>4. CASE Write(o)
  BY <1>4 DEF Write, Goes, Continued, SameCall, InFlight, TypeOK
<1>5. CASE SoftDelete(o) \/ HardDelete(o)
  BY <1>5 DEF SoftDelete, HardDelete, Goes, Continued, SameCall, InFlight, TypeOK
<1>6. CASE Activate(o) \/ VerifySession(o)
  BY <1>6 DEF Activate, VerifySession, Subscribe, Goes, Continued, SameCall, InFlight, TypeOK
<1> QED BY <1>1, <1>2, <1>3, <1>4, <1>5, <1>6 DEF Kinds

\* What a step other than the writing of a plan's fields leaves of the rows.
LEMMA RowFrame ==
    ASSUME TypeOK, Asked, NEW o \in Request, Kinds(o)
    PROVE  /\ \A p \in Plan : p # req[o].plan => plans'[p] = plans[p]
           /\ ~(Write(o) /\ req[o].op \in {"create", "update"}) =>
                 \A p \in Plan :
                    /\ plans'[p].amount = plans[p].amount /\ plans'[p].stripe = plans[p].stripe
                    /\ plans'[p].product = plans[p].product /\ plans'[p].price = plans[p].price
                    /\ plans'[p].here => plans[p].here
<1>1. CASE Arrival(o) BY <1>1 DEF Arrival, Arrive
<1>2. CASE Advance(o) \/ CreateStripeProduct(o) \/ CreateStripePrice(o)
  BY <1>2 DEF Advance, CreateStripeProduct, CreateStripePrice
<1>3. CASE Write(o)
  <2>1. o \in InFlight /\ req[o].op \in {"create", "update", "updateStatus"}
    BY <1>3 DEF Write, InFlight, Asked, StepsOf
  <2> QED BY <1>3, <2>1 DEF Write, TypeOK, PlanRow
<1>4. CASE SoftDelete(o) BY <1>4 DEF SoftDelete, TypeOK, PlanRow
<1>5. CASE HardDelete(o) BY <1>5 DEF HardDelete, TypeOK, PlanRow
<1>6. CASE Activate(o) \/ VerifySession(o) BY <1>6 DEF Activate, VerifySession, Subscribe
<1> QED BY <1>1, <1>2, <1>3, <1>4, <1>5, <1>6 DEF Kinds

\* What the writing of a plan's fields leaves in its row.
LEMMA WrittenRow ==
    ASSUME TypeOK, Asked, NEW o \in Request, Write(o), req[o].op \in {"create", "update"}
    PROVE  LET p == req[o].plan
           IN  /\ p \in Plan /\ plans'[p] = Written(plans[p], req[o])
               /\ plans'[p].product = req[o].product /\ plans'[p].price = req[o].price
               /\ plans'[p].amount = IF "amount" \in req[o].asks THEN req[o].amount ELSE plans[p].amount
               /\ plans'[p].stripe = IF "stripe" \in req[o].asks THEN req[o].stripe ELSE plans[p].stripe
<1>1. req[o].plan \in Plan BY DEF Write, Asked
<1>2. plans'[req[o].plan] = Written(plans[req[o].plan], req[o])
  BY <1>1 DEF Write, TypeOK
<1> QED BY <1>1, <1>2 DEF Written

\* What has been asked and who has met whom is never taken back.
LEMMA UpdatesGrow ==
    ASSUME TypeOK, Asked, NEW o \in Request, Kinds(o), NEW p
    PROVE  /\ \A x \in Updates(p) : x \in Updates(p)' /\ req'[x].stripe = req[x].stripe /\ req'[x].asks = req[x].asks
           /\ \A x \in Request : at[x] # "new" => met[x] \subseteq met'[x] /\ SameCall(x)
<1>1. CASE Arrival(o)
  <2>1. PICK q \in Call, step \in Step : Arrived(o, q, step) BY <1>1, ArrivalFrame DEF Arrival
  <2>2. o \notin Updates(p) BY <2>1 DEF Arrived, Asked, Updates, NoCall, None
  <2> QED BY <2>1, <2>2 DEF Arrived, Updates, SameCall
<1>2. CASE ~Arrival(o)
  <2>1. Continued(o) BY <1>2, ContinuedFrame
  <2> QED BY <2>1 DEF Continued, Updates, SameCall
<1> QED BY <1>1, <1>2

LEMMA DriftStays ==
    ASSUME TypeOK, Asked, NEW o \in Request, Kinds(o), NEW p, Drift(p)
    PROVE  Drift(p)'
<1>1. PICK x \in Updates(p) : met[x] \cap Updates(p) # {} \/ ~req[x].stripe BY DEF Drift
<1>2. at[x] # "new" BY DEF Asked, Updates, NoCall, None
<1>3. x \in Updates(p)' /\ req'[x].stripe = req[x].stripe BY UpdatesGrow
<1>4. met[x] \subseteq met'[x] /\ Updates(p) \subseteq Updates(p)' BY <1>2, UpdatesGrow DEF Updates
<1> QED BY <1>1, <1>3, <1>4 DEF Drift

----------------------------------------------------------------------------
(* Types, requests, and the subscriptions they leave.                        *)

\* A row with one of its switches changed.
LEMMA SwitchedRow ==
    ASSUME NEW row \in PlanRow, NEW b \in BOOLEAN
    PROVE  /\ [row EXCEPT !.active = b] \in PlanRow /\ [row EXCEPT !.active = b].here = row.here
           /\ [row EXCEPT !.deleted = b] \in PlanRow /\ [row EXCEPT !.deleted = b].here = row.here
           /\ [row EXCEPT !.here = b] \in PlanRow
BY DEF PlanRow

LEMMA TypesStay ==
    ASSUME TypeOK, Asked, NEW o \in Request, Kinds(o)
    PROVE  TypeOK'
<1>1. CASE Arrival(o)
  <2>1. PICK q \in Call, step \in Step : Arrive(o, q, step) BY <1>1 DEF Arrival
  <2>2. InFlight \subseteq Request BY DEF InFlight
  <2>3. met' \in [Request -> SUBSET Request] BY <2>1, <2>2 DEF Arrive, TypeOK
  <2> QED BY <2>1, <2>3 DEF Arrive, TypeOK
<1>2. CASE Advance(o) BY <1>2 DEF Advance, Goes, Step, TypeOK
<1>3. CASE CreateStripeProduct(o)
  <2>1. o \in Key BY DEF Key
  <2>2. [req[o] EXCEPT !.product = o] \in Call BY <2>1 DEF TypeOK, Call
  <2>3. req' \in [Request -> Call] BY <1>3, <2>2 DEF CreateStripeProduct, TypeOK
  <2>4. at' \in [Request -> Step] /\ products' \in [Key -> {None, "active", "archived"}]
    BY <1>3 DEF CreateStripeProduct, Goes, Step, TypeOK
  <2> QED BY <1>3, <2>3, <2>4 DEF CreateStripeProduct, Goes, TypeOK
<1>4. CASE CreateStripePrice(o)
  <2>1. o \in Key BY DEF Key
  <2>2. [req[o] EXCEPT !.price = o] \in Call /\ req[o].amount \in Amount BY <2>1 DEF TypeOK, Call
  <2>3. req' \in [Request -> Call] /\ prices' \in [Key -> Amount]
    BY <1>4, <2>2 DEF CreateStripePrice, TypeOK
  <2>4. at' \in [Request -> Step] BY <1>4 DEF CreateStripePrice, Goes, Step, TypeOK
  <2> QED BY <1>4, <2>3, <2>4 DEF CreateStripePrice, Goes, TypeOK
<1>5. CASE Write(o)
  <2>1. at' \in [Request -> Step] BY <1>5 DEF Write, Goes, Step, TypeOK
  <2>2. \A p \in Plan : Written(plans[p], req[o]) \in PlanRow /\ Written(plans[p], req[o]).here
    BY DEF Written, TypeOK, PlanRow, Call
  <2>3. \A p \in Plan : /\ [plans[p] EXCEPT !.active = req[o].active] \in PlanRow
                        /\ [plans[p] EXCEPT !.active = req[o].active].here = plans[p].here
    <3>1. req[o].active \in BOOLEAN BY DEF TypeOK, Call
    <3> QED BY <3>1, SwitchedRow DEF TypeOK
  <2>4. plans' \in [Plan -> PlanRow] BY <1>5, <2>2, <2>3 DEF Write, TypeOK
  <2>5. \A p \in Plan : plans[p].here => plans'[p].here BY <1>5, <2>2, <2>3 DEF Write, TypeOK
  <2> QED BY <1>5, <2>1, <2>4, <2>5 DEF Write, Goes, TypeOK, Sub
<1>6. CASE SoftDelete(o)
  <2>1. at' \in [Request -> Step] BY <1>6 DEF SoftDelete, Goes, Step, TypeOK
  <2>2. plans' \in [Plan -> PlanRow] /\ \A p \in Plan : plans'[p].here = plans[p].here
    <3>1. \A row \in PlanRow : [[row EXCEPT !.deleted = TRUE] EXCEPT !.active = FALSE] \in PlanRow
                              /\ [[row EXCEPT !.deleted = TRUE] EXCEPT !.active = FALSE].here = row.here
      BY SwitchedRow
    <3>2. \A p \in Plan : plans'[p] \in {plans[p], [[plans[p] EXCEPT !.deleted = TRUE] EXCEPT !.active = FALSE]}
      BY <1>6 DEF SoftDelete, TypeOK
    <3>3. plans' = [p \in Plan |-> plans'[p]] BY <1>6 DEF SoftDelete, TypeOK
    <3>4. \A p \in Plan : plans[p] \in PlanRow BY DEF TypeOK
    <3>5. \A p \in Plan : plans'[p] \in PlanRow /\ plans'[p].here = plans[p].here
      BY <3>1, <3>2, <3>4, Zenon
    <3> QED BY <3>3, <3>5
  <2> QED BY <1>6, <2>1, <2>2 DEF SoftDelete, Goes, TypeOK, Sub
<1>7. CASE HardDelete(o)
  <2>1. at' \in [Request -> Step] BY <1>7 DEF HardDelete, Goes, Step, TypeOK
  <2>2. plans' \in [Plan -> PlanRow] BY <1>7, SwitchedRow DEF HardDelete, TypeOK
  <2>3. \A s \in subs : s.plan # req[o].plan BY <1>7 DEF HardDelete, SubsOf
  <2>4. \A s \in subs : plans'[s.plan].here BY <1>7, <2>3 DEF HardDelete, TypeOK, Sub
  <2> QED BY <1>7, <2>1, <2>2, <2>4 DEF HardDelete, Goes, TypeOK
<1>8. CASE Activate(o) \/ VerifySession(o)
  <2>1. req[o].plan \in Plan BY <1>8 DEF Activate, VerifySession, Asked
  <2>2. 0 \in Amount /\ Recorded(o) \in Amount
    <3>1. 0 \in Amount BY AmountAssumption DEF Amount
    <3> QED BY <2>1, <3>1 DEF Recorded, TypeOK, PlanRow
  <2>3. PICK n \in Amount : Subscribe(o, n) BY <1>8, <2>2 DEF Activate, VerifySession
  <2>4. [by |-> o, plan |-> req[o].plan, amount |-> n] \in Sub BY <2>1 DEF Sub, Key
  <2>5. at' \in [Request -> Step] BY <2>3 DEF Subscribe, Goes, Step, TypeOK
  <2> QED BY <2>3, <2>4, <2>5 DEF Subscribe, Goes, TypeOK
<1> QED BY <1>1, <1>2, <1>3, <1>4, <1>5, <1>6, <1>7, <1>8 DEF Kinds

LEMMA AskedStays ==
    ASSUME TypeOK, Asked, NEW o \in Request, Kinds(o)
    PROVE  Asked'
<1>1. CASE Arrival(o)
  <2>1. PICK q \in Call, step \in Step : Arrived(o, q, step) /\ Sound(q, step)
    BY <1>1, ArrivalFrame DEF Arrival
  <2> QED BY <2>1 DEF Arrived, Sound, Asked, InFlight
<1>2. CASE ~Arrival(o)
  <2>1. Continued(o) BY <1>2, ContinuedFrame
  <2> QED BY <2>1 DEF Continued, SameCall, Asked, InFlight
<1> QED BY <1>1, <1>2

LEMMA MutualStays ==
    ASSUME TypeOK, Asked, Mutual, NEW o \in Request, Kinds(o)
    PROVE  Mutual'
<1>1. CASE Arrival(o)
  <2>1. PICK q \in Call, step \in Step : Arrived(o, q, step) BY <1>1, ArrivalFrame DEF Arrival
  <2>2. InFlight' = InFlight \cup {o} /\ o \notin InFlight BY <2>1 DEF Arrived, InFlight
  <2>3. InFlight \subseteq Request BY DEF InFlight
  <2> QED BY <2>1, <2>2, <2>3 DEF Arrived, Mutual
<1>2. CASE ~Arrival(o)
  <2>1. Continued(o) BY <1>2, ContinuedFrame
  <2> QED BY <2>1 DEF Continued, Mutual, InFlight
<1> QED BY <1>1, <1>2

LEMMA OwnIdStays ==
    ASSUME TypeOK, Asked, OwnId, NEW o \in Request, Kinds(o)
    PROVE  OwnId'
<1>1. CASE Arrival(o)
  <2>1. PICK q \in Call, step \in Step : Arrived(o, q, step) /\ Sound(q, step)
    BY <1>1, ArrivalFrame DEF Arrival
  <2>2. IF q.op = "create" THEN ~plans[q.plan].here /\ \A x \in Request : req[x].plan # q.plan
                           ELSE plans[q.plan].here
    BY <2>1 DEF Sound, Fresh
  <2>3. InFlight' = InFlight \cup {o} /\ o \notin InFlight BY <2>1 DEF Arrived, InFlight
  <2>4. InFlight \subseteq Request BY DEF InFlight
  <2> QED BY <2>1, <2>2, <2>3, <2>4 DEF Arrived, OwnId
<1>2. CASE ~Arrival(o)
  <2>1. Continued(o) BY <1>2, ContinuedFrame
  <2>2. /\ \A x \in InFlight' : x \in InFlight /\ (x = o => ~Write(o))
        /\ \A x \in Request : req'[x].op = req[x].op /\ req'[x].plan = req[x].plan
    BY <2>1 DEF Continued, SameCall, InFlight, Write, Goes, TypeOK
  <2>3. SUFFICES ASSUME NEW x \in InFlight', req'[x].op = "create"
                 PROVE  ~plans'[req[x].plan].here
    <3>1. \A x \in InFlight' : x \in Request BY DEF InFlight
    <3> QED BY <2>2, <2>3, <3>1 DEF OwnId
  <2>4. x \in InFlight /\ x \in Request /\ req[x].plan \in Plan BY <2>2 DEF InFlight, Asked
  <2>5. ~plans[req[x].plan].here BY <2>2, <2>3, <2>4 DEF OwnId
  <2>6. CASE x = o
    <3>1. ~Write(o) BY <2>2, <2>6
    <3> QED BY <2>4, <2>5, <3>1, RowFrame
  <2>7. CASE x # o
    <3>1. req[x].plan # req[o].plan BY <2>2, <2>3, <2>4, <2>7 DEF OwnId
    <3> QED BY <2>4, <2>5, <3>1, RowFrame
  <2> QED BY <2>6, <2>7
<1> QED BY <1>1, <1>2

\* The subscriptions after a step.
LEMMA NewSubscriptions ==
    ASSUME TypeOK, Asked, NEW o \in Request, Kinds(o)
    PROVE  \/ subs' = subs
           \/ /\ Activate(o) \/ VerifySession(o)
              /\ at'[o] = "done" /\ o \in InFlight /\ req' = req
              /\ subs' = subs \cup {[by |-> o, plan |-> req[o].plan,
                                     amount |-> IF Activate(o) THEN 0 ELSE Recorded(o)]}
<1>1. CASE Activate(o) \/ VerifySession(o)
  BY <1>1 DEF Activate, VerifySession, Subscribe, Goes, InFlight, TypeOK
<1>2. CASE Arrival(o) BY <1>2 DEF Arrival, Arrive
<1>3. CASE ~(Activate(o) \/ VerifySession(o)) /\ ~Arrival(o)
  BY <1>3 DEF Kinds, Advance, CreateStripeProduct, CreateStripePrice, Write, SoftDelete, HardDelete
<1> QED BY <1>1, <1>2, <1>3

\* A request that is done stays as it is.
LEMMA DoneStays ==
    ASSUME TypeOK, Asked, NEW o \in Request, Kinds(o), NEW x \in Request, at[x] = "done"
    PROVE  x # o /\ at'[x] = "done" /\ req'[x] = req[x]
<1>1. CASE Arrival(o)
  <2>1. PICK q \in Call, step \in Step : Arrived(o, q, step) BY <1>1, ArrivalFrame DEF Arrival
  <2> QED BY <2>1 DEF Arrived
<1>2. CASE ~Arrival(o)
  <2>1. Continued(o) BY <1>2, ContinuedFrame
  <2> QED BY <2>1 DEF Continued, InFlight
<1> QED BY <1>1, <1>2

LEMMA BoughtStays ==
    ASSUME TypeOK, Asked, Bought, NEW o \in Request, Kinds(o)
    PROVE  Bought'
<1>1. SUFFICES ASSUME NEW s \in subs', s.by # First
               PROVE  s.by \in Request /\ at'[s.by] = "done" /\ req'[s.by].plan = s.plan
  BY DEF Bought
<1>2. CASE s \in subs
  <2>1. s.by \in Request /\ at[s.by] = "done" /\ req[s.by].plan = s.plan BY <1>1, <1>2 DEF Bought
  <2> QED BY <2>1, DoneStays
<1>3. CASE s \notin subs
  <2>1. s.by = o /\ s.plan = req[o].plan /\ at'[o] = "done" /\ req' = req
    BY <1>3, NewSubscriptions
  <2> QED BY <2>1
<1> QED BY <1>2, <1>3

----------------------------------------------------------------------------
(* What is recorded of a purchase.                                           *)

LEMMA RepricedStays ==
    ASSUME TypeOK, Asked, NEW o \in Request, Kinds(o), NEW x \in Request, at[x] # "new", Repriced(x)
    PROVE  Repriced(x)'
<1>1. PICK y \in met[x] : y \in Updates(req[x].plan) /\ "amount" \in req[y].asks BY DEF Repriced
<1>2. y \in Request /\ req'[y].op = "update" /\ req'[y].plan = req[x].plan /\ req'[y].asks = req[y].asks
  BY <1>1, UpdatesGrow DEF Updates
<1>3. met[x] \subseteq met'[x] /\ req'[x].plan = req[x].plan BY UpdatesGrow DEF SameCall
<1> QED BY <1>1, <1>2, <1>3 DEF Repriced, Updates

LEMMA AtItsPriceStays ==
    ASSUME TypeOK, Asked, Mutual, OwnId, AtItsPrice, NEW o \in Request, Kinds(o)
    PROVE  AtItsPrice'
<1>1. SUFFICES ASSUME NEW x \in InFlight', req'[x].op = "createCheckoutSession"
               PROVE  /\ req'[x].amount = plans'[req'[x].plan].amount \/ Repriced(x)'
                      /\ at'[x] = "activate" => req'[x].amount = 0
  BY DEF AtItsPrice
<1>2. x \in Request BY DEF InFlight
<1>3. CASE Arrival(o)
  <2>1. PICK q \in Call, step \in Step : Arrived(o, q, step) /\ Sound(q, step)
    BY <1>3, ArrivalFrame DEF Arrival
  <2>2. CASE x = o BY <1>1, <2>1, <2>2 DEF Arrived, Sound
  <2>3. CASE x # o
    <3>1. x \in InFlight /\ req'[x] = req[x] /\ at'[x] = at[x] /\ plans' = plans
      BY <1>2, <2>1, <2>3 DEF Arrived, InFlight
    <3>2. at[x] # "new" BY <3>1 DEF InFlight
    <3> QED BY <1>1, <1>2, <3>1, <3>2, RepricedStays DEF AtItsPrice
  <2> QED BY <2>2, <2>3
<1>4. CASE ~Arrival(o)
  <2>1. Continued(o) BY <1>4, ContinuedFrame
  <2>2. /\ x \in InFlight /\ SameCall(x) /\ at[x] # "new"
        /\ at'[x] = "activate" => at[x] = "activate"
    BY <1>2, <2>1 DEF Continued, SameCall, InFlight
  <2>3. /\ req[x].amount = plans[req[x].plan].amount \/ Repriced(x)
        /\ at[x] = "activate" => req[x].amount = 0
    BY <1>1, <2>2 DEF AtItsPrice, SameCall
  <2>4. req[x].plan \in Plan BY <1>2, <2>2 DEF Asked
  <2>5. CASE plans'[req[x].plan].amount = plans[req[x].plan].amount
    BY <1>2, <2>2, <2>3, <2>5, RepricedStays DEF SameCall
  <2>6. CASE plans'[req[x].plan].amount # plans[req[x].plan].amount
    <3>1. Write(o) /\ req[o].op \in {"create", "update"} /\ req[o].plan = req[x].plan
      BY <2>4, <2>6, RowFrame
    <3>2. o \in InFlight /\ x # o BY <1>1, <2>1, <2>2, <3>1 DEF Continued, SameCall
    <3>3. req[o].op = "update" BY <1>2, <3>1, <3>2 DEF OwnId
    <3>4. "amount" \in req[o].asks BY <2>6, <3>1, WrittenRow
    <3>5. o \in met[x] BY <2>2, <3>2 DEF Mutual
    <3>6. Repriced(x) BY <3>1, <3>3, <3>4, <3>5 DEF Repriced, Updates
    <3> QED BY <1>2, <2>2, <2>3, <3>6, RepricedStays DEF SameCall
  <2> QED BY <2>5, <2>6
<1> QED BY <1>3, <1>4

LEMMA RecordsStay ==
    ASSUME TypeOK, Asked, Bought, AtItsPrice, OnlyRepricingMisrecords, NEW o \in Request, Kinds(o)
    PROVE  OnlyRepricingMisrecords'
<1>1. SUFFICES ASSUME NEW s \in subs', s.by # First, req'[s.by].op = "createCheckoutSession"
               PROVE  \/ s.amount = Paid(s.by)'
                      \/ /\ ~req'[s.by].trial
                         /\ \E x \in met'[s.by] : x \in Updates(s.plan)' /\ "amount" \in req'[x].asks
  BY DEF OnlyRepricingMisrecords
<1>2. CASE s \in subs
  <2>1. s.by \in Request /\ at[s.by] = "done" BY <1>1, <1>2 DEF Bought
  <2>2. req'[s.by] = req[s.by] BY <2>1, DoneStays
  <2>3. met[s.by] \subseteq met'[s.by] BY <2>1, UpdatesGrow
  <2>4. \/ s.amount = Paid(s.by)
        \/ /\ ~req[s.by].trial
           /\ \E x \in met[s.by] : x \in Updates(s.plan) /\ "amount" \in req[x].asks
    BY <1>1, <1>2, <2>2 DEF OnlyRepricingMisrecords
  <2>5. CASE s.amount = Paid(s.by) BY <2>2, <2>5 DEF Paid
  <2>6. CASE ~req[s.by].trial /\ \E x \in met[s.by] : x \in Updates(s.plan) /\ "amount" \in req[x].asks
    <3>1. PICK x \in met[s.by] : x \in Updates(s.plan) /\ "amount" \in req[x].asks BY <2>6
    <3>2. x \in Updates(s.plan)' /\ req'[x].asks = req[x].asks BY <3>1, UpdatesGrow
    <3> QED BY <2>2, <2>3, <2>6, <3>1, <3>2
  <2> QED BY <2>4, <2>5, <2>6
<1>3. CASE s \notin subs
  <2>1. /\ Activate(o) \/ VerifySession(o)
        /\ o \in InFlight /\ req' = req /\ at'[o] = "done"
        /\ s = [by |-> o, plan |-> req[o].plan, amount |-> IF Activate(o) THEN 0 ELSE Recorded(o)]
    BY <1>3, NewSubscriptions
  <2>2. req[o].op = "createCheckoutSession" /\ s.by = o /\ s.plan = req[o].plan BY <1>1, <2>1
  <2>3. CASE Activate(o)
    <3>1. at[o] = "activate" BY <2>3 DEF Activate
    <3>2. req[o].amount = 0 BY <2>1, <2>2, <3>1 DEF AtItsPrice
    <3> QED BY <2>1, <2>2, <2>3, <3>2 DEF Paid
  <2>4. CASE ~Activate(o) /\ req[o].trial BY <2>1, <2>2, <2>4 DEF Recorded, Paid
  <2>5. CASE ~Activate(o) /\ ~req[o].trial
    <3>1. s.amount = plans[req[o].plan].amount BY <2>1, <2>5 DEF Recorded
    <3>2. s.amount = req[o].amount \/ Repriced(o) BY <2>1, <2>2, <3>1 DEF AtItsPrice
    <3>3. at[o] # "new" BY <2>1 DEF InFlight
    <3>4. CASE Repriced(o)
      <4>1. Repriced(o)' BY <3>3, <3>4, RepricedStays
      <4> QED BY <2>1, <2>2, <2>5, <4>1 DEF Repriced
    <3> QED BY <2>1, <2>2, <2>5, <3>2, <3>4 DEF Paid
  <2> QED BY <2>3, <2>4, <2>5
<1> QED BY <1>2, <1>3

----------------------------------------------------------------------------
(* The price of a plan and its price at Stripe.                              *)

SettledThen(k) == k \in Request => at'[k] = "done"

LEMMA SettledStays ==
    ASSUME TypeOK, Asked, NEW o \in Request, Kinds(o), NEW k, Settled(k)
    PROVE  SettledThen(k)
BY DoneStays DEF Settled, SettledThen

LEMMA StripeKeysStay ==
    ASSUME TypeOK, Asked, StripeKeys, NEW o \in Request, Kinds(o)
    PROVE  StripeKeys'
<1>0. None \notin Request BY FirstAssumption
<1>1. CASE Arrival(o)
  <2>1. PICK q \in Call, step \in Step : Arrived(o, q, step) /\ Sound(q, step)
    BY <1>1, ArrivalFrame DEF Arrival
  <2>2. \A p \in Plan : SettledThen(plans'[p].price) /\ (plans'[p].product = None => plans'[p].price = None)
    BY <2>1, SettledStays DEF StripeKeys, Arrived
  <2>3. /\ q.price # o => SettledThen(q.price)
        /\ q.product = None => q.price = None
        /\ step = "product" => q.product = None
        /\ step = "price" => q.product # None
    <3>1. CASE q.op = "create" BY <1>0, <2>1, <3>1 DEF Sound, SettledThen
    <3>2. CASE q.op = "update" BY <2>1, <3>2, SettledStays DEF Sound, StripeKeys
    <3>3. CASE q.op \notin {"create", "update"}
      <4>1. step \notin {"product", "price"} BY <2>1, <3>3 DEF Sound, StepsOf
      <4> QED BY <1>0, <2>1, <3>3, <4>1 DEF Sound, SettledThen
    <3> QED BY <3>1, <3>2, <3>3
  <2>4. ASSUME NEW x \in Request, x # o
        PROVE  /\ req'[x].price # x => SettledThen(req'[x].price)
               /\ req'[x].product = None => req'[x].price = None
               /\ at'[x] = "product" => req'[x].product = None
               /\ at'[x] = "price" => req'[x].product # None
    BY <2>1, <2>4, SettledStays DEF StripeKeys, Arrived
  <2> QED BY <2>1, <2>2, <2>3, <2>4 DEF StripeKeys, Arrived, Settled, SettledThen
<1>2. CASE ~Arrival(o)
  <2>1. Continued(o) BY <1>2, ContinuedFrame
  <2>2. ASSUME NEW x \in Request, x # o
        PROVE  /\ req'[x].price # x => SettledThen(req'[x].price)
               /\ req'[x].product = None => req'[x].price = None
               /\ at'[x] = "product" => req'[x].product = None
               /\ at'[x] = "price" => req'[x].product # None
    BY <2>1, <2>2, SettledStays DEF StripeKeys, Continued
  <2>3. /\ req'[o].price # o => SettledThen(req'[o].price)
        /\ req'[o].product = None => req'[o].price = None
        /\ at'[o] # "product"
        /\ at'[o] = "price" => req'[o].product # None
    <3>0. at'[o] # "product" BY <2>1 DEF Continued
    <3>1. CASE CreateStripeProduct(o)
      <4>1. req'[o].product = o /\ req'[o].price = req[o].price
        BY <3>1 DEF CreateStripeProduct, TypeOK, Call
      <4> QED BY <1>0, <3>0, <4>1, SettledStays DEF StripeKeys
    <3>2. CASE CreateStripePrice(o)
      <4>1. /\ req'[o].product = req[o].product /\ req'[o].price = o
            /\ at[o] = "price" /\ at'[o] = "write"
        BY <3>2 DEF CreateStripePrice, Goes, TypeOK, Call
      <4> QED BY <3>0, <4>1 DEF StripeKeys
    <3>3. CASE ~CreateStripeProduct(o) /\ ~CreateStripePrice(o)
      <4>1. req' = req /\ at'[o] # "price"
        BY <1>2, <3>3 DEF Kinds, Advance, Write, SoftDelete, HardDelete, Activate, VerifySession, Subscribe, Goes, TypeOK
      <4> QED BY <3>0, <4>1, SettledStays DEF StripeKeys
    <3> QED BY <3>1, <3>2, <3>3
  <2>4. ASSUME NEW p \in Plan
        PROVE  SettledThen(plans'[p].price) /\ (plans'[p].product = None => plans'[p].price = None)
    <3>1. CASE Write(o) /\ req[o].op \in {"create", "update"} /\ p = req[o].plan
      <4>1. plans'[p].product = req[o].product /\ plans'[p].price = req[o].price BY <3>1, WrittenRow
      <4>2. at'[o] = "done" BY <3>1 DEF Write, Goes, TypeOK
      <4>3. SettledThen(o) BY <4>2 DEF SettledThen
      <4> QED BY <4>1, <4>3, SettledStays DEF StripeKeys
    <3>2. CASE ~(Write(o) /\ req[o].op \in {"create", "update"} /\ p = req[o].plan)
      <4>1. plans'[p].product = plans[p].product /\ plans'[p].price = plans[p].price
        BY <3>2, RowFrame
      <4> QED BY <4>1, SettledStays DEF StripeKeys
    <3> QED BY <3>1, <3>2
  <2> QED BY <2>2, <2>3, <2>4 DEF StripeKeys, Settled, SettledThen
<1> QED BY <1>1, <1>2

\* Only the request itself writes the price that is named after it, and nobody else knows it yet.
LEMMA PricesKept ==
    ASSUME TypeOK, Asked, StripeKeys, NEW o \in Request, Kinds(o), NEW k \in Key,
           k # o \/ ~CreateStripePrice(o)
    PROVE  prices'[k] = prices[k]
<1>1. CASE CreateStripePrice(o) BY <1>1 DEF CreateStripePrice, TypeOK
<1>2. CASE ~CreateStripePrice(o)
  BY <1>2 DEF Kinds, Arrival, Arrive, Advance, CreateStripeProduct, Write, SoftDelete, HardDelete,
              Activate, VerifySession, Subscribe
<1> QED BY <1>1, <1>2

LEMMA MatchStays ==
    ASSUME TypeOK, Asked, StripeKeys, NEW o \in Request, Kinds(o), NEW k \in Key \cup {None}, NEW n,
           Matches(k, n), k # o \/ ~CreateStripePrice(o)
    PROVE  Matches(k, n)'
BY PricesKept DEF Matches

\* A writer of the fields of a plan is alone with it, or the plan has drifted.
LEMMA AloneOrDrifted ==
    ASSUME TypeOK, Asked, Mutual, OwnId, NEW o \in Request, Write(o), req[o].op \in {"create", "update"},
           NEW x \in InFlight, x # o, req[x].op \in {"create", "update"}, req[x].plan = req[o].plan
    PROVE  Drift(req[x].plan)
<1>1. o \in InFlight /\ x \in Request BY DEF Write, InFlight
<1>2. req[o].op = "update" /\ req[x].op = "update" BY <1>1 DEF OwnId
<1>3. o \in met[x] BY <1>1 DEF Mutual
<1> QED BY <1>1, <1>2, <1>3 DEF Drift, Updates

LEMMA PricedStays ==
    ASSUME TypeOK, Asked, StripeKeys, Priced, AboutToPrice, NEW o \in Request, Kinds(o)
    PROVE  Priced'
<1>1. SUFFICES ASSUME NEW p \in Plan, plans'[p].here, ~Drift(p)'
               PROVE  /\ plans'[p].price = None \/ plans'[p].stripe
                      /\ Matches(plans[p].price, plans[p].amount)'
  BY DEF Priced
<1>2. ~Drift(p) BY <1>1, DriftStays
<1>3. CASE Write(o) /\ req[o].op \in {"create", "update"} /\ p = req[o].plan
  <2>1. o \in InFlight /\ at[o] = "write" /\ prices' = prices BY <1>3 DEF Write, InFlight
  <2>2. /\ plans'[p].price = req[o].price
        /\ plans'[p].amount = IF "amount" \in req[o].asks THEN req[o].amount ELSE plans[p].amount
        /\ plans'[p].stripe = IF "stripe" \in req[o].asks THEN req[o].stripe ELSE plans[p].stripe
    BY <1>3, WrittenRow
  <2>3. /\ "amount" \notin req[o].asks => req[o].amount = plans[p].amount
        /\ "stripe" \notin req[o].asks => req[o].stripe = plans[p].stripe
        /\ req[o].price = None \/ req[o].stripe
        /\ Matches(req[o].price, req[o].amount)
    BY <1>2, <1>3, <2>1 DEF AboutToPrice
  <2>4. plans'[p].amount = req[o].amount /\ plans'[p].stripe = req[o].stripe BY <2>2, <2>3
  <2> QED BY <2>1, <2>2, <2>3, <2>4 DEF Matches
<1>4. CASE ~(Write(o) /\ req[o].op \in {"create", "update"} /\ p = req[o].plan)
  <2>1. /\ plans'[p].amount = plans[p].amount /\ plans'[p].stripe = plans[p].stripe
        /\ plans'[p].price = plans[p].price /\ plans[p].here
    BY <1>1, <1>4, RowFrame
  <2>2. (plans[p].price = None \/ plans[p].stripe) /\ Matches(plans[p].price, plans[p].amount)
    BY <1>2, <2>1 DEF Priced
  <2>3. CreateStripePrice(o) => at[o] # "done" BY DEF CreateStripePrice
  <2>4. plans[p].price # o \/ ~CreateStripePrice(o) BY <2>3 DEF StripeKeys, Settled
  <2>5. plans[p].price \in Key \cup {None} BY DEF TypeOK, PlanRow
  <2>6. plans[p].price = None \/ prices'[plans[p].price] = prices[plans[p].price]
    BY <2>4, <2>5, PricesKept
  <2> QED BY <2>1, <2>2, <2>6 DEF Matches
<1> QED BY <1>3, <1>4

LEMMA NewUpdatePriced ==
    ASSUME TypeOK, Asked, StripeKeys, Priced, NEW o \in Request, NEW q \in Call, NEW step \in Step,
           Arrived(o, q, step), Sound(q, step), q.op = "update", ~Drift(q.plan), ~Drift(q.plan)'
    PROVE  q.stripe /\ (step = "write" => Matches(q.price, q.amount))
<1>1. q.stripe BY DEF Arrived, Drift, Updates
<1>2. /\ q.plan \in Plan /\ plans[q.plan].here /\ q.price = plans[q.plan].price /\ q.amount \in Nat
      /\ "amount" \notin q.asks => q.amount = plans[q.plan].amount
      /\ step = "write" => ~NeedsPrice(plans[q.plan], q)
  BY <1>1, AmountAssumption DEF Sound, Call, Amount
<1>3. plans[q.plan].price = None \/ Matches(plans[q.plan].price, plans[q.plan].amount)
  BY <1>2 DEF Priced
<1>4. ASSUME step = "write" PROVE Matches(q.price, q.amount)
  <2>1. q.amount = 0 \/ (q.price # None /\ q.amount = plans[q.plan].amount)
    BY <1>2, <1>4 DEF NeedsPrice
  <2> QED BY <1>2, <1>3, <2>1 DEF Matches
<1> QED BY <1>1, <1>4

LEMMA AboutToPriceStays ==
    ASSUME TypeOK, Asked, Mutual, OwnId, StripeKeys, Priced, AboutToPrice, NEW o \in Request, Kinds(o)
    PROVE  AboutToPrice'
<1>1. SUFFICES ASSUME NEW x \in InFlight', NEW p \in Plan, req'[x].plan = p,
                      req'[x].op \in {"create", "update"}, ~Drift(p)'
               PROVE  /\ "amount" \notin req'[x].asks => req'[x].amount = plans'[p].amount
                      /\ "stripe" \notin req'[x].asks => req'[x].stripe = plans'[p].stripe
                      /\ req'[x].price = None \/ req'[x].stripe
                      /\ req'[x].op = "create" => req'[x].asks = Field
                      /\ at'[x] = "write" => Matches(req[x].price, req[x].amount)'
                      /\ at'[x] = "price" => req'[x].stripe
                      /\ at'[x] = "product" => req'[x].stripe
  <2>1. \A x \in InFlight' : req'[x].plan \in Plan BY AskedStays DEF Asked, InFlight
  <2> QED BY <1>1, <2>1 DEF AboutToPrice, Drift, Updates
<1>2. ~Drift(p) /\ x \in Request BY <1>1, DriftStays DEF InFlight
<1>3. CASE Arrival(o)
  <2>1. PICK q \in Call, step \in Step : Arrived(o, q, step) /\ Sound(q, step)
    BY <1>3, ArrivalFrame DEF Arrival
  <2>2. CASE x = o
    <3>1. req'[x] = q /\ at'[x] = step /\ plans' = plans /\ prices' = prices /\ q.plan = p
      BY <1>1, <2>1, <2>2 DEF Arrived
    <3>2. CASE q.op = "create"
      BY <2>1, <3>1, <3>2 DEF Sound, Matches, Field
    <3>3. CASE q.op = "update"
      <4>1. q.stripe /\ (step = "write" => Matches(q.price, q.amount))
        BY <1>1, <1>2, <2>1, <3>1, <3>3, NewUpdatePriced
      <4> QED BY <2>1, <3>1, <3>3, <4>1 DEF Sound, Matches
    <3> QED BY <1>1, <3>1, <3>2, <3>3
  <2>3. CASE x # o
    <3>1. req'[x] = req[x] /\ at'[x] = at[x] /\ x \in InFlight /\ plans' = plans /\ prices' = prices
      BY <1>2, <2>1, <2>3 DEF Arrived, InFlight
    <3> QED BY <1>1, <1>2, <3>1 DEF AboutToPrice, Matches
  <2> QED BY <2>2, <2>3
<1>4. CASE ~Arrival(o)
  <2>1. Continued(o) BY <1>4, ContinuedFrame
  <2>2. x \in InFlight /\ SameCall(x) BY <1>2, <2>1 DEF Continued, SameCall, InFlight
  <2>3. /\ "amount" \notin req[x].asks => req[x].amount = plans[p].amount
        /\ "stripe" \notin req[x].asks => req[x].stripe = plans[p].stripe
        /\ req[x].price = None \/ req[x].stripe
        /\ req[x].op = "create" => req[x].asks = Field
        /\ at[x] = "write" => Matches(req[x].price, req[x].amount)
        /\ at[x] \in {"price", "product"} => req[x].stripe
    BY <1>1, <1>2, <2>2 DEF AboutToPrice, SameCall
  <2>4. plans'[p].amount = plans[p].amount /\ plans'[p].stripe = plans[p].stripe
    <3>1. CASE Write(o) /\ req[o].op \in {"create", "update"} /\ req[o].plan = p
      <4>1. x # o BY <1>1, <3>1 DEF Write, Goes, TypeOK, InFlight
      <4> QED BY <1>1, <1>2, <2>2, <3>1, <4>1, AloneOrDrifted DEF SameCall
    <3>2. CASE ~(Write(o) /\ req[o].op \in {"create", "update"} /\ req[o].plan = p)
      BY <3>2, RowFrame
    <3> QED BY <3>1, <3>2
  <2>5. /\ req'[x].price = None \/ req'[x].stripe
        /\ at'[x] = "write" => Matches(req[x].price, req[x].amount)'
        /\ at'[x] \in {"price", "product"} => req'[x].stripe
    <3>1. CASE x = o /\ CreateStripeProduct(o)
      <4>1. /\ at[o] = "product" /\ req'[o].price = req[o].price /\ prices' = prices
            /\ at'[o] = IF req[o].amount > 0 THEN "price" ELSE "write"
        BY <3>1 DEF CreateStripeProduct, Goes, TypeOK, Call
      <4>2. req[o].amount \in Nat BY AmountAssumption DEF TypeOK, Call, Amount
      <4> QED BY <2>2, <2>3, <3>1, <4>1, <4>2 DEF SameCall, Matches
    <3>2. CASE x = o /\ CreateStripePrice(o)
      <4>1. at[o] = "price" /\ at'[o] = "write" /\ req'[o].price = o /\ prices'[o] = req[o].amount
        BY <3>2 DEF CreateStripePrice, Goes, TypeOK, Call, Key
      <4> QED BY <2>2, <2>3, <3>2, <4>1 DEF SameCall, Matches
    <3>3. CASE ~(x = o /\ (CreateStripeProduct(o) \/ CreateStripePrice(o)))
      <4>1. req'[x].price = req[x].price
        BY <1>2, <1>4, <2>1, <3>3 DEF Kinds, Advance, Write, SoftDelete, HardDelete, Activate, VerifySession,
                                      Subscribe, Continued
      <4>2. at'[x] \in {"price", "product", "write"} => at'[x] = at[x]
        BY <1>2, <1>4, <2>1, <3>3 DEF Kinds, Advance, Write, SoftDelete, HardDelete, Activate, VerifySession,
                                      Subscribe, Goes, Continued, TypeOK
      <4>3. CreateStripePrice(o) => at[o] # "done" BY DEF CreateStripePrice
      <4>4. req[x].price # o \/ ~CreateStripePrice(o)
        BY <1>2, <3>3, <4>3 DEF StripeKeys, Settled
      <4>5. req[x].price \in Key \cup {None} BY <1>2 DEF TypeOK, Call
      <4>6. req[x].price = None \/ prices'[req[x].price] = prices[req[x].price]
        BY <4>4, <4>5, PricesKept
      <4> QED BY <2>2, <2>3, <4>1, <4>2, <4>6 DEF SameCall, Matches
    <3> QED BY <3>1, <3>2, <3>3
  <2> QED BY <2>2, <2>3, <2>4, <2>5 DEF SameCall
<1> QED BY <1>3, <1>4

----------------------------------------------------------------------------
(* The theorems. *)

LEMMA Initially == Init => IInv
<1> SUFFICES ASSUME Init PROVE IInv OBVIOUS
<1>1. PICK onStripe \in BOOLEAN, n \in Amount \ {0} :
        LET key == IF onStripe THEN First ELSE None
        IN  /\ plans = [p \in Plan |-> [here |-> p = First, deleted |-> FALSE, active |-> TRUE, amount |-> n,
                                        stripe |-> onStripe, product |-> key, price |-> key]]
            /\ products = [k \in Key |-> IF k = key THEN "active" ELSE None]
            /\ prices = [k \in Key |-> IF k = key THEN n ELSE 0]
  BY DEF Init
<1>2. 0 \in Amount /\ n \in Amount BY <1>1, AmountAssumption DEF Amount
<1>3. First \in Plan /\ First \in Key /\ First \notin Request /\ None \notin Request
  BY FirstAssumption DEF Key
<1>4. /\ at = [o \in Request |-> "new"] /\ met = [o \in Request |-> {}]
      /\ req = [o \in Request |-> NoCall]
      /\ subs \in {{}, {[by |-> First, plan |-> First, amount |-> plans[First].amount]}}
  BY DEF Init
<1>5. InFlight = {} BY <1>4 DEF InFlight
<1>6. TypeOK
  <2>1. NoCall \in Call BY <1>2 DEF NoCall, Call
  <2>2. plans \in [Plan -> PlanRow] BY <1>1, <1>2, <1>3 DEF PlanRow
  <2>3. prices \in [Key -> Amount] /\ products \in [Key -> {None, "active", "archived"}] BY <1>1, <1>2
  <2>4. plans[First].here /\ plans[First].amount \in Amount BY <1>1, <1>2, <1>3
  <2>5. subs \subseteq Sub /\ \A s \in subs : plans[s.plan].here BY <1>3, <1>4, <2>4 DEF Sub
  <2> QED BY <1>4, <2>1, <2>2, <2>3, <2>5 DEF TypeOK, Step
<1>7. Asked BY <1>4, <1>5 DEF Asked
<1>8. Mutual /\ OwnId /\ AtItsPrice /\ AboutToPrice BY <1>5 DEF Mutual, OwnId, AtItsPrice, AboutToPrice
<1>9. Bought /\ OnlyRepricingMisrecords BY <1>4 DEF Bought, OnlyRepricingMisrecords
<1>10. \A p \in Plan : plans[p].price \in {First, None} /\ plans[p].product = plans[p].price BY <1>1
<1>11. \A o \in Request : req[o].price = None /\ req[o].product = None /\ at[o] = "new" BY <1>4 DEF NoCall
<1>12. StripeKeys BY <1>3, <1>10, <1>11 DEF StripeKeys, Settled
<1>13. Priced
  <2>1. CASE onStripe BY <1>1, <1>3, <2>1 DEF Priced, Matches
  <2>2. CASE ~onStripe BY <1>1, <2>2 DEF Priced, Matches
  <2> QED BY <1>1, <2>1, <2>2
<1> QED BY <1>6, <1>7, <1>8, <1>9, <1>12, <1>13 DEF IInv

LEMMA Inductive == IInv /\ [Next]_vars => IInv'
<1> SUFFICES ASSUME IInv, [Next]_vars PROVE IInv' OBVIOUS
<1>1. ASSUME NEW o \in Request, Kinds(o) PROVE IInv'
  BY <1>1, TypesStay, AskedStays, MutualStays, OwnIdStays, BoughtStays, AtItsPriceStays, RecordsStay,
     StripeKeysStay, PricedStays, AboutToPriceStays DEF IInv
<1>2. CASE UNCHANGED vars
  BY <1>2 DEF vars, IInv, TypeOK, Asked, Mutual, OwnId, Bought, AtItsPrice, OnlyRepricingMisrecords, Paid,
              StripeKeys, Priced, AboutToPrice, InFlight, Repriced, Drift, Updates, Matches, Settled
<1> QED BY <1>1, <1>2, StepKinds DEF IInv

LEMMA PricesFollow == IInv => OnlyDriftMisprices
<1> SUFFICES ASSUME IInv, NEW p \in Here, ~Drift(p), plans[p].stripe, plans[p].amount # 0, plans[p].price # None
             PROVE  prices[plans[p].price] = plans[p].amount
  BY DEF OnlyDriftMisprices, Drift
<1> QED BY DEF IInv, Priced, Matches, Here

LEMMA Always == Spec => []IInv
BY Initially, Inductive, PTL DEF Spec

\* Rows, calls and subscriptions keep their form, and the plan of every subscription is there:
\* the foreign key refuses the removal that counted none, the row that is gone refuses the purchase.
THEOREM PlansOutliveSubscriptions == Spec => []TypeOK
<1>1. IInv => TypeOK BY DEF IInv
<1> QED BY <1>1, Always, PTL

\* However calls of Stripe and of the database fail and interleave, only two updates at once or
\* one while the plan is off Stripe part its price from the price at Stripe.
THEOREM OnlyDriftPartsPrices == Spec => []OnlyDriftMisprices
BY PricesFollow, Always, PTL

\* What is recorded of a purchase is what was paid, nothing on a trial, unless the plan of one that is
\* no trial was given another price meanwhile.
THEOREM RecordsArePaid == Spec => []OnlyRepricingMisrecords
<1>1. IInv => OnlyRepricingMisrecords BY DEF IInv
<1> QED BY <1>1, Always, PTL

==============================================================================
