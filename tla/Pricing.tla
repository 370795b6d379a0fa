-------------------------------- MODULE Pricing --------------------------------
(* The plans that are sold, their doubles at Stripe, and who buys one meanwhile.

   An administrator's request reads the plan, calls Stripe once or twice, and then
   writes the row, with whatever it read of the fields that name the Stripe product
   and price.  Stripe takes part in no transaction: what was created there stays.
   A purchase is open from the moment its checkout session is made until the
   client comes back with the paid session, which may be hours.              *)
EXTENDS Naturals, FiniteSets

CONSTANTS
    Plan,         \* ids of rows
    First,        \* the plan there is at first
    Request,      \* each request is made once
    Operations,   \* what is asked for
    MaxAmount     \* bound: prices are 0..MaxAmount

None == "none"

ASSUME FirstAssumption == First \in Plan /\ First \notin Request /\ None \notin Plan \cup Request
ASSUME AmountAssumption == MaxAmount \in Nat \ {0}
\* The endpoints of administrators and those of customers; ensureFreePlan is what
\* a login or a verification calls, assignPlanManually is an administrator's.
Administration == {"create", "update", "updateStatus", "remove"}
Purchasing     == {"createCheckoutSession", "ensureFreePlan", "assignPlanManually"}

ASSUME OperationsAssumption == Operations \subseteq Administration \cup Purchasing

VARIABLES
    plans,       \* the rows
    products,    \* products at Stripe, by the request that had them created
    prices,      \* prices at Stripe, likewise: the amount, None without one
    subs,        \* subscriptions, each with its plan and the amount recorded as paid
    req,         \* what a request was asked for and what it has read
    at,          \* the step it is about to take
    met          \* the requests that were in flight together with it (history)

vars == <<plans, products, prices, subs, req, at, met>>

Amount == 0..MaxAmount
Key    == Request \cup {First}
Field  == {"amount", "stripe", "active"}
Step   == {"new", "product", "price", "write", "archive", "softDelete", "hardDelete",
           "activate", "pay", "verify", "done", "failed"}

PlanRow == [here : BOOLEAN, deleted : BOOLEAN, active : BOOLEAN, stripe : BOOLEAN, amount : Amount,
            product : Key \cup {None}, price : Key \cup {None}]
Call    == [op : Operations \cup {None}, plan : Plan \cup {None}, asks : SUBSET Field,
            active : BOOLEAN, stripe : BOOLEAN, amount : Amount,
            product : Key \cup {None}, price : Key \cup {None}, soft : BOOLEAN,
            trial : BOOLEAN]
Sub     == [by : Key, plan : Plan, amount : Amount]

NoCall  == [op |-> None, plan |-> None, asks |-> {}, active |-> TRUE, stripe |-> FALSE, amount |-> 0,
            product |-> None, price |-> None, soft |-> FALSE, trial |-> FALSE]

InFlight == {o \in Request : at[o] \notin {"new", "done", "failed"}}

Here == {p \in Plan : plans[p].here}

\* One plan, on Stripe with a price or kept by hand, that may have a subscriber.
Init ==
    /\ \E onStripe \in BOOLEAN : \E n \in Amount \ {0} :
          LET key == IF onStripe THEN First ELSE None
          IN  /\ plans = [p \in Plan |-> [here |-> p = First, deleted |-> FALSE, active |-> TRUE, amount |-> n,
                                          stripe |-> onStripe, product |-> key, price |-> key]]
              /\ products = [k \in Key |-> IF k = key THEN "active" ELSE None]
              /\ prices = [k \in Key |-> IF k = key THEN n ELSE 0]
    /\ subs \in {{}, {[by |-> First, plan |-> First, amount |-> plans[First].amount]}}
    /\ req = [o \in Request |-> NoCall]
    /\ at = [o \in Request |-> "new"]
    /\ met = [o \in Request |-> {}]

----------------------------------------------------------------------------
\* Request o comes, asks for what q says and has made its first reads.
Arrive(o, q, step) ==
    /\ at[o] = "new" /\ q.op \in Operations
    /\ at' = [at EXCEPT ![o] = step]
    /\ req' = [req EXCEPT ![o] = q]
    /\ met' = [p \in Request |-> CASE p = o        -> InFlight
                                   [] p \in InFlight -> met[p] \cup {o}
                                   [] OTHER        -> met[p]]
    /\ UNCHANGED <<plans, products, prices, subs>>

Goes(o, step) == at' = [at EXCEPT ![o] = step] /\ UNCHANGED met

\* Stripe or the database refuses, the customer gives up, or the server stops; a paid
\* session is kept by Stripe and can be presented again.
Fail(o) ==
    /\ o \in InFlight /\ at[o] # "verify"
    /\ Goes(o, "failed")
    /\ UNCHANGED <<plans, products, prices, subs, req>>

----------------------------------------------------------------------------
(* Administrators. *)

Fresh == {p \in Plan : ~plans[p].here /\ p # First /\ \A o \in Request : req[o].plan # p}

\* A plan is on Stripe unless the request names another provider, but only a request that
\* names Stripe has its product and price created there.
Create(o) ==
    \E p \in Fresh : \E n \in Amount : \E onStripe, named, on \in BOOLEAN :
        /\ named \/ onStripe
        /\ Arrive(o, [NoCall EXCEPT !.op = "create", !.plan = p, !.asks = Field, !.amount = n,
                                    !.stripe = onStripe, !.active = on],
                  IF onStripe /\ named THEN "product" ELSE "write")

\* Mutant: a price that is there is kept.
NeedsFirstPrice(row, q) == q.amount > 0 /\ row.price = None

\* A plan on Stripe needs a new price when it has none or its amount (or interval, or
\* currency) changes.
NeedsPrice(row, q) == q.amount > 0 /\ (row.price = None \/ ("amount" \in q.asks /\ q.amount # row.amount))

\* A soft-deleted plan can be updated too.
Update(o) ==
    \E p \in Here : \E asks \in SUBSET Field : \E n \in Amount : \E onStripe, on \in BOOLEAN :
        LET row == plans[p]
            q   == [NoCall EXCEPT !.op = "update", !.plan = p, !.asks = asks, !.amount = n, !.stripe = onStripe,
                                  !.active = on, !.product = row.product, !.price = row.price]
        IN  /\ "amount" \notin asks => n = row.amount
            /\ "stripe" \notin asks => onStripe = row.stripe
            /\ "active" \notin asks => on
            /\ Arrive(o, q, IF onStripe /\ row.product = None THEN "product"
                         ELSE IF onStripe /\ NeedsPrice(row, q) THEN "price"
                         ELSE "write")

\* createStripeProduct: a plan without a product has no price either.
CreateStripeProduct(o) ==
    /\ at[o] = "product"
    /\ products' = [products EXCEPT ![o] = "active"]
    /\ req' = [req EXCEPT ![o].product = o]
    /\ Goes(o, IF req[o].amount > 0 THEN "price" ELSE "write")
    /\ UNCHANGED <<plans, prices, subs>>

CreateStripePrice(o) ==
    /\ at[o] = "price"
    /\ prices' = [prices EXCEPT ![o] = req[o].amount]
    /\ req' = [req EXCEPT ![o].price = o]
    /\ Goes(o, "write")
    /\ UNCHANGED <<plans, products, subs>>

\* The row as the request leaves it: product and price are written also when they were only read.
Written(row, q) ==
    [here    |-> TRUE,
     deleted |-> row.deleted,
     active  |-> IF "active" \in q.asks THEN q.active ELSE row.active,
     stripe  |-> IF "stripe" \in q.asks THEN q.stripe ELSE row.stripe,
     amount  |-> IF "amount" \in q.asks THEN q.amount ELSE row.amount,
     product |-> q.product,
     price   |-> q.price]

Write(o) ==
    /\ at[o] = "write"
    /\ LET p == req[o].plan
       IN  /\ plans[p].here \/ req[o].op = "create"
           /\ plans' = [plans EXCEPT ![p] = IF req[o].op = "updateStatus" THEN [@ EXCEPT !.active = req[o].active]
                                            ELSE Written(@, req[o])]
    /\ Goes(o, "done")
    /\ UNCHANGED <<products, prices, subs, req>>

UpdateStatus(o) ==
    \E p \in Here : \E on \in BOOLEAN :
        Arrive(o, [NoCall EXCEPT !.op = "updateStatus", !.plan = p, !.asks = {"active"}, !.active = on], "write")

SubsOf(p) == {s \in subs : s.plan = p}

\* A plan that has subscriptions is only marked as deleted.
Remove(o) ==
    \E p \in Here :
        LET q == [NoCall EXCEPT !.op = "remove", !.plan = p, !.product = plans[p].product,
                                !.soft = SubsOf(p) # {}]
        IN  /\ ~plans[p].deleted
            /\ Arrive(o, q, IF q.product # None THEN "archive"
                         ELSE IF q.soft THEN "softDelete"
                         ELSE "hardDelete")

\* An archiving that fails is only logged.
ArchiveStripeProduct(o) ==
    /\ at[o] = "archive"
    /\ products' \in {products, [products EXCEPT ![req[o].product] = "archived"]}
    /\ Goes(o, IF req[o].soft THEN "softDelete" ELSE "hardDelete")
    /\ UNCHANGED <<plans, prices, subs, req>>

SoftDelete(o) ==
    /\ at[o] = "softDelete"
    /\ plans[req[o].plan].here
    /\ plans' = [plans EXCEPT ![req[o].plan].deleted = TRUE, ![req[o].plan].active = FALSE]
    /\ Goes(o, "done")
    /\ UNCHANGED <<products, prices, subs, req>>

\* The foreign key of a subscription that has come meanwhile refuses.
HardDelete(o) ==
    /\ at[o] = "hardDelete"
    /\ plans[req[o].plan].here
    /\ SubsOf(req[o].plan) = {}
    /\ plans' = [plans EXCEPT ![req[o].plan].here = FALSE]
    /\ Goes(o, "done")
    /\ UNCHANGED <<products, prices, subs, req>>

----------------------------------------------------------------------------
(* Customers. *)

\* What is asked of a plan that is sold: not whether it is deleted.
OnSale == {p \in Here : plans[p].active}

\* A free plan is activated at once, any other opens a session at its amount, which begins
\* with a trial if the plan has trial days then.  Nothing else here reads the trial days and
\* administrators set them at will, so whether there are any is chosen when it is asked.
CreateCheckoutSession(o) ==
    \E p \in OnSale : \E trial \in BOOLEAN :
        /\ trial => plans[p].amount > 0
        /\ Arrive(o, [NoCall EXCEPT !.op = "createCheckoutSession", !.plan = p, !.amount = plans[p].amount,
                                    !.trial = trial],
                  IF plans[p].amount = 0 THEN "activate" ELSE "pay")

EnsureFreePlan(o) ==
    \E p \in OnSale :
        /\ plans[p].amount = 0
        /\ Arrive(o, [NoCall EXCEPT !.op = "ensureFreePlan", !.plan = p], "activate")

AssignPlanManually(o) ==
    \E p \in OnSale : Arrive(o, [NoCall EXCEPT !.op = "assignPlanManually", !.plan = p], "activate")

Subscribe(o, n) ==
    /\ plans[req[o].plan].here
    /\ subs' = subs \cup {[by |-> o, plan |-> req[o].plan, amount |-> n]}
    /\ Goes(o, "done")
    /\ UNCHANGED <<plans, products, prices, req>>

Activate(o) == at[o] = "activate" /\ Subscribe(o, 0)

\* What a session takes from the customer: nothing while it is on trial.
Paid(o) == IF req[o].trial THEN 0 ELSE req[o].amount

Pay(o) ==
    /\ at[o] = "pay"
    /\ Goes(o, "verify")
    /\ UNCHANGED <<plans, products, prices, subs, req>>

\* Mutants: the amount is taken over in cents, as Stripe counts it; a trial is recorded at the price
\* it leads to.
RecordedInCents(o) == 100 * plans[req[o].plan].amount
RecordedAtPrice(o) == plans[req[o].plan].amount

\* What is recorded as paid is what the plan costs by now, and nothing of a session that
\* Stripe reports with no_payment_required, one that began with a trial.
Recorded(o) == IF req[o].trial THEN 0 ELSE plans[req[o].plan].amount

\* The plan is looked up again, deleted or not.
VerifySession(o) == at[o] = "verify" /\ Subscribe(o, Recorded(o))

\* Nothing more can happen: whatever is open is a payment for a plan that is gone.
Terminating == (\A o \in InFlight : at[o] = "verify" /\ ~plans[req[o].plan].here) /\ UNCHANGED vars

Next ==
    \/ \E o \in Request :
          \/ Create(o) \/ Update(o) \/ UpdateStatus(o) \/ Remove(o)
          \/ CreateStripeProduct(o) \/ CreateStripePrice(o) \/ Write(o)
          \/ ArchiveStripeProduct(o) \/ SoftDelete(o) \/ HardDelete(o)
          \/ CreateCheckoutSession(o) \/ EnsureFreePlan(o) \/ AssignPlanManually(o)
          \/ Activate(o) \/ Pay(o) \/ VerifySession(o) \/ Fail(o)
    \/ Terminating

Spec == Init /\ [][Next]_vars

----------------------------------------------------------------------------
\* Rows keep their form, and no subscription outlives its plan, however a purchase and
\* a removal that counted none overlap.
TypeOK ==
    /\ plans \in [Plan -> PlanRow]
    /\ products \in [Key -> {None, "active", "archived"}]
    /\ prices \in [Key -> Amount]
    /\ subs \subseteq Sub
    /\ req \in [Request -> Call]
    /\ at \in [Request -> Step]
    /\ met \in [Request -> SUBSET Request]
    /\ \A s \in subs : plans[s.plan].here

Updates(p) == {o \in Request : req[o].op = "update" /\ req[o].plan = p}

\* A price a plan has at Stripe is the plan's, unless two updates overlapped, so that one wrote
\* back the price the other had replaced, or the plan was updated while it was off Stripe.
OnlyDriftMisprices ==
    \A p \in Here :
        \/ ~plans[p].stripe \/ plans[p].amount = 0 \/ plans[p].price = None
        \/ prices[plans[p].price] = plans[p].amount
        \/ \E o \in Updates(p) : met[o] \cap Updates(p) # {} \/ ~req[o].stripe

\* What is recorded of a purchase differs from what was paid only when it was no trial and the
\* plan was given another price while it was open.
OnlyRepricingMisrecords ==
    \A s \in subs : s.by # First /\ req[s.by].op = "createCheckoutSession" =>
        \/ s.amount = Paid(s.by)
        \/ /\ ~req[s.by].trial
           /\ \E o \in met[s.by] : o \in Updates(s.plan) /\ "amount" \in req[o].asks

==============================================================================
