------------------------------ MODULE ShelfProofs ------------------------------
(* Proofs about Shelf for any rows, orders and requests: orders stay orders whatever
   overlaps, requests that come one at a time implement Ranking, and one that is on its
   own never runs into the unique column.

   A loop of UPDATEs is followed by saying, for every row, where the request will
   leave it (Target): a row that is still to be written has its target in the plan,
   any other row stands there already.                                       *)
EXTENDS Shelf, TLAPS

\* Which steps a kind of request passes through.
StepsOf(op) ==
    CASE op = "create"  -> {"write"}
      [] op = "update"  -> {"hide", "shift", "write"}
      [] op = "remove"  -> {"delete", "shift", "write"}
      [] op = "reorder" -> {"write", "assign"}
      [] OTHER          -> {}

Shape ==
    /\ DOMAIN pend = Request /\ DOMAIN req = Request /\ DOMAIN plan = Request
    /\ DOMAIN at = Request /\ DOMAIN met = Request

\* What a request has been asked for.
Asked(o) ==
    /\ o \in InFlight => at[o] \in StepsOf(req[o].op)
    /\ at[o] = "new" => req[o].op = None
    /\ o \in InFlight /\ req[o].op # "reorder" => req[o].item \in Item
    /\ req[o].was \in Nat /\ req[o].to \in Nat
    /\ \A p \in DOMAIN req[o].list : p \in Item /\ req[o].list[p] \in Nat

\* What it has written and what its loop has still to write: orders, but for the rows it hides.
Written(o) ==
    /\ DOMAIN pend[o] \cup DOMAIN plan[o] \subseteq Item
    /\ \A p \in DOMAIN pend[o] : pend[o][p] \in Int
    /\ \A p \in DOMAIN plan[o] : plan[o][p] \in Int
    /\ o \notin InFlight \/ at[o] \in {"hide", "delete"} => DOMAIN pend[o] = {} /\ DOMAIN plan[o] = {}
    /\ at[o] = "shift" => DOMAIN plan[o] = {}
    /\ o \in InFlight /\ req[o].op # "reorder" =>
          /\ \A p \in DOMAIN plan[o] : plan[o][p] \in Nat
          /\ \A p \in DOMAIN pend[o] : pend[o][p] \in Nat \/ (req[o].op = "update" /\ p = req[o].item)
    /\ o \in InFlight /\ req[o].op = "update" /\ req[o].to = 0 =>
          at[o] = "write" /\ DOMAIN pend[o] = {} /\ DOMAIN plan[o] = {}
    /\ req[o].op = "reorder" /\ at[o] = "write" => DOMAIN pend[o] \cup DOMAIN plan[o] \subseteq DOMAIN req[o].list
    /\ at[o] = "assign" =>
          /\ \A p \in DOMAIN plan[o] : plan[o][p] \in Nat
          /\ \A p \in DOMAIN pend[o] : pend[o][p] \in Nat \/ p \in DOMAIN plan[o]

\* Two requests in flight know of each other, and who has not come knows nobody.
Mutual ==
    /\ \A o, x \in InFlight : o # x => x \in met[o]
    /\ \A o \in Request : at[o] = "new" => met[o] = {}

\* Where a request on its own will leave row q.
Target(o, q) ==
    IF req[o].op = "create" THEN IF order[q] >= req[o].to THEN order[q] + 1 ELSE order[q]
    ELSE IF req[o].op = "remove" THEN IF order[q] > req[o].was THEN order[q] - 1 ELSE order[q]
    ELSE IF req[o].to = 0 THEN order[q]
    ELSE IF req[o].to <= order[q] /\ order[q] < req[o].was THEN order[q] + 1
    ELSE IF req[o].was < order[q] /\ order[q] <= req[o].to THEN order[q] - 1
    ELSE order[q]

\* A request on its own finds its row where it has read it...
AtItsPlace(o) ==
    IF req[o].op = "create" THEN order[req[o].item] = Absent /\ req[o].to # 0
    ELSE order[req[o].item] = req[o].was /\ req[o].was # Absent

\* ...and has moved every other row to its target, or is going to.
OnTheWay(o) ==
    /\ at[o] \in {"hide", "shift"} /\ req[o].op = "update" => req[o].to # req[o].was
    /\ at[o] = "shift" =>
          /\ DOMAIN pend[o] = {req[o].item}
          /\ pend[o][req[o].item] = IF req[o].op = "remove" THEN Absent ELSE -req[o].was
    /\ at[o] = "write" =>
          /\ req[o].item \notin DOMAIN plan[o]
          /\ req[o].op = "create" => req[o].item \notin DOMAIN pend[o]
          /\ req[o].op = "remove" => req[o].item \in DOMAIN pend[o] /\ pend[o][req[o].item] = Absent
          /\ \A q \in Item : q # req[o].item =>
                IF q \in DOMAIN plan[o] THEN q \notin DOMAIN pend[o] /\ plan[o][q] = Target(o, q)
                ELSE Seen(o)[q] = Target(o, q)
          /\ req[o].op = "remove" => \A q \in DOMAIN plan[o] : order[q] > req[o].was
          /\ \A q \in DOMAIN plan[o] : order[q] # Absent
          /\ req[o].op = "update" =>
                IF req[o].to \in {0, req[o].was} THEN DOMAIN plan[o] = {} /\ DOMAIN pend[o] = {}
                ELSE req[o].item \in DOMAIN pend[o] /\ pend[o][req[o].item] = -req[o].was

NoTies == \A p, q \in Item : order[p] = order[q] /\ order[p] # Absent => p = q

\* o has been on its own so far, and moves rows by what it has read.
Lone(o) == met[o] = {} /\ req[o].op # "reorder"

Arranged ==
    /\ Calm => NoTies
    /\ \A o \in InFlight : Lone(o) => AtItsPlace(o) /\ OnTheWay(o)

\* What one transaction has written of a unique column no other holds, wrote or may fall back on.
Apart(o, x) ==
    \A p \in DOMAIN pend[o], q \in DOMAIN pend[x] :
        pend[o][p] = Absent \/ (pend[o][p] # pend[x][q] /\ pend[o][p] # order[q])

\* No transaction sees two rows at one place.
SeesNoTies(o) ==
    \A p, q \in Item : p # q /\ Seen(o)[p] = Seen(o)[q] => Seen(o)[p] = Absent

Separate ==
    /\ \A o, x \in Request : o # x => DOMAIN pend[o] \cap DOMAIN pend[x] = {}
    /\ Unique =>
          /\ NoTies
          /\ \A o \in Request : SeesNoTies(o)
          /\ \A o, x \in Request : o # x => Apart(o, x)

\* What was asked for is there to be asked of this table.
Offered == \A o \in InFlight : req[o].op \in Endpoints(table)

IInv ==
    /\ TypeOK
    /\ Shape
    /\ \A o \in Request : Asked(o) /\ Written(o)
    /\ Offered
    /\ Mutual
    /\ Arranged
    /\ Separate

----------------------------------------------------------------------------
(* What a request finds when it comes, and what its steps leave to the others. *)

\* q and its loop f, as the endpoints make them of the committed orders.
Sound(q, f, step) ==
    /\ step \in StepsOf(q.op)
    /\ q.op # "reorder" => q.item \in Item
    /\ q.was \in Nat /\ q.to \in Nat
    /\ \A p \in DOMAIN q.list : p \in Item /\ q.list[p] \in Nat
    /\ DOMAIN f \subseteq Item
    /\ \A p \in DOMAIN f : f[p] \in Int /\ (q.op # "reorder" => f[p] \in Nat)
    /\ q.op = "reorder" => DOMAIN f \subseteq DOMAIN q.list
    /\ q.op \in {"update", "remove"} => DOMAIN f = {} /\ q.was = order[q.item] /\ q.was # Absent
    /\ q.op = "update" => (step = "write" <=> q.to \in {0, q.was}) /\ step # "shift"
    /\ q.op = "remove" => step = "delete"
    /\ q.op = "reorder" => step = "write"
    /\ q.op = "create" =>
          /\ order[q.item] = Absent /\ q.to # 0
          /\ \A p \in Item : IF p \in DOMAIN f THEN q.to <= order[p] /\ f[p] = order[p] + 1
                                              ELSE ~(q.to <= order[p])

Arrival(o) == \E q, f, step : Arrive(o, q, f, step) /\ Sound(q, f, step)

LEMMA CreateArrives ==
    ASSUME TypeOK, NEW o \in Request, CreateAt(o) \/ CreateLast(o)
    PROVE  Arrival(o)
<1>1. CASE CreateAt(o)
  <2>1. PICK p \in Fresh, to \in 1..MaxTarget :
          Arrive(o, [NoCall EXCEPT !.op = "create", !.item = p, !.to = to], Room(order, to), "write")
    BY <1>1 DEF CreateAt
  <2> DEFINE q == [NoCall EXCEPT !.op = "create", !.item = p, !.to = to]
  <2>2. /\ q.op = "create" /\ q.item = p /\ q.to = to /\ q.was = 0 /\ q.list = Nothing
        /\ DOMAIN q.list = {}
    BY DEF NoCall, Nothing, Absent
  <2>3. p \in Item /\ order[p] = Absent /\ to \in Nat /\ to # 0 BY BoundAssumption DEF Fresh
  <2>4. /\ DOMAIN Room(order, to) = {x \in Item : order[x] >= to}
        /\ \A x \in DOMAIN Room(order, to) : Room(order, to)[x] = order[x] + 1 /\ order[x] \in Nat
    BY DEF Room, TypeOK
  <2>5. Sound(q, Room(order, to), "write")
    <3> HIDE DEF q
    <3> QED BY <2>2, <2>3, <2>4 DEF Sound, StepsOf, TypeOK
  <2> QED BY <2>1, <2>5 DEF Arrival
<1>2. CASE CreateLast(o)
  <2>1. PICK p \in Fresh, n \in Last :
          Arrive(o, [NoCall EXCEPT !.op = "create", !.item = p, !.to = n + 1], Nothing, "write")
    BY <1>2 DEF CreateLast
  <2> DEFINE q == [NoCall EXCEPT !.op = "create", !.item = p, !.to = n + 1]
  <2>2. /\ q.op = "create" /\ q.item = p /\ q.to = n + 1 /\ q.was = 0 /\ q.list = Nothing
        /\ DOMAIN q.list = {} /\ DOMAIN Nothing = {}
    BY DEF NoCall, Nothing, Absent
  <2>3. p \in Item /\ order[p] = Absent BY DEF Fresh
  <2>4. n \in Nat /\ \A x \in Item : order[x] <= n BY DEF Last, TypeOK, Absent
  <2>5. Sound(q, Nothing, "write")
    <3> HIDE DEF q
    <3> QED BY <2>2, <2>3, <2>4 DEF Sound, StepsOf, TypeOK
  <2> QED BY <2>1, <2>5 DEF Arrival
<1> QED BY <1>1, <1>2

LEMMA OthersArrive ==
    ASSUME TypeOK, NEW o \in Request, Update(o) \/ Remove(o) \/ Reorder(o)
    PROVE  Arrival(o)
<1>1. CASE Update(o)
  <2>1. PICK p \in Item, to \in 0..MaxTarget :
          /\ order[p] # Absent
          /\ Arrive(o, [NoCall EXCEPT !.op = "update", !.item = p, !.was = order[p], !.to = to],
                    Nothing, IF to \in {0, order[p]} THEN "write" ELSE "hide")
    BY <1>1 DEF Update
  <2> DEFINE q    == [NoCall EXCEPT !.op = "update", !.item = p, !.was = order[p], !.to = to]
             step == IF to \in {0, order[p]} THEN "write" ELSE "hide"
  <2>2. /\ q.op = "update" /\ q.item = p /\ q.to = to /\ q.was = order[p] /\ DOMAIN q.list = {}
        /\ DOMAIN Nothing = {}
    BY DEF NoCall, Nothing
  <2>3. to \in Nat /\ order[p] \in Nat BY BoundAssumption DEF TypeOK
  <2>4. Sound(q, Nothing, step)
    <3>1. step \in {"hide", "write"} /\ (step = "write" <=> to \in {0, order[p]}) OBVIOUS
    <3> HIDE DEF q, step
    <3> QED BY <2>1, <2>2, <2>3, <3>1 DEF Sound, StepsOf
  <2> QED BY <2>1, <2>4 DEF Arrival
<1>2. CASE Remove(o)
  <2>1. PICK p \in Item :
          /\ order[p] # Absent
          /\ Arrive(o, [NoCall EXCEPT !.op = "remove", !.item = p, !.was = order[p]], Nothing, "delete")
    BY <1>2 DEF Remove
  <2> DEFINE q == [NoCall EXCEPT !.op = "remove", !.item = p, !.was = order[p]]
  <2>2. /\ q.op = "remove" /\ q.item = p /\ q.to = 0 /\ q.was = order[p] /\ DOMAIN q.list = {}
        /\ DOMAIN Nothing = {}
    BY DEF NoCall, Nothing, Absent
  <2>3. order[p] \in Nat BY DEF TypeOK
  <2>4. Sound(q, Nothing, "delete")
    <3> HIDE DEF q
    <3> QED BY <2>1, <2>2, <2>3 DEF Sound, StepsOf
  <2> QED BY <2>1, <2>4 DEF Arrival
<1>3. CASE Reorder(o)
  <2>0. PICK S \in SUBSET {p \in Item : order[p] # Absent} : \E list \in [S -> 1..MaxTarget] :
          Arrive(o, [NoCall EXCEPT !.op = "reorder", !.list = list], [p \in S |-> -1], "write")
    BY <1>3 DEF Reorder
  <2>1. PICK list \in [S -> 1..MaxTarget] :
          Arrive(o, [NoCall EXCEPT !.op = "reorder", !.list = list], [p \in S |-> -1], "write")
    BY <2>0
  <2> DEFINE q == [NoCall EXCEPT !.op = "reorder", !.list = list]
             f == [p \in S |-> -1]
  <2>2. q.op = "reorder" /\ q.to = 0 /\ q.was = 0 /\ q.list = list BY DEF NoCall, Absent
  <2>3. S \subseteq Item /\ DOMAIN list = S /\ \A p \in S : list[p] \in Nat BY BoundAssumption
  <2>4. DOMAIN f = S /\ \A p \in S : f[p] \in Int OBVIOUS
  <2>5. Sound(q, f, "write")
    <3> HIDE DEF q, f
    <3> QED BY <2>2, <2>3, <2>4 DEF Sound, StepsOf
  <2> QED BY <2>1, <2>5 DEF Arrival
<1> QED BY <1>1, <1>2, <1>3

\* The steps of a transaction, and its end.
Inner(o) == \/ Hide(o) \/ Delete(o) \/ Shift(o) \/ WriteNext(o) \/ DecrementAll(o)
            \/ AssignOrders(o) \/ AssignNext(o)

Outer(o) == Save(o) \/ Finish(o) \/ Fail(o)

LEMMA StepKinds ==
    ASSUME TypeOK, [Next]_vars
    PROVE  (\E o \in Request : Arrival(o) \/ Inner(o) \/ Outer(o)) \/ UNCHANGED vars
<1>1. ASSUME NEW o \in Request, CreateAt(o) \/ CreateLast(o) \/ Update(o) \/ Remove(o) \/ Reorder(o)
      PROVE  Arrival(o)
  BY <1>1, CreateArrives, OthersArrive
<1> QED BY <1>1 DEF Next, Terminating, Inner, Outer

Same(x) == pend'[x] = pend[x] /\ req'[x] = req[x] /\ plan'[x] = plan[x] /\ at'[x] = at[x]

LEMMA ArrivalFrame ==
    ASSUME Shape, NEW o \in Request, NEW q, NEW f, NEW step, Arrive(o, q, f, step), Sound(q, f, step)
    PROVE  /\ Shape' /\ UNCHANGED <<table, order, pend>>
           /\ at[o] = "new" /\ at'[o] = step /\ step \notin {"new", "done", "failed"}
           /\ req'[o] = q /\ plan'[o] = f
           /\ \A x \in Request \ {o} : Same(x) /\ met[x] \subseteq met'[x]
                                      /\ IF x \in InFlight THEN o \in met'[x] ELSE met'[x] = met[x]
           /\ met'[o] = InFlight /\ InFlight' = InFlight \cup {o} /\ o \notin InFlight
           /\ q.op \in Operations
<1>1. step \notin {"new", "done", "failed"} BY DEF Sound, StepsOf
<1>2. o \notin InFlight /\ at[o] = "new" BY DEF Arrive, InFlight
<1>3. Shape' /\ UNCHANGED <<table, order, pend>> BY DEF Arrive, Shape
<1>4. at'[o] = step /\ req'[o] = q /\ plan'[o] = f /\ \A x \in Request \ {o} : Same(x)
  BY DEF Arrive, Shape, Same
<1>5. /\ met'[o] = InFlight
      /\ \A x \in Request \ {o} : /\ met[x] \subseteq met'[x]
                                   /\ IF x \in InFlight THEN o \in met'[x] ELSE met'[x] = met[x]
  BY <1>2 DEF Arrive
<1>6. InFlight' = InFlight \cup {o} BY <1>1, <1>4 DEF InFlight, Same
<1> QED BY <1>1, <1>2, <1>3, <1>4, <1>5, <1>6 DEF Arrive

LEMMA InnerFrame ==
    ASSUME Shape, NEW o \in Request, Inner(o)
    PROVE  /\ Shape' /\ UNCHANGED <<table, order, req, met>> /\ o \in InFlight
           /\ \A x \in Request \ {o} : Same(x)
           /\ InFlight' = InFlight
<1>1. CASE Hide(o) BY <1>1 DEF Hide, Write, Goes, Shape, Same, InFlight
<1>2. CASE Delete(o) BY <1>2 DEF Delete, Goes, Shape, Same, InFlight
<1>3. CASE Shift(o) BY <1>3 DEF Shift, Goes, Shape, Same, InFlight
<1>4. CASE WriteNext(o) BY <1>4 DEF WriteNext, Write, Shape, Same, InFlight
<1>5. CASE DecrementAll(o) BY <1>5 DEF DecrementAll, Shape, Same, InFlight
<1>6. CASE AssignOrders(o) BY <1>6 DEF AssignOrders, Goes, Shape, Same, InFlight
<1>7. CASE AssignNext(o) BY <1>7 DEF AssignNext, Write, Shape, Same, InFlight
<1> QED BY <1>1, <1>2, <1>3, <1>4, <1>5, <1>6, <1>7 DEF Inner

LEMMA LeaveFrame ==
    ASSUME Shape, NEW o \in Request, Outer(o)
    PROVE  /\ Shape' /\ UNCHANGED <<table, met>> /\ o \in InFlight
           /\ \A x \in Request \ {o} : Same(x)
           /\ at'[o] \in {"done", "failed"} /\ pend'[o] = Nothing /\ plan'[o] = Nothing
           /\ req'[o] = [NoCall EXCEPT !.op = req[o].op, !.item = req[o].item]
           /\ InFlight' = InFlight \ {o}
<1>1. PICK step \in {"done", "failed"} : Leave(o, step) BY DEF Outer, Save, Finish, Fail, Commit
<1>2. o \in InFlight BY DEF Outer, Save, Finish, Fail, InFlight
<1>3. at' = [at EXCEPT ![o] = step] /\ Shape' BY <1>1 DEF Leave, Goes, Shape
<1>4. InFlight' = InFlight \ {o} BY <1>3 DEF InFlight, Shape
<1> QED BY <1>1, <1>2, <1>3, <1>4 DEF Leave, Shape, Same

----------------------------------------------------------------------------
(* What holds of every request, whatever overlaps it. *)

LEMMA OthersKeep ==
    ASSUME NEW x \in Request, Same(x), Asked(x), Written(x)
    PROVE  Asked(x)' /\ Written(x)'
BY DEF Same, Asked, Written, InFlight

LEMMA AskedStays ==
    ASSUME TypeOK, Shape, NEW o \in Request, Asked(o), Written(o), Arrival(o) \/ Inner(o) \/ Outer(o)
    PROVE  Asked(o)'
<1>1. CASE Arrival(o)
  <2>1. PICK q, f, step : Arrive(o, q, f, step) /\ Sound(q, f, step) BY <1>1 DEF Arrival
  <2>2. at'[o] = step /\ req'[o] = q /\ step # "new" BY <2>1, ArrivalFrame
  <2> QED BY <2>1, <2>2 DEF Asked, Sound
<1>2. CASE Inner(o)
  <2>1. req' = req /\ o \in InFlight /\ o \in InFlight' BY <1>2, InnerFrame
  <2>2. at'[o] \in StepsOf(req[o].op) /\ at'[o] # "new"
    <3>0. at[o] \in StepsOf(req[o].op) BY <2>1 DEF Asked
    <3>1. CASE Hide(o) BY <3>0, <3>1 DEF Hide, Goes, Shape, StepsOf
    <3>2. CASE Delete(o) BY <3>0, <3>2 DEF Delete, Goes, Shape, StepsOf
    <3>3. CASE Shift(o) BY <3>0, <3>3 DEF Shift, Goes, Shape, StepsOf
    <3>4. CASE WriteNext(o) \/ DecrementAll(o) \/ AssignNext(o)
      BY <3>0, <3>4 DEF WriteNext, DecrementAll, AssignNext, Shape, StepsOf
    <3>5. CASE AssignOrders(o) BY <3>0, <3>5 DEF AssignOrders, Goes, Shape, StepsOf
    <3> QED BY <1>2, <3>1, <3>2, <3>3, <3>4, <3>5 DEF Inner
  <2> QED BY <2>1, <2>2 DEF Asked
<1>3. CASE Outer(o)
  <2>1. /\ at'[o] \in {"done", "failed"} /\ o \notin InFlight'
        /\ req'[o] = [NoCall EXCEPT !.op = req[o].op, !.item = req[o].item]
    BY <1>3, LeaveFrame
  <2>2. req'[o].was = 0 /\ req'[o].to = 0 /\ DOMAIN req'[o].list = {}
    BY <2>1 DEF NoCall, Nothing, Absent
  <2> QED BY <2>1, <2>2 DEF Asked
<1> QED BY <1>1, <1>2, <1>3

\* What a transaction sees of a row.
LEMMA SeenIs ==
    ASSUME NEW o, NEW p \in Item
    PROVE  Seen(o)[p] = IF p \in DOMAIN pend[o] THEN pend[o][p] ELSE order[p]
BY DEF Seen

\* The two steps that write a planned value.
LEMMA NextWrite ==
    ASSUME TypeOK, Shape, NEW o \in Request, WriteNext(o) \/ AssignNext(o)
    PROVE  \E p \in DOMAIN plan[o] :
              /\ pend'[o] = With(pend[o], p, plan[o][p]) /\ plan'[o] = Without(plan[o], p)
              /\ at' = at /\ req' = req /\ order' = order
<1>1. CASE WriteNext(o)
  <2>1. PICK p \in Due(o) : Write(o, p, plan[o][p]) /\ plan' = [plan EXCEPT ![o] = Without(@, p)]
    BY <1>1 DEF WriteNext
  <2>2. p \in DOMAIN plan[o] BY DEF Due
  <2> QED BY <1>1, <2>1, <2>2 DEF WriteNext, Write, Shape
<1>2. CASE AssignNext(o)
  BY <1>2 DEF AssignNext, Write, Shape
<1> QED BY <1>1, <1>2

LEMMA WrittenStays ==
    ASSUME TypeOK, Shape, NEW o \in Request, Asked(o), Written(o), Arrival(o) \/ Inner(o) \/ Outer(o)
    PROVE  Written(o)'
<1>1. CASE Arrival(o)
  <2>1. PICK q, f, step : Arrive(o, q, f, step) /\ Sound(q, f, step) BY <1>1 DEF Arrival
  <2>2. /\ at[o] = "new" /\ at'[o] = step /\ req'[o] = q /\ plan'[o] = f /\ pend' = pend
        /\ o \in InFlight' /\ o \notin InFlight
    BY <2>1, ArrivalFrame
  <2>3. DOMAIN pend[o] = {} BY <2>2 DEF Written
  <2>4. q.op \in {"update", "remove"} \/ (q.op \in {"create", "reorder"} /\ step = "write")
    BY <2>1 DEF Sound, StepsOf
  <2>5. step \notin {"shift", "assign"} BY <2>1 DEF Sound, StepsOf
  <2> QED BY <2>1, <2>2, <2>3, <2>4, <2>5 DEF Sound, Written
<1>2. CASE Inner(o)
  <2>0. /\ o \in InFlight /\ o \in InFlight' /\ req' = req /\ order' = order
        /\ at[o] \in StepsOf(req[o].op)
    BY <1>2, InnerFrame DEF Asked
  <2>1. CASE Hide(o)
    <3>1. /\ at[o] = "hide" /\ at'[o] = "shift" /\ plan' = plan
          /\ pend'[o] = With(pend[o], req[o].item, -req[o].was)
      BY <2>1 DEF Hide, Write, Goes, Shape
    <3>2. req[o].op = "update" /\ req[o].item \in Item /\ -req[o].was \in Int
      BY <2>0, <3>1 DEF StepsOf, Asked
    <3>3. DOMAIN pend[o] = {} /\ DOMAIN plan[o] = {} /\ req[o].to # 0
      BY <2>0, <3>1, <3>2 DEF Written
    <3>4. DOMAIN pend'[o] = {req[o].item} /\ pend'[o][req[o].item] = -req[o].was
      BY <3>1, <3>3 DEF With
    <3> QED BY <2>0, <3>1, <3>2, <3>3, <3>4 DEF Written
  <2>2. CASE Delete(o)
    <3>1. /\ at[o] = "delete" /\ at'[o] = "shift" /\ plan' = plan
          /\ pend'[o] = With(pend[o], req[o].item, Absent)
      BY <2>2 DEF Delete, Goes, Shape
    <3>2. req[o].op = "remove" /\ req[o].item \in Item
      BY <2>0, <3>1 DEF StepsOf, Asked
    <3>3. DOMAIN pend[o] = {} /\ DOMAIN plan[o] = {} BY <2>0, <3>1 DEF Written
    <3>4. DOMAIN pend'[o] = {req[o].item} /\ pend'[o][req[o].item] = 0
      BY <3>1, <3>3 DEF With, Absent
    <3> QED BY <2>0, <3>1, <3>2, <3>3, <3>4 DEF Written
  <2>3. CASE Shift(o)
    <3>1. /\ at[o] = "shift" /\ at'[o] = "write" /\ pend' = pend
          /\ plan'[o] = IF req[o].op = "remove" THEN Closed(Seen(o), req[o].was)
                        ELSE Passed(Seen(o), req[o].was, req[o].to)
      BY <2>3 DEF Shift, Goes, Shape
    <3>2. req[o].op \in {"update", "remove"} /\ req[o].was \in Nat /\ req[o].to \in Nat
      BY <2>0, <3>1 DEF StepsOf, Asked
    <3>3. \A p \in Item : Seen(o)[p] \in Int BY SeenIs DEF TypeOK, Written
    <3>4. DOMAIN plan'[o] \subseteq Item /\ \A p \in DOMAIN plan'[o] : plan'[o][p] \in Nat
      <4>1. CASE req[o].op = "remove" BY <3>1, <3>2, <3>3, <4>1 DEF Closed
      <4>2. CASE req[o].op # "remove" /\ req[o].to < req[o].was
        <5>1. plan'[o] = [p \in {q \in Item : Seen(o)[q] \in req[o].to..(req[o].was - 1)} |-> Seen(o)[p] + 1]
          BY <3>1, <4>2 DEF Passed
        <5> QED BY <3>2, <3>3, <5>1
      <4>3. CASE req[o].op # "remove" /\ ~(req[o].to < req[o].was)
        <5>1. plan'[o] = [p \in {q \in Item : Seen(o)[q] \in (req[o].was + 1)..req[o].to} |-> Seen(o)[p] - 1]
          BY <3>1, <4>3 DEF Passed
        <5> QED BY <3>2, <3>3, <5>1
      <4> QED BY <4>1, <4>2, <4>3
    <3>5. ~(req[o].op = "update" /\ req[o].to = 0) BY <2>0, <3>1 DEF Written
    <3> QED BY <2>0, <3>1, <3>2, <3>4, <3>5 DEF Written
  <2>4. CASE WriteNext(o) \/ AssignNext(o)
    <3>1. PICK p \in DOMAIN plan[o] :
            /\ pend'[o] = With(pend[o], p, plan[o][p]) /\ plan'[o] = Without(plan[o], p)
            /\ at' = at /\ req' = req /\ order' = order
      BY <2>4, NextWrite
    <3>2. /\ DOMAIN pend'[o] = DOMAIN pend[o] \cup {p} /\ pend'[o][p] = plan[o][p]
          /\ \A x \in DOMAIN pend[o] : x # p => pend'[o][x] = pend[o][x]
      BY <3>1 DEF With
    <3>3. /\ DOMAIN plan'[o] = DOMAIN plan[o] \ {p}
          /\ \A x \in DOMAIN plan[o] : x # p => plan'[o][x] = plan[o][x]
      BY <3>1 DEF Without
    <3>4. at[o] \in {"write", "assign"} BY <2>4 DEF WriteNext, AssignNext
    <3> QED BY <2>0, <3>1, <3>2, <3>3, <3>4 DEF Written
  <2>5. CASE DecrementAll(o)
    <3> DEFINE behind == {p \in DOMAIN plan[o] : Seen(o)[p] > req[o].was}
    <3>1. /\ pend'[o] = [p \in DOMAIN pend[o] \cup behind |-> IF p \in behind THEN Seen(o)[p] - 1 ELSE pend[o][p]]
          /\ plan'[o] = Nothing /\ at' = at /\ req[o].op = "remove" /\ at[o] = "write"
      BY <2>5 DEF DecrementAll, AtOnce, Shape
    <3>2. DOMAIN plan'[o] = {} BY <3>1 DEF Nothing
    <3>3. \A p \in Item : Seen(o)[p] \in Int BY SeenIs DEF TypeOK, Written
    <3>4. req[o].was \in Nat /\ behind \subseteq Item BY DEF Asked, Written
    <3>5. \A p \in behind : Seen(o)[p] - 1 \in Nat BY <3>3, <3>4
    <3>6. /\ DOMAIN pend'[o] = DOMAIN pend[o] \cup behind
          /\ \A p \in DOMAIN pend'[o] : pend'[o][p] \in Nat
      <4>1. \A p \in DOMAIN pend[o] : pend[o][p] \in Nat BY <2>0, <3>1 DEF Written
      <4> HIDE DEF behind
      <4> QED BY <3>1, <3>5, <4>1
    <3>7. DOMAIN pend'[o] \subseteq Item /\ req[o].op # "update" /\ req[o].op # "reorder"
      BY <3>1, <3>4, <3>6 DEF Written
    <3>8. at'[o] = "write" /\ DOMAIN plan'[o] = {} BY <3>1, <3>2
    <3> HIDE DEF behind
    <3> QED BY <2>0, <3>6, <3>7, <3>8 DEF Written
  <2>6. CASE AssignOrders(o)
    <3>1. at[o] = "write" /\ req[o].op = "reorder" /\ plan'[o] = req[o].list /\ at'[o] = "assign" /\ pend' = pend
      BY <2>6 DEF AssignOrders, Goes, Shape
    <3> QED BY <2>0, <3>1 DEF Written, Asked
  <2> QED BY <1>2, <2>1, <2>2, <2>3, <2>4, <2>5, <2>6 DEF Inner
<1>3. CASE Outer(o)
  <2>1. /\ at'[o] \in {"done", "failed"} /\ o \notin InFlight'
        /\ pend'[o] = Nothing /\ plan'[o] = Nothing
    BY <1>3, LeaveFrame
  <2>2. DOMAIN pend'[o] = {} /\ DOMAIN plan'[o] = {} BY <2>1 DEF Nothing
  <2> QED BY <2>1, <2>2 DEF Written
<1> QED BY <1>1, <1>2, <1>3

\* What a commit makes of the table.
LEMMA Committed ==
    ASSUME TypeOK, Shape, NEW o \in Request, Asked(o), Written(o), Outer(o), order' # order
    PROVE  /\ DOMAIN plan[o] = {} /\ o \in InFlight
           /\ \/ /\ at[o] = "write" /\ req[o].op \in {"create", "update"} /\ req[o].item \in Item
                 /\ order' = [q \in Item |-> IF q = req[o].item THEN Kept(o) ELSE Seen(o)[q]]
              \/ /\ (at[o] = "write" /\ req[o].op = "remove") \/ at[o] = "assign"
                 /\ order' = Seen(o)
<1>1. CASE Save(o)
  <2>1. /\ at[o] = "write" /\ DOMAIN plan[o] = {} /\ req[o].op \in {"create", "update"}
        /\ order' = [Seen(o) EXCEPT ![req[o].item] = Kept(o)]
    BY <1>1 DEF Save, Commit
  <2>2. o \in InFlight BY <2>1 DEF InFlight
  <2>3. req[o].item \in Item BY <2>1, <2>2 DEF Asked
  <2>4. DOMAIN Seen(o) = Item BY DEF Seen
  <2>5. order' = [q \in Item |-> IF q = req[o].item THEN Kept(o) ELSE Seen(o)[q]] BY <2>1, <2>4
  <2> QED BY <2>1, <2>2, <2>3, <2>5
<1>2. CASE Finish(o) BY <1>2 DEF Finish, Commit, InFlight
<1>3. CASE Fail(o) BY <1>3 DEF Fail
<1> QED BY <1>1, <1>2, <1>3 DEF Outer

LEMMA TypesStay ==
    ASSUME TypeOK, Shape, NEW o \in Request, Asked(o), Written(o), Arrival(o) \/ Inner(o) \/ Outer(o)
    PROVE  TypeOK'
<1>0. Asked(o)' /\ Written(o)' BY AskedStays, WrittenStays
<1>1. table' = table /\ o \in Request /\ \A x \in Request \ {o} : Same(x)
  BY ArrivalFrame, InnerFrame, LeaveFrame DEF Arrival
<1>2. order' \in [Item -> Nat]
  <2>1. CASE order' = order BY <2>1 DEF TypeOK
  <2>2. CASE order' # order
    <3>1. Outer(o) BY <2>2, ArrivalFrame, InnerFrame DEF Arrival
    <3>2. DOMAIN plan[o] = {} /\ o \in InFlight BY <2>2, <3>1, Committed
    <3>3. CASE /\ at[o] = "write" /\ req[o].op \in {"create", "update"} /\ req[o].item \in Item
               /\ order' = [q \in Item |-> IF q = req[o].item THEN Kept(o) ELSE Seen(o)[q]]
      <4>1. \A q \in Item : q # req[o].item => Seen(o)[q] \in Nat
        BY <3>2, <3>3, SeenIs DEF Written, TypeOK
      <4>2. Kept(o) \in Nat
        <5>1. CASE req[o].to = 0 /\ ~Unique
          <6>1. Seen(o)[req[o].item] \in Nat BY <3>2, <3>3, <5>1, SeenIs DEF Written, TypeOK
          <6> QED BY <5>1, <6>1 DEF Kept
        <5>2. CASE ~(req[o].to = 0 /\ ~Unique) BY <5>2 DEF Kept, Asked
        <5> QED BY <5>1, <5>2
      <4> QED BY <3>3, <4>1, <4>2
    <3>4. CASE /\ (at[o] = "write" /\ req[o].op = "remove") \/ at[o] = "assign"
               /\ order' = Seen(o)
      <4>1. \A p \in DOMAIN pend[o] : pend[o][p] \in Nat BY <3>2, <3>4 DEF Written
      <4>2. \A q \in Item : Seen(o)[q] \in Nat BY <4>1, SeenIs DEF TypeOK
      <4>3. order' = [q \in Item |-> Seen(o)[q]] BY <3>4 DEF Seen
      <4> QED BY <4>2, <4>3
    <3> QED BY <2>2, <3>1, <3>3, <3>4, Committed
  <2> QED BY <2>1, <2>2
<1>3. ASSUME NEW x \in Request
      PROVE  /\ at'[x] \in {"new", "hide", "delete", "shift", "write", "assign", "done", "failed"}
             /\ DOMAIN pend'[x] \cup DOMAIN plan'[x] \subseteq Item
             /\ \A p \in DOMAIN pend'[x] : pend'[x][p] \in Int
             /\ \A p \in DOMAIN plan'[x] : plan'[x][p] \in Int
  <2>1. CASE x = o
    <3>1. at'[o] \in {"done", "failed", "new"} \/ o \in InFlight' BY DEF InFlight
    <3>2. at'[o] \in {"new", "hide", "delete", "shift", "write", "assign", "done", "failed"}
      BY <1>0, <3>1 DEF Asked, StepsOf
    <3> QED BY <1>0, <2>1, <3>2 DEF Written
  <2>2. CASE x # o BY <1>1, <2>2 DEF Same, TypeOK
  <2> QED BY <2>1, <2>2
<1>4. \A x \in Request : met'[x] \subseteq Request \ {x}
  <2>1. CASE Arrival(o)
    <3>1. PICK q, f, step : Arrive(o, q, f, step) BY <2>1 DEF Arrival
    <3>2. InFlight \subseteq Request \ {o} BY <3>1 DEF Arrive, InFlight
    <3>3. \A x \in Request : met'[x] \in {InFlight, met[x] \cup {o}, met[x]}
                             /\ (x = o => met'[x] = InFlight) /\ (x # o => met'[x] \subseteq met[x] \cup {o})
      <4>1. met' = [p \in Request |-> CASE p = o        -> InFlight
                                        [] p \in InFlight -> met[p] \cup {o}
                                        [] OTHER        -> met[p]]
        BY <3>1 DEF Arrive
      <4>2. o \notin InFlight BY <3>2
      <4> QED BY <4>1, <4>2
    <3> QED BY <3>2, <3>3 DEF TypeOK
  <2>2. CASE Inner(o) \/ Outer(o)
    <3>1. met' = met BY <2>2, InnerFrame, LeaveFrame
    <3> QED BY <3>1 DEF TypeOK
  <2> QED BY <2>1, <2>2
<1> QED BY <1>1, <1>2, <1>3, <1>4 DEF TypeOK

LEMMA OfferedStays ==
    ASSUME Shape, Offered, NEW o \in Request, Arrival(o) \/ Inner(o) \/ Outer(o)
    PROVE  Offered'
<1>1. CASE Arrival(o)
  <2>1. PICK q, f, step : Arrive(o, q, f, step) /\ Sound(q, f, step) BY <1>1 DEF Arrival
  <2>2. q.op \in Endpoints(table) BY <2>1 DEF Arrive
  <2>3. /\ table' = table /\ req'[o] = q /\ InFlight' = InFlight \cup {o}
        /\ \A x \in Request \ {o} : req'[x] = req[x]
    BY <2>1, ArrivalFrame DEF Same
  <2> QED BY <2>2, <2>3 DEF Offered, InFlight
<1>2. CASE Inner(o) BY <1>2, InnerFrame DEF Offered
<1>3. CASE Outer(o)
  <2>1. /\ table' = table /\ InFlight' = InFlight \ {o}
        /\ \A x \in Request \ {o} : req'[x] = req[x]
    BY <1>3, LeaveFrame DEF Same
  <2> QED BY <2>1 DEF Offered, InFlight
<1> QED BY <1>1, <1>2, <1>3

LEMMA MutualStays ==
    ASSUME TypeOK, Shape, Mutual, NEW o \in Request, Arrival(o) \/ Inner(o) \/ Outer(o)
    PROVE  Mutual'
<1>0. InFlight \subseteq Request BY DEF InFlight
<1>1. CASE Arrival(o)
  <2>1. /\ InFlight' = InFlight \cup {o} /\ met'[o] = InFlight
        /\ at'[o] # "new"
        /\ \A x \in Request \ {o} : /\ met[x] \subseteq met'[x] /\ at'[x] = at[x]
                                   /\ IF x \in InFlight THEN o \in met'[x] ELSE met'[x] = met[x]
    BY <1>1, ArrivalFrame DEF Arrival, Same
  <2>2. \A x \in InFlight : at[x] # "new" BY DEF InFlight
  <2> QED BY <1>0, <2>1, <2>2 DEF Mutual
<1>2. CASE Inner(o) \/ Outer(o)
  <2>1. /\ met' = met /\ InFlight' \subseteq InFlight /\ o \in InFlight
        /\ \A x \in Request \ {o} : at'[x] = at[x]
    BY <1>2, InnerFrame, LeaveFrame DEF Same
  <2>2. at[o] # "new" /\ at'[o] # "new"
    <3>1. CASE Inner(o) BY <2>1, <3>1, InnerFrame DEF InFlight
    <3>2. CASE Outer(o) BY <2>1, <3>2, LeaveFrame DEF InFlight
    <3> QED BY <1>2, <3>1, <3>2
  <2> QED BY <2>1, <2>2 DEF Mutual
<1> QED BY <1>1, <1>2

\* What has once been disturbed stays so.
LEMMA CalmBefore ==
    ASSUME TypeOK, Shape, Mutual, NEW o \in Request, Asked(o), Arrival(o) \/ Inner(o) \/ Outer(o), Calm'
    PROVE  Calm
<1>1. SUFFICES ASSUME NEW x \in Request PROVE met[x] = {} /\ req[x].op # "reorder" BY DEF Calm
<1>2. met'[x] = {} /\ req'[x].op # "reorder" BY DEF Calm
<1>3. CASE Arrival(o)
  <2>1. PICK q, f, step : Arrive(o, q, f, step) /\ Sound(q, f, step) BY <1>3 DEF Arrival
  <2>2. CASE x = o
    <3>1. at[o] = "new" /\ o \notin InFlight BY <2>1, ArrivalFrame
    <3>2. req[o].op = None BY <3>1 DEF Asked
    <3> QED BY <2>2, <3>1, <3>2 DEF None, Mutual
  <2>3. CASE x # o
    <3>1. Same(x) /\ met[x] \subseteq met'[x] BY <2>1, <2>3, ArrivalFrame
    <3> QED BY <1>2, <3>1 DEF Same
  <2> QED BY <2>2, <2>3
<1>4. CASE Inner(o) BY <1>2, <1>4, InnerFrame DEF Same
<1>5. CASE Outer(o)
  <2>1. met' = met /\ (x # o => Same(x)) /\ req'[o] = [NoCall EXCEPT !.op = req[o].op, !.item = req[o].item]
    BY <1>5, LeaveFrame
  <2>2. req'[o].op = req[o].op BY <2>1 DEF NoCall
  <2> QED BY <1>2, <2>1, <2>2 DEF Same
<1> QED BY <1>3, <1>4, <1>5

----------------------------------------------------------------------------
(* A request on its own. *)

LEMMA Alone ==
    ASSUME Mutual, NEW o \in InFlight, met[o] = {}
    PROVE  \A x \in InFlight : x = o
BY DEF Mutual, InFlight

LEMMA LoneArrival ==
    ASSUME TypeOK, Shape, NEW o \in Request, Written(o), Lone(o)', Arrival(o)
    PROVE  AtItsPlace(o)' /\ OnTheWay(o)' /\ InFlight' = {o}
<1>1. PICK q, f, step : Arrive(o, q, f, step) /\ Sound(q, f, step) BY DEF Arrival
<1>2. /\ at[o] = "new" /\ at'[o] = step /\ req'[o] = q /\ plan'[o] = f /\ pend' = pend /\ order' = order
      /\ met'[o] = InFlight /\ InFlight' = InFlight \cup {o} /\ o \notin InFlight
  BY <1>1, ArrivalFrame
<1>3. q.op # "reorder" /\ InFlight' = {o} BY <1>2 DEF Lone
<1>4. DOMAIN pend'[o] = {} BY <1>2 DEF Written
<1>5. q.op \in {"create", "update", "remove"} BY <1>1, <1>3 DEF Sound, StepsOf
<1>6. AtItsPlace(o)' BY <1>1, <1>2, <1>5 DEF Sound, AtItsPlace
<1>7. \A p \in Item : Seen(o)'[p] = order[p] BY <1>2, <1>4 DEF Seen
<1>8. OnTheWay(o)'
  <2>1. at'[o] # "shift" BY <1>1, <1>2, <1>5 DEF Sound, StepsOf
  <2>2. ASSUME at'[o] = "write"
        PROVE  /\ q.item \notin DOMAIN f
               /\ q.op # "remove"
               /\ \A p \in Item : IF p \in DOMAIN f THEN f[p] = Target(o, p)' ELSE order[p] = Target(o, p)'
               /\ \A p \in DOMAIN f : order[p] # Absent
               /\ q.op = "update" => q.to \in {0, q.was} /\ DOMAIN f = {}
    <3>1. CASE q.op = "create"
      <4>1. q.item \in Item /\ order[q.item] = 0 /\ q.to \in Nat /\ q.to # 0
        BY <1>1, <3>1 DEF Sound, Absent
      <4>2. \A p \in Item : Target(o, p)' = IF order[p] >= q.to THEN order[p] + 1 ELSE order[p]
        BY <1>2, <3>1 DEF Target
      <4>3. \A p \in Item : /\ order[p] \in Nat
                            /\ IF p \in DOMAIN f THEN q.to <= order[p] /\ f[p] = order[p] + 1
                                                 ELSE ~(q.to <= order[p])
        BY <1>1, <3>1 DEF Sound, TypeOK
      <4>4. DOMAIN f \subseteq Item BY <1>1 DEF Sound
      <4> QED BY <3>1, <4>1, <4>2, <4>3, <4>4 DEF Absent
    <3>2. CASE q.op = "update"
      <4>1. DOMAIN f = {} /\ q.to \in {0, q.was} /\ q.was \in Nat /\ q.to \in Nat
        BY <1>1, <1>2, <2>2, <3>2 DEF Sound
      <4>2. \A p \in Item : order[p] \in Nat BY DEF TypeOK
      <4>3. \A p \in Item : Target(o, p)' = order[p] BY <1>2, <3>2, <4>1, <4>2 DEF Target
      <4> QED BY <3>2, <4>1, <4>3
    <3>3. CASE q.op = "remove" BY <1>1, <1>2, <2>2, <3>3 DEF Sound
    <3> QED BY <1>5, <3>1, <3>2, <3>3
  <2>3. at'[o] \in {"hide", "shift"} /\ q.op = "update" => q.to # q.was
    BY <1>1, <1>2 DEF Sound
  <2> QED BY <1>2, <1>4, <1>7, <2>1, <2>2, <2>3 DEF OnTheWay
<1> QED BY <1>3, <1>6, <1>8

LEMMA LoneInner ==
    ASSUME TypeOK, Shape, NEW o \in Request, Asked(o), Written(o), Lone(o),
           AtItsPlace(o), OnTheWay(o), Inner(o)
    PROVE  AtItsPlace(o)' /\ OnTheWay(o)'
<1>1. /\ o \in InFlight /\ req' = req /\ order' = order /\ at[o] \in StepsOf(req[o].op)
      /\ req[o].op # "reorder"
  BY InnerFrame DEF Asked, Lone
<1>2. AtItsPlace(o)' BY <1>1 DEF AtItsPlace
<1>3. req[o].item \in Item /\ req[o].was \in Nat /\ req[o].to \in Nat BY <1>1 DEF Asked
<1>4. \A q \in Item : Target(o, q)' = Target(o, q) /\ order[q] \in Nat BY <1>1 DEF Target, TypeOK
<1>5. \A q \in Item : Seen(o)'[q] = IF q \in DOMAIN pend'[o] THEN pend'[o][q] ELSE order[q]
  BY <1>1 DEF Seen
<1>6. CASE Hide(o)
  <2>1. at[o] = "hide" /\ at'[o] = "shift" /\ pend'[o] = With(pend[o], req[o].item, -req[o].was)
    BY <1>6 DEF Hide, Write, Goes, Shape
  <2>2. DOMAIN pend[o] = {} /\ req[o].op = "update" BY <1>1, <2>1 DEF Written, StepsOf
  <2>3. DOMAIN pend'[o] = {req[o].item} /\ pend'[o][req[o].item] = -req[o].was
    BY <2>1, <2>2 DEF With
  <2> QED BY <1>1, <1>2, <2>1, <2>2, <2>3 DEF OnTheWay
<1>7. CASE Delete(o)
  <2>1. at[o] = "delete" /\ at'[o] = "shift" /\ pend'[o] = With(pend[o], req[o].item, Absent)
    BY <1>7 DEF Delete, Goes, Shape
  <2>2. DOMAIN pend[o] = {} /\ req[o].op = "remove" BY <1>1, <2>1 DEF Written, StepsOf
  <2>3. DOMAIN pend'[o] = {req[o].item} /\ pend'[o][req[o].item] = Absent
    BY <2>1, <2>2 DEF With
  <2> QED BY <1>1, <1>2, <2>1, <2>2, <2>3 DEF OnTheWay
<1>8. CASE Shift(o)
  <2>1. /\ at[o] = "shift" /\ at'[o] = "write" /\ pend' = pend
        /\ plan'[o] = IF req[o].op = "remove" THEN Closed(Seen(o), req[o].was)
                      ELSE Passed(Seen(o), req[o].was, req[o].to)
    BY <1>8 DEF Shift, Goes, Shape
  <2>2. /\ DOMAIN pend[o] = {req[o].item}
        /\ pend[o][req[o].item] = IF req[o].op = "remove" THEN Absent ELSE -req[o].was
        /\ req[o].op \in {"update", "remove"}
    BY <1>1, <2>1 DEF OnTheWay, StepsOf
  <2>3. \A q \in Item : Seen(o)[q] = IF q = req[o].item THEN (IF req[o].op = "remove" THEN 0 ELSE -req[o].was)
                                     ELSE order[q]
    BY <1>3, <2>2, SeenIs DEF Absent
  <2>4. /\ req[o].item \notin DOMAIN plan'[o] /\ DOMAIN plan'[o] \subseteq Item
        /\ \A q \in Item : q # req[o].item =>
              IF q \in DOMAIN plan'[o] THEN plan'[o][q] = Target(o, q) ELSE order[q] = Target(o, q)
        /\ req[o].op = "remove" => \A q \in DOMAIN plan'[o] : order[q] > req[o].was
        /\ \A q \in DOMAIN plan'[o] : order[q] # 0
    <3>1. CASE req[o].op = "remove"
      <4>1. plan'[o] = [p \in {q \in Item : Seen(o)[q] > req[o].was} |-> Seen(o)[p] - 1]
        BY <2>1, <3>1 DEF Closed
      <4>2. \A q \in Item : Target(o, q) = IF order[q] > req[o].was THEN order[q] - 1 ELSE order[q]
        BY <3>1 DEF Target
      <4> QED BY <1>3, <1>4, <2>3, <3>1, <4>1, <4>2
    <3>2. CASE req[o].op # "remove" /\ req[o].to < req[o].was
      <4>0. req[o].to # 0 BY <1>1, <2>1, <2>2, <3>2 DEF Written
      <4>1. plan'[o] = [p \in {q \in Item : Seen(o)[q] \in req[o].to..(req[o].was - 1)} |-> Seen(o)[p] + 1]
        BY <2>1, <3>2 DEF Passed
      <4>2. \A q \in Item : Target(o, q) = IF req[o].to <= order[q] /\ order[q] < req[o].was
                                           THEN order[q] + 1 ELSE order[q]
        BY <1>3, <1>4, <2>2, <3>2, <4>0 DEF Target
      <4> QED BY <1>3, <1>4, <2>3, <3>2, <4>0, <4>1, <4>2
    <3>3. CASE req[o].op # "remove" /\ ~(req[o].to < req[o].was)
      <4>0. req[o].to # 0 BY <1>1, <2>1, <2>2, <3>3 DEF Written
      <4>1. plan'[o] = [p \in {q \in Item : Seen(o)[q] \in (req[o].was + 1)..req[o].to} |-> Seen(o)[p] - 1]
        BY <2>1, <3>3 DEF Passed
      <4>2. \A q \in Item : Target(o, q) = IF req[o].was < order[q] /\ order[q] <= req[o].to
                                           THEN order[q] - 1 ELSE order[q]
        BY <1>3, <1>4, <2>2, <3>3, <4>0 DEF Target
      <4> QED BY <1>3, <1>4, <2>3, <3>3, <4>0, <4>1, <4>2
    <3> QED BY <3>1, <3>2, <3>3
  <2>5. \A q \in Item : q # req[o].item => q \notin DOMAIN pend'[o] /\ Seen(o)'[q] = order[q]
    BY <1>5, <2>1, <2>2
  <2>6. req[o].op = "update" =>
          IF req[o].to \in {0, req[o].was} THEN DOMAIN plan'[o] = {} /\ DOMAIN pend'[o] = {}
          ELSE req[o].item \in DOMAIN pend'[o] /\ pend'[o][req[o].item] = -req[o].was
    <3>1. req[o].op = "update" => req[o].to # req[o].was BY <2>1 DEF OnTheWay
    <3>2. req[o].op = "update" => req[o].to # 0 BY <1>1, <2>1 DEF Written
    <3> QED BY <2>1, <2>2, <3>1, <3>2
  <2> QED BY <1>1, <1>2, <1>4, <2>1, <2>2, <2>4, <2>5, <2>6 DEF OnTheWay, Absent
<1>9. CASE WriteNext(o) \/ AssignNext(o)
  <2>1. PICK p \in DOMAIN plan[o] :
          /\ pend'[o] = With(pend[o], p, plan[o][p]) /\ plan'[o] = Without(plan[o], p) /\ at' = at
    BY <1>9, NextWrite
  <2>2. at[o] = "write" /\ p # req[o].item /\ p \in Item
    BY <1>1, <1>9, <2>1 DEF WriteNext, AssignNext, OnTheWay, Written, StepsOf
  <2>3. /\ DOMAIN pend'[o] = DOMAIN pend[o] \cup {p} /\ pend'[o][p] = plan[o][p]
        /\ \A x \in DOMAIN pend[o] : x # p => pend'[o][x] = pend[o][x]
    BY <2>1 DEF With
  <2>4. /\ DOMAIN plan'[o] = DOMAIN plan[o] \ {p}
        /\ \A x \in DOMAIN plan[o] : x # p => plan'[o][x] = plan[o][x]
    BY <2>1 DEF Without
  <2>5. \A q \in Item : q # req[o].item =>
          IF q \in DOMAIN plan[o] THEN q \notin DOMAIN pend[o] /\ plan[o][q] = Target(o, q)
          ELSE (IF q \in DOMAIN pend[o] THEN pend[o][q] ELSE order[q]) = Target(o, q)
    BY <2>2, SeenIs DEF OnTheWay
  <2>6. \A q \in Item : q # req[o].item =>
          IF q \in DOMAIN plan'[o] THEN q \notin DOMAIN pend'[o] /\ plan'[o][q] = Target(o, q)
          ELSE Seen(o)'[q] = Target(o, q)
    BY <1>5, <2>3, <2>4, <2>5
  <2>7. req[o].op = "update" =>
          IF req[o].to \in {0, req[o].was} THEN DOMAIN plan'[o] = {} /\ DOMAIN pend'[o] = {}
          ELSE req[o].item \in DOMAIN pend'[o] /\ pend'[o][req[o].item] = -req[o].was
    BY <2>1, <2>2, <2>3, <2>4 DEF OnTheWay
  <2> QED BY <1>1, <1>2, <1>4, <2>1, <2>2, <2>3, <2>4, <2>6, <2>7 DEF OnTheWay
<1>10. CASE DecrementAll(o)
  <2> DEFINE behind == {p \in DOMAIN plan[o] : Seen(o)[p] > req[o].was}
  <2>1. /\ pend'[o] = [p \in DOMAIN pend[o] \cup behind |-> IF p \in behind THEN Seen(o)[p] - 1 ELSE pend[o][p]]
        /\ plan'[o] = Nothing /\ at' = at /\ req[o].op = "remove" /\ at[o] = "write"
    BY <1>10 DEF DecrementAll, AtOnce, Shape
  <2>2. DOMAIN plan'[o] = {} BY <2>1 DEF Nothing
  <2>3. /\ req[o].item \notin DOMAIN plan[o] /\ DOMAIN plan[o] \subseteq Item
        /\ req[o].item \in DOMAIN pend[o] /\ pend[o][req[o].item] = Absent
        /\ \A q \in Item : q # req[o].item =>
              IF q \in DOMAIN plan[o] THEN q \notin DOMAIN pend[o] ELSE Seen(o)[q] = Target(o, q)
        /\ \A q \in DOMAIN plan[o] : order[q] > req[o].was
    BY <2>1 DEF OnTheWay, Written
  <2>4. \A q \in DOMAIN plan[o] : Seen(o)[q] = order[q] BY <2>3, SeenIs
  <2>5. behind = DOMAIN plan[o] BY <2>3, <2>4
  <2>6. /\ DOMAIN pend'[o] = DOMAIN pend[o] \cup DOMAIN plan[o]
        /\ \A q \in DOMAIN plan[o] : pend'[o][q] = order[q] - 1
        /\ \A q \in DOMAIN pend[o] \ DOMAIN plan[o] : pend'[o][q] = pend[o][q]
    <3> HIDE DEF behind
    <3> QED BY <2>1, <2>4, <2>5
  <2>7. \A q \in DOMAIN plan[o] : Target(o, q) = order[q] - 1 BY <2>1, <2>3 DEF Target
  <2>8. \A q \in Item : q # req[o].item => Seen(o)'[q] = Target(o, q)
    BY <1>5, <2>3, <2>6, <2>7, SeenIs
  <2>9. pend'[o][req[o].item] = Absent /\ req[o].item \in DOMAIN pend'[o] BY <2>3, <2>6
  <2>10. at'[o] = "write" BY <2>1
  <2> QED BY <1>1, <1>2, <1>4, <2>2, <2>1, <2>8, <2>9, <2>10 DEF OnTheWay
<1>11. CASE AssignOrders(o) BY <1>1, <1>11 DEF AssignOrders
<1> QED BY <1>6, <1>7, <1>8, <1>9, <1>10, <1>11 DEF Inner

\* Where a request on its own leaves its row.
Place(o) ==
    IF req[o].op = "remove" THEN Absent
    ELSE IF req[o].to = 0 THEN req[o].was
    ELSE req[o].to

LEMMA Landed ==
    ASSUME TypeOK, Shape, NEW o \in Request, Asked(o), Written(o), Lone(o),
           AtItsPlace(o), OnTheWay(o), Outer(o), order' # order
    PROVE  /\ req[o].op \in {"create", "update", "remove"} /\ req[o].item \in Item
           /\ \A q \in Item : order'[q] = IF q = req[o].item THEN Place(o) ELSE Target(o, q)
<1>1. DOMAIN plan[o] = {} /\ o \in InFlight /\ req[o].op # "reorder" BY Committed DEF Lone
<1>2. at[o] # "assign" BY <1>1 DEF Asked, StepsOf
<1>3. at[o] = "write" /\ req[o].item \in Item BY <1>1, <1>2, Committed DEF Asked
<1>4. \A q \in Item : q # req[o].item => Seen(o)[q] = Target(o, q) BY <1>1, <1>3 DEF OnTheWay
<1>5. CASE /\ req[o].op \in {"create", "update"}
           /\ order' = [q \in Item |-> IF q = req[o].item THEN Kept(o) ELSE Seen(o)[q]]
  <2>1. Kept(o) = Place(o)
    <3>1. CASE req[o].to # 0 BY <1>5, <3>1 DEF Kept, Place
    <3>2. CASE req[o].to = 0
      <4>1. req[o].op = "update" /\ order[req[o].item] = req[o].was BY <1>5, <3>2 DEF AtItsPlace
      <4>2. DOMAIN pend[o] = {} BY <1>1, <3>2, <4>1 DEF Written
      <4>3. Seen(o)[req[o].item] = req[o].was BY <1>3, <4>1, <4>2, SeenIs
      <4> QED BY <3>2, <4>1, <4>3 DEF Kept, Place
    <3> QED BY <3>1, <3>2
  <2> QED BY <1>3, <1>4, <1>5, <2>1
<1>6. CASE req[o].op = "remove" /\ order' = Seen(o)
  <2>1. Seen(o)[req[o].item] = Absent BY <1>3, <1>6, SeenIs DEF OnTheWay
  <2> QED BY <1>3, <1>4, <1>6, <2>1 DEF Place
<1> QED BY <1>2, <1>5, <1>6, Committed

\* The targets are in the order of the rows, and free the place for the row that comes there.
LEMMA TargetsKeepOrder ==
    ASSUME TypeOK, NoTies, NEW o \in InFlight, Asked(o), AtItsPlace(o),
           req[o].op \in {"create", "update", "remove"},
           NEW p \in Item, NEW q \in Item, p # req[o].item, q # req[o].item
    PROVE  /\ Target(o, p) \in Nat /\ Place(o) \in Nat
           /\ Target(o, p) = Absent <=> order[p] = Absent
           /\ order[p] # Absent /\ order[q] # Absent => (Target(o, p) < Target(o, q) <=> order[p] < order[q])
           /\ order[p] # Absent => Target(o, p) # Place(o)
           /\ req[o].op # "remove" => Place(o) # Absent
<1>1. /\ order[p] \in Nat /\ order[q] \in Nat /\ req[o].to \in Nat /\ req[o].was \in Nat
      /\ req[o].item \in Item
  BY DEF TypeOK, Asked
<1>2. CASE req[o].op = "create"
  <2>1. req[o].to # 0 BY <1>2 DEF AtItsPlace
  <2>2. \A x \in Item : Target(o, x) = IF order[x] >= req[o].to THEN order[x] + 1 ELSE order[x]
    BY <1>2 DEF Target
  <2>3. Place(o) = req[o].to BY <1>2, <2>1 DEF Place
  <2> QED BY <1>1, <1>2, <2>1, <2>2, <2>3 DEF Absent
<1>3. CASE req[o].op \in {"update", "remove"}
  <2>1. order[req[o].item] = req[o].was /\ req[o].was # 0 BY <1>3 DEF AtItsPlace, Absent
  <2>2. order[p] # req[o].was /\ order[q] # req[o].was BY <1>1, <2>1 DEF NoTies, Absent
  <2>3. CASE req[o].op = "remove"
    <3>1. \A x \in Item : Target(o, x) = IF order[x] > req[o].was THEN order[x] - 1 ELSE order[x]
      BY <2>3 DEF Target
    <3>2. Place(o) = 0 BY <2>3 DEF Place, Absent
    <3> QED BY <1>1, <2>1, <2>2, <2>3, <3>1, <3>2 DEF Absent
  <2>4. CASE req[o].op = "update" /\ req[o].to = 0
    <3>1. \A x \in Item : Target(o, x) = order[x] BY <2>4 DEF Target
    <3>2. Place(o) = req[o].was BY <2>4 DEF Place
    <3> QED BY <1>1, <2>1, <2>2, <2>4, <3>1, <3>2 DEF Absent
  <2>5. CASE req[o].op = "update" /\ req[o].to # 0
    <3>1. \A x \in Item :
            Target(o, x) = IF req[o].to <= order[x] /\ order[x] < req[o].was THEN order[x] + 1
                           ELSE IF req[o].was < order[x] /\ order[x] <= req[o].to THEN order[x] - 1
                           ELSE order[x]
      BY <2>5 DEF Target
    <3>2. Place(o) = req[o].to BY <2>5 DEF Place
    <3> QED BY <1>1, <2>1, <2>2, <2>5, <3>1, <3>2 DEF Absent
  <2> QED BY <1>3, <2>3, <2>4, <2>5
<1> QED BY <1>2, <1>3

\* The list after a commit of a request on its own.
LEMMA ListAfter ==
    ASSUME TypeOK, Shape, NEW o \in Request, Asked(o), Written(o), Lone(o), NoTies,
           AtItsPlace(o), OnTheWay(o), Outer(o), order' # order
    PROVE  LET i == req[o].item
           IN  /\ i \in Item /\ \A p \in Item : order'[p] \in Nat
               /\ req[o].op = "create" => order[i] = Absent /\ order'[i] # Absent
               /\ req[o].op = "update" => order[i] # Absent /\ order'[i] # Absent
               /\ req[o].op = "remove" => order[i] # Absent /\ order'[i] = Absent
               /\ req[o].op \in {"create", "update", "remove"}
               /\ \A p \in Item : p # i => (order'[p] = Absent <=> order[p] = Absent)
               /\ \A p, q \in Item : p # i /\ q # i /\ order[p] # Absent /\ order[q] # Absent =>
                     (order'[p] < order'[q] <=> order[p] < order[q])
               /\ NoTies'
<1> DEFINE i == req[o].item
<1>0. o \in InFlight BY LeaveFrame
<1>1. /\ req[o].op \in {"create", "update", "remove"} /\ i \in Item
      /\ \A q \in Item : order'[q] = IF q = i THEN Place(o) ELSE Target(o, q)
  BY Landed
<1> HIDE DEF i
<1>2. \A p, q \in Item : p # i /\ q # i =>
        /\ Target(o, p) \in Nat /\ Place(o) \in Nat
        /\ Target(o, p) = Absent <=> order[p] = Absent
        /\ order[p] # Absent /\ order[q] # Absent => (Target(o, p) < Target(o, q) <=> order[p] < order[q])
        /\ order[p] # Absent => Target(o, p) # Place(o)
  BY <1>0, <1>1, TargetsKeepOrder DEF i
<1>3. Place(o) \in Nat /\ (req[o].op = "remove" <=> Place(o) = Absent)
  BY <1>0, <1>1 DEF Place, Asked, AtItsPlace, Absent
<1>4. /\ req[o].op = "create" => order[i] = Absent
      /\ req[o].op # "create" => order[i] # Absent
  BY DEF AtItsPlace, i
<1>5. \A p \in Item : order[p] \in Nat /\ order'[p] \in Nat
  BY <1>1, <1>2, <1>3 DEF TypeOK
<1>6. ASSUME NEW p \in Item, NEW q \in Item, order'[p] = order'[q], order'[p] # Absent, p # q PROVE FALSE
  <2>1. CASE p # i /\ q # i
    <3>1. order'[p] = Target(o, p) /\ order'[q] = Target(o, q) BY <1>1, <2>1
    <3>2. order[p] # Absent /\ order[q] # Absent BY <1>2, <1>6, <2>1, <3>1
    <3>3. /\ Target(o, p) < Target(o, q) <=> order[p] < order[q]
          /\ Target(o, q) < Target(o, p) <=> order[q] < order[p]
      BY <1>2, <2>1, <3>2
    <3>4. Target(o, p) = Target(o, q) /\ Target(o, p) \in Nat BY <1>2, <1>6, <2>1, <3>1
    <3>5. order[p] = order[q] BY <1>5, <3>3, <3>4
    <3> QED BY <1>6, <3>2, <3>5 DEF NoTies
  <2>2. CASE p = i
    <3>1. order'[p] = Place(o) /\ order'[q] = Target(o, q) BY <1>1, <1>6, <2>2
    <3> QED BY <1>2, <1>6, <2>2, <3>1
  <2>3. CASE q = i
    <3>1. order'[q] = Place(o) /\ order'[p] = Target(o, p) BY <1>1, <1>6, <2>3
    <3> QED BY <1>2, <1>6, <2>3, <3>1
  <2> QED BY <2>1, <2>2, <2>3
<1>7. NoTies' BY <1>6 DEF NoTies
<1> QED BY <1>1, <1>2, <1>3, <1>4, <1>5, <1>7 DEF i

LEMMA ArrangedStays ==
    ASSUME TypeOK, Shape, Mutual, Arranged, NEW o \in Request, Asked(o), Written(o),
           Arrival(o) \/ Inner(o) \/ Outer(o)
    PROVE  Arranged'
<1>1. ASSUME Calm' PROVE NoTies'
  <2>1. Calm /\ NoTies BY <1>1, CalmBefore DEF Arranged
  <2>2. CASE order' = order BY <2>1, <2>2 DEF NoTies
  <2>3. CASE order' # order
    <3>1. Outer(o) BY <2>3, ArrivalFrame, InnerFrame DEF Arrival
    <3>2. o \in InFlight /\ Lone(o) BY <2>1, <3>1, LeaveFrame DEF Calm, Lone
    <3>3. AtItsPlace(o) /\ OnTheWay(o) BY <3>2 DEF Arranged
    <3> QED BY <2>1, <2>3, <3>1, <3>2, <3>3, ListAfter
  <2> QED BY <2>2, <2>3
<1>2. ASSUME NEW x \in InFlight', Lone(x)' PROVE AtItsPlace(x)' /\ OnTheWay(x)'
  <2>1. CASE Arrival(o)
    <3>1. x = o
      <4>1. InFlight' = InFlight \cup {o} /\ \A y \in InFlight \ {o} : o \in met'[y]
        BY <2>1, ArrivalFrame DEF Arrival, InFlight
      <4> QED BY <1>2, <4>1 DEF Lone
    <3> QED BY <1>2, <2>1, <3>1, LoneArrival
  <2>2. CASE Inner(o) \/ Outer(o)
    <3>1. met' = met /\ InFlight' \subseteq InFlight /\ o \in InFlight
      BY <2>2, InnerFrame, LeaveFrame
    <3>2. met[x] = {} /\ x \in InFlight BY <1>2, <3>1 DEF Lone
    <3>3. x = o BY <3>1, <3>2, Alone
    <3>4. Inner(o) BY <1>2, <2>2, <3>3, LeaveFrame
    <3>5. Lone(o) BY <1>2, <3>3, <3>4, InnerFrame DEF Lone
    <3>6. AtItsPlace(o) /\ OnTheWay(o) BY <3>1, <3>5 DEF Arranged
    <3> QED BY <3>3, <3>4, <3>5, <3>6, LoneInner
  <2> QED BY <2>1, <2>2
<1> QED BY <1>1, <1>2 DEF Arranged

----------------------------------------------------------------------------
(* The unique column, whatever overlaps. *)

\* A row that no other transaction holds gets a value at no other row's place, or none.
LEMMA PutSeparate ==
    ASSUME TypeOK, Shape, Separate, NEW o \in Request, NEW p \in Item, NEW v,
           ~Locked(o, p), v = Absent \/ Writable(o, p, v),
           pend'[o] = With(pend[o], p, v), order' = order, table' = table,
           \A x \in Request \ {o} : pend'[x] = pend[x]
    PROVE  Separate'
<1>1. /\ DOMAIN pend'[o] = DOMAIN pend[o] \cup {p} /\ pend'[o][p] = v
      /\ \A q \in DOMAIN pend[o] : q # p => pend'[o][q] = pend[o][q]
  BY DEF With
<1>2. \A x \in Request : x # o => p \notin DOMAIN pend[x] BY DEF Locked
<1>3. \A x, y \in Request : x # y => DOMAIN pend'[x] \cap DOMAIN pend'[y] = {}
  BY <1>1, <1>2 DEF Separate
<1>4. Unique' = Unique BY DEF Unique
<1>5. ASSUME Unique PROVE NoTies' BY <1>5 DEF Separate, NoTies
<1>6. ASSUME Unique, v # Absent, NEW q \in Item, q # p PROVE v # Seen(o)[q]
  <2>1. CASE ~Locked(o, q) BY <1>6, <2>1 DEF Writable, Collides
  <2>2. CASE Locked(o, q)
    <3>1. PICK x \in Request \ {o} : q \in DOMAIN pend[x] BY <2>2 DEF Locked
    <3>2. q \notin DOMAIN pend[o] BY <3>1 DEF Separate
    <3>3. v # order[q] BY <1>6, <3>1 DEF Writable, Undecided
    <3> QED BY <3>2, <3>3 DEF Seen
  <2> QED BY <2>1, <2>2
<1>7. ASSUME Unique, NEW x \in Request PROVE SeesNoTies(x)'
  <2>1. CASE x = o
    <3>1. \A q \in Item : Seen(o)'[q] = IF q = p THEN v ELSE Seen(o)[q] BY <1>1 DEF Seen
    <3>2. SeesNoTies(o) BY <1>7 DEF Separate
    <3> QED BY <1>6, <1>7, <2>1, <3>1, <3>2 DEF SeesNoTies
  <2>2. CASE x # o
    <3>1. \A q \in Item : Seen(x)'[q] = Seen(x)[q] BY <2>2 DEF Seen
    <3>2. SeesNoTies(x) BY <1>7 DEF Separate
    <3> QED BY <3>1, <3>2 DEF SeesNoTies
  <2> QED BY <2>1, <2>2
<1>8. ASSUME Unique, NEW x \in Request, NEW y \in Request, x # y,
             NEW q \in DOMAIN pend'[x], NEW r \in DOMAIN pend'[y], pend'[x][q] # Absent
      PROVE  pend'[x][q] # pend'[y][r] /\ pend'[x][q] # order[r]
  <2>0. Apart(x, y) /\ SeesNoTies(x) BY <1>8 DEF Separate
  <2>1. CASE x = o
    <3>1. pend'[y] = pend[y] BY <1>8, <2>1
    <3>2. CASE q = p
      <4>1. v # Absent /\ pend'[x][q] = v BY <1>1, <1>8, <2>1, <3>2
      <4>2. r # p BY <1>2, <1>8, <2>1, <3>1
      <4> QED BY <1>8, <2>1, <3>1, <4>1, <4>2 DEF Writable, Undecided
    <3>3. CASE q # p BY <1>1, <1>8, <2>0, <2>1, <3>1, <3>3 DEF Apart
    <3> QED BY <3>2, <3>3
  <2>2. CASE y = o
    <3>1. pend'[x] = pend[x] BY <1>8, <2>2
    <3>2. CASE r = p
      <4>1. pend'[y][r] = v /\ q # p BY <1>1, <1>2, <1>8, <2>2, <3>1, <3>2
      <4>2. v = Absent \/ v # pend[x][q] BY <1>8, <2>2, <3>1, <4>1 DEF Writable, Undecided
      <4>3. pend[x][q] # order[p]
        <5>1. Seen(x)[p] = order[p] BY <1>2, <1>8, <2>2 DEF Seen
        <5>2. CASE q \in Item
          <6>1. Seen(x)[q] = pend[x][q] BY <1>8, <3>1, <5>2 DEF Seen
          <6> QED BY <1>8, <2>0, <3>1, <4>1, <5>1, <5>2, <6>1 DEF SeesNoTies
        <5>3. q \in Item BY <1>8, <3>1 DEF TypeOK
        <5> QED BY <5>2, <5>3
      <4> QED BY <1>8, <3>1, <3>2, <4>1, <4>2, <4>3
    <3>3. CASE r # p BY <1>1, <1>8, <2>0, <2>2, <3>1, <3>3 DEF Apart
    <3> QED BY <3>2, <3>3
  <2>3. CASE x # o /\ y # o BY <1>8, <2>0, <2>3 DEF Apart
  <2> QED BY <2>1, <2>2, <2>3
<1>9. ASSUME Unique, NEW x \in Request, NEW y \in Request, x # y PROVE Apart(x, y)'
  BY <1>8, <1>9 DEF Apart
<1> QED BY <1>3, <1>4, <1>5, <1>7, <1>9 DEF Separate

\* A commit, which may write one more row.
LEMMA LeftSeparate ==
    ASSUME TypeOK, Shape, Separate, NEW o \in Request, NEW i, table' = table,
           \A q \in Item : q # i => order'[q] = Seen(o)[q],
           i \in Item => order'[i] = Seen(o)[i] \/ Writable(o, i, order'[i]),
           DOMAIN pend'[o] = {}, \A x \in Request \ {o} : pend'[x] = pend[x]
    PROVE  Separate'
<1>1. \A x, y \in Request : x # y => DOMAIN pend'[x] \cap DOMAIN pend'[y] = {}
  BY DEF Separate
<1>2. Unique' = Unique BY DEF Unique
<1>3. ASSUME Unique, i \in Item, Writable(o, i, order'[i]), NEW q \in Item, q # i
      PROVE  order'[i] # Seen(o)[q]
  <2>1. CASE ~Locked(o, q) BY <1>3, <2>1 DEF Writable, Collides
  <2>2. CASE Locked(o, q)
    <3>1. PICK x \in Request \ {o} : q \in DOMAIN pend[x] BY <2>2 DEF Locked
    <3>2. q \notin DOMAIN pend[o] BY <3>1 DEF Separate
    <3>3. order'[i] # order[q] BY <1>3, <3>1 DEF Writable, Undecided
    <3> QED BY <3>2, <3>3 DEF Seen
  <2> QED BY <2>1, <2>2
<1>4. ASSUME Unique, NEW p \in Item, NEW q \in Item, p # q, order'[p] = order'[q] PROVE order'[p] = Absent
  <2>1. SeesNoTies(o) BY <1>4 DEF Separate
  <2>2. CASE order'[p] = Seen(o)[p] /\ order'[q] = Seen(o)[q] BY <1>4, <2>1, <2>2 DEF SeesNoTies
  <2>3. CASE p = i /\ Writable(o, i, order'[i]) BY <1>3, <1>4, <2>3
  <2>4. CASE q = i /\ Writable(o, i, order'[i]) BY <1>3, <1>4, <2>4
  <2> QED BY <2>2, <2>3, <2>4
<1>5. ASSUME Unique, NEW x \in Request, x # o, NEW p \in DOMAIN pend[x]
      PROVE  p \in Item /\ order'[p] = order[p]
  <2>1. p \in Item /\ p \notin DOMAIN pend[o] BY <1>5 DEF TypeOK, Separate
  <2>2. Seen(o)[p] = order[p] BY <2>1 DEF Seen
  <2>3. p = i => ~Writable(o, i, order'[i]) BY <1>5 DEF Writable, Locked
  <2> QED BY <2>1, <2>2, <2>3
<1>6. ASSUME Unique, NEW x \in Request, x # o, NEW p \in DOMAIN pend[x], pend[x][p] # Absent,
             NEW q \in Item, q \notin DOMAIN pend[x], q # p
      PROVE  pend[x][p] # order'[q]
  <2>1. CASE order'[q] = Seen(o)[q]
    <3>1. CASE q \in DOMAIN pend[o]
      <4>1. Apart(x, o) BY <1>6 DEF Separate
      <4>2. Seen(o)[q] = pend[o][q] BY <3>1 DEF Seen
      <4> QED BY <1>6, <2>1, <3>1, <4>1, <4>2 DEF Apart
    <3>2. CASE q \notin DOMAIN pend[o]
      <4>1. Seen(o)[q] = order[q] /\ Seen(x)[q] = order[q] BY <1>6, <3>2 DEF Seen
      <4>2. p \in Item /\ Seen(x)[p] = pend[x][p] BY <1>5, <1>6 DEF Seen
      <4>3. SeesNoTies(x) BY <1>6 DEF Separate
      <4> QED BY <1>6, <2>1, <4>1, <4>2, <4>3 DEF SeesNoTies
    <3> QED BY <3>1, <3>2
  <2>2. CASE q = i /\ Writable(o, i, order'[i])
    BY <1>6, <2>2 DEF Writable, Undecided
  <2> QED BY <2>1, <2>2
<1>7. ASSUME Unique PROVE NoTies' BY <1>4, <1>7 DEF NoTies
<1>8. ASSUME Unique, NEW x \in Request PROVE SeesNoTies(x)'
  <2>1. CASE x = o
    <3>1. \A q \in Item : Seen(o)'[q] = order'[q] BY DEF Seen
    <3> QED BY <1>4, <1>8, <2>1, <3>1 DEF SeesNoTies
  <2>2. CASE x # o
    <3>1. \A q \in Item : Seen(x)'[q] = IF q \in DOMAIN pend[x] THEN pend[x][q] ELSE order'[q]
      BY <2>2 DEF Seen
    <3>2. SeesNoTies(x) BY <1>8 DEF Separate
    <3>3. \A q \in Item : q \in DOMAIN pend[x] => Seen(x)[q] = pend[x][q] BY DEF Seen
    <3>4. ASSUME NEW p \in Item, NEW q \in Item, p # q, Seen(x)'[p] = Seen(x)'[q]
          PROVE  Seen(x)'[p] = Absent
      <4>1. CASE p \in DOMAIN pend[x] /\ q \in DOMAIN pend[x]
        BY <3>1, <3>2, <3>3, <3>4, <4>1 DEF SeesNoTies
      <4>2. CASE p \in DOMAIN pend[x] /\ q \notin DOMAIN pend[x]
        BY <1>6, <1>8, <2>2, <3>1, <3>4, <4>2
      <4>3. CASE p \notin DOMAIN pend[x] /\ q \in DOMAIN pend[x]
        BY <1>6, <1>8, <2>2, <3>1, <3>4, <4>3
      <4>4. CASE p \notin DOMAIN pend[x] /\ q \notin DOMAIN pend[x]
        BY <1>4, <1>8, <3>1, <3>4, <4>4
      <4> QED BY <4>1, <4>2, <4>3, <4>4
    <3> QED BY <3>4 DEF SeesNoTies
  <2> QED BY <2>1, <2>2
<1>9. ASSUME Unique, NEW x \in Request, NEW y \in Request, x # y PROVE Apart(x, y)'
  <2>1. CASE x = o \/ y = o BY <2>1 DEF Apart
  <2>2. CASE x # o /\ y # o
    <3>1. Apart(x, y) /\ \A r \in DOMAIN pend[y] : order'[r] = order[r]
      BY <1>5, <1>9, <2>2 DEF Separate
    <3> QED BY <2>2, <3>1 DEF Apart
  <2> QED BY <2>1, <2>2
<1> QED BY <1>1, <1>2, <1>7, <1>8, <1>9 DEF Separate

LEMMA SeparateStays ==
    ASSUME TypeOK, Shape, Separate, NEW o \in Request, Asked(o), Written(o),
           Arrival(o) \/ Inner(o) \/ Outer(o)
    PROVE  Separate'
<1>0. table' = table BY ArrivalFrame, InnerFrame, LeaveFrame DEF Arrival
<1>1. ASSUME pend' = pend, order' = order PROVE Separate'
  BY <1>0, <1>1 DEF Separate, Unique, NoTies, SeesNoTies, Apart, Seen
<1>2. CASE Arrival(o) BY <1>1, <1>2, ArrivalFrame DEF Arrival
<1>3. CASE Inner(o)
  <2>0. /\ order' = order /\ \A x \in Request \ {o} : pend'[x] = pend[x]
        /\ o \in InFlight /\ at[o] \in StepsOf(req[o].op)
    BY <1>3, InnerFrame DEF Same, Asked
  <2>1. CASE Hide(o)
    <3>1. /\ at[o] = "hide" /\ Writable(o, req[o].item, -req[o].was)
          /\ pend'[o] = With(pend[o], req[o].item, -req[o].was)
      BY <2>1 DEF Hide, Write, Shape
    <3>2. req[o].item \in Item BY <2>0, <3>1 DEF Asked, StepsOf
    <3> QED BY <1>0, <2>0, <3>1, <3>2, PutSeparate DEF Writable
  <2>2. CASE Delete(o)
    <3>1. /\ at[o] = "delete" /\ ~Locked(o, req[o].item)
          /\ pend'[o] = With(pend[o], req[o].item, Absent)
      BY <2>2 DEF Delete, Shape
    <3>2. req[o].item \in Item BY <2>0, <3>1 DEF Asked, StepsOf
    <3> QED BY <1>0, <2>0, <3>1, <3>2, PutSeparate
  <2>3. CASE Shift(o) \/ AssignOrders(o) BY <1>1, <2>0, <2>3 DEF Shift, AssignOrders
  <2>4. CASE WriteNext(o) \/ AssignNext(o)
    <3>1. PICK p \in DOMAIN plan[o] : Write(o, p, plan[o][p])
      BY <2>4 DEF WriteNext, AssignNext, Due
    <3>2. p \in Item /\ pend'[o] = With(pend[o], p, plan[o][p]) /\ Writable(o, p, plan[o][p])
      BY <3>1 DEF Write, Shape, TypeOK
    <3> QED BY <1>0, <2>0, <3>2, PutSeparate DEF Writable
  <2>5. CASE DecrementAll(o)
    <3>1. ~Unique BY <2>5 DEF DecrementAll, AtOnce, Unique
    <3>2. DOMAIN pend'[o] \subseteq DOMAIN pend[o] \cup DOMAIN plan[o]
      BY <2>5 DEF DecrementAll, Shape
    <3>3. \A x \in Request : x # o => DOMAIN plan[o] \cap DOMAIN pend[x] = {}
      BY <2>5 DEF DecrementAll, Locked
    <3>4. \A x, y \in Request : x # y => DOMAIN pend'[x] \cap DOMAIN pend'[y] = {}
      BY <2>0, <3>2, <3>3 DEF Separate
    <3> QED BY <1>0, <3>1, <3>4 DEF Separate, Unique
  <2> QED BY <1>3, <2>1, <2>2, <2>3, <2>4, <2>5 DEF Inner
<1>4. CASE Outer(o)
  <2>1. DOMAIN pend'[o] = {} /\ \A x \in Request \ {o} : pend'[x] = pend[x]
    BY <1>4, LeaveFrame DEF Same, Nothing
  <2>2. CASE Save(o)
    <3>1. /\ order' = [Seen(o) EXCEPT ![req[o].item] = Kept(o)]
          /\ Writable(o, req[o].item, Kept(o))
      BY <2>2 DEF Save, Commit
    <3>2. DOMAIN Seen(o) = Item BY DEF Seen
    <3>3. /\ \A q \in Item : q # req[o].item => order'[q] = Seen(o)[q]
          /\ req[o].item \in Item => order'[req[o].item] = Kept(o)
      BY <3>1, <3>2
    <3> QED BY <1>0, <2>1, <3>1, <3>3, LeftSeparate
  <2>3. CASE Finish(o)
    <3>1. order' = Seen(o) BY <2>3 DEF Finish, Commit
    <3> QED BY <1>0, <2>1, <3>1, LeftSeparate
  <2>4. CASE Fail(o)
    <3>1. order' = order BY <2>4 DEF Fail
    <3>2. \A x, y \in Request : x # y => DOMAIN pend'[x] \cap DOMAIN pend'[y] = {}
      BY <2>1 DEF Separate
    <3>3. Unique' = Unique BY <1>0 DEF Unique
    <3>4. ASSUME Unique PROVE NoTies' BY <3>1, <3>4 DEF Separate, NoTies
    <3>5. ASSUME Unique, NEW x \in Request PROVE SeesNoTies(x)'
      <4>1. CASE x = o
        <5>1. \A q \in Item : Seen(o)'[q] = order[q] BY <2>1, <3>1 DEF Seen
        <5>2. NoTies BY <3>5 DEF Separate
        <5> QED BY <4>1, <5>1, <5>2 DEF SeesNoTies, NoTies
      <4>2. CASE x # o
        <5>1. SeesNoTies(x) /\ pend'[x] = pend[x] BY <2>1, <3>5, <4>2 DEF Separate
        <5> QED BY <3>1, <5>1 DEF SeesNoTies, Seen
      <4> QED BY <4>1, <4>2
    <3>6. ASSUME Unique, NEW x \in Request, NEW y \in Request, x # y PROVE Apart(x, y)'
      <4>1. CASE x = o \/ y = o BY <2>1, <4>1 DEF Apart
      <4>2. CASE x # o /\ y # o
        <5>1. Apart(x, y) BY <3>6 DEF Separate
        <5> QED BY <2>1, <3>1, <4>2, <5>1 DEF Apart
      <4> QED BY <4>1, <4>2
    <3> QED BY <3>2, <3>3, <3>4, <3>5, <3>6 DEF Separate
  <2> QED BY <1>4, <2>2, <2>3, <2>4 DEF Outer
<1> QED BY <1>2, <1>3, <1>4

----------------------------------------------------------------------------
(* The invariant. *)

LEMMA Initially == Init => IInv
<1> SUFFICES ASSUME Init PROVE IInv OBVIOUS
<1>1. /\ \A o \in Request : /\ at[o] = "new" /\ met[o] = {} /\ req[o] = NoCall
                            /\ pend[o] = Nothing /\ plan[o] = Nothing
      /\ order = Initial /\ table \in {"serviceGroup", "product"}
  BY DEF Init
<1>2. DOMAIN Nothing = {} BY DEF Nothing
<1>3. InFlight = {} BY <1>1 DEF InFlight
<1>4. TypeOK BY <1>1, <1>2, InitialAssumption DEF TypeOK
<1>5. Shape BY DEF Init, Shape
<1>6. /\ NoCall.op = None /\ NoCall.was = 0 /\ NoCall.to = 0 /\ NoCall.list = Nothing
  BY DEF NoCall, Absent
<1>7. \A o \in Request : req[o].was = 0 /\ req[o].to = 0 /\ DOMAIN req[o].list = {} /\ req[o].op = None
  BY <1>1, <1>2, <1>6
<1>8. \A o \in Request : Asked(o) BY <1>3, <1>7 DEF Asked
<1>9. \A o \in Request : Written(o)
  <2>1. \A o \in Request : DOMAIN pend[o] = {} /\ DOMAIN plan[o] = {} BY <1>1, <1>2
  <2> QED BY <1>1, <1>3, <2>1 DEF Written
<1>10. Mutual BY <1>1, <1>3 DEF Mutual
<1>11. Arranged BY <1>1, <1>3, InitialAssumption DEF Arranged, NoTies
<1>12. Separate
  <2>1. \A o \in Request : DOMAIN pend[o] = {} BY <1>1, <1>2
  <2>2. NoTies BY <1>1, InitialAssumption DEF NoTies
  <2>3. \A o \in Request, p \in Item : Seen(o)[p] = order[p] BY <2>1 DEF Seen
  <2>4. \A o \in Request : SeesNoTies(o) BY <2>2, <2>3 DEF SeesNoTies, NoTies
  <2>5. \A o, x \in Request : Apart(o, x) BY <2>1 DEF Apart
  <2> QED BY <2>1, <2>2, <2>4, <2>5 DEF Separate
<1> QED BY <1>3, <1>4, <1>5, <1>8, <1>9, <1>10, <1>11, <1>12 DEF IInv, Offered

LEMMA Inductive == IInv /\ [Next]_vars => IInv'
<1> SUFFICES ASSUME IInv, [Next]_vars PROVE IInv' OBVIOUS
<1>1. ASSUME NEW o \in Request, Arrival(o) \/ Inner(o) \/ Outer(o) PROVE IInv'
  <2>1. Shape' /\ \A x \in Request \ {o} : Same(x)
    BY <1>1, ArrivalFrame, InnerFrame, LeaveFrame DEF Arrival, IInv
  <2>2. \A x \in Request : x # o => Asked(x)' /\ Written(x)' BY <2>1, OthersKeep DEF IInv
  <2>3. Asked(o)' /\ Written(o)' BY <1>1, AskedStays, WrittenStays DEF IInv
  <2>4. TypeOK' /\ Mutual' /\ Arranged' BY <1>1, TypesStay, MutualStays, ArrangedStays DEF IInv
  <2>5. Separate' BY <1>1, SeparateStays DEF IInv
  <2>6. Offered' BY <1>1, OfferedStays DEF IInv
  <2> QED BY <2>1, <2>2, <2>3, <2>4, <2>5, <2>6 DEF IInv
<1>2. CASE UNCHANGED vars
  <2>1. InFlight' = InFlight /\ Calm' = Calm BY <1>2 DEF vars, InFlight, Calm
  <2>2. TypeOK' /\ Shape' /\ Mutual' BY <1>2, <2>1 DEF vars, IInv, TypeOK, Shape, Mutual
  <2>3. \A o \in Request : Asked(o)' /\ Written(o)' BY <1>2, <2>1 DEF vars, IInv, Asked, Written
  <2>4. Arranged' BY <1>2, <2>1 DEF vars, IInv, Arranged, NoTies, Lone, AtItsPlace, OnTheWay, Seen, Target
  <2>5. Separate'
    BY <1>2 DEF vars, IInv, Separate, Unique, NoTies, SeesNoTies, Apart, Seen
  <2>6. Offered' BY <1>2, <2>1 DEF vars, IInv, Offered, Endpoints
  <2> QED BY <2>2, <2>3, <2>4, <2>5, <2>6 DEF IInv
<1> QED BY <1>1, <1>2, StepKinds DEF IInv

LEMMA Always == Spec => []IInv
BY Initially, Inductive, PTL DEF Spec

\* However transactions overlap, a committed order is an order: no hidden row is ever
\* committed as such, and no shift goes below zero.
THEOREM OrdersStayOrders == Spec => []TypeOK
<1>1. IInv => TypeOK BY DEF IInv
<1> QED BY <1>1, Always, PTL

(* A request on its own never runs into the unique order: the row that is next in its
   loop goes where no row stands that has been moved, nor one that is still to be
   moved, since those are all on the side it comes from.                      *)
LEMMA LoneWrites ==
    ASSUME IInv, NEW o \in InFlight, met[o] = {}, at[o] = "write", Unique,
           req[o].op \in {"create", "update", "remove"}, AtItsPlace(o), OnTheWay(o)
    PROVE  /\ \A p \in Due(o) : ~Collides(o, p, plan[o][p])
           /\ DOMAIN plan[o] = {} /\ req[o].op # "remove" => ~Collides(o, req[o].item, Kept(o))
<1> DEFINE i == req[o].item
<1>0. /\ TypeOK /\ Asked(o) /\ Written(o) /\ NoTies /\ o \in Request
      /\ i \in Item /\ req[o].was \in Nat /\ req[o].to \in Nat
  BY DEF IInv, Separate, InFlight, Asked
<1>1. /\ \A p \in DOMAIN plan[o] : p \in Item /\ p # i /\ order[p] # Absent /\ plan[o][p] = Target(o, p)
      /\ \A q \in Item \ (DOMAIN plan[o] \cup {i}) : Seen(o)[q] = Target(o, q)
  BY <1>0 DEF OnTheWay, TypeOK
<1>2. \A q \in DOMAIN plan[o] : Seen(o)[q] = order[q]
  BY <1>1, SeenIs DEF OnTheWay
<1>3. \A p \in Item : order[p] \in Nat BY <1>0 DEF TypeOK
<1>4. \A p, q \in Item : p # i /\ q # i =>
        /\ Target(o, p) \in Nat /\ Place(o) \in Nat
        /\ Target(o, p) = Absent <=> order[p] = Absent
        /\ order[p] # Absent /\ order[q] # Absent => (Target(o, p) < Target(o, q) <=> order[p] < order[q])
        /\ order[p] # Absent => Target(o, p) # Place(o)
        /\ req[o].op # "remove" => Place(o) # Absent
  BY <1>0, TargetsKeepOrder
<1>5. \A p, q \in Item : p # i /\ q # i /\ p # q /\ order[p] # Absent => Target(o, p) # Target(o, q)
  BY <1>3, <1>4, <1>0 DEF NoTies
<1>6. ASSUME NEW p \in Due(o), NEW q \in Item \ {p}, Seen(o)[q] = plan[o][p] PROVE FALSE
  <2>1. /\ p \in DOMAIN plan[o] /\ p \in Item /\ p # i /\ order[p] # Absent /\ plan[o][p] = Target(o, p)
        /\ Target(o, p) \in Nat /\ Target(o, p) # 0
    BY <1>1, <1>4 DEF Due, Absent
  <2>2. CASE q = i
    <3>1. CASE req[o].op = "create"
      <4>1. Seen(o)[i] = 0 BY <1>0, <2>2, <3>1, SeenIs DEF AtItsPlace, OnTheWay, Absent
      <4> QED BY <1>6, <2>1, <2>2, <4>1
    <3>2. CASE req[o].op = "remove"
      <4>1. Seen(o)[i] = 0 BY <1>0, <2>2, <3>2, SeenIs DEF OnTheWay, Absent
      <4> QED BY <1>6, <2>1, <2>2, <4>1
    <3>3. CASE req[o].op = "update"
      <4>1. i \in DOMAIN pend[o] /\ pend[o][i] = -req[o].was BY <2>1, <3>3 DEF OnTheWay
      <4>2. Seen(o)[i] = -req[o].was BY <1>0, <4>1, SeenIs
      <4>3. Target(o, p) = -req[o].was BY <1>6, <2>1, <2>2, <4>2
      <4> HIDE DEF i
      <4> QED BY <1>0, <2>1, <4>3
    <3> QED BY <3>1, <3>2, <3>3
  <2>3. CASE q # i /\ q \notin DOMAIN plan[o]
    <3>1. Seen(o)[q] = Target(o, q) BY <1>1, <2>3
    <3> QED BY <1>5, <1>6, <2>1, <2>3, <3>1
  <2>4. CASE q \in DOMAIN plan[o]
    <3>1. order[q] = Target(o, p) /\ order[q] \in Nat /\ order[p] \in Nat /\ order[q] # Absent /\ q # i
      BY <1>1, <1>2, <1>3, <1>6, <2>1, <2>4
    <3>2. /\ Target(o, q) \in Nat /\ Target(o, p) # Target(o, q)
          /\ plan[o][q] = Target(o, q)
      BY <1>1, <1>4, <1>5, <1>6, <2>1, <2>4, <3>1
    <3>3. CASE Upwards(req[o])
      <4>1. Target(o, q) <= Target(o, p) BY <2>1, <2>4, <3>2, <3>3 DEF Due
      <4>2. order[q] <= Target(o, q)
        BY <1>0, <3>1, <3>3 DEF Target, Upwards
      <4> QED BY <2>1, <3>1, <3>2, <4>1, <4>2
    <3>4. CASE ~Upwards(req[o])
      <4>1. Target(o, q) >= Target(o, p) BY <2>1, <2>4, <3>2, <3>4 DEF Due
      <4>2. order[q] >= Target(o, q)
        BY <1>0, <3>1, <3>4 DEF Target, Upwards
      <4> QED BY <2>1, <3>1, <3>2, <4>1, <4>2
    <3> QED BY <3>3, <3>4
  <2> QED BY <2>2, <2>3, <2>4
<1>7. ASSUME DOMAIN plan[o] = {}, req[o].op # "remove", NEW q \in Item \ {i}, Seen(o)[q] = Kept(o)
      PROVE  FALSE
  <2>1. Kept(o) = Place(o) BY <1>7 DEF Kept, Place
  <2>2. Seen(o)[q] = Target(o, q) BY <1>1, <1>7
  <2> QED BY <1>4, <1>7, <2>1, <2>2
<1> QED BY <1>6, <1>7 DEF Collides

\* The loops of a request on its own, and the write that ends it, go in an order in which no UPDATE
\* puts two groups at one place, whatever gaps the list has and whatever overlapped before.
THEOREM LoneNeverCollidesHolds == Spec => []LoneNeverCollides
<1>1. IInv => LoneNeverCollides
  <2> SUFFICES ASSUME IInv, NEW o \in InFlight, met[o] = {}, at[o] = "write"
               PROVE  /\ \A p \in Due(o) : ~Collides(o, p, plan[o][p])
                      /\ DOMAIN plan[o] = {} /\ req[o].op # "remove" => ~Collides(o, req[o].item, Kept(o))
    BY DEF LoneNeverCollides
  <2>1. CASE ~Unique BY <2>1 DEF Collides
  <2>2. CASE Unique
    <3>1. req[o].op \in {"create", "update", "remove"}
      BY <2>2 DEF IInv, Offered, Endpoints, Unique
    <3>2. AtItsPlace(o) /\ OnTheWay(o) BY <3>1 DEF IInv, Arranged, Lone
    <3> QED BY <2>2, <3>1, <3>2, LoneWrites
  <2> QED BY <2>1, <2>2
<1> QED BY <1>1, Always, PTL

----------------------------------------------------------------------------
(* The refinement. *)

LEMMA ListIs ==
    /\ Listed \subseteq Item /\ \A p \in Item : p \in Listed <=> order[p] # Absent
    /\ \A p, q \in Item : <<p, q>> \in Above <=> order[p] < order[q]
BY DEF Listed, Above

LEMMA ListThen ==
    /\ Listed' \subseteq Item /\ \A p \in Item : p \in Listed' <=> order'[p] # Absent
    /\ \A p, q \in Item : <<p, q>> \in Above' <=> order'[p] < order'[q]
BY DEF Listed, Above

\* Orders without ties rank the list.
LEMMA NoTiesRank ==
    ASSUME TypeOK, NoTies
    PROVE  Ranks!Ranked(Listed, Above)
<1>1. \A p \in Item : order[p] \in Nat BY DEF TypeOK
<1>2. \A p \in Listed : p \in Item /\ order[p] # Absent BY ListIs
<1>3. \A p \in Listed : <<p, p>> \notin Above BY <1>1, <1>2, ListIs
<1>4. \A p, q \in Listed : p # q => (<<p, q>> \in Above \/ <<q, p>> \in Above)
  <2>1. ASSUME NEW p \in Listed, NEW q \in Listed, p # q PROVE order[p] < order[q] \/ order[q] < order[p]
    BY <1>1, <1>2, <2>1 DEF NoTies
  <2> QED BY <1>2, <2>1, ListIs
<1>5. \A p, q, r \in Listed : <<p, q>> \in Above /\ <<q, r>> \in Above => <<p, r>> \in Above
  BY <1>1, <1>2, ListIs
<1> QED BY <1>3, <1>4, <1>5 DEF Ranks!Ranked

LEMMA StartsRanked == Init => Ranks!Init
<1> SUFFICES ASSUME Init PROVE Ranks!Init OBVIOUS
<1>1. IInv BY Initially
<1>2. Calm = TRUE
  <2>1. NoCall.op # "reorder" BY DEF NoCall, None
  <2> QED BY <2>1 DEF Init, Calm
<1>3. Ranks!Ranked(Listed, Above) BY <1>1, <1>2, NoTiesRank DEF IInv, Arranged
<1> QED BY <1>2, <1>3, ListIs DEF Ranks!Init

LEMMA StepsChangeRanks ==
    ASSUME IInv, NEW o \in Request, Arrival(o) \/ Inner(o) \/ Outer(o)
    PROVE  Ranks!Next \/ UNCHANGED Ranks!vars
<1>0. TypeOK /\ Shape /\ Mutual /\ Arranged /\ Asked(o) /\ Written(o) BY DEF IInv
<1>1. CASE ~Calm' BY <1>1 DEF Ranks!Next, Ranks!Overlap
<1>2. CASE Calm' /\ order' = order
  <2>1. Calm BY <1>0, <1>2, CalmBefore
  <2>2. Calm' = Calm BY <1>2, <2>1 DEF Calm
  <2>3. Listed' = Listed /\ Above' = Above BY <1>2 DEF Listed, Above
  <2> QED BY <2>2, <2>3 DEF Ranks!vars
<1>3. CASE Calm' /\ order' # order
  <2> DEFINE i == req[o].item
  <2>1. Calm /\ Calm' BY <1>0, <1>3, CalmBefore
  <2>2. Outer(o) BY <1>0, <1>3, ArrivalFrame, InnerFrame DEF Arrival
  <2>3. o \in InFlight BY <1>0, <2>2, LeaveFrame
  <2>4. NoTies /\ Lone(o) /\ AtItsPlace(o) /\ OnTheWay(o) BY <1>0, <2>1, <2>3 DEF Arranged, Calm, Lone
  <2>5. /\ i \in Item /\ \A p \in Item : order'[p] \in Nat
        /\ req[o].op = "create" => order[i] = Absent /\ order'[i] # Absent
        /\ req[o].op = "update" => order[i] # Absent /\ order'[i] # Absent
        /\ req[o].op = "remove" => order[i] # Absent /\ order'[i] = Absent
        /\ req[o].op \in {"create", "update", "remove"}
        /\ \A p \in Item : p # i => (order'[p] = Absent <=> order[p] = Absent)
        /\ \A p, q \in Item : p # i /\ q # i /\ order[p] # Absent /\ order[q] # Absent =>
              (order'[p] < order'[q] <=> order[p] < order[q])
        /\ NoTies'
    BY <1>0, <1>3, <2>1, <2>2, <2>4, ListAfter
  <2> HIDE DEF i
  <2>6. Ranks!Ranked(Listed, Above)'
    <3>1. TypeOK' BY <1>0, TypesStay
    <3> QED BY <2>5, <3>1, NoTiesRank, PTL
  <2>7. \A S \in SUBSET Listed : i \notin S => Ranks!Keep(S)
    BY <2>5, ListIs, ListThen DEF Ranks!Keep
  <2>8. CASE req[o].op = "create"
    <3>1. i \in Item \ Listed /\ Listed' = Listed \cup {i} BY <2>5, <2>8, ListIs, ListThen
    <3>2. Ranks!Put BY <2>7, <3>1 DEF Ranks!Put
    <3> QED BY <2>1, <2>6, <3>2 DEF Ranks!Next, Ranks!Change, Ranks!Ranked
  <2>9. CASE req[o].op = "update"
    <3>1. i \in Listed /\ Listed' = Listed BY <2>5, <2>9, ListIs, ListThen
    <3>2. Ranks!Move BY <2>7, <3>1 DEF Ranks!Move
    <3> QED BY <2>1, <2>6, <3>2 DEF Ranks!Next, Ranks!Change, Ranks!Ranked
  <2>10. CASE req[o].op = "remove"
    <3>1. i \in Listed /\ Listed' = Listed \ {i} BY <2>5, <2>10, ListIs, ListThen
    <3>2. Ranks!Take BY <2>7, <3>1 DEF Ranks!Take
    <3> QED BY <2>1, <2>6, <3>2 DEF Ranks!Next, Ranks!Change, Ranks!Ranked
  <2> QED BY <2>5, <2>8, <2>9, <2>10
<1> QED BY <1>1, <1>2, <1>3

\* Every step of the services changes the list as Ranking allows or leaves it.
LEMMA StepsRefine == IInv /\ [Next]_vars => [Ranks!Next]_(Ranks!vars)
<1> SUFFICES ASSUME IInv, [Next]_vars PROVE Ranks!Next \/ UNCHANGED Ranks!vars OBVIOUS
<1>1. CASE UNCHANGED vars
  <2>1. Listed' = Listed /\ Above' = Above /\ Calm' = Calm BY <1>1 DEF vars, Listed, Above, Calm
  <2> QED BY <2>1 DEF Ranks!vars
<1> QED BY <1>1, StepsChangeRanks, StepKinds DEF IInv

\* Requests that come one at a time implement Ranking: statement by statement, a row that is
\* added, moved or removed leaves the others in their order and none at the place of another.
THEOREM ServicesRank == Spec => KeepsRanks
<1>1. Init => Ranks!Init BY StartsRanked
<1>2. IInv /\ [Next]_vars => [Ranks!Next]_(Ranks!vars) BY StepsRefine
<1> QED BY <1>1, <1>2, Always, PTL DEF Spec, KeepsRanks, Ranks!Spec

==============================================================================
