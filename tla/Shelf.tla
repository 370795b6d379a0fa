--------------------------------- MODULE Shelf ---------------------------------
(* The display order of service groups and of products.  Both services keep it in
   a column `order` and make room by rewriting the orders of other rows, one
   UPDATE at a time, in a transaction.  The column of service groups is unique,
   and PostgreSQL checks that at every single UPDATE; the column of products is not.

   The row that is moved or removed is read before the transaction, the rows
   to shift are read in it without a lock, and each is then set to the order
   that was read plus or minus one: what another transaction commits in between
   is overwritten.                                                           *)
EXTENDS Integers, FiniteSets

CONSTANTS
    Item,         \* ids of rows
    Request,      \* each request is made once
    Operations,   \* what is asked for
    MaxTarget,    \* bound: the highest order asked for
    MaxBatch,     \* bound: how many products are reordered at once
    Initial       \* the orders of the rows there are at first, Absent for the other ids

Absent == 0

ASSUME BoundAssumption == MaxTarget \in Nat /\ MaxBatch \in Nat
\* The endpoints that touch the order.
Endpoints(t) == {"create", "update", "remove"} \cup (IF t = "product" THEN {"reorder"} ELSE {})

ASSUME OperationsAssumption == Operations \subseteq Endpoints("product")
ASSUME InitialAssumption ==
    /\ Initial \in [Item -> Nat]
    /\ \A p, q \in Item : Initial[p] = Initial[q] /\ Initial[p] # Absent => p = q

VARIABLES
    table,    \* which of the two it is
    order,    \* the committed order of every row
    pend,     \* what an open transaction has written, a function on the rows it holds locked
    req,      \* what a request was asked for and what it has read
    plan,     \* the UPDATEs its loop has still to make
    at,       \* the step it is about to take
    met       \* the requests that were in flight together with it (history)

vars == <<table, order, pend, req, plan, at, met>>

None    == "none"
Nothing == [p \in {} |-> Absent]
NoCall  == [op |-> None, item |-> None, was |-> Absent, to |-> Absent, list |-> Nothing]

InFlight == {o \in Request : at[o] \notin {"new", "done", "failed"}}

Unique == table = "serviceGroup"

Init ==
    /\ table \in {"serviceGroup", "product"}
    /\ order = Initial
    /\ pend = [o \in Request |-> Nothing]
    /\ req = [o \in Request |-> NoCall]
    /\ plan = [o \in Request |-> Nothing]
    /\ at = [o \in Request |-> "new"]
    /\ met = [o \in Request |-> {}]

----------------------------------------------------------------------------
(* The database. *)

\* What transaction o reads: its own writes, else what is committed.
Seen(o) == [p \in Item |-> IF p \in DOMAIN pend[o] THEN pend[o][p] ELSE order[p]]

Locked(o, p) == \E x \in Request \ {o} : p \in DOMAIN pend[x]

\* Another row of a unique column has order v.
Collides(o, p, v) ==
    Unique /\ \E q \in Item \ {p} : Seen(o)[q] = v /\ ~Locked(o, q)

\* Another row has order v or is about to lose it, which an open transaction will decide.
Undecided(o, p, v) ==
    Unique /\ \E x \in Request \ {o} : \E q \in DOMAIN pend[x] \ {p} : v \in {pend[x][q], order[q]}

Writable(o, p, v) == ~Locked(o, p) /\ ~Collides(o, p, v) /\ ~Undecided(o, p, v)

With(f, p, v) == [q \in DOMAIN f \cup {p} |-> IF q = p THEN v ELSE f[q]]

Without(f, p) == [q \in DOMAIN f \ {p} |-> f[q]]

\* Transaction o sets the row p to v.
Write(o, p, v) ==
    /\ Writable(o, p, v)
    /\ pend' = [pend EXCEPT ![o] = With(@, p, v)]

Goes(o, step) == at' = [at EXCEPT ![o] = step]

\* Its transaction is over, and what it has read is forgotten.
Leave(o, step) ==
    /\ Goes(o, step)
    /\ pend' = [pend EXCEPT ![o] = Nothing]
    /\ plan' = [plan EXCEPT ![o] = Nothing]
    /\ req' = [req EXCEPT ![o] = [NoCall EXCEPT !.op = req[o].op, !.item = req[o].item]]
    /\ UNCHANGED <<table, met>>

Commit(o, f) == order' = f /\ Leave(o, "done")

\* A violated constraint, a row that is gone, a deadlock, Prisma's time limit, a lost server.
Fail(o) ==
    /\ o \in InFlight
    /\ Leave(o, "failed")
    /\ UNCHANGED order

----------------------------------------------------------------------------
(* What the loops write. *)

\* create: everything from the order asked for makes room.
Room(f, to) == [p \in {q \in Item : f[q] >= to} |-> f[p] + 1]

\* remove: everything behind the row that was there closes up.
Closed(f, was) == [p \in {q \in Item : f[q] > was} |-> f[p] - 1]

\* Mutant: the row that stood where the moved one goes to stays.
PassedShort(f, was, to) ==
    IF to < was THEN [p \in {q \in Item : f[q] \in (to + 1)..(was - 1)} |-> f[p] + 1]
                ELSE [p \in {q \in Item : f[q] \in (was + 1)..(to - 1)} |-> f[p] - 1]

\* update: everything between where the row was and where it goes steps aside.
Passed(f, was, to) ==
    IF to < was THEN [p \in {q \in Item : f[q] \in to..(was - 1)} |-> f[p] + 1]
                ELSE [p \in {q \in Item : f[q] \in (was + 1)..to} |-> f[p] - 1]

Upwards(q) == q.op = "create" \/ (q.op = "update" /\ q.to < q.was)

\* Mutant: the loop runs over the rows in the order they are listed in.
DueListed(o) == {p \in DOMAIN plan[o] : \A q \in DOMAIN plan[o] : plan[o][q] >= plan[o][p]}

\* The next row of a loop: the last one first where orders grow, the first one where they shrink.
Due(o) == {p \in DOMAIN plan[o] :
              \A q \in DOMAIN plan[o] : IF Upwards(req[o]) THEN plan[o][q] <= plan[o][p]
                                        ELSE req[o].op # "reorder" => plan[o][q] >= plan[o][p]}

----------------------------------------------------------------------------
(* The requests. *)

\* Request o comes, asks for what q says and makes its first read.
Arrive(o, q, f, step) ==
    /\ at[o] = "new" /\ q.op \in Operations \cap Endpoints(table)
    /\ at' = [at EXCEPT ![o] = step]
    /\ req' = [req EXCEPT ![o] = q]
    /\ plan' = [plan EXCEPT ![o] = f]
    /\ met' = [p \in Request |-> CASE p = o        -> InFlight
                                   [] p \in InFlight -> met[p] \cup {o}
                                   [] OTHER        -> met[p]]
    /\ UNCHANGED <<table, order, pend>>

Fresh == {p \in Item : order[p] = Absent /\ \A x \in Request : req[x].item # p}

\* The highest order there is.
Last == {n \in {Absent} \cup {order[p] : p \in Item} : \A p \in Item : order[p] <= n}

\* With an order asked for, the rows from there on are read.
CreateAt(o) ==
    \E p \in Fresh : \E to \in 1..MaxTarget :
        Arrive(o, [NoCall EXCEPT !.op = "create", !.item = p, !.to = to], Room(order, to), "write")

\* Without one, the last row is.
CreateLast(o) ==
    \E p \in Fresh : \E n \in Last :
        Arrive(o, [NoCall EXCEPT !.op = "create", !.item = p, !.to = n + 1], Nothing, "write")

\* 0 stands for an update that says nothing of the order.
Update(o) ==
    \E p \in Item : \E to \in 0..MaxTarget :
        /\ order[p] # Absent
        /\ Arrive(o, [NoCall EXCEPT !.op = "update", !.item = p, !.was = order[p], !.to = to],
                  Nothing, IF to \in {0, order[p]} THEN "write" ELSE "hide")

Remove(o) ==
    \E p \in Item :
        /\ order[p] # Absent
        /\ Arrive(o, [NoCall EXCEPT !.op = "remove", !.item = p, !.was = order[p]], Nothing, "delete")

\* Any orders for any products; they are hidden at negative orders first.
Reorder(o) ==
    \E S \in SUBSET {p \in Item : order[p] # Absent} : \E list \in [S -> 1..MaxTarget] :
        /\ Cardinality(S) \in 1..MaxBatch
        /\ Arrive(o, [NoCall EXCEPT !.op = "reorder", !.list = list], [p \in S |-> -1], "write")

\* The row that moves frees its place.
Hide(o) ==
    /\ at[o] = "hide"
    /\ Seen(o)[req[o].item] # Absent
    /\ Write(o, req[o].item, -req[o].was)
    /\ Goes(o, "shift")
    /\ UNCHANGED <<table, order, req, plan, met>>

Delete(o) ==
    /\ at[o] = "delete"
    /\ Seen(o)[req[o].item] # Absent
    /\ ~Locked(o, req[o].item)
    /\ pend' = [pend EXCEPT ![o] = With(@, req[o].item, Absent)]
    /\ Goes(o, "shift")
    /\ UNCHANGED <<table, order, req, plan, met>>

Shift(o) ==
    /\ at[o] = "shift"
    /\ plan' = [plan EXCEPT ![o] = IF req[o].op = "remove" THEN Closed(Seen(o), req[o].was)
                                   ELSE Passed(Seen(o), req[o].was, req[o].to)]
    /\ Goes(o, "write")
    /\ UNCHANGED <<table, order, pend, req, met>>

AtOnce(o) == req[o].op = "remove" /\ table = "product"

\* One UPDATE of a loop.
WriteNext(o) ==
    /\ at[o] = "write" /\ ~AtOnce(o)
    /\ \E p \in Due(o) :
          /\ Seen(o)[p] # Absent
          /\ Write(o, p, plan[o][p])
          /\ plan' = [plan EXCEPT ![o] = Without(@, p)]
    /\ UNCHANGED <<table, order, req, at, met>>

\* Products close up in a single UPDATE, which looks again at the rows it waited for.
DecrementAll(o) ==
    /\ at[o] = "write" /\ AtOnce(o)
    /\ DOMAIN plan[o] # {}
    /\ \A p \in DOMAIN plan[o] : ~Locked(o, p)
    /\ LET behind == {p \in DOMAIN plan[o] : Seen(o)[p] > req[o].was}
       IN  pend' = [pend EXCEPT ![o] = [p \in DOMAIN @ \cup behind |->
                                          IF p \in behind THEN Seen(o)[p] - 1 ELSE @[p]]]
    /\ plan' = [plan EXCEPT ![o] = Nothing]
    /\ UNCHANGED <<table, order, req, at, met>>

\* The second loop of a reorder.
AssignOrders(o) ==
    /\ at[o] = "write" /\ req[o].op = "reorder" /\ DOMAIN plan[o] = {}
    /\ plan' = [plan EXCEPT ![o] = req[o].list]
    /\ Goes(o, "assign")
    /\ UNCHANGED <<table, order, pend, req, met>>

AssignNext(o) ==
    /\ at[o] = "assign"
    /\ \E p \in DOMAIN plan[o] :
          /\ Seen(o)[p] # Absent
          /\ Write(o, p, plan[o][p])
          /\ plan' = [plan EXCEPT ![o] = Without(@, p)]
    /\ UNCHANGED <<table, order, req, at, met>>

\* Mutant: the moved row keeps its temporary order.
KeptHidden(o) == Seen(o)[req[o].item]

\* A group that is updated is given the order that was read, also if nobody asked for one.
Kept(o) ==
    IF req[o].to # 0 THEN req[o].to
    ELSE IF Unique THEN req[o].was
    ELSE Seen(o)[req[o].item]

\* The last statement, and the COMMIT.
Save(o) ==
    /\ at[o] = "write" /\ DOMAIN plan[o] = {}
    /\ req[o].op \in {"create", "update"}
    /\ req[o].op = "update" => Seen(o)[req[o].item] # Absent
    /\ Writable(o, req[o].item, Kept(o))
    /\ Commit(o, [Seen(o) EXCEPT ![req[o].item] = Kept(o)])

Finish(o) ==
    /\ \/ at[o] = "write" /\ req[o].op = "remove"
       \/ at[o] = "assign"
    /\ DOMAIN plan[o] = {}
    /\ Commit(o, Seen(o))

Terminating == InFlight = {} /\ UNCHANGED vars

Next ==
    \/ \E o \in Request :
          \/ CreateAt(o) \/ CreateLast(o) \/ Update(o) \/ Remove(o) \/ Reorder(o)
          \/ Hide(o) \/ Delete(o) \/ Shift(o) \/ WriteNext(o) \/ DecrementAll(o)
          \/ AssignOrders(o) \/ AssignNext(o) \/ Save(o) \/ Finish(o) \/ Fail(o)
    \/ Terminating

Spec == Init /\ [][Next]_vars

----------------------------------------------------------------------------
\* Every committed row stands at a positive order: the temporary negative ones never
\* outlive the transaction that wrote them, and no shift reaches zero.
TypeOK ==
    /\ table \in {"serviceGroup", "product"}
    /\ order \in [Item -> Nat]
    /\ \A o \in Request :
          /\ at[o] \in {"new", "hide", "delete", "shift", "write", "assign", "done", "failed"}
          /\ DOMAIN pend[o] \cup DOMAIN plan[o] \subseteq Item
          /\ \A p \in DOMAIN pend[o] : pend[o][p] \in Int
          /\ \A p \in DOMAIN plan[o] : plan[o][p] \in Int
          /\ met[o] \subseteq Request \ {o}

\* A request that no other overlaps never runs into the unique order, whatever
\* gaps are in the list: its loop goes the way that keeps every UPDATE legal.
LoneNeverCollides ==
    \A o \in InFlight : met[o] = {} /\ at[o] = "write" =>
        /\ \A p \in Due(o) : ~Collides(o, p, plan[o][p])
        /\ DOMAIN plan[o] = {} /\ req[o].op # "remove" => ~Collides(o, req[o].item, Kept(o))

\* No two requests have overlapped, and no products were given orders at will.
Calm == \A o \in Request : met[o] = {} /\ req[o].op # "reorder"

Listed == {p \in Item : order[p] # Absent}
Above  == {pq \in Item \X Item : order[pq[1]] < order[pq[2]]}

\* The services keep the promise of Ranking: a request on its own that adds, moves
\* or removes a row leaves the others in their order, and no two at the same place.
Ranks == INSTANCE Ranking WITH shelf <- Listed, above <- Above, calm <- Calm

KeepsRanks == Ranks!Spec
==============================================================================
