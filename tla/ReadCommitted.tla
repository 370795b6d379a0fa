---------------------------- MODULE ReadCommitted ----------------------------
(* The database under the services: PostgreSQL at its default isolation level,
   READ COMMITTED, driven through Prisma's `$transaction`.  It is not part of
   the repository; it is modelled from what the services rely on.

   A table row is a key of `db`, a row that does not exist has the value
   Absent.  A transaction runs its statements one after another, and every
   statement takes two steps: it first fixes the rows its WHERE clause matches
   in what is committed when it starts (Snapshot), then waits for the locks on
   those rows, evaluates the clause again on their newest versions, and writes
   (Apply).  A row committed by another transaction in between is not among
   the matched ones: this is the anomaly READ COMMITTED allows.             *)
EXTENDS Naturals, Sequences

CONSTANT Request    \* the HTTP requests; each has at most one open transaction

VARIABLES
    db,      \* committed value of every row
    pend,    \* pend[t][r]: what t has written to r and not committed; also its row lock
    snap,    \* snap[t]: the rows matched by t's running statement
    busy,    \* busy[t]: a statement of t is running
    pc       \* pc[t]: index of t's statement, 0 when t has no transaction

dbVars == <<db, pend, snap, busy, pc>>

Absent  == "absent"
NoWrite == "noWrite"

Row == DOMAIN db

NoWrites == [r \in Row |-> NoWrite]

\* What transaction t reads: its own uncommitted write, else the committed value.
Seen(t, r) == IF pend[t][r] # NoWrite THEN pend[t][r] ELSE db[r]

Locked(t, r) == \E x \in Request \ {t} : pend[x][r] # NoWrite

(* A statement [rows, from, to, unique, unless]: each of `rows` whose value is
   in `from` gets the value `to`.  A `unique` statement fails on a row that
   exists; a statement is skipped when its transaction has read a row of
   `unless` as ACTIVE.                                                        *)
Matching(t, s) == {r \in s.rows : Seen(t, r) \in s.from}

Skipped(t, s) == \E r \in s.unless : Seen(t, r) = "ACTIVE"

Violates(t, s) == s.unique /\ \E r \in s.rows : Seen(t, r) # Absent

\* The row exists, committed or not.
Exists(r) == \/ db[r] # Absent
             \/ \E x \in Request : pend[x][r] \notin {NoWrite, Absent}

Open(t) == pc[t] # 0

DbInit ==
    /\ pend = [t \in Request |-> NoWrites]
    /\ snap = [t \in Request |-> {}]
    /\ busy = [t \in Request |-> FALSE]
    /\ pc   = [t \in Request |-> 0]

StartTransaction(t) ==
    /\ pc[t] = 0
    /\ pc' = [pc EXCEPT ![t] = 1]
    /\ UNCHANGED <<db, pend, snap, busy>>

\* Statement s of transaction t starts and matches its rows.
Snapshot(t, s) ==
    /\ Open(t) /\ ~busy[t]
    /\ snap' = [snap EXCEPT ![t] = IF Skipped(t, s) THEN {} ELSE Matching(t, s)]
    /\ busy' = [busy EXCEPT ![t] = TRUE]
    /\ UNCHANGED <<db, pend, pc>>

\* It writes once none of them is locked; a row that no longer matches is left alone.
Apply(t, s) ==
    /\ Open(t) /\ busy[t]
    /\ \A r \in snap[t] : ~Locked(t, r)
    /\ ~Violates(t, s)
    /\ pend' = [pend EXCEPT ![t] =
                  [r \in Row |-> IF r \in snap[t] /\ Seen(t, r) \in s.from
                                 THEN s.to ELSE pend[t][r]]]
    /\ snap' = [snap EXCEPT ![t] = {}]
    /\ busy' = [busy EXCEPT ![t] = FALSE]
    /\ pc'   = [pc   EXCEPT ![t] = @ + 1]
    /\ UNCHANGED db

Finish(t) ==
    /\ pend' = [pend EXCEPT ![t] = NoWrites]
    /\ snap' = [snap EXCEPT ![t] = {}]
    /\ busy' = [busy EXCEPT ![t] = FALSE]
    /\ pc'   = [pc   EXCEPT ![t] = 0]

Commit(t) ==
    /\ Open(t) /\ ~busy[t]
    /\ db' = [r \in Row |-> Seen(t, r)]
    /\ Finish(t)

\* A violated constraint, Prisma's five second limit, a lost connection, a deadlock victim.
Abort(t) ==
    /\ Open(t)
    /\ Finish(t)
    /\ UNCHANGED db

----------------------------------------------------------------------------
\* No two open transactions hold an uncommitted write to the same row: the row locks work.
LocksExclusive ==
    \A s, t \in Request : \A r \in Row :
        s # t => pend[s][r] = NoWrite \/ pend[t][r] = NoWrite
==============================================================================
