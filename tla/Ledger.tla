-------------------------------- MODULE Ledger --------------------------------
(* What an account is promised about what it has paid for.  A subscription pays
   for the entitlement that was granted with it, so the pair has one life:

       none --> backed --> bare --> ended
                   |                  ^
                   +--> orphaned -----+      (and backed --> ended at once)

   backed is a live subscription whose entitlement is ACTIVE, bare is one
   without, orphaned is an entitlement whose subscription has ended.  Each step
   is about one account and takes effect at once.                            *)
CONSTANTS User, Key

VARIABLE life     \* life[u][k]: how far subscription k of account u has come

State == {"none", "backed", "bare", "orphaned", "ended"}

Init == life \in [User -> [Key -> {"none", "backed"}]]

Same(u, k) == life'[u][k] = life[u][k]

\* It is ended or loses its entitlement, but does not leave it behind.
Withdrawn(u, k) ==
    <<life[u][k], life'[u][k]>> \in
        {<<"backed", "bare">>, <<"backed", "ended">>, <<"bare", "ended">>, <<"orphaned", "ended">>}

\* It is ended, whatever it has paid for.
Stopped(u, k) ==
    <<life[u][k], life'[u][k]>> \in {<<"backed", "orphaned">>, <<"bare", "ended">>}

Withdraw(u) == \A k \in Key : Same(u, k) \/ Withdrawn(u, k)

\* A new subscription comes with its entitlement, perhaps in place of others.
Grant(u, k) ==
    /\ life[u][k] = "none" /\ life'[u][k] = "backed"
    /\ \A l \in Key \ {k} : Same(u, l) \/ Withdrawn(u, l)

Suspend(u) == \A k \in Key : Same(u, k) \/ Stopped(u, k)

\* An account that is restored may get a subscription, but no entitlement.
Restore(u, k) ==
    /\ life[u][k] = "none" /\ life'[u][k] = "bare"
    /\ \A l \in Key \ {k} : Same(u, l)

Change(u) == Withdraw(u) \/ Suspend(u) \/ \E k \in Key : Grant(u, k) \/ Restore(u, k)

Next ==
    /\ life' \in [User -> [Key -> State]]
    /\ \E u \in User : Change(u) /\ \A v \in User \ {u}, k \in Key : Same(v, k)

Spec == Init /\ [][Next]_life
==============================================================================
