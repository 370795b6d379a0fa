-------------------------------- MODULE Ranking --------------------------------
(* What a list that administrators arrange promises: it is a ranking without
   ties, and whoever puts an item in, moves one or takes one out leaves the
   others in the order they were in.

   The promise holds while changes come one at a time.  Once two have
   overlapped the list is no longer `calm`, and nothing is said of it.        *)
CONSTANT Item

VARIABLES
    shelf,    \* the items in the list
    above,    \* the pairs of items of which the first is listed before the second
    calm      \* no two changes have overlapped yet

vars == <<shelf, above, calm>>

Ranked(S, R) ==
    /\ \A p \in S : <<p, p>> \notin R
    /\ \A p, q \in S : p # q => (<<p, q>> \in R \/ <<q, p>> \in R)
    /\ \A p, q, r \in S : <<p, q>> \in R /\ <<q, r>> \in R => <<p, r>> \in R

Init ==
    /\ calm = TRUE
    /\ shelf \subseteq Item
    /\ Ranked(shelf, above)

\* The items of S stay in the order they are in.
Keep(S) == \A p, q \in S : <<p, q>> \in above' <=> <<p, q>> \in above

Put  == \E p \in Item \ shelf : shelf' = shelf \cup {p} /\ Keep(shelf)
Take == \E p \in shelf : shelf' = shelf \ {p} /\ Keep(shelf \ {p})
Move == \E p \in shelf : shelf' = shelf /\ Keep(shelf \ {p})

Change ==
    /\ calm /\ calm'
    /\ Put \/ Take \/ Move
    /\ Ranked(shelf', above')

Overlap == ~calm'

Next == Change \/ Overlap

Spec == Init /\ [][Next]_vars
==============================================================================
