-------------------------------- MODULE MCTeam --------------------------------
(* Team on small instances.                                                  *)
EXTENDS Team, TLC

\* Requests are interchangeable, and so are the users that own no team, as far as the batches
\* of the instance allow.
Symmetry ==
    Permutations(Request)
        \cup {p \in Permutations(User \ Owner) :
                \A W \in Batches : W \subseteq User \ Owner => {p[u] : u \in W} \in Batches}
==============================================================================
