------------------------------- MODULE MCLibrary -------------------------------
EXTENDS Library, TLC
MCOperations == Reading \cup Patreon \cup Billing \cup Curating \cup Keeping \cup Listing
\* Downloads of every access model, and one document with an open file.
MCDocuments == {[live |-> TRUE, model |-> m, downloadable |-> TRUE] : m \in Model}
               \cup {[live |-> TRUE, model |-> "PUBLIC", downloadable |-> FALSE]}
MCRules == {[type |-> "PATREON_TIER", operator |-> "EXISTS", values |-> {}, allow |-> TRUE],
            [type |-> "PLAN", operator |-> "NOT_IN", values |-> {"plan"}, allow |-> FALSE],
            [type |-> "CUSTOM", operator |-> "EQUALS", values |-> {}, allow |-> FALSE]}
MCMemberships == {[status |-> "active_patron", tier |-> "gold"],
                  [status |-> "former_patron", tier |-> "none"]}
Symmetry == Permutations(Request)
=============================================================================
