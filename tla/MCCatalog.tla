------------------------------- MODULE MCCatalog -------------------------------
EXTENDS Catalog, TLC
CONSTANTS n1, n2, n3, s, t
\* Two of the three names give the same slug.
MCSlugOf == (n1 :> s) @@ (n2 :> s) @@ (n3 :> t)
MCKinds == {"category", "tag", "contentType", "insightCategory", "serviceGroup", "product", "service", "ticket"}
MCOperations == LabelOperations \cup DocOperations
Symmetry == Permutations(Request) \cup Permutations(Label) \cup Permutations(Doc)
==============================================================================
