CONSTANTS
    n1 = n1
    n2 = n2
    n3 = n3
    s = s
    t = t
    Doc = {d1, d2}
    Label = {l1, l2}
    Name = {n1, n2, n3}
    SlugOf <- MCSlugOf
    Kinds <- MCKinds
    Operations <- MCOperations
    Request = {r1, r2}
    MaxAsked = 1
SYMMETRY Symmetry
SPECIFICATION Spec
INVARIANT TypeOK
PROPERTIES OnlyOverlapUndoes OnlyOverlapDropsLinks OnlyRemovalReveals
