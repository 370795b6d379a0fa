-------------------------------- MODULE MCShelf --------------------------------
EXTENDS Shelf, TLC
CONSTANTS a, b, c, d
MCItem == {a, b, c, d}
\* A gap before the last of three rows.
MCInitial == (a :> 1) @@ (b :> 2) @@ (c :> 4) @@ (d :> Absent)
MCOperations == {"create", "update", "remove", "reorder"}
Symmetry == Permutations(Request)
==============================================================================
