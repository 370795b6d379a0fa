------------------------------- MODULE MCAccess -------------------------------
(* Access on small instances: the requests are interchangeable.              *)
EXTENDS AccessInv, TLC

RequestSymmetry == Permutations(Request)
===============================================================================
