------------------------------ MODULE MCSessions ------------------------------
(* Sessions on small instances.                                              *)
EXTENDS Sessions, TLC

Symmetry == Permutations(Request)
==============================================================================
