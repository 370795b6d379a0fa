------------------------------- MODULE MCChat -------------------------------
(* Chat for TLC: requests are interchangeable, and so are the users that own
   no team.                                                                  *)
EXTENDS Chat, TLC

Symmetry == Permutations(Request) \cup Permutations(User \ {Owner})
=============================================================================
