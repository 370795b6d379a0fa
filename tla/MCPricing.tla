------------------------------- MODULE MCPricing -------------------------------
EXTENDS Pricing, TLC
MCOperations == Administration \cup Purchasing
Symmetry == Permutations(Request)
==============================================================================
