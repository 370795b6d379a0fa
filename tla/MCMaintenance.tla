----------------------------- MODULE MCMaintenance -----------------------------
(* Maintenance on small instances.                                           *)
EXTENDS Maintenance, TLC
==============================================================================
