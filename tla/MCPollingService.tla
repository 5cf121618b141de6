-------------------------- MODULE MCPollingService --------------------------
(* PollingService on small instances.                                      *)
EXTENDS PollingService, TLC

\* Values are only compared, so the valid ones are interchangeable too.
Symmetry == Permutations(Keys) \cup Permutations(Values \ Invalid)
=============================================================================
