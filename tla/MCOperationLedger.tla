------------------------- MODULE MCOperationLedger -------------------------
(* Symmetry for model-checking OperationLedger: servers, requests and the  *)
(* effects that no policy tells apart are interchangeable.                 *)
EXTENDS OperationLedger, TLC

Alike ==
  Permutations(Servers) \cup Permutations(Requests) \cup Permutations(Effects \ DryRunnable)
=============================================================================
