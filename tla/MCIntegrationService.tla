------------------------ MODULE MCIntegrationService ------------------------
(***************************************************************************)
(* Instances of IntegrationService for TLC.  Clients and mergers are only  *)
(* compared, so permuting them is sound; works differ in their conflicts.  *)
(***************************************************************************)
EXTENDS IntegrationService, TLC

CONSTANTS Plain, Config, Product  \* works by the conflicts of their changes

MCConflict ==
  [w \in Finished |-> CASE w = Product -> "human_decision_required"
                     [] w = Config  -> "low_risk"
                     [] OTHER       -> "none"]

Symmetry == Permutations(Clients) \cup Permutations(Mergers)
=============================================================================
