---------------------------- MODULE MCAgentTypes ----------------------------
(***************************************************************************)
(* Instances of AgentTypes for TLC.  Types, records, instances and         *)
(* requests are only compared, so permuting them is sound: every property  *)
(* is a safety property.                                                   *)
(***************************************************************************)
EXTENDS AgentTypes, TLC

Symmetry == Permutations(Types) \cup Permutations(Records)
              \cup Permutations(Instances) \cup Permutations(Requests)
=============================================================================
