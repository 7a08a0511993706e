--------------------------- MODULE MCAgentRuntime ---------------------------
(***************************************************************************)
(* Instances of AgentRuntime for TLC: a task, tried twice, and a task that *)
(* builds on it.  Workers are only compared, so permuting them is sound.   *)
(***************************************************************************)
EXTENDS AgentRuntime, TLC

MCAttempts == {<<1, 1>>, <<1, 2>>, <<2, 1>>}
Chain == [t \in Tasks |-> IF t = 2 THEN {1} ELSE {}]

Symmetry == Permutations(Workers)
=============================================================================
