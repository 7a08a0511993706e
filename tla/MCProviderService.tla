------------------------- MODULE MCProviderService -------------------------
(***************************************************************************)
(* Instances of ProviderService for TLC: a chain of two models of the main *)
(* provider and one of a fallback provider.  Callers and operators are     *)
(* only compared, so permuting them is sound.                              *)
(***************************************************************************)
EXTENDS ProviderService, TLC

CONSTANTS main, spare

ChainOfThree == [i \in 1 .. 3 |-> IF i = 3 THEN spare ELSE main]

ThreeThenOne == [i \in 1 .. 3 |-> IF i = 1 THEN 3 ELSE 1]

Symmetry == Permutations(Callers) \cup Permutations(Operators)
=============================================================================
