---------------------------- MODULE MCPairStream ----------------------------
(***************************************************************************)
(* Instances of PairStream for TLC.  Identifiers and handlers are          *)
(* interchangeable and every property is an invariant, so the states are   *)
(* taken up to their permutations.                                         *)
(***************************************************************************)
EXTENDS PairStream, TLC

Symmetry == Permutations(Ids) \cup Permutations(Handlers)
=============================================================================
