---------------------------- MODULE MCAuthorizer ----------------------------
(***************************************************************************)
(* Authorizer for TLC.  Handlers, addresses and identities are             *)
(* interchangeable and every property is an invariant.                     *)
(***************************************************************************)
EXTENDS Authorizer, TLC

Symmetry ==
    Permutations(Sources) \cup Permutations(Identities) \cup Permutations(Handlers)
=============================================================================
