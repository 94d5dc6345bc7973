------------------------------- MODULE MCGate -------------------------------
(***************************************************************************)
(* Gate for TLC.  Most requests come from one address, one from each of    *)
(* two others, which find the table of buckets full.  The handlers are     *)
(* interchangeable, and so are the requests of the busy address and the    *)
(* two other addresses with theirs; no property is about liveness.         *)
(***************************************************************************)
EXTENDS Gate, TLC

CONSTANTS busy, Others, Many

\* The other addresses are named after their only request.
FromMany == [r \in Requests |-> IF r \in Many THEN busy ELSE r]
Symmetry == Permutations(Many) \cup Permutations(Others) \cup Permutations(Handlers)
=============================================================================
