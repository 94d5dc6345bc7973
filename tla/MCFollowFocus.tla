---------------------------- MODULE MCFollowFocus ----------------------------
(***************************************************************************)
(* FollowFocus for TLC.  Three displays, of which Sunshine can switch to   *)
(* two: the boundary of 13 in small.                                       *)
(***************************************************************************)
EXTENDS FollowFocus

CONSTANTS left, middle, right

ThreeDisplays == <<left, middle, right>>
=============================================================================
