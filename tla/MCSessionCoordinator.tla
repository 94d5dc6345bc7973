------------------------ MODULE MCSessionCoordinator ------------------------
(***************************************************************************)
(* SessionCoordinator for TLC.  The bounds are given by the .cfg files; a  *)
(* tick is about 10 s, so that the 45 s lease is more than two hyprctl     *)
(* calls long, as in the code.                                             *)
(***************************************************************************)
EXTENDS SessionCoordinator
=============================================================================
