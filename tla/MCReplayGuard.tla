--------------------------- MODULE MCReplayGuard ---------------------------
(***************************************************************************)
(* ReplayGuard for TLC.  A tick is a minute: REQUEST_WINDOW and            *)
(* MAX_CLOCK_SKEW are 2 ticks, as in the code, unless the .cfg says        *)
(* otherwise.                                                              *)
(***************************************************************************)
EXTENDS ReplayGuard
=============================================================================
