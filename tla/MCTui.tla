------------------------------- MODULE MCTui -------------------------------
(***************************************************************************)
(* Tui for TLC.  Discovery finds this device and two others, or one of     *)
(* them not ready, or nothing.                                             *)
(***************************************************************************)
EXTENDS Tui

CONSTANTS here, laptop, tower

Found(id, ok) == [id |-> id, connectable |-> ok]
SmallListings ==
    {<<Found(here, FALSE), Found(laptop, TRUE), Found(tower, TRUE)>>,
     <<Found(tower, TRUE), Found(laptop, FALSE)>>}
=============================================================================
