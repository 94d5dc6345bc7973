-------------------------- MODULE MCControllerDesktop --------------------------
(***************************************************************************)
(* ControllerDesktop for TLC: two commands that both ask for the           *)
(* shortcuts, or a command that does not beside the user interface.        *)
(***************************************************************************)
EXTENDS ControllerDesktop

CONSTANTS c1, c2

How(isCli, isRemote) == [cli |-> isCli, remote |-> isRemote]
SmallLaunches ==
    {[c \in Connects |-> How(TRUE, TRUE)],
     [c \in Connects |-> IF c = c1 THEN How(TRUE, FALSE) ELSE How(FALSE, TRUE)]}
=============================================================================
