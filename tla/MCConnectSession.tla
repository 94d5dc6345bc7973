-------------------------- MODULE MCConnectSession --------------------------
(***************************************************************************)
(* ConnectSession for TLC.  A tick is about 7 s: the lease is 6 ticks, a   *)
(* renewal is due every 2, a request may take 1.                           *)
(***************************************************************************)
EXTENDS ConnectSession
=============================================================================
