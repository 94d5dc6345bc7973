------------------------------ MODULE MCAccess ------------------------------
(***************************************************************************)
(* Access for TLC.  Two devices share a host name, under which both are    *)
(* shown; each also has a MagicDNS name of its own.  The tasks of the      *)
(* interface are interchangeable.                                          *)
(***************************************************************************)
EXTENDS Access, TLC

CONSTANTS tower, laptop

SharedNames == [d \in Devices |-> IF d = tower THEN {"desk", "desk-1"} ELSE {"desk", "desk-2"}]
HostNames == [d \in Devices |-> "desk"]
Symmetry == Permutations(TuiTasks)
=============================================================================
