---------------------------- MODULE SessionLease ----------------------------
(***************************************************************************)
(* What the agent promises about the desktop session it hosts, without     *)
(* hyprctl, timers, locks or processes: at most one device holds the       *)
(* session, nobody takes it from the device that holds it, and a session   *)
(* that has ended never comes back (a new one has a new identifier).       *)
(* SessionCoordinator implements this specification.                       *)
(***************************************************************************)
CONSTANTS Owners,      \* the devices that may hold the session
          Ids,         \* the identifiers a session may have
          NoHolder     \* the value of holder when nobody holds it

VARIABLES holder,      \* the session somebody holds now, or NoHolder
          granted      \* the identifiers of all sessions ever granted

leaseVars == <<holder, granted>>

Init ==
    /\ holder = NoHolder
    /\ granted = {}

\* Device o obtains a session: from nobody, or in place of its own.
Grant(o, id) ==
    /\ id \notin granted
    /\ holder # NoHolder => holder.owner = o
    /\ holder' = [id |-> id, owner |-> o]
    /\ granted' = granted \cup {id}

\* The session ends: released, lapsed, or lost with the agent.
End ==
    /\ holder # NoHolder
    /\ holder' = NoHolder
    /\ UNCHANGED granted

Next ==
    \/ \E o \in Owners, id \in Ids : Grant(o, id)
    \/ End

Spec == Init /\ [][Next]_leaseVars
=============================================================================
