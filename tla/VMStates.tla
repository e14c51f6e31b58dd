------------------------------ MODULE VMStates ------------------------------
(***************************************************************************)
(* The states of a vms.Instance, the operations on it and the transition   *)
(* table they share.  The state and action types live in cloudeng.io/vms,  *)
(* outside the repository: only what src/tartvm relies on is stated here.  *)
(* The table itself is a constant, constrained by AllowedAssumption.       *)
(***************************************************************************)
EXTENDS Naturals

CONSTANTS
    Allowed,        \* [States -> SUBSET Actions]: vms.State.Allowed
    SetResources    \* TRUE iff ResourceConfig.configured()

States == {"Initial", "Cloning", "Stopped", "Starting", "Running", "Stopping",
           "Suspending", "Suspended", "Deleting", "Deleted", "ErrorUnknown"}

Transient == {"Cloning", "Starting", "Stopping", "Suspending", "Deleting"}

Actions == {"Clone", "Start", "Stop", "Suspend", "Delete", "None"}

\* The exported operations that take opMutex; "Set" is the second command of
\* Clone, `tart set`, run under the same lock.
Calls == {"Clone", "Start", "Stop", "Suspend", "Delete"}
Ops   == Calls \cup {"Set"}

Action(o) == IF o = "Set" THEN "None" ELSE o

Intermediate == [Clone  |-> "Cloning",  Set     |-> "Stopped",
                 Start  |-> "Starting", Stop    |-> "Stopping",
                 Delete |-> "Deleting", Suspend |-> "Suspending"]

Target == [Clone  |-> IF SetResources THEN "Cloning" ELSE "Stopped",
           Set    |-> "Stopped",  Start   |-> "Running",
           Stop   |-> "Stopped",  Suspend |-> "Suspended",
           Delete |-> "Deleted"]

\* The states in which a VM may be up while no operation is in progress.
Powered == {"Running", "ErrorUnknown"}

\* What the tests of src/tartvm require of the table, and that Start is
\* refused while a VM may be up.
ASSUME AllowedAssumption ==
    /\ Allowed \in [States -> SUBSET Actions]
    /\ {"Clone", "Delete"} \subseteq Allowed["Initial"]
    /\ "None" \in Allowed["Cloning"]
    /\ {"Start", "Delete"} \subseteq Allowed["Stopped"] \cap Allowed["Suspended"]
    /\ {"Stop", "Suspend"} \subseteq Allowed["Running"]
    /\ \A s \in {"Stopped", "Running", "Suspended"} : "Clone" \notin Allowed[s]
    /\ \A s \in {"Initial"} \cup Powered : "Start" \notin Allowed[s]
    /\ "Delete" \notin Allowed["Running"]
    /\ {"Stop", "Suspend"} \cap Allowed["Initial"] = {}

ASSUME SetResourcesAssumption == SetResources \in BOOLEAN
=============================================================================
