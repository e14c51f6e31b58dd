---------------------------- MODULE VMLifecycle -----------------------------
(***************************************************************************)
(* What a tartvm.Instance promises to those who only see State() and the   *)
(* outcome of one operation at a time.  An operation enters its            *)
(* intermediate state from a state that admits it and leaves it by one of  *)
(* the outcomes of its kind; a VM can be up in a settled state only if     *)
(* that state is Running or ErrorUnknown, and only a Start brings it up.   *)
(***************************************************************************)
EXTENDS VMStates

VARIABLES
    state,      \* what State() returns
    busy,       \* the operation in progress, or "none"
    from,       \* the state it started in
    powered     \* a VM is up, or coming up

vars == <<state, busy, from, powered>>

Init == state = "Initial" /\ busy = "none" /\ from = "Initial" /\ powered = FALSE

\* Where each operation may end.  Clone and Delete fall back to the state they
\* started in, Stop and Suspend never do, Start may lose track of the VM.
Outcomes == [Clone   |-> {from} \cup (IF SetResources THEN {} ELSE {"Stopped"}),
             Set     |-> {"Stopped"},
             Start   |-> {"Running", "ErrorUnknown", from},
             Stop    |-> {"Stopped", "ErrorUnknown"},
             Suspend |-> {"Suspended", "ErrorUnknown"},
             Delete  |-> {"Deleted", from}]

Begin(o) ==
    /\ busy = "none" /\ o \in Allowed[state]
    /\ busy' = o /\ from' = state
    /\ state' = Intermediate[o]
    /\ UNCHANGED powered

\* Clone goes on to configure the new VM, under the same lock.
Configure ==
    /\ busy = "Clone" /\ SetResources
    /\ busy' = "Set" /\ from' = "Cloning" /\ state' = "Cloning"
    /\ UNCHANGED powered

\* Until it is configured the VM shows as Stopped or Cloning.
Configuring ==
    /\ busy = "Set"
    /\ state' \in {"Cloning", "Stopped"}
    /\ UNCHANGED <<busy, from, powered>>

Settle ==
    /\ busy # "none"
    /\ state' \in Outcomes[busy]
    /\ powered => state' \in Powered
    /\ busy' = "none" /\ from' = "Initial"
    /\ UNCHANGED powered

PowerUp ==
    /\ busy = "Start"
    /\ powered' = TRUE
    /\ UNCHANGED <<state, busy, from>>

PowerLoss ==
    /\ powered' = FALSE
    /\ UNCHANGED <<state, busy, from>>

Next == (\E o \in Calls : Begin(o)) \/ Configure \/ Configuring \/ Settle
            \/ PowerUp \/ PowerLoss

Spec == Init /\ [][Next]_vars
=============================================================================
