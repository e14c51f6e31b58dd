--------------------------- MODULE MCTartInstance ---------------------------
(* Transition tables and symmetry for model-checking TartInstance.         *)
EXTENDS TartInstance, TLC

\* Only what the tests of src/tartvm require.
StrictAllowed ==
    [s \in States |->
        CASE s = "Initial"      -> {"Clone", "Delete"}
          [] s = "Cloning"      -> {"None"}
          [] s = "Stopped"      -> {"Start", "Delete", "None"}
          [] s = "Running"      -> {"Stop", "Suspend", "None"}
          [] s = "Suspended"    -> {"Start", "Delete", "None"}
          [] s = "ErrorUnknown" -> {"Delete", "None"}
          [] OTHER              -> {"None"}]

\* As much as AllowedAssumption admits: recovery from ErrorUnknown, Stop of a
\* Stopped instance, anything but Clone of a Deleted one.
LenientAllowed ==
    [s \in States |->
        StrictAllowed[s] \cup
        CASE s = "Stopped"      -> {"Stop"}
          [] s = "Suspended"    -> {"Suspend"}
          [] s = "ErrorUnknown" -> {"Stop", "Suspend", "Clone"}
          [] s = "Deleted"      -> {"Start", "Delete"}
          [] OTHER              -> {}]

Symmetry == Permutations(Callers) \cup Permutations(Readers)
=============================================================================
