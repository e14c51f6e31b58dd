----------------------------- MODULE MCIdentity -----------------------------
(* The two checks of machutils on one host: in a behaviour of the one the   *)
(* other has not been started, since they share no state.                  *)
EXTENDS PeerCheck, ParentCheck, TLC

CONSTANTS p1, v1, v2, me, root, oldPath, newPath

VARIABLE checked    \* which of them the behaviour is about

allVars == <<peerVars, parentVars, checked>>

Init ==
    /\ PeerInit /\ ParentInit
    /\ \/ checked = "peer" /\ starter = me /\ self = me /\ link = oldPath
          /\ \A p \in Paths : files[p].owner = me /\ files[p].mode = "private"
       \/ checked = "parent" /\ file = "satisfies"
          /\ \A p \in Pids : procs[p].alive /\ procs[p].program = "satisfies"

Next ==
    \/ checked = "peer" /\ PeerNext /\ UNCHANGED <<parentVars, checked>>
    \/ checked = "parent" /\ ParentNext /\ UNCHANGED <<peerVars, checked>>

Spec == Init /\ [][Next]_allVars
=============================================================================
