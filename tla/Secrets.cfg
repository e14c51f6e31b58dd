SPECIFICATION Spec
CONSTANTS
    alice = alice
    bob = bob
    id1 = id1
    id2 = id2
    t1 = t1
    t2 = t2
    k1 = k1
    k2 = k2
    run1 = run1
    Owners = {alice, bob}
    Ids = {id1, id2}
    Tokens = {t1, t2}
    Commands = {k1, k2}
    Runs = {run1}
    NoItem = NoItem
INVARIANTS
    AcknowledgedStay
    AllKeysOrNone
    ProfileIsRemoved
\* A command and a run are over when they have returned.
CHECK_DEADLOCK FALSE
