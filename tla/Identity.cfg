SPECIFICATION Spec
CONSTANTS
    p1 = p1
    v1 = v1
    v2 = v2
    me = me
    root = root
    oldPath = oldPath
    newPath = newPath
    Pids = {p1}
    Verifiers = {v1, v2}
    MaxVersion = 2
    Users = {me, root}
    Root = root
    Paths = {oldPath, newPath}
    MaxReplaced = 1
INVARIANTS
    NilIsThePeer
    UsedIsLive
    SafeMeansOneUser
    OwnerStartedIt
\* Each behaviour is one check; the bounds end what the host does meanwhile.
CHECK_DEADLOCK FALSE
