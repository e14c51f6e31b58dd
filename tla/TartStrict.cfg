SPECIFICATION Spec
CONSTANTS
    Allowed <- StrictAllowed
    SetResources = TRUE
    Callers = {c1, c2}
    Readers = {r1}
    Nobody = Nobody
    MaxBoots = 2
    IPAtStart = FALSE
    ForceStopReliable = FALSE
SYMMETRY Symmetry
INVARIANTS
    Settled
    NoOrphan
    AtRest
    RunningIsWatched
    NilMeansDone
PROPERTY ImplementsLifecycle
