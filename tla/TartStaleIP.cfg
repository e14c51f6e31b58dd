SPECIFICATION Spec
CONSTANTS
    Allowed <- StrictAllowed
    SetResources = FALSE
    Callers = {c1}
    Readers = {r1}
    Nobody = Nobody
    MaxBoots = 2
    IPAtStart = FALSE
    ForceStopReliable = FALSE
INVARIANT CachedAddressIsCurrent
