SPECIFICATION FairSpec
CONSTANTS
    Allowed <- LenientAllowed
    SetResources = TRUE
    Callers = {c1, c2}
    Readers = {r1}
    Nobody = Nobody
    MaxBoots = 2
    IPAtStart = TRUE
    ForceStopReliable = TRUE
INVARIANT AddressIsCurrent
PROPERTY
    EveryCallReturns
