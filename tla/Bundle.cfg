SPECIFICATION Spec
CONSTANTS
    Configs <- Configurations
    MaxBundles = 3
INVARIANTS
    SignaturesAreFinal
    OnlyThisBuild
    TicketIsCurrent
PROPERTY
    ImplementsBuild
