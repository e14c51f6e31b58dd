SPECIFICATION Spec
CHECK_DEADLOCK FALSE
CONSTANTS
    Configs <- Configurations
    Versions = {1, 2}
    MaxRuns = 3
INVARIANTS
    InstalledIsBuilt
    ManifestsAreUsable
    AgentIsCurrent
    PackageIsCurrent
    DryRunIsRight
