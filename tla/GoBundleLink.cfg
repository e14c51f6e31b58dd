SPECIFICATION Spec
CHECK_DEADLOCK FALSE
CONSTANTS
    Commands <- AllLines
    Versions = {1, 2}
    MaxRuns = 3
INVARIANT LinkIsEquivalent
