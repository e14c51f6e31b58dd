SPECIFICATION FairSpec
CONSTANTS
    vm1 = vm1
    vm2 = vm2
    other = other
    c1 = c1
    c2 = c2
    Names = {vm1, vm2, other}
    Prefixed = {vm1, vm2}
    Callers = {c1, c2}
INVARIANTS
    NamesAreExact
    EveryoneIsTried
    NilMeansGone
PROPERTIES
    DeleteReturns
