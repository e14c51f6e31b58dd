SPECIFICATION FairSpec
CONSTANTS
    Launches = {l1, l2}
    Quitters = {q1, q2}
    Signals = {interrupt, sigterm}
    Nil = Nil
INVARIANTS
    QuitIsNoFailure
    ChildIsWaitedFor
    FailureIsReported
PROPERTIES
    TerminationEnds
    SignalArrives
