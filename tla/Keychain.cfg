SPECIFICATION Spec
CONSTANTS
    Clients = {c1, c2}
    Text <- SomeText
    Requests <- SomeRequests
    Stored <- SomeStored
    Plugins = {"none", "plugin", "broken"}
    Nil = Nil
SYMMETRY Symmetry
INVARIANTS
    AbsenceIsReal
    FirstIsRead
    QueryIsComplete
PROPERTY
    ImplementsNotes
