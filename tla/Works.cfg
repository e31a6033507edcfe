CONSTANTS
    Jobs = {j1, j2}
    Starter = starter
    Scheduler = scheduler
    Adders = {a1, a2}
    Owners = {o1}
    Store = store
    None = none
    Room = 3
    Launchable = {j1}
    MaxBusy = 2
    MaxCalls = 3
    MaxMishaps = 1
SPECIFICATION Spec
INVARIANTS
    AllOrNothing
    SharedOnce
    NothingMissed
    AuthorKnows
CHECK_DEADLOCK FALSE
SYMMETRY Symmetry
