SPECIFICATION Spec
CONSTANTS
    Clients = {c1}
    Paths = {p1, p2}
    MaxRequests = 4
    MaxFrames = 1
    StUndoLoad = TRUE
    NoClient = NoClient
    EmuThread = EmuThread
    NoPath = NoPath
    NoState = NoState
SYMMETRY Symmetry
INVARIANTS
    TypeOK
    CallbackAtMostOnce
    NoTaskOutlivesCore
    UndoHoldsPreLoadState
    NewestRequestAnswered
CHECK_DEADLOCK FALSE
