SPECIFICATION FairSpec
CONSTANTS
    ui = ui
    Rolls = {r1, r2}
    RollMessages <- MCRollMessages
    Submitters = {ui}
    Workers = {w1, w2}
    Callers = {w1, w2}
    BusThreads = {w1, w2, ui, r1, r2}
    Keys = {close_rom}
    NoKey = NoKey
    NoJob = NoJob
    Messages = {TaskChanged}
    MaxNesting = 1
    Nobody = Nobody
    Budgets <- MCBudgets
INVARIANTS
    OneJobPerKey
    CacheCurrent
    InvokeIsSynchronous
PROPERTIES
    InvokeReturns
    KeysReleased
    BusWaitsEnd
CHECK_DEADLOCK FALSE
