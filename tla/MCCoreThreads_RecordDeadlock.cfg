SPECIFICATION Spec
CONSTANTS
    Workers = {w1, w2}
    Scenarios <- RecordScenes
    MaxCommands = 2
    MaxEvents = 1
    SizeMax = 3
    Free = Free
INVARIANTS
    NoCircularWait
CHECK_DEADLOCK FALSE
