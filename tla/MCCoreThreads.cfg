SPECIFICATION FairSpec
CONSTANTS
    Workers = {w1, w2}
    Scenarios <- Scenes
    MaxCommands = 2
    MaxEvents = 1
    SizeMax = 3
    Free = Free
INVARIANTS
    OnlyKnownCircles
    OnlyLookupRaces
    HandlesFree
PROPERTIES
    CloseEnds
CHECK_DEADLOCK FALSE
