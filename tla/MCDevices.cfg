SPECIFICATION FairSpec
CONSTANTS
    CountLimit = 60
    Recent = 18
    MaxChecks = 1
    Scenes <- MCScenes
    Masks <- AllMasks
    SaveCounts <- UsualSaves
    Starts = {1}
    StepCycles = {2}
    ViDelay = 10
    IdleViDelay = 8
    PiDelay = 2
    SiDelay = 4
    SpDelay = 2
    AiDelays = {8}
    Compares = {0, 5}
INVARIANTS
    NoLostInterrupt
    OneNextVi
    BusyUntilEvent
PROPERTIES
    CalendarSpec
    FramesKeepComing
