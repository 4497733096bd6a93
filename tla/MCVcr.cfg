SPECIFICATION FairSpec
CONSTANTS
    a = a
    b = b
    Buttons <- MCButtons
    ResetInput = ResetInput
    OutOfRange = OutOfRange
    Movies = {m}
    NoMovie = NoMovie
    NoState = NoState
    Controllers = 1
    Scenarios <- MovieScenarios
INVARIANTS
    LengthMatchesInputs
    NothingWaitsInVain
    InSync
    SeekNotExceeded
    InputsInRange
    CheatLayersBalanced
    SeekSavestatesBounded
PROPERTIES
    RecordingFlushed
    SeekLoadKeepsInputs
    SeekEnds
    SkippingEnds
CHECK_DEADLOCK FALSE
