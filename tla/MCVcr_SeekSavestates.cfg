SPECIFICATION Spec
CONSTANTS
    a = a
    b = b
    Buttons <- MCButtons
    ResetInput = ResetInput
    OutOfRange = OutOfRange
    Movies = {m}
    NoMovie = NoMovie
    NoState = NoState
    Controllers = 1
    Scenarios <- SeekScenarios
INVARIANTS
    SeekSavestatesWithinMaximum
CHECK_DEADLOCK FALSE
