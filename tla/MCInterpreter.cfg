CONSTANTS
    Code <- MCCode
    Paged <- MCPaged
    Page <- MCPage
    Vector <- MCVector
    Refill <- MCRefill
    Handlers <- MCHandlers
    Start <- MCStart
    SwitchBack = FALSE
SPECIFICATION Spec
INVARIANTS BdMeansBranch
PROPERTIES PreciseExceptions
