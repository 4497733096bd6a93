CONSTANTS
    GPR = {"a", "b", "d"}
    MaxLength = 3
    Programs <- MCPrograms
    Quirks <- MCQuirks
SPECIFICATION Spec
CHECK_DEADLOCK FALSE
INVARIANTS CacheConsistent BlockIsRight
