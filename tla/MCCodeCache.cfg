CONSTANTS
    f1 = f1
    f2 = f2
    w1 = w1
    w2 = w2
    a = a
    b = b
    None = None
    Frames <- MCFrames
    Frame0 <- f1
    Following <- MCFollowing
    Words <- MCWords
    Through <- MCThrough
    Blank <- w1
    Low <- MCLow
    High <- MCHigh
    Entries = {0}
    Wired = {}
    NewEntries <- MCNewEntries
    Jumps <- MCJumps
SPECIFICATION Spec
CHECK_DEADLOCK FALSE
INVARIANTS LutFollowsTlb RunsCurrentCode
