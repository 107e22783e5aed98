SPECIFICATION Spec
CONSTANTS
    p1 = p1
    p2 = p2
    old = old
    new = new
    binary = binary
    garbled = garbled
    none = none
    short = short
    Processes <- TwoProcesses
    Paths <- TwoPaths
    Skipped <- Dependencies
    Contents <- AllContents
    Typed <- NewOnly
    Initial <- TextAndBinary
    Absent = none
    Cut = short
    Decode <- ReadAsText
    MaxOps = 3
    MaxEdits = 1
    MaxKills = 1
INVARIANTS
    SnapshotsKept
PROPERTIES
    Undoable
    EndsExactly
CONSTRAINT StillClaimed
SYMMETRY Swapped
CHECK_DEADLOCK FALSE
