SPECIFICATION Spec
CONSTANTS
    p1 = p1
    p2 = p2
    old = old
    new = new
    binary = binary
    garbled = garbled
    none = none
    short = short
    Processes <- TwoProcesses
    Paths <- TwoPaths
    Skipped <- Dependencies
    Contents <- AllContents
    Typed <- NewOnly
    Initial <- TextOnly
    Absent = none
    Cut = short
    Decode <- ReadAsText
    MaxOps = 2
    MaxEdits = 0
    MaxKills = 0
PROPERTY MergeKeepsTheRest
CONSTRAINT StillClaimed
SYMMETRY Swapped
CHECK_DEADLOCK FALSE
