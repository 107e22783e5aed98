SPECIFICATION FairSpec
CONSTANTS
    Clients = {c1, c2}
    Commands <- AllCommands
    CrashAt <- Anywhere
    Faults <- BothFaults
INVARIANTS ProjectionIsPrefix RecordedStays TerminalHidesNothing
PROPERTIES ClientsEnd
CHECK_DEADLOCK FALSE
