SPECIFICATION RunSpec
CONSTANTS
    Clients = {c1, c2}
    Commands <- KernelRuns
    CrashAt <- Anywhere
    Faults <- BothFaults
SYMMETRY RunSymmetry
INVARIANTS OneAttemptProceeds RunTellsTheTruth
CHECK_DEADLOCK FALSE
