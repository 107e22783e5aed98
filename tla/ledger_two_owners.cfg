SPECIFICATION Spec
CONSTANTS
    Procs = {s1, s2, s3}
    MaxEvents = 2
    CrashAt <- CrashBeforeRename
    Faults <- NoFaults
INVARIANT MutualExclusion
CHECK_DEADLOCK FALSE
