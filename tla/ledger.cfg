SPECIFICATION SharedFairSpec
CONSTANTS
    Procs = {s1, s2}
    Writers = {w1, w2}
    MaxEvents = 3
    CrashAt <- CrashAnywhere
    Faults <- RemoveFaults
INVARIANTS MutualExclusion CrossAuthorChain SharedDurable
PROPERTIES SharedImplementsLog CallsReturn
CHECK_DEADLOCK FALSE
