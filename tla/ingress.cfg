SPECIFICATION FairSpec
CONSTANTS
    first = first
    retry = retry
    dry = dry
    Calls <- AllCalls
    Key <- OneKey
    Intent <- IntentOf
    Approving <- Writing
    maxRequests = 2
    LastWindow = 1
    CrashAt <- CrashPoints
    Faults <- AllFaults
INVARIANTS
    WindowLimit
PROPERTIES
    ImplementsOnceOnly
    CallsEnd
    RepeatsAreReplayed
CHECK_DEADLOCK FALSE
