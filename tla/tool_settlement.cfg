SPECIFICATION Spec
CONSTANTS
    Kinds <- OnlyReads
    MaxDepth = 3
    MaxNesting = 1
    MaxTurnCalls = 2
    MaxCalls = 3
    MaxFaults = 0
    MaxOutside = 0
PROPERTY FreshCallsSettle
CHECK_DEADLOCK FALSE
