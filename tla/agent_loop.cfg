SPECIFICATION FairSpec
CONSTANTS
    Kinds <- EveryKind
    MaxDepth = 2
    MaxNesting = 2
    MaxTurnCalls = 2
    MaxCalls = 2
    MaxFaults = 1
    MaxOutside = 1
INVARIANTS
    RepliesMatch
    ActsOnce
    ManifestTells
    SuccessIsRecorded
PROPERTIES
    EvidencedActs
    ApprovedContent
    LoopEnds
CHECK_DEADLOCK FALSE
