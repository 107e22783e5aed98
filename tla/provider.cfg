SPECIFICATION FairSpec
CONSTANTS
    Providers = {"openai_responses", "openai_chat", "anthropic", "gemini"}
    MaxRetries = 2
    BaseDelay = 1
    MaxDelay = 3
    RetryAfters <- MCRetryAfters
    MaxBlocks = 3
INVARIANTS
    AnswerIsWhatWasSent
    RetriesAreJustified
PROPERTY
    CallEnds
CHECK_DEADLOCK FALSE
