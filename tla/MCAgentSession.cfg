SPECIFICATION FairSpec
CONSTANTS
    MaxPrompts = 2
    BusCapacity = 3
INVARIANTS
    PromptInOnePlace
    RunningIsBacked
    TranscriptIsTrue
    ConversationIsolated
PROPERTIES
    ImplementsPromptLife
    CancellationEnds
    CompletionIsSeen
CHECK_DEADLOCK FALSE
