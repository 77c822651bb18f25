SPECIFICATION Spec
CONSTANTS
    ClaimLimit = 6
    UncoveredLimit = 1
    Requests <- MCRequests
    ModelReplies <- MCModelReplies
    FixedReplies <- MCFixedReplies
    RecallConfigured = TRUE
    ModelConfigured = TRUE
    GovernedWrites = TRUE
    ToolAttempts = 2
    MaxImportance = 2
    MaxMemories = 2
INVARIANT LongTailIsChecked
