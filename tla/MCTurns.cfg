CONSTANTS
    Turns = {t1, t2, t3}
    Proposals = {}
    Supersessions = {}
    Boot = boot
    None = none
    RecallOwner = TRUE
    GovernedWrites = FALSE
    StorageFaults = TRUE
    MaxRestarts = 1
SPECIFICATION FairSpec
CHECK_DEADLOCK FALSE
INVARIANTS
    TypeOK
    AnsweredIsDurable
    AnsweredNeverLost
PROPERTIES
    TurnsSettle
