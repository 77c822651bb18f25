CONSTANTS
    Turns = {t1, t2}
    Proposals = {p1}
    Supersessions = {}
    Boot = boot
    None = none
    RecallOwner = FALSE
    GovernedWrites = TRUE
    StorageFaults = FALSE
    MaxRestarts = 0
SPECIFICATION Spec
CHECK_DEADLOCK FALSE
INVARIANT LiveNeverBehind
