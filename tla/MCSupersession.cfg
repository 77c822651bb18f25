CONSTANTS
    Turns = {t1, t2}
    Proposals = {p1}
    Supersessions = {s1, s2}
    Boot = boot
    None = none
    RecallOwner = FALSE
    GovernedWrites = TRUE
    StorageFaults = TRUE
    MaxRestarts = 1
SPECIFICATION Spec
CHECK_DEADLOCK FALSE
INVARIANTS SupersessionComplete LiveMemoriesHaveRows
