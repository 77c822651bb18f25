CONSTANTS
    Turns = {t1, t2}
    Proposals = {p1}
    Supersessions = {s1}
    Boot = boot
    None = none
    RecallOwner = TRUE
    GovernedWrites = TRUE
    StorageFaults = TRUE
    MaxRestarts = 1
SPECIFICATION Spec
CHECK_DEADLOCK FALSE
INVARIANTS CheckpointsAnchored
PROPERTIES OnlySupersessionUnlocks RecoveredStaysFrozen KeepsPromise
