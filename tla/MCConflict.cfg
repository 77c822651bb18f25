CONSTANTS
    Memories = {m1}
    Ragged = {}
    Corrections = {c1}
    Proposes = {p1, p2}
    Promotes = {}
    Supersedes = {s1, s2}
    LedgerIds = {i1, i2}
    Turns = {t1, t2}
    Opened = opened
    None = none
    Attempts = 1
    Lapses = FALSE
    MaxRestarts = 1
SPECIFICATION Spec
CHECK_DEADLOCK FALSE
SYMMETRY Alike
INVARIANTS ConflictStaysLocked StoredOnce
PROPERTIES UnlockIsBacked
