CONSTANTS
    Memories = {m1}
    Ragged = {}
    Corrections = {c1}
    Proposes = {p1}
    Promotes = {q1}
    Supersedes = {}
    LedgerIds = {i1, i2}
    Turns = {t1}
    Opened = opened
    None = none
    Attempts = 2
    Lapses = TRUE
    MaxRestarts = 0
SPECIFICATION FairSpec
CHECK_DEADLOCK FALSE
INVARIANTS TypeOK StoredIsDurable BindingAccounted
PROPERTIES KeepsPromise RequestsSettle
