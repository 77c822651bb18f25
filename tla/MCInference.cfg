SPECIFICATION FairSpec
CONSTANTS
    m1 = m1
    m2 = m2
    k1 = k1
    NoCredential = NoCredential
    Requests = {r1, r2}
    Models = {m1, m2}
    Credentials = {k1}
    Missing = {}
    Slots <- MCSlots
    Budget = 2
    Timeout = 2
    Cooldown = 2
    Horizon = 3
INVARIANTS
    WithinBudget
    EverySlotAccounted
    RefusalIsFinal
    EveryCallJournaled
PROPERTIES
    OnlyUsableSlotsCalled
    InferenceEnds
CHECK_DEADLOCK FALSE
