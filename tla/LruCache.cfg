SPECIFICATION FairSpec
CONSTANTS
    Thread = {t1, t2}
    Key = {0, 1}
    Value = {0, 1}
    Time = {0, 2}
    Ttl = 1
    Slot = {s1}
    SlotOf <- MCSlotOf
    Shared = TRUE
    U64 = 2
INVARIANTS StatsAgree
PROPERTIES ImplementsMap LockReleased
