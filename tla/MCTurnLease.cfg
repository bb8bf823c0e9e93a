CONSTANTS
    Session = {a, b}
    Token = {t1, t2, t3, t4}
    Lease = {l1, l2, l3}
    MaxEntries = 1
    None = None
SPECIFICATION FairSpec
INVARIANTS OneTurnPerSession ReleaseFindsLease NoStrandedWaiter
PROPERTIES NoOvertaking ImplementsAuthority EveryWaiterAnswered
CHECK_DEADLOCK FALSE
