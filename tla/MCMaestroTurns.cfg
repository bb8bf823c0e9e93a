CONSTANTS
    Session = {s1, s2}
    Token = {t1, t2}
    Lease = {l1, l2}
    MaxEntries = 2
    None = None
    Inst = {i, j}
    MaxUpsets = 2
SPECIFICATION FairSpec
INVARIANTS TurnsKeepLeases
PROPERTIES TurnGivesLeaseBack
CHECK_DEADLOCK FALSE
