CONSTANTS
    Session = {a, b}
    Stopper = {p, q}
    Worktree = {w}
    MaxLive = 2
    MaxRequests = 3
    MaxDialogs = 1
    None = None
SPECIFICATION FairSpec
INVARIANTS SessionsConsistent
PROPERTIES OnlyLegalTransitions SessionsSettle
CHECK_DEADLOCK FALSE
