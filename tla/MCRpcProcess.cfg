CONSTANTS
    Call = {r1, r2, r3}
    Id = {x, y, z}
    Disposer = {d, e}
    MaxPending = 2
    MaxIds = 3
    None = None
SPECIFICATION FairSpec
INVARIANTS AnswerIsOwn PromptsSeparate EndToldTruly
PROPERTIES EverythingReturns
CHECK_DEADLOCK FALSE
