SPECIFICATION Spec
CONSTANTS
    MaxOps = 3
    File = {f, g}
    Link = {l}
    Linked = f
    Missing = {g}
    None = None
INVARIANTS QueueMapExact
PROPERTIES ImplementsAtomicFiles EveryMutationSettles
CHECK_DEADLOCK FALSE
