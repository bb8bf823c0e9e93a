CONSTANTS
    Child = {c, d}
    Host = {h, k}
    Session = {s, t}
    MaxEntries = 1
    ClaimLimit = 1
    MaxActors = 3
    MaxCrashes = 1
    MaxTurns = 0
    MaxTimeouts = 1
    MaxSwitches = 1
    MaxFaults = 0
    Owner = {h, k}
    Address = {h, k, s, t}
    None = None
SPECIFICATION Spec
INVARIANTS QueuedNeverLost AcknowledgedIsDurable AppendedOnce
PROPERTIES ClaimKept
SYMMETRY Symmetry
CHECK_DEADLOCK FALSE
