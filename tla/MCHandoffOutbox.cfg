CONSTANTS
    Child = {c}
    Host = {h}
    Session = {s}
    MaxEntries = 2
    ClaimLimit = 2
    MaxActors = 2
    MaxCrashes = 2
    MaxTurns = 1
    MaxTimeouts = 1
    MaxSwitches = 1
    MaxFaults = 1
    Owner = {h}
    Address = {h, s}
    None = None
SPECIFICATION FairSpec
PROPERTIES HandoffSettles
CHECK_DEADLOCK FALSE
