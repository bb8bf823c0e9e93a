SPECIFICATION Spec
CONSTANTS
    MaxMessages = 2
    MaxTools = 2
    MaxEvents = 4
    MaxRetries = 1
INVARIANTS JournalExact HarnessMessagesKept HarnessExclusive
PROPERTY EverythingSettles
CHECK_DEADLOCK FALSE
