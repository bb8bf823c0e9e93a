CONSTANTS
    MaxEntries = 4
    MaxFiles = 2
    MaxNew = 1
    MaxFaults = 1
SPECIFICATION SessionSpec
INVARIANTS HistoryKept TreeClosed
PROPERTY ForkKeepsConversation
CHECK_DEADLOCK FALSE
