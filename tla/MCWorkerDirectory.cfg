SPECIFICATION DirectorySpec
CONSTANTS
    Worker = {audit, research}
    MaxConversations = 3
    MaxActive = 2
    MaxActivePerWorker = 1
    MaxRequests = 3
INVARIANTS WorkerLimits CancelReachesRun
PROPERTY TurnsSettle
CHECK_DEADLOCK FALSE
