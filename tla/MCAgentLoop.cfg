SPECIFICATION LoopSpec
CONSTANTS
    MaxMessages = 3
    MaxCalls = 2
    MaxInputs = 4
    MaxIterations = 2
    MaxRetries = 1
INVARIANTS TranscriptWellFormed MessagesKept IdleMeansDone
PROPERTIES EverythingEnds
CHECK_DEADLOCK FALSE
