SPECIFICATION LiveSpec
CONSTANTS
    Executors = {e1, e2}
    None = None
    MaxDelay = 1
    MaxHead = 1
    MaxRetries = 1
    MaxGeneration = 4
    MaxWakes = 2
    MaxFaults = 1
INVARIANT RecordIsArmed
PROPERTY TargetIsReached
CHECK_DEADLOCK FALSE
