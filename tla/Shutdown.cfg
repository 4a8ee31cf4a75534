CONSTANTS
    MaxPid = 3
    Slice <- ShortSlices
    MaxSleep = 0
    MaxLag = 1
    OtherQueues = {}
    Interactive = {}
SPECIFICATION ShutdownSpec
INVARIANT DuplicateIsIgnored
CHECK_DEADLOCK FALSE
