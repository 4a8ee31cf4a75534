CONSTANTS
    MaxPid = 4
    Slice <- UnequalSlices
    MaxSleep = 0
    MaxLag = 1
    OtherQueues = {}
    Interactive = {}
SPECIFICATION ComputingSpec
PROPERTIES EveryTaskRuns
