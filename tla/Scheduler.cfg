CONSTANTS
    MaxPid = 3
    Slice <- ShortSlices
    MaxSleep = 2
    MaxLag = 2
    OtherQueues = {m}
    Interactive = {2}
SPECIFICATION AllSpec
INVARIANTS TypeOK OneQueue FreedIsUnreachable FamilyTree SpacesFreedOnce NoMissedExit SleepIsExact
