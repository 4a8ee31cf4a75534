CONSTANTS
    Procs = {1, 2, 3}
    Base <- MCBase
    Threads = {1, 2, 3}
    Words = {"a", "b"}
    Frames = {4, 5, 6}
    FUTEX_HASH_SIZE = 2
    WakeCounts = {3}
    Pollers = {1, 2}
    Fds = {"f", "g"}
    MaxTicks = 1
SPECIFICATION AllSpec
INVARIANTS AllTypeOK MutualExclusion NoStrandedWaiter NoLostWakeup NoLostReadiness
PROPERTIES WaitersAreWoken  HangupReturns
