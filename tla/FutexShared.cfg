CONSTANTS
    Procs = {1, 2, 3}
    Words = {"a", "b"}
    Page <- OnePage
    Frames = {4}
    FUTEX_HASH_SIZE = 2
    WakeCounts = {1}
SPECIFICATION CalmSpec
PROPERTY WakeReachesWord
