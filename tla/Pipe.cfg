CONSTANTS
    Procs = {p, q}
    First = p
    Third = r
    MAX_PIPES = 1
    PIPE_BUFFER_SIZE = 3
    Bytes = {0, 1}
    MaxRequest = 2
SPECIFICATION AllSpec
INVARIANTS AllTypeOK NoSleeperForgotten SlotsInUse
PROPERTY ImplementsChannel
CHECK_DEADLOCK FALSE
