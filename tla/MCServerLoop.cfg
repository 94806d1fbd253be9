CONSTANTS
    NULL = NULL
    Peers = {p1, p2, p3}
    Waiters = {p3}
    BOARD_SIZE = 1
    MAX_SHIPS = 1
    MAX_CLIENTS = 3
    MAX_ROOMS = 1
    MAX_FDS = 2
    MaxInq = 1
    Requests <- LoopRequests
    Closings = {}
    Observed = {}
CHECK_DEADLOCK FALSE
SPECIFICATION LoopSpec
PROPERTY EveryRequestServed
PROPERTY EveryConnectionTakenUp
