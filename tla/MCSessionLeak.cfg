CONSTANTS
    NULL = NULL
    Peers = {p1, p2, p3}
    BOARD_SIZE = 2
    MAX_SHIPS = 1
    MAX_CLIENTS = 3
    MAX_ROOMS = 1
    MAX_FDS = 3
    MaxInq = 1
    Requests <- MCRequests
    Closings = {"fin"}
    Observed = {}
SPECIFICATION SessionSpec
SYMMETRY Symmetry
CHECK_DEADLOCK FALSE
INVARIANT NoDescriptorLeaks
