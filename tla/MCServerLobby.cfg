CONSTANTS
    NULL = NULL
    Peers = {p1, p2, p3}
    Waiters = {}
    BOARD_SIZE = 3
    MAX_SHIPS = 2
    MAX_CLIENTS = 2
    MAX_ROOMS = 1
    MAX_FDS = 3
    MaxInq = 1
    Requests <- LobbyRequests
    Closings = {"reset"}
    Observed = {}
CHECK_DEADLOCK FALSE
SPECIFICATION Spec
SYMMETRY Symmetry
INVARIANT TypeOK
INVARIANT DescriptorsOwned
INVARIANT ScanNeverBlocks
INVARIANT SeatsCounted
INVARIANT NoSegfault
INVARIANT BoardsAgree
