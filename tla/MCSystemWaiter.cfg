CONSTANTS
    NULL = NULL
    Peers = {p1, p2}
    BOARD_SIZE = 2
    MAX_SHIPS = 1
    SHIP_LENGTHS <- OneShip
    Spots <- OneSpot
    RoomChoices <- TheRoom
    Targets <- AllCells
    Quitters = {p1}
    MAX_CLIENTS = 2
    MAX_ROOMS = 1
    MAX_FDS = 2
    MaxInq = 2
    Requests <- MCRequests
    Closings = {"fin"}
    Observed <- MessageTypes
SPECIFICATION FairSystemSpec
CHECK_DEADLOCK FALSE
PROPERTY NobodyStranded
