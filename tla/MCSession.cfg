CONSTANTS
    NULL = NULL
    Peers = {p1, p2, p3}
    BOARD_SIZE = 2
    MAX_SHIPS = 1
    MAX_CLIENTS = 3
    MAX_ROOMS = 1
    MAX_FDS = 3
    MaxInq = 1
    Requests <- MCRequests
    Closings = {"reset"}
    Observed = {"GAME_OVER", "OPPONENT_LEFT"}
SPECIFICATION SessionSpec
SYMMETRY Symmetry
CHECK_DEADLOCK FALSE
INVARIANT SeatsMatchClients
INVARIANT DecidedGameStops
INVARIANT LastWordOnce
PROPERTY ShotsRespectTurn
PROPERTY GamesEndForCause
