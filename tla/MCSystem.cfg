CONSTANTS
    NULL = NULL
    Peers = {p1, p2}
    BOARD_SIZE = 3
    MAX_SHIPS = 2
    SHIP_LENGTHS <- Lengths
    Spots <- RowSpots
    RoomChoices <- TheRoom
    Targets <- Corners
    Quitters = {p1, p2}
    MAX_CLIENTS = 2
    MAX_ROOMS = 1
    MAX_FDS = 2
    MaxInq = 2
    Requests <- MCRequests
    Closings = {"fin", "reset"}
    Observed <- MessageTypes
SPECIFICATION SystemSpec
SYMMETRY Symmetry
CHECK_DEADLOCK FALSE
INVARIANT SystemTypeOK
INVARIANT SubmissionsComplete
INVARIANT ViewsInStep
INVARIANT TurnIsOneToken
INVARIANT NoShotWasted
INVARIANT VerdictsFit
INVARIANT MessagesExpected
PROPERTY RoomsPlayMatches
