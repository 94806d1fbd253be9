CONSTANTS
    BOARD_SIZE = 3
    MAX_SHIPS = 2
    Placements <- MCPlacements
    Shots <- MCShots
SPECIFICATION Spec
INVARIANT TypeOK
INVARIANT GridMatchesShips
PROPERTY ImplementsFleet
