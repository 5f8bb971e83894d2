SPECIFICATION Spec
CONSTANTS
    None = None
    r1 = r1
    r2 = r2
    d1 = d1
    Accounts = {A}
    Rooms = {r1, r2}
    Docs = {d1, d2, d3}
    RoomOf <- MCRoomOf
    BondRooms = {r2}
    MaxMoves = 1
    Flows = {f1, f2}
    Tickets = {t1}
PROPERTIES
    BusyEnds
    QueuedRowsOpen
CHECK_DEADLOCK FALSE
