SPECIFICATION Spec
CONSTANTS
    None = None
    r1 = r1
    r2 = r2
    d1 = d1
    Accounts = {A, B}
    Rooms = {r1}
    Docs = {d1}
    RoomOf <- MCOneRoom
    BondRooms = {}
    MaxMoves = 1
    Flows = {f1, f2}
    Tickets = {t1}
INVARIANT OwnPlaintextOnly
CHECK_DEADLOCK FALSE
