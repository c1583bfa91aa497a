SPECIFICATION Spec
CONSTANTS
    ana = ana
    bia = bia
    caio = caio
    room = room
    a1 = a1
    b1 = b1
    Users <- People
    Conversations = {room}
    Members <- Pair
    Sockets = {}
    Owner <- SocketOwners
    Posts = {p1, p2}
    Typings = {}
    Gets = {g1, g2}
    Limit = 1
    None = None
SYMMETRY SymmetricMembers
INVARIANTS TypeOK ReadsExplained WalkMissesExplained
PROPERTY LogSpec
