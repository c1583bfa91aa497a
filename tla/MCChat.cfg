SPECIFICATION Spec
CONSTANTS
    ana = ana
    bia = bia
    caio = caio
    room = room
    a1 = a1
    b1 = b1
    Users <- People
    Conversations = {room}
    Members <- Pair
    Sockets = {a1, b1}
    Owner <- SocketOwners
    Posts = {p1, p2}
    Typings = {t1}
    Gets = {}
    Limit = 1
    None = None
SYMMETRY Symmetric
INVARIANTS FramesTruthful FramesInOrder
PROPERTY LogSpec
