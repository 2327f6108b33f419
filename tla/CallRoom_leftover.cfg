SPECIFICATION Spec
CONSTANTS
    Sockets = {s1, s2}
    Rooms = {a}
    NoRoom = NoRoom
SYMMETRY SocketSymmetry
INVARIANT NoLeftoverPeer
CHECK_DEADLOCK FALSE
