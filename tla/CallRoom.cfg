SPECIFICATION Spec
CONSTANTS
    Sockets = {s1, s2}
    Rooms = {a}
    NoRoom = NoRoom
SYMMETRY SocketSymmetry
INVARIANTS TypeOK RouterUnderPeers MembersMatch PeersAccounted RoomsDrain
CHECK_DEADLOCK FALSE
