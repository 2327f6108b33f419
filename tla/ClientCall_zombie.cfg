CONSTANTS
    ann = ann
    cam = cam
    Peers = {ann}
    Producers = {cam}
    Owner <- OneOwner
    MaxDrops = 0
    MaxFaults = 0
SPECIFICATION Spec
INVARIANT LeavingLeaves
CHECK_DEADLOCK FALSE
