CONSTANTS
    ann = ann
    cam = cam
    Peers = {ann}
    Producers = {cam}
    Owner <- OneOwner
    MaxDrops = 1
    MaxFaults = 1
SPECIFICATION FairSpec
INVARIANTS TypeOK TilesAreRemovable   
PROPERTY JoinSettles
CHECK_DEADLOCK FALSE
