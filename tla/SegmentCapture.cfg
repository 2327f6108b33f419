CONSTANTS
    ann = ann
    cam = cam
    mic = mic
    NoPeer = NoPeer
    Peers = {ann}
    Producers = {cam, mic}
    Owner <- OneOwner
    Media <- MediaOf
    NumPorts = 2
    MaxCrashes = 2
    NumSegs = 6
    MaxFaults = 1
SPECIFICATION FairSpec
INVARIANTS PortsBalance SyncedWhenQuiet
PROPERTIES LogIsKept StopEnds TracksAreRecorded
CONSTRAINT LowPortsTaken
CHECK_DEADLOCK FALSE
