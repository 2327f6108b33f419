SPECIFICATION FairSpec
CONSTANTS
    Recs = {r1}
    NoRec = NoRec
    HookTries = 2
    MaxFaults = 2
    StallsHappen = TRUE
INVARIANTS ReadyIsBacked ConfirmedWasCaptured NoLeakedLock
PROPERTIES PromiseIsKept NeverStuck
CHECK_DEADLOCK FALSE
