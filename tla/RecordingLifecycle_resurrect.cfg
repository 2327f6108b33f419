SPECIFICATION Spec
CONSTANTS
    Recs = {r1}
    NoRec = NoRec
    HookTries = 1
    MaxFaults = 0
    StallsHappen = FALSE
PROPERTIES RecordingEnteredFromStarting
CHECK_DEADLOCK FALSE
