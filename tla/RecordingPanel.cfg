CONSTANTS
    host = host
    Browsers = {host}
    Host = host
    NumRecs = 2
    MaxMisses = 1
SPECIFICATION Spec
CONSTRAINT SomebodyFollows
INVARIANT NoBadgeSticks
PROPERTY VerdictIsLast
CHECK_DEADLOCK FALSE
