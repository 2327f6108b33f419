SPECIFICATION FairSpec
CONSTANTS
    Workers = {w1, w2}
    NoWorker = NoWorker
    NumSegs = 1
    Attempts = 3
    MaxMishaps = 1
INVARIANTS ReadyIsPlayable FootageKept VerdictOnce FailedIsLast NothingLeftBehind
PROPERTY Settles
CHECK_DEADLOCK FALSE
