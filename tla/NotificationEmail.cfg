SPECIFICATION EmailFairSpec
CONSTANTS
    Invites = {i1}
    Reminders = {m1}
    Reqs = {q1, q2}
    NoKey = NoKey
    MaxTries = 2
    MaxFaults = 1
INVARIANTS OneEmailEach NoStrandedRow CancelledWasNotSent FailedUsedAllTries
PROPERTY RowsSettle
