\* A rolling deployment: two replicas at once, lost answers, late requests,
\* midnight and stops.
CONSTANTS
    Replicas = {r1, r2}
    Threads = {t1}
    Nobody = Nobody
    MaxDay = 2
    MaxCalls = 3
    RebuildAttempts = 5
    MaxLost = 1
    MaxLate = 1
    MaxCrashes = 1
SPECIFICATION FairSpec
INVARIANTS Rooted OneRecordPerCall AckedIsStored ConditionalIsLinked RefusedAtMostOnce
PROPERTY LockFreed
CHECK_DEADLOCK FALSE
