\* One replica at a time: start, write from two threads, midnight, stop, start.
CONSTANTS
    Replicas = {r1}
    Threads = {t1, t2}
    Nobody = Nobody
    MaxDay = 2
    MaxCalls = 4
    RebuildAttempts = 5
    MaxLost = 0
    MaxLate = 0
    MaxCrashes = 2
SPECIFICATION Spec
INVARIANT ChainIntact
PROPERTY ChainPromise
SYMMETRY ThreadSymmetry
CHECK_DEADLOCK FALSE
