\* Two operators, one more than the limiters track; two requests in a window.
CONSTANTS
    Callers = {ann, bob}
    Polls <- OneEach
    Limit = 2
    Window = 1
    Floor = 2
    MaxKeys = 1
    MaxTime = 3
    Asking = {ann}
    Threads = {t1, t2}
    Free = Free
    Lifetime = 2
    Skew = 2
    IdentityLives = {1, 4}
    MaxRequests = 3
SYMMETRY ThreadSymmetry
SPECIFICATION Spec
INVARIANTS WithinLimit OnePerExpiry RetriedOnceAndFresh AssertionLives
\* The clock stops at its bound.
CHECK_DEADLOCK FALSE
