\* One case in the list and one to be created; two requests under way, one of
\* which may fail.
CONSTANTS
    a = a
    b = b
    None = None
    Cases = {a, b}
    Listed = {a}
    Kinds = {naive, expanded}
    naive = naive
    expanded = expanded
    MaxFlight = 2
    MaxSearches = 2
    MaxChains = 2
    MaxDone = 2
    MaxFaults = 1
SPECIFICATION Spec
INVARIANTS NeverAhead StillWatched
\* After the sign-out nothing needs to happen.
CHECK_DEADLOCK FALSE

