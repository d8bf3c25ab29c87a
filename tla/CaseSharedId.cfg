\* One case in the list, one to be created, one search, and no request that fails.
CONSTANTS
    a = a
    b = b
    None = None
    Cases = {a, b}
    Listed = {a}
    Kinds = {naive}
    naive = naive
    expanded = expanded
    MaxFlight = 2
    MaxSearches = 1
    MaxChains = 2
    MaxDone = 1
    MaxFaults = 0
SPECIFICATION Spec
INVARIANT SearchesInOwnCase
CHECK_DEADLOCK FALSE

