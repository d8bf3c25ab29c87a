\* As CasePage.cfg, for what must happen in the end: a run has its two chains, of
\* which one may fail, and a case may be opened while another is read.  No
\* estimate ends, so that every poll goes on for ever, and nothing is exported.
CONSTANTS
    a = a
    b = b
    None = None
    Cases = {a, b}
    Listed = {a}
    Kinds = {naive, expanded}
    naive = naive
    expanded = expanded
    MaxFlight = 2
    MaxSearches = 2
    MaxChains = 2
    MaxDone = 0
    MaxFaults = 1
SPECIFICATION FairSpec
PROPERTIES OpenedIsRead RunComesBack
\* After the sign-out nothing needs to happen.
CHECK_DEADLOCK FALSE

