\* Two readers of the request list while a batch of one row creates its case.
CONSTANTS
    RowCount = 1
    Rows = {1}
    Readers = {l1, l2}
    Width = 1
    MaxClicks = 1
    MaxFaults = 1
SPECIFICATION FairSpec
INVARIANTS
    RefreshShowsAll
    ListNeverGoesBack
PROPERTIES
    ListLockFreed
\* The batch ends.
CHECK_DEADLOCK FALSE
