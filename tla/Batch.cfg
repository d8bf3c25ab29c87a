\* Two rows, two workers; a run and a retry; one failure.
CONSTANTS
    RowCount = 2
    Rows = {1, 2}
    Readers = {}
    Width = 2
    MaxClicks = 2
    MaxFaults = 1
SPECIFICATION Spec
INVARIANTS
    DoneMeansDone
    WrittenIsAttempted
    OkIsTrue
    DuplicatesNeedFaults
PROPERTIES
    ServerSpec
\* The batch ends.
CHECK_DEADLOCK FALSE
