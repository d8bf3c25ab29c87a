\* One reference for two cases, one name for two searches, two handlers at once.
CONSTANTS
    References = {"DSAR-1"}
    Names = {"Expanded"}
    MaxOps = 4
    MaxOpen = 2
    MaxOther = 1
    MaxRead = 4
SPECIFICATION Spec
INVARIANTS KeptLinesVouch RowsTell ExportsAreShown Accounted
\* The operators have done what they had to.
CHECK_DEADLOCK FALSE
