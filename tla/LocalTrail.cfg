CONSTANTS
    Procs = {p1, p2}
    MaxDay = 2
    MaxCalls = 3
    MaxShort = 1
    MaxRaised = 1
    MaxStops = 1
    MaxCuts = 1
SYMMETRY ProcSymmetry
SPECIFICATION Spec
INVARIANTS AckedOnDisk SeqReused IntactWhenAlone
CHECK_DEADLOCK FALSE
