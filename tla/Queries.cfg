CONSTANTS
    People = {"ann", "bob"}
    Person <- Persons
    Nobody = Nobody
    Templates = {"workload", "third_party"}
    Filled <- Inputs
    Addressed <- WithAt
    Illegal = {"ann-quoted"}
    Directory <- Records
    Clicks = {c1, c2}
    HandTexts <- Hands
    MaxExpands = 2
    MaxApplies = 2
    MaxEdits = 1
    MaxRuns = 1
    MaxFaults = 1
SYMMETRY ClickSymmetry
SPECIFICATION Spec
INVARIANTS NarrowedWithin ChipsTell WarnedWhenLopsided ExpandedCoversNaive UnscopedWasAsked
CHECK_DEADLOCK FALSE
