\* Three operators, two browsers, one of them with the page open; the store
\* holds two sessions, and one per operator at most.
CONSTANTS
    laptop = laptop
    phone = phone
    tab1 = tab1
    tab2 = tab2
    alice = alice
    bob = bob
    carol = carol
    Principals = {alice, bob, carol}
    Browsers = {laptop, phone}
    Pages = {tab1}
    BrowserOf <- OnLaptop
    MaxSessions = 2
    PerPrincipal = 1
    MaxPending = 2
    IdleTTL = 0
    AbsoluteTTL = 1
    FlowTTL = 0
    MaxFlows = 3
    MaxFailures = 1
    MaxTime = 3
SPECIFICATION Spec
INVARIANTS RedeemedOnce SignInIsRecorded
PROPERTIES NoBystander NotServedAfterSignOut
SYMMETRY OperatorSymmetry
