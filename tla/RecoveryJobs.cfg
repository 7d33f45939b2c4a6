SPECIFICATION FairSpec
CONSTANTS
    None = None
    Op = {o1}
    Job = {j1, j2}
    Slot = {w1}
    MaxTries = 2
    MaxFaults = 2
INVARIANTS
    TypeOK
    SucceededMeansDrafted
    ApprovedWasDrafted
    NeverStranded
PROPERTIES
    DraftsArrive
CHECK_DEADLOCK FALSE
