SPECIFICATION Spec
CONSTANTS
    None = None
    Approval = {a1}
    Invoice = {i1, i2}
    Payment = {p1}
    Worker = {w1, w2}
    MaxStamps = 4
INVARIANTS
    TypeOK
    PostedOnce
    ApprovedIsPosted
    ClearedIsPaid
    LoneChainVerifies
PROPERTY
    ImplementsJournal
SYMMETRY Symmetry
CHECK_DEADLOCK FALSE
