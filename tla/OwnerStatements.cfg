SPECIFICATION Spec
CONSTANTS
    w1 = w1
    w2 = w2
    c1 = c1
    None = None
    LastPeriod = 2
    Charge = {c1}
    Worker = {w1, w2}
    MaxForgets = 1
    Income <- LeanThenGood
SYMMETRY WorkerSymmetry
INVARIANTS
    TypeOK
    TransfersMatchStatement
    OneTransferPerKey
    MailedFiguresStand
    PaidMeansTransferred
PROPERTIES
    FinalizedIsFrozen
CHECK_DEADLOCK FALSE
