SPECIFICATION Spec
CONSTANTS
    s1 = s1
    s2 = s2
    w1 = w1
    w2 = w2
    r1 = r1
    r2 = r2
    d1 = d1
    None = None
    Stay = {s1, s2}
    Worker = {w1}
    Row = {r1, r2}
    Deposit = {d1}
    Amount <- UpToTen
    Threshold = 2
    Period = 1
    LastDay = 2
    MaxTx = 3
    MaxFaults = 0
    CheckOut <- DayBetween
    Share <- TwoAndThree
SYMMETRY PayoutSymmetry
INVARIANTS
    PendingIsUnpaid
CHECK_DEADLOCK FALSE
