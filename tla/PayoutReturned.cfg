SPECIFICATION Spec
CONSTANTS
    s1 = s1
    s2 = s2
    w1 = w1
    w2 = w2
    r1 = r1
    r2 = r2
    d1 = d1
    None = None
    Stay = {s1, s2}
    Worker = {w1}
    Row = {r1, r2}
    Deposit = {d1}
    Amount <- UpToTen
    Threshold = 2
    Period = 1
    LastDay = 1
    MaxTx = 3
    MaxFaults = 0
    CheckOut <- DayAfterDay
    Share <- TwoAndThree
SYMMETRY PayoutSymmetry
PROPERTIES
    ReturnedDepositFails
CHECK_DEADLOCK FALSE
