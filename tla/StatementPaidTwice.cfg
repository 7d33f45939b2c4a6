SPECIFICATION Spec
CONSTANTS
    w1 = w1
    w2 = w2
    c1 = c1
    None = None
    LastPeriod = 2
    Charge = {c1}
    Worker = {w1}
    MaxForgets = 0
    Income <- LeanThenGood
PROPERTIES
    NotPaidTwice
CHECK_DEADLOCK FALSE
