SPECIFICATION FairSpec
CONSTANTS
    h1 = h1
    h2 = h2
    r1 = r1
    r2 = r2
    r3 = r3
    w1 = w1
    w2 = w2
    i1 = i1
    pA = pA
    None = None
    Hold = {h1}
    Res = {r1}
    Worker = {w1, w2}
    Intent = {}
    Property = {pA}
    Stay <- MCStay
    StayOfIntent <- MCStayOfIntent
    TTL = 1
    MaxNow = 2
    MaxCrash = 1
    Exclusion = FALSE
PROPERTIES
    RequestsEnd
    PaidHoldSettles
CHECK_DEADLOCK FALSE
