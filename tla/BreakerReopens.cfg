SPECIFICATION Spec
CONSTANTS
    s1 = s1
    b1 = b1
    q1 = q1
    None = None
    Web = web
    Daemon = daemon
    Res = {s1}
    Storefront = {s1}
    Row = {q1}
    Threshold = 2
    MaxRetries = 2
    MaxAttempts = 2
    MaxCrash = 1
PROPERTIES
    OpensAfterThreshold
CHECK_DEADLOCK FALSE
