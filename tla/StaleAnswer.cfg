\* One orderly thread whose link may fail.
SPECIFICATION Spec
CONSTANTS
    n1 = n1
    n2 = n2
    t1 = t1
    t2 = t2
    Nodes = {n2}
    LateAcks = {}
    Flaky = {n2}
    Threads = {t2}
    NodeOf <- MCNodeOf
    Greeters = {}
    Pools = {p1}
    Vas = {v1}
    Depth = 2
    MaxCalls = 2
    Null = Null
INVARIANT SuccessMeansServed
CHECK_DEADLOCK FALSE
