\* One orderly thread, a working link, enough receives; acknowledgements may be late.
SPECIFICATION FairSpec
CONSTANTS
    n1 = n1
    n2 = n2
    t1 = t1
    t2 = t2
    Nodes = {n2}
    LateAcks = {n2}
    Flaky = {}
    Threads = {t2}
    NodeOf <- MCNodeOf
    Greeters = {}
    Pools = {p1}
    Vas = {v1}
    Depth = 2
    MaxCalls = 2
    Null = Null
PROPERTY RequestsProcessed
CHECK_DEADLOCK FALSE
