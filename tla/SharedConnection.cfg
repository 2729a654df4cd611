\* Two threads of one node call the server over its one connection.
SPECIFICATION Spec
CONSTANTS
    n1 = n1
    n2 = n2
    t1 = t1
    t2 = t2
    Nodes = {n1}
    LateAcks = {}
    Flaky = {}
    Threads = {t1, t2}
    NodeOf <- MCSharedNodeOf
    Greeters = {}
    Pools = {p1}
    Vas = {v1}
    Depth = 2
    MaxCalls = 1
    Null = Null
INVARIANT ResponseIsForThisCall
CHECK_DEADLOCK FALSE
