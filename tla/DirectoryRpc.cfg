\* n1 acknowledges promptly, n2 late; no faults; each thread makes one call more
\* than its connection has receives for.
SPECIFICATION FairSpec
CONSTANTS
    n1 = n1
    n2 = n2
    t1 = t1
    t2 = t2
    Nodes = {n1, n2}
    LateAcks = {n2}
    Flaky = {}
    Threads = {t1, t2}
    NodeOf <- MCNodeOf
    Greeters = {}
    Pools = {p1}
    Vas = {v1}
    Depth = 2
    MaxCalls = 3
    Null = Null
INVARIANTS
    NothingSwallowed
    NoCallStuck
PROPERTIES
    ImplementsDirectory
    CallsReturn
\* When every thread has made its calls the model stops.
CHECK_DEADLOCK FALSE
