\* The link of n1 may fail; t2 also greets, and its requests may overtake acknowledgements.
SPECIFICATION Spec
CONSTANTS
    n1 = n1
    n2 = n2
    t1 = t1
    t2 = t2
    Nodes = {n1, n2}
    LateAcks = {n2}
    Flaky = {n1}
    Threads = {t1, t2}
    NodeOf <- MCNodeOf
    Greeters = {t2}
    Pools = {p1}
    Vas = {v1}
    Depth = 2
    MaxCalls = 2
    Null = Null
INVARIANTS
    TypeOK
    OwnersConnected
    AnswerIsEffect
    ServedAtMostOnce
\* When every thread has made its calls the model stops.
CHECK_DEADLOCK FALSE
