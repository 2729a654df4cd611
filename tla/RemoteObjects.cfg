\* One node reads twice and writes, late acknowledgements; the owner writes as well.
SPECIFICATION Spec
CONSTANTS
    r1 = r1
    r2 = r2
    Requesters = {r1}
    Script <- MCReadReadWrite
    LateAcks = {r1}
    Objects = {o1, o2}
    Words = {w1, w2}
    Size = 2
    Depth = 3
    MaxLocal = 2
    Zero = Zero
    Null = Null
INVARIANTS
    TypeOK
    ReadFresh
    CompleteOnCopy
PROPERTIES
    ImplementsPoolData
\* When every requester has made its calls the model stops.
CHECK_DEADLOCK FALSE
