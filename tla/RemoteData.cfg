\* r1 reads once more than the owner has receives for, r2 reads and writes, both
\* acknowledge promptly; the owner writes a word.
SPECIFICATION FairSpec
CONSTANTS
    r1 = r1
    r2 = r2
    Requesters = {r1, r2}
    Script <- MCReadWrite
    LateAcks = {}
    Objects = {o1}
    Words = {w1}
    Size = 2
    Depth = 2
    MaxLocal = 1
    Zero = Zero
    Null = Null
PROPERTIES
    WriteLands
    ReadsReturn
    ImplementsPoolData
\* When every requester has made its calls the model stops.
CHECK_DEADLOCK FALSE
