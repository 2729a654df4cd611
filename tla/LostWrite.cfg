\* One node writes twice; prompt acknowledgements, nobody else.
SPECIFICATION Spec
CONSTANTS
    r1 = r1
    r2 = r2
    Requesters = {r1}
    Script <- MCTwoWrites
    LateAcks = {}
    Objects = {o1}
    Words = {w1, w2}
    Size = 1
    Depth = 2
    MaxLocal = 0
    Zero = Zero
    Null = Null
INVARIANTS
    WritesReachPool
CHECK_DEADLOCK FALSE
