\* Two nodes with two files each and one address, so that a node's pools follow each
\* other at the same address; either node may work on all of them.
SPECIFICATION FairSpec
CONSTANTS
    Nodes = {n1, n2}
    Files = {f1, f2}
    Vas = {v1}
    AtServer = {n1}
    MaxCalls = 2
    Null = Null
INVARIANTS
    TypeOK
    RegisteredIsOpen
    HeldCanBeFound
    
    PeerKnown
    NoOrphans
PROPERTIES
    ClosedInTheEnd
\* When every node has made its calls the model stops.
CHECK_DEADLOCK FALSE
