\* One transfer of more than 1 MB.
SPECIFICATION Spec
CONSTANTS
    WORKER_NUMBER = 2
    Mb = 2
    Align = 1
    Sizes = {5}
    MaxTransfers = 1
    Blank = Blank
    Null = Null
INVARIANTS
    TailMeansAll
CHECK_DEADLOCK FALSE
