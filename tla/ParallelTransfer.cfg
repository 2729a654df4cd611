\* Two calls of RemoteWrite: two cells, below 1 MB; exactly 1 MB, one chunk per worker and
\* a rest for the caller; two chunks per worker and no rest.
SPECIFICATION FairSpec
CONSTANTS
    WORKER_NUMBER = 2
    Mb = 3
    Align = 1
    Sizes = {2, 3, 8}
    MaxTransfers = 2
    Blank = Blank
    Null = Null
INVARIANTS
    TypeOK
    SmallExact
    NoGap
    QueueSafe
    CompletionsSuffice
PROPERTIES
    TasksFinish
    SmallIsOneWrite
\* The caller may wait for ever, and the calls are bounded.
CHECK_DEADLOCK FALSE
