SPECIFICATION FairSpec
CONSTANTS
    Server = s
    Clients = {a, b}
    a = a
    b = b
    Ip <- MCIp
    id2ip_ <- MCid2ip
    server_ip_ = ip102
    ip101 = ip101
    ip102 = ip102
    MAX_CLIENT_NUM = 2
    Targets <- MCTargets
    MaxDials <- MCMaxDials
    MaxFaults = 1
    MayRestart = {b}
    MayStop = {a}
    Null = Null
INVARIANTS
    TypeOK
    PeersGood
    PollersUseLive
    OnePoller
    NothingRunsOn
    BothEndsLive
PROPERTIES
    HandshakesEnd
    DialedGetsServed
    StopReturns
CHECK_DEADLOCK FALSE
