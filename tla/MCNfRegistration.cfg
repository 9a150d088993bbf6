SPECIFICATION FairSpec
CONSTANTS
    c1 = c1  c2 = c2  empty = empty
    w1 = w1  w2 = w2
    b1 = b1
    PlmnConfigs <- MCOneConfig
    EmptyConfig = empty
    Workers <- MCWorkers
    Beats <- MCOneBeat
    NoWorker = NoWorker
    NoProfile = NoProfile
    LossyNrf = TRUE
INVARIANTS
    TypeOK
    OnlyLatestLive
    OneWorkerRegisters
    KeepAliveLives
PROPERTIES
    StoppedStaysStopped
    LatestGetsItsTurn
    ListsReceived
    ServiceStops
    KeepAliveRestarts
    RegisteredAgain
