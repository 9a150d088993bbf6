SPECIFICATION FairSpec
CONSTANTS
    p1 = p1  p2 = p2  s1 = s1  s2 = s2  h1 = h1  h2 = h2
    PlmnIds <- MCPlmnIds
    Snssais <- MCSnssais
    WebuiConfigs <- MCWebuiConfigs
    InitialPollingInterval = 5
    PollingMaxBackoff = 40
    Handlers <- MCHandlers
    NoHandler = NoHandler
    Capacity = 1
INVARIANTS
    TypeOK
    ConfigConsistent
    ReadersSeeAnnounced
PROPERTIES
    FeedKept
    LockReleased
    WebuiReachesHandlers
    
