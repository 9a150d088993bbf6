SPECIFICATION FairSpec
CONSTANTS
    p1 = p1  p2 = p2  s1 = s1  s2 = s2  h1 = h1  w1 = w1  w2 = w2  b1 = b1
    PlmnIds <- MCPlmnIds
    Snssais <- MCSnssais
    WebuiConfigs <- MCOnePlmn
    InitialPollingInterval = 5
    PollingMaxBackoff = 5
    Handlers <- MCHandlers
    NoHandler = NoHandler
    Workers <- MCWorkers
    Beats <- MCNoBeats
    NoWorker = NoWorker
    NoProfile = NoProfile
    LossyNrf = FALSE

PROPERTY PollerStops
