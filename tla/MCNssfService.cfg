SPECIFICATION Spec
CONSTANTS
    p1 = p1  p2 = p2  s1 = s1  s2 = s2  h1 = h1  w1 = w1  w2 = w2  b1 = b1
    PlmnIds <- MCPlmnIds
    Snssais <- MCSnssais
    WebuiConfigs <- MCTwoPlmns
    InitialPollingInterval = 5
    PollingMaxBackoff = 5
    Handlers <- MCHandlers
    NoHandler = NoHandler
    Workers <- MCOneWorker
    Beats <- MCBeats
    NoWorker = NoWorker
    NoProfile = NoProfile
    LossyNrf = TRUE
INVARIANTS
    LiveRegistrationIsServed
PROPERTY RegistrationKept
