SPECIFICATION Spec
CONSTANTS
    c1 = c1  c2 = c2  empty = empty
    w1 = w1  w2 = w2
    b1 = b1
    PlmnConfigs <- MCTwoConfigs
    EmptyConfig = empty
    Workers <- MCWorkers
    Beats <- MCOneBeat
    NoWorker = NoWorker
    NoProfile = NoProfile
    LossyNrf = FALSE
INVARIANT OutcomeOfLatest
