\* A POST stops every handler for good (see PostAnswered): TLC is not to report
\* that as a deadlock of the other properties.
CHECK_DEADLOCK FALSE
SPECIFICATION FairSpec
CONSTANTS
    h1 = h1  h2 = h2
    Handlers <- MCHandlers
    InitialLists <- MCInitialLists
    MaxUint32 = 4
    NamedIds <- MCNamedIds
    NotANumber = NotANumber
    NoHandler = NoHandler
PROPERTY PostAnswered
