SPECIFICATION Spec
CONSTANTS
    h1 = h1  h2 = h2  amf1 = amf1  amf2 = amf2  i1 = i1
    Handlers <- MCHandlers
    NfIds <- MCNfIds
    Items <- MCItems
    InitialAmfList <- MCInitialAmfList
PROPERTY OneRecordPerAmf
\* A leaked ConfigLock stops every handler.
CHECK_DEADLOCK FALSE
