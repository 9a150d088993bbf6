SPECIFICATION Spec
CONSTANTS
    x = x  y = y  amf1 = amf1  amf2 = amf2  amf3 = amf3  set1 = set1  set2 = set2  t1 = t1  t2 = t2  h1 = h1  h2 = h2  h3 = h3  h4 = h4  NoMapping = NoMapping  NoValue = NoValue  NotAValue = NotAValue  BadJson = BadJson  NoRequest = NoRequest  NoQuery = NoQuery  NoPlmn = NoPlmn  NoTai = NoTai  NoSnssai = NoSnssai  PlmnMissing = PlmnMissing
    Ssts <- MCSsts
    Sds <- MCSds
    NfIds <- MCNfIds
    AmfSetIds <- MCAmfSetIds
    TaList <- MCTaList
    MappingOfPlmn <- MCMappingOfPlmn
    NsiList <- MCNsiList
    AmfSetList <- MCAmfSetList
    Requests <- MCRequests
    RawQueries <- MCRawQueries
    SupportedLists <- MCSupportedLists
    InitialAmfList <- MCInitialAmfList
    AmfData <- MCAmfData
    AllowedNssaiNum = 2
    MaxChanges = 3
\* The behaviour ends when the request is answered.
CHECK_DEADLOCK FALSE
INVARIANTS
    TypeOK
    OnlyEntitled
    NotAllowedAndRejected
    EveryRequestDecided
    AllowedIsConfigured
    ScanSound
PROPERTY
    UnderstoodWhenPositional
