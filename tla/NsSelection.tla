----------------------------- MODULE NsSelection -----------------------------
(***************************************************************************)
(* producer/nsselection_for_registration.go, nsselection_for_pdu_session.go*)
(* and the queries of util/util.go they make: one GET request, while the   *)
(* poller replaces the supported S-NSSAIs and AMFs change AmfList.         *)
(*                                                                         *)
(* TaList, MappingListFromPlmn, NsiList and AmfSetList come from the       *)
(* configuration file and do not change; what a request computes from them *)
(* alone is one action.  Each read of what does change is an action of its *)
(* own: read locks are taken query by query, not for the request, and      *)
(* CheckSupportedSnssaiInAmfTa takes none.  Requests only read, so one is  *)
(* not affected by others.                                                 *)
(*                                                                         *)
(* All Allowed S-NSSAIs of an answer have the access type of the TA, so    *)
(* AllowedNssaiList is one list here.  The supported S-NSSAIs are those of *)
(* the PLMN of the request's TAI.                                          *)
(***************************************************************************)
EXTENDS NsQuery

CONSTANTS
    NfIds, AmfSetIds,
    TaList,             \* configured TA -> S-NSSAIs it supports
    MappingOfPlmn,      \* configured home PLMN -> list of [serving, home], or NoMapping
    NoMapping,          \* nil: the configuration of the PLMN does not name a list
    NsiList,            \* S-NSSAI with a list of slice instances -> its length
    AmfSetList,         \* list of [id, amfs, data]
    AllowedNssaiNum,    \* largest Allowed NSSAI, 8 in the code
    Requests,           \* what consumers ask
    RawQueries,         \* queries no request is encoded to
    SupportedLists,     \* what the poller may store for the PLMN; PlmnMissing: no entry
    InitialAmfList,
    AmfData,            \* data an AMF may provide: sets of <<TA, S-NSSAI>>
    MaxChanges,         \* bound on changes of the configuration during the request
    NoRequest, NoQuery, PlmnMissing

AmfRecords == [nfId : NfIds, data : AmfData]

Plmns == ({r.home : r \in Requests \cup RawQueries} \ {BadJson}) \cup DOMAIN MappingOfPlmn
Tais == ({r.tai : r \in Requests \cup RawQueries} \ {BadJson}) \cup DOMAIN TaList

ASSUME SelectionAssumption ==
    /\ Requests \subseteq {r \in RequestRecords(NfIds, Plmns, Tais) : OneKind(r)}
    /\ RawQueries \subseteq QueryRecords(NfIds, Plmns, Tais)
    /\ BadJson \notin {NoPlmn, NoTai} \cup DOMAIN MappingOfPlmn \cup DOMAIN TaList
                         \cup RegistrationRecords \cup SessionRecords
    /\ AmfSetList \in Seq([id : AmfSetIds, amfs : SUBSET NfIds,
                           data : SUBSET (Tais \X Snssais)])
    /\ \A t \in DOMAIN TaList : TaList[t] \subseteq Snssais
    /\ \A p \in DOMAIN MappingOfPlmn :
          MappingOfPlmn[p] \in Seq(Tuples(Snssais)) \cup {NoMapping}
    /\ NoMapping \notin Seq(Tuples(Snssais))
    /\ NoPlmn \notin DOMAIN MappingOfPlmn /\ NoTai \notin DOMAIN TaList
    /\ AllowedNssaiNum \in Nat \ {0} /\ MaxChanges \in Nat
    /\ InitialAmfList \in Seq(AmfRecords)
    /\ \A i, j \in DOMAIN InitialAmfList :
          InitialAmfList[i].nfId = InitialAmfList[j].nfId => i = j
    /\ \A list \in SupportedLists : list = PlmnMissing \/ list \subseteq Snssais

VARIABLES
    query, request, pc, \* the query, until it is parsed to the request
    sent,               \* history: the request the query encodes, until then
    supported,          \* SupportedNssaiInPlmnList of the PLMN, or PlmnMissing
    amfArray, amfLen,   \* the array behind AmfList, and the length of the slice
    oldArray,           \* the array the scan goes through, if append replaced it
    scanAt, scanLen,    \* record the scan is at, length of the slice at its start
    next,               \* Allowed S-NSSAI scanned for, or subscribed one to configure
    checkInvalidRequestedNssai,
    allowed, rejectedInTa, rejectedInPlmn, configured,
    referral,           \* candidate AMFs, or the target AMF set
    status,             \* none, ok, forbidden (403), badRequest (400), panicked
    ownServes,          \* unknown, yes, no: what the scans found of the asking AMF
    changes,
    lackedOnce,         \* history: S-NSSAIs the PLMN lacked at some time
    ownLackedOnce, ownHadOnce,  \* history: the same of the asking AMF in the TA
    disturbed           \* history: the record of the asking AMF moved or was patched

asked   == <<query, sent, request>>
config  == <<supported, amfArray, amfLen, changes>>
history == <<lackedOnce, ownLackedOnce, ownHadOnce, disturbed>>
scan    == <<oldArray, scanAt, scanLen, ownServes>>
result  == <<allowed, rejectedInTa, rejectedInPlmn, configured, referral, status>>
vars == <<asked, pc, config, history, scan, next, checkInvalidRequestedNssai, result>>

Elements == [snssai : Snssais, home : Snssais \cup {NoSnssai}]

TypeOK ==
    /\ pc # "parse" => query = NoQuery /\ sent = NoRequest
    /\ \/ request = NoRequest /\ (pc = "parse" \/ status \in {"badRequest", "forbidden"})
       \/ pc # "parse" /\ request \in RequestRecords(NfIds, Plmns, Tais)
    /\ pc \in {"parse", "start", "plmn", "select", "scan", "record", "data", "refer",
               "configure", "session", "answered"}
    /\ supported \in SupportedLists
    /\ amfArray \in Seq(AmfRecords) /\ amfLen \in 0 .. Len(amfArray)
    /\ oldArray \in Seq(AmfRecords)
    /\ scanAt \in Nat /\ scanLen \in Nat /\ next \in Nat
    /\ checkInvalidRequestedNssai \in BOOLEAN
    /\ allowed \in Seq(Elements) /\ Len(allowed) <= AllowedNssaiNum
    /\ rejectedInTa \in Seq(Snssais) /\ rejectedInPlmn \in Seq(Snssais)
    /\ configured \in Seq(Elements)
    /\ referral \subseteq NfIds \cup AmfSetIds
    /\ status \in {"none", "ok", "forbidden", "badRequest", "panicked"}
    /\ ownServes \in {"unknown", "yes", "no"}
    /\ changes \in 0 .. MaxChanges

-----------------------------------------------------------------------------
(* Queries of the fixed configuration *)

Roaming == request.home # NoPlmn

\* The S-NSSAIs the request asks for.
Asked == IF request.kind = "session" THEN <<request.snssai>> ELSE request.requested

NotInTa(s) == request.tai # NoTai /\ s \notin TaList[request.tai]

Subscribed == {request.subscribed[i].snssai : i \in DOMAIN request.subscribed}

\* Only a roamer's non-standard S-NSSAIs need a mapping.
NeedsMapping(s) == Roaming /\ s \notin Standard

\* The home S-NSSAI of a requested one, by the mapping the UE provided.
HomeOf(s) ==
    LET i == SelectInSeq(request.mapping, LAMBDA m : m.serving = s) IN
    IF ~NeedsMapping(s) THEN s
    ELSE IF i = 0 THEN NoSnssai ELSE request.mapping[i].home

\* The early return of useDefaultSubscribedSnssai and setConfiguredNssai.  With a
\* list that is configured empty they go on, for what needs no mapping.
NoMappingOfPlmn == Roaming /\ MappingOfPlmn[request.home] = NoMapping

\* The serving S-NSSAI of a subscribed one, by the mapping of the configuration.
ServingOf(s) ==
    LET mapping == IF NoMappingOfPlmn THEN <<>> ELSE MappingOfPlmn[request.home]
        i == SelectInSeq(mapping, LAMBDA m : m.home = s)
    IN IF ~NeedsMapping(s) THEN s
       ELSE IF i = 0 THEN NoSnssai ELSE mapping[i].serving

\* What is told of a requested S-NSSAI, and of a subscribed one.
RequestedElement(s) ==
    [snssai |-> s, home |-> IF NeedsMapping(s) THEN HomeOf(s) ELSE NoSnssai]

SubscribedElement(s) ==
    [snssai |-> ServingOf(s), home |-> IF NeedsMapping(s) THEN s ELSE NoSnssai]

Mutant_NoLimit(list) == list

\* AddAllowedSnssai drops what exceeds the eight S-NSSAIs of an Allowed NSSAI.
AddAllowed(list) ==
    SubSeq(list, 1, IF Len(list) < AllowedNssaiNum THEN Len(list) ELSE AllowedNssaiNum)

ListOf(Op(_), list) == [i \in DOMAIN list |-> Op(list[i])]

-----------------------------------------------------------------------------
(* What changes meanwhile: nothing reads the configuration before the query is
   parsed, nor after the answer. *)

OwnPlace(r, array, len) ==
    SelectInSeq(SubSeq(array, 1, len), LAMBDA amf : amf.nfId = r.nfId)

\* What the AMF of a request supports in the TA.
OwnData(r, array, len) ==
    LET i == OwnPlace(r, array, len) IN
    IF i = 0 THEN {} ELSE {s \in Snssais : <<r.tai, s>> \in array[i].data}

Lacking(list) == IF list = PlmnMissing THEN Snssais \cup {PlmnMissing} ELSE Snssais \ list

Init ==
    /\ \/ sent \in Requests /\ query \in {EncodeExploded(sent), EncodeJson(sent)}
       \/ sent = NoRequest /\ query \in RawQueries
    /\ request = NoRequest /\ pc = "parse"
    /\ supported \in SupportedLists
    /\ amfArray = InitialAmfList /\ amfLen = Len(InitialAmfList) /\ oldArray = <<>>
    /\ scanAt = 0 /\ scanLen = 0 /\ next = 1
    /\ checkInvalidRequestedNssai = FALSE /\ ownServes = "unknown"
    /\ allowed = <<>> /\ rejectedInTa = <<>> /\ rejectedInPlmn = <<>>
    /\ configured = <<>> /\ referral = {} /\ status = "none"
    /\ changes = 0
    /\ lackedOnce = Lacking(supported)
    /\ ownHadOnce = {} /\ ownLackedOnce = {} /\ disturbed = FALSE

MayChange ==
    /\ pc \notin {"parse", "answered"} /\ changes < MaxChanges
    /\ changes' = changes + 1
    /\ UNCHANGED <<asked, pc, scanAt, scanLen, ownServes, next,
                   checkInvalidRequestedNssai, result>>

\* The poller stores another supported list (PlmnPolling!StoreSupported).
StoreSupported ==
    /\ MayChange
    /\ supported' \in SupportedLists \ {supported}
    /\ lackedOnce' = lackedOnce \cup Lacking(supported')
    /\ UNCHANGED <<amfArray, amfLen, oldArray, ownLackedOnce, ownHadOnce, disturbed>>

\* Common to the changes of AmfList (NssaiAvailability); moves says whether the
\* record of the asking AMF is among those written in place.
ChangeAmfList(array, len, moves) ==
    /\ MayChange
    /\ amfArray' = array /\ amfLen' = len
    /\ LET data == OwnData(request, array, len) IN
       /\ ownHadOnce' = ownHadOnce \cup data
       /\ ownLackedOnce' = ownLackedOnce \cup (Snssais \ data)
    /\ disturbed' = (disturbed \/ moves)
    /\ UNCHANGED <<supported, lackedOnce>>

\* PUT of an AMF with a record replaces its data.
PutUpdate ==
    \E i \in 1 .. amfLen, data \in AmfData :
        /\ data # amfArray[i].data
        /\ ChangeAmfList([amfArray EXCEPT ![i].data = data], amfLen, FALSE)
        /\ UNCHANGED oldArray

\* PUT of another AMF appends: into the spare slot a DELETE left or the array
\* was made with, or into a new array while the scan stays in the old one.
PutAppend ==
    \E n \in NfIds \ {amfArray[i].nfId : i \in 1 .. amfLen}, data \in AmfData :
        /\ ChangeAmfList(
              Append(SubSeq(amfArray, 1, amfLen), [nfId |-> n, data |-> data])
                  \o SubSeq(amfArray, amfLen + 2, Len(amfArray)),
              amfLen + 1, FALSE)
        /\ \/ UNCHANGED oldArray
           \/ /\ amfLen = Len(amfArray)
              /\ oldArray' = IF oldArray = <<>> THEN amfArray ELSE oldArray

\* PATCH decodes into the data of the first record, in place: what a scan sees
\* of it meanwhile may be any data.
PatchFirst ==
    /\ amfLen > 0
    /\ \E data \in AmfData \ {amfArray[1].data} :
          ChangeAmfList([amfArray EXCEPT ![1].data = data], amfLen,
                        amfArray[1].nfId = request.nfId)
    /\ UNCHANGED oldArray

\* DELETE moves the records behind the removed one up, in the array a scan may
\* be in, and leaves the last where it was.
DeleteRecord ==
    \E i \in 1 .. amfLen :
        /\ ChangeAmfList(
              [j \in DOMAIN amfArray |->
                  IF j \in i .. amfLen - 1 THEN amfArray[j + 1] ELSE amfArray[j]],
              amfLen - 1, i <= OwnPlace(request, amfArray, amfLen))
        /\ UNCHANGED oldArray

Change == StoreSupported \/ PutUpdate \/ PutAppend \/ PatchFirst \/ DeleteRecord

-----------------------------------------------------------------------------
(* NSSelectionGetProcedure: the query is parsed and checked before anything else *)

Refuse(s) ==
    /\ pc' = "answered" /\ status' = s
    /\ UNCHANGED <<request, ownHadOnce, ownLackedOnce>>

ParseQuery ==
    /\ pc = "parse" /\ query' = NoQuery /\ sent' = NoRequest
    /\ \/ BadQuery(query) /\ Refuse("badRequest")
       \/ UnauthorizedQuery(query) /\ Refuse("forbidden")
       \/ /\ ~BadQuery(query) /\ ~UnauthorizedQuery(query)
          /\ request' = RequestOf(query) /\ pc' = "start"
          /\ ownHadOnce' = OwnData(request', amfArray, amfLen)
          /\ ownLackedOnce' = Snssais \ ownHadOnce'
          /\ UNCHANGED status
    /\ UNCHANGED <<config, lackedOnce, disturbed, scan, next, checkInvalidRequestedNssai,
                   allowed, rejectedInTa, rejectedInPlmn, configured, referral>>

-----------------------------------------------------------------------------
(* Both procedures: home PLMN, TA, supported S-NSSAIs *)

Answer(s) == pc' = "answered" /\ status' = s

HomeSupported == Roaming => request.home \in DOMAIN MappingOfPlmn
TaSupported == request.tai # NoTai => request.tai \in DOMAIN TaList

RejectHomePlmn ==
    /\ pc = "start" /\ ~HomeSupported
    /\ Answer("ok") /\ rejectedInPlmn' = Asked
    /\ UNCHANGED <<asked, config, history, scan, next, checkInvalidRequestedNssai,
                   allowed, rejectedInTa, configured, referral>>

RejectTa ==
    /\ pc = "start" /\ HomeSupported /\ ~TaSupported
    /\ Answer("ok") /\ rejectedInTa' = Asked
    /\ UNCHANGED <<asked, config, history, scan, next, checkInvalidRequestedNssai,
                   allowed, rejectedInPlmn, configured, referral>>

\* With requestMapping the answer is the mapping of the configuration, whatever
\* the TA supports.
ReturnMapping ==
    LET wanted == Filter(ListOf(LAMBDA e : e.snssai, request.subscribed)
                                \o request.forMapping,
                            LAMBDA s : NeedsMapping(s) /\ ServingOf(s) # NoSnssai)
    IN
    /\ pc = "start" /\ HomeSupported /\ TaSupported
    /\ request.kind = "registration" /\ request.requestMapping
    /\ \/ ~Roaming /\ Answer("badRequest") /\ UNCHANGED allowed
       \/ /\ Roaming /\ Answer("ok")
          /\ allowed' = AddAllowed(ListOf(SubscribedElement, wanted))
    /\ UNCHANGED <<asked, config, history, scan, next, checkInvalidRequestedNssai,
                   rejectedInTa, rejectedInPlmn, configured, referral>>

\* Without a TAI there is no PLMN to compare with.
BeginSelection ==
    /\ pc = "start" /\ HomeSupported /\ TaSupported
    /\ ~(request.kind = "registration" /\ request.requestMapping)
    /\ pc' = IF request.tai # NoTai /\ Asked # <<>> THEN "plmn"
             ELSE IF request.kind = "session" THEN "session" ELSE "select"
    /\ UNCHANGED <<asked, config, history, scan, next, checkInvalidRequestedNssai,
                   result>>

\* CheckSupportedSnssaiInPlmn: standard S-NSSAIs are supported even in a PLMN
\* that is not listed.
SupportedInPlmn(s) == s \in Standard \/ (supported # PlmnMissing /\ s \in supported)

\* CheckSupportedNssaiInPlmn is for registrations; it refuses a PLMN that is
\* not listed whatever the request.
AllSupportedInPlmn ==
    IF request.kind = "session" THEN SupportedInPlmn(request.snssai)
    ELSE supported # PlmnMissing /\ \A i \in DOMAIN Asked : SupportedInPlmn(Asked[i])

CheckPlmn ==
    /\ pc = "plmn"
    /\ \/ ~AllSupportedInPlmn /\ Answer("forbidden")
       \/ /\ AllSupportedInPlmn /\ UNCHANGED status
          /\ pc' = IF request.kind = "session" THEN "session" ELSE "select"
    /\ UNCHANGED <<asked, config, history, scan, next, checkInvalidRequestedNssai,
                   allowed, rejectedInTa, rejectedInPlmn, configured, referral>>

-----------------------------------------------------------------------------
(* nsselectionForRegistration *)

Mutant_PermittedOutsideTa(s) == HomeOf(s) \in Subscribed

Permitted(s) == ~NotInTa(s) /\ HomeOf(s) \in Subscribed

Mutant_UnmappedForgotten(s) ==
    ~NotInTa(s) /\ HomeOf(s) # NoSnssai /\ HomeOf(s) \notin Subscribed

InvalidInPlmn(s) == ~NotInTa(s) /\ HomeOf(s) \notin Subscribed

Mutant_DefaultOutsideTa(e) ==
    /\ e.default = TRUE /\ ~NoMappingOfPlmn /\ ServingOf(e.snssai) # NoSnssai

\* useDefaultSubscribedSnssai; the list of the PLMN is not looked at.
UsableDefault(e) ==
    /\ e.default = TRUE /\ ~NoMappingOfPlmn /\ ServingOf(e.snssai) # NoSnssai
    /\ ~NotInTa(ServingOf(e.snssai))

Select ==
    LET requested == request.requested
        permitted == Filter(requested, Permitted)
        defaults  == Filter(request.subscribed, UsableDefault)
        invalid   == Filter(requested, InvalidInPlmn)
    IN
    /\ pc = "select"
    /\ allowed' = AddAllowed(
          IF permitted # <<>> THEN ListOf(RequestedElement, permitted)
          ELSE ListOf(LAMBDA e : SubscribedElement(e.snssai), defaults))
    /\ rejectedInTa' = Filter(requested, NotInTa)
    /\ rejectedInPlmn' = invalid
    /\ checkInvalidRequestedNssai' = (requested = <<>> \/ invalid # <<>>)
    /\ pc' = IF request.tai # NoTai /\ allowed' # <<>> THEN "scan" ELSE "configure"
    /\ UNCHANGED <<asked, config, history, scan, next, configured, referral, status>>

\* CheckAllowedNssaiInAmfTa: for each Allowed S-NSSAI, the record of the asking
\* AMF is looked for, without the lock.  The range expression is read first,
\* then of each record its nfId and its data.
Scanned == IF oldArray = <<>> THEN amfArray ELSE oldArray

ScanStart ==
    /\ pc = "scan" /\ pc' = "record"
    /\ scanAt' = 1 /\ scanLen' = amfLen /\ oldArray' = <<>>
    /\ UNCHANGED <<asked, config, history, ownServes, next,
                   checkInvalidRequestedNssai, result>>

Mutant_LastRecordMissed == scanAt >= scanLen

ScanEnded == scanAt > scanLen

ScanRecord ==
    /\ pc = "record"
    /\ \/ ScanEnded /\ ownServes' = "no" /\ pc' = "refer" /\ UNCHANGED scanAt
       \/ /\ ~ScanEnded /\ UNCHANGED ownServes
          /\ \/ Scanned[scanAt].nfId = request.nfId /\ pc' = "data" /\ UNCHANGED scanAt
             \/ /\ Scanned[scanAt].nfId # request.nfId
                /\ scanAt' = scanAt + 1 /\ UNCHANGED pc
    /\ UNCHANGED <<asked, config, history, oldArray, scanLen, next,
                   checkInvalidRequestedNssai, result>>

ScanData ==
    LET serves == <<request.tai, allowed[next].snssai>> \in Scanned[scanAt].data IN
    /\ pc = "data"
    /\ \/ ~serves /\ ownServes' = "no" /\ pc' = "refer" /\ next' = 1
       \/ /\ serves /\ next < Len(allowed)
          /\ next' = next + 1 /\ pc' = "scan" /\ UNCHANGED ownServes
       \/ serves /\ next = Len(allowed)
          /\ ownServes' = "yes" /\ pc' = "configure" /\ next' = 1
    /\ UNCHANGED <<asked, config, history, oldArray, scanAt, scanLen,
                   checkInvalidRequestedNssai, result>>

\* AddAmfInformation: the first AMF set that serves all Allowed S-NSSAIs, by its
\* AMFs or by its id, else every AMF that does.
ServesAllowed(data) ==
    \A i \in DOMAIN allowed : <<request.tai, allowed[i].snssai>> \in data

AddAmfInformation ==
    LET i == SelectInSeq(AmfSetList, LAMBDA set : ServesAllowed(set.data)) IN
    /\ pc = "refer" /\ pc' = "configure" /\ next' = 1
    /\ referral' =
          CASE i = 0 -> {amfArray[j].nfId :
                            j \in {k \in 1 .. amfLen : ServesAllowed(amfArray[k].data)}}
            [] i # 0 /\ AmfSetList[i].amfs # {} -> AmfSetList[i].amfs
            [] OTHER -> {AmfSetList[i].id}
    /\ UNCHANGED <<asked, config, history, scan, checkInvalidRequestedNssai,
                   allowed, rejectedInTa, rejectedInPlmn, configured, status>>

\* useDefaultConfiguredNssai
DefaultConfigured ==
    ListOf(LAMBDA s : [snssai |-> s, home |-> NoSnssai],
           Filter(request.requested, LAMBDA s : s \in Standard \cap Subscribed))

\* setConfiguredNssai is called, and has a subscribed S-NSSAI left to look at.
Configures ==
    /\ ~request.defaultConfigured /\ checkInvalidRequestedNssai
    /\ request.tai # NoTai /\ ~NoMappingOfPlmn

EndRegistration ==
    /\ pc = "configure"
    /\ ~(Configures /\ next <= Len(request.subscribed))
    /\ Answer("ok")
    /\ configured' = IF request.defaultConfigured THEN DefaultConfigured ELSE configured
    /\ UNCHANGED <<asked, config, history, scan, next, checkInvalidRequestedNssai,
                   allowed, rejectedInTa, rejectedInPlmn, referral>>

Mutant_StopAtUnsupported(supports) ==
    next' = IF supports THEN next + 1 ELSE Len(request.subscribed) + 1

NextSubscribed(supports) == next' = next + 1

\* One subscribed S-NSSAI, under a read lock of its own.
SetConfigured ==
    LET s == request.subscribed[next].snssai
        supports == ServingOf(s) # NoSnssai /\ SupportedInPlmn(ServingOf(s))
    IN
    /\ pc = "configure" /\ Configures /\ next <= Len(request.subscribed)
    /\ configured' = IF supports THEN Append(configured, SubscribedElement(s))
                     ELSE configured
    /\ NextSubscribed(supports)
    /\ UNCHANGED <<asked, pc, config, history, scan, checkInvalidRequestedNssai,
                   allowed, rejectedInTa, rejectedInPlmn, referral, status>>

-----------------------------------------------------------------------------
(* nsselectionForPduSession; which instance is chosen is not told apart. *)

\* GetNsiInformationListFromConfig returns nil when the S-NSSAI has no list.
HasNsiList(s) == s \in DOMAIN NsiList

\* selectNsiInformation: rand.Intn(0) panics.
SelectNsi(s) == Answer(IF HasNsiList(s) /\ NsiList[s] = 0 THEN "panicked" ELSE "ok")

EndSession ==
    /\ pc = "session"
    /\ \/ /\ Roaming # request.roaming
          /\ Answer("badRequest") /\ UNCHANGED rejectedInTa
       \/ /\ Roaming = request.roaming /\ NotInTa(request.snssai)
          /\ Answer("ok") /\ rejectedInTa' = Asked
       \/ /\ Roaming = request.roaming /\ ~NotInTa(request.snssai)
          /\ SelectNsi(request.snssai) /\ UNCHANGED rejectedInTa
    /\ UNCHANGED <<asked, config, history, scan, next, checkInvalidRequestedNssai,
                   allowed, rejectedInPlmn, configured, referral>>

-----------------------------------------------------------------------------
Registration ==
    \/ ReturnMapping \/ Select \/ ScanStart \/ ScanRecord \/ ScanData
    \/ AddAmfInformation \/ SetConfigured \/ EndRegistration

Next ==
    \/ Change \/ ParseQuery
    \/ RejectHomePlmn \/ RejectTa \/ BeginSelection \/ CheckPlmn
    \/ Registration \/ EndSession

Spec == Init /\ [][Next]_vars

-----------------------------------------------------------------------------
(* Properties *)

\* A request whose keys say everything of it is understood as it was sent, and a
\* request sent as JSON always is: what belongs together in the lists, the SD to its
\* SST, the default indication and the SRG to their S-NSSAI, the two parts of a
\* mapping, is still together.
UnderstoodWhenPositional ==
    [][pc = "parse" /\ sent # NoRequest /\ (query = EncodeJson(sent) \/ Positional(sent)) =>
          pc' = "start" /\ request' = sent]_vars

SnssaisOf(list) == {list[i].snssai : i \in DOMAIN list}

\* The selection itself ran, and the request has its answer.
Selected ==
    /\ pc = "answered" /\ status = "ok" /\ request.kind = "registration"
    /\ HomeSupported /\ TaSupported /\ ~request.requestMapping

\* Whether the selection allows an S-NSSAI because it is requested or by default,
\* the UE is subscribed to it at home, by the mapping it came by, and the TA
\* supports it.  (With requestMapping nothing is selected: see Selected.)
OnlyEntitled ==
    Selected =>
        \A i \in DOMAIN allowed :
            /\ ~NotInTa(allowed[i].snssai)
            /\ (IF allowed[i].home = NoSnssai THEN allowed[i].snssai
                ELSE allowed[i].home) \in Subscribed

\* The answer does not contradict itself: none of the Allowed S-NSSAIs of a UE
\* at home is rejected as well.  (For roamers it may: an S-NSSAI without the
\* UE's mapping is rejected, and allowed as a default by the configured one.)
NotAllowedAndRejected ==
    Selected /\ ~Roaming =>
        SnssaisOf(allowed) \cap (ToSet(rejectedInTa) \cup ToSet(rejectedInPlmn)) = {}

\* Every requested S-NSSAI is decided: it is allowed, or rejected in one of the
\* two lists, unless the Allowed NSSAI is full.
EveryRequestDecided ==
    Selected /\ Len(allowed) < AllowedNssaiNum =>
        ToSet(request.requested) \subseteq
            SnssaisOf(allowed) \cup ToSet(rejectedInTa) \cup ToSet(rejectedInPlmn)

\* When the Configured NSSAI is computed, an S-NSSAI allowed to a UE at home is
\* in it, unless the PLMN lacked it at some moment of the request: the list is
\* read once for the check and again for each subscribed S-NSSAI.
AllowedIsConfigured ==
    Selected /\ ~Roaming /\ Configures =>
        SnssaisOf(allowed) \ (lackedOnce \ Standard) \subseteq SnssaisOf(configured)

\* What the scans without the lock find of the asking AMF was true at some
\* moment of the request, although PUT, PATCH and DELETE write to the array
\* meanwhile: unless its own record was patched in place, or moved by a DELETE
\* of its own record or one before it.
ScanSound ==
    ~disturbed =>
        /\ ownServes = "no" => SnssaisOf(allowed) \cap ownLackedOnce # {}
        /\ ownServes = "yes" => SnssaisOf(allowed) \subseteq ownHadOnce
=============================================================================
