------------------------------- MODULE NsQuery -------------------------------
(***************************************************************************)
(* producer/network_slice_information_document.go: what the query of a GET *)
(* is parsed to, and when it is refused.  Operators only; NsSelection makes*)
(* them the first step of a request.                                       *)
(*                                                                         *)
(* A parameter is absent, a JSON text, which the decoder takes as it is or *)
(* refuses, or exploded: each leaf of it is a key of its own, with one     *)
(* value for each element of a list that has the leaf, in order, and no    *)
(* index.  An exploded list of S-NSSAIs is [sst, sd], two sequences.       *)
(* "" among the values of a key is NoValue, what no number or Boolean can  *)
(* be made of is NotAValue.                                                *)
(***************************************************************************)
EXTENDS Naturals, SequencesExt

CONSTANTS
    Ssts, Sds,          \* slice types, 0 included, and slice differentiators
    NoValue, NotAValue,
    NoPlmn, NoTai,      \* parameter not given
    BadJson,            \* JSON text that cannot be decoded
    NoSnssai            \* no S-NSSAI, where there may be none

Snssais == [sst : Ssts, sd : Sds \cup {NoValue}]

\* "SMF" stands for the types of NF that are not served.
NfTypes == {"AMF", "NSSF", "SMF"}

ASSUME QueryAssumption ==
    /\ 0 \in Ssts /\ Ssts \subseteq Nat
    /\ NoValue \notin Nat \cup BOOLEAN \cup Sds \cup Snssais \cup NfTypes
    /\ NotAValue \notin Nat \cup BOOLEAN \cup {NoValue}
    /\ NoSnssai \notin Snssais

\* The zero value of models.Snssai.
ZeroSnssai == [sst |-> 0, sd |-> NoValue]

\* CheckStandardSnssai: one of the three SSTs of 3GPP, without SD.
Standard == {s \in Snssais : s.sst \in 1 .. 3 /\ s.sd = NoValue}

Tuples(snssais) == [serving : snssais, home : snssais]

\* models.SliceInfoForRegistration and SliceInfoForPDUSession.  An SRG is a number.
SubscribedRecords ==
    [snssai : Snssais, default : BOOLEAN \cup {NoValue}, srgs : Seq(Nat \cup {NoValue})]

RegistrationRecords ==
    [subscribed : Seq(SubscribedRecords), requested : Seq(Snssais),
     forMapping : Seq(Snssais), mapping : Seq(Tuples(Snssais)),
     requestMapping : BOOLEAN, defaultConfigured : BOOLEAN]

SessionRecords == [snssai : Snssais, roaming : BOOLEAN]

\* What a request is about, as the procedures see it.
RequestRecords(nfs, plmns, tais) ==
    [kind : {"registration", "session"}, nfId : nfs,
     home : plmns \cup {NoPlmn}, tai : tais \cup {NoTai},
     subscribed : Seq(SubscribedRecords), requested : Seq(Snssais),
     forMapping : Seq(Snssais), mapping : Seq(Tuples(Snssais)),
     requestMapping : BOOLEAN, defaultConfigured : BOOLEAN,
     snssai : Snssais, roaming : BOOLEAN]

\* The query: each parameter absent, a JSON text, or exploded.
Bools == BOOLEAN \cup {NoValue, NotAValue}
SstValues == Ssts \cup {NoValue, NotAValue}
SnssaiKeys == [sst : Seq(SstValues), sd : Seq(Sds \cup {NoValue})]

RegistrationKeys ==
    [subscribed : [snssai : SnssaiKeys, default : Seq(Bools),
                   srgs : Seq(Nat \cup {NoValue})],
     requested : SnssaiKeys, forMapping : SnssaiKeys,
     serving : SnssaiKeys, home : SnssaiKeys,
     requestMapping : Bools, defaultConfigured : Bools,
     ueSupNssrgInd : Bools, suppressNssrgInd : Bools, nsagSupported : Bools]

SessionKeys ==
    [sst : SstValues, sd : Sds \cup {NoValue},
     homeSst : SstValues, homeSd : Sds \cup {NoValue}, roaming : BOOLEAN \cup {NoValue}]

Parameters(values, keys) ==
    [form : {"absent"}] \cup [form : {"json"}, value : values \cup {BadJson}]
        \cup [form : {"exploded"}, value : keys]

QueryRecords(nfs, plmns, tais) ==
    [nfType : NfTypes \cup {NoValue}, nfId : nfs,
     home : plmns \cup {NoPlmn, BadJson}, tai : tais \cup {NoTai, BadJson},
     registration : Parameters(RegistrationRecords, RegistrationKeys),
     session : Parameters(SessionRecords, SessionKeys)]

-----------------------------------------------------------------------------
(* Values of a key *)

ValueAt(values, i) == IF i \in DOMAIN values THEN values[i] ELSE NoValue

Longer(m, n) == IF m > n THEN m ELSE n

\* What a loop leaves that appends the elements at some places of a list: the
\* k-th is the one at the place that is the k-th of these places.
AtPlaces(list, P) ==
    [k \in 1 .. Cardinality(P) |->
        list[CHOOSE i \in P : Cardinality({j \in P : j <= i}) = k]]

\* SelectSeq, by places.
Filter(list, Test(_)) == AtPlaces(list, {i \in DOMAIN list : Test(list[i])})

\* strconv.ParseBool of a value that is given.
GoodBool(v) == v # NotAValue

\* parseSnssaiValues
GoodSnssai(sst, sd) == sst # NotAValue /\ (sst = NoValue => sd = NoValue)

SnssaiOf(sst, sd) == IF sst = NoValue THEN NoSnssai ELSE [sst |-> sst, sd |-> sd]

\* Operators named Mutant_... are definitions with a bug, for the runs to refute.
Mutant_IndicesOfSd(list) == 1 .. Len(list.sd)

\* parseExplodedSnssaiEntries: an S-NSSAI for each index of the longer key.
Indices(list) == 1 .. Longer(Len(list.sst), Len(list.sd))

GoodList(list) ==
    \A i \in Indices(list) : GoodSnssai(ValueAt(list.sst, i), ValueAt(list.sd, i))

Entries(list) ==
    [i \in Indices(list) |-> SnssaiOf(ValueAt(list.sst, i), ValueAt(list.sd, i))]

\* parseExplodedSnssaiList: those that are there, moved up.
SnssaiList(list) == Filter(Entries(list), LAMBDA s : s # NoSnssai)

\* parseExplodedSubscribedSnssaiList.  Indication and SRG of an index go with
\* the S-NSSAI that was moved to the index; a single S-NSSAI takes all SRGs, and
\* so does each further index.
SubscribedList(list) ==
    LET snssais == SnssaiList(list.snssai)
        one     == Len(snssais) = 1 /\ Len(list.srgs) > 1
        srgs(i) == CASE one -> list.srgs
                     [] ~one /\ ValueAt(list.srgs, i) # NoValue -> <<ValueAt(list.srgs, i)>>
                     [] OTHER -> <<>>
        items == [i \in 1 .. Longer(Len(snssais), Longer(Len(list.default), Len(list.srgs))) |->
                    [snssai  |-> IF i \in DOMAIN snssais THEN snssais[i] ELSE ZeroSnssai,
                     default |-> ValueAt(list.default, i),
                     srgs    |-> srgs(i)]]
    IN AtPlaces(items, {i \in DOMAIN items : \/ i \in DOMAIN snssais
                                             \/ items[i].default # NoValue
                                             \/ items[i].srgs # <<>>})

\* parseExplodedMappingOfSnssaiList: the two parts by index, either may be missing.
MappingList(serving, home) ==
    LET part(list, i) == ValueAt(Entries(list), i)
        given(list, i) == part(list, i) \notin {NoValue, NoSnssai}
        orZero(list, i) == IF given(list, i) THEN part(list, i) ELSE ZeroSnssai
        items == [i \in 1 .. Longer(Len(Entries(serving)), Len(Entries(home))) |->
                    [serving |-> orZero(serving, i), home |-> orZero(home, i)]]
    IN AtPlaces(items, {i \in DOMAIN items : given(serving, i) \/ given(home, i)})

-----------------------------------------------------------------------------
(* Parameters: [form, value] *)

Absent == [form |-> "absent"]
Json(v) == [form |-> "json", value |-> v]
Exploded(keys) == [form |-> "exploded", value |-> keys]

NoRegistration ==
    [subscribed |-> <<>>, requested |-> <<>>, forMapping |-> <<>>, mapping |-> <<>>,
     requestMapping |-> FALSE, defaultConfigured |-> FALSE]

GoodRegistration(p) ==
    /\ p.form = "json" => p.value # BadJson
    /\ p.form = "exploded" =>
          /\ \A list \in {p.value.subscribed.snssai, p.value.forMapping,
                          p.value.requested, p.value.serving, p.value.home} : GoodList(list)
          /\ \A v \in ToSet(p.value.subscribed.default) : GoodBool(v)
          /\ \A v \in {p.value.requestMapping, p.value.defaultConfigured,
                       p.value.ueSupNssrgInd, p.value.suppressNssrgInd,
                       p.value.nsagSupported} : GoodBool(v)

\* A Boolean that is not given counts as false.  The last three have to be
\* Booleans and are not looked at again.
RegistrationOf(p) ==
    CASE p.form = "absent" -> NoRegistration
      [] p.form = "json" -> p.value
      [] p.form = "exploded" ->
           [subscribed |-> SubscribedList(p.value.subscribed),
            requested |-> SnssaiList(p.value.requested),
            forMapping |-> SnssaiList(p.value.forMapping),
            mapping |-> MappingList(p.value.serving, p.value.home),
            requestMapping |-> p.value.requestMapping = TRUE,
            defaultConfigured |-> p.value.defaultConfigured = TRUE]

NoSession == [snssai |-> ZeroSnssai, roaming |-> TRUE]

GoodSession(p) ==
    /\ p.form = "json" => p.value # BadJson
    /\ p.form = "exploded" => /\ GoodSnssai(p.value.sst, p.value.sd)
                              /\ GoodSnssai(p.value.homeSst, p.value.homeSd)

\* A roaming indication that is not given is not NON_ROAMING.
SessionOf(p) ==
    CASE p.form = "absent" -> NoSession
      [] p.form = "json" -> p.value
      [] p.form = "exploded" ->
           [snssai |-> IF p.value.sst = NoValue THEN ZeroSnssai
                       ELSE SnssaiOf(p.value.sst, p.value.sd),
            roaming |-> p.value.roaming # FALSE]

\* parseQueryParameter
GoodQuery(query) ==
    /\ GoodRegistration(query.registration) /\ GoodSession(query.session)
    /\ query.home # BadJson /\ query.tai # BadJson

\* A query with both parts is a registration.
RequestOf(query) ==
    LET info == RegistrationOf(query.registration)
        session == SessionOf(query.session)
    IN [kind |-> IF query.registration = Absent THEN "session" ELSE "registration",
        nfId |-> query.nfId, home |-> query.home, tai |-> query.tai,
        subscribed |-> info.subscribed, requested |-> info.requested,
        forMapping |-> info.forMapping, mapping |-> info.mapping,
        requestMapping |-> info.requestMapping,
        defaultConfigured |-> info.defaultConfigured,
        snssai |-> session.snssai, roaming |-> session.roaming]

\* The checks of NSSelectionGetProcedure, in their order.
Authorized(nfType) == nfType \in {"AMF", "NSSF"}

BadQuery(query) ==
    \/ ~GoodQuery(query) \/ query.nfType = NoValue
    \/ Authorized(query.nfType) /\ query.registration = Absent /\ query.session = Absent

UnauthorizedQuery(query) ==
    GoodQuery(query) /\ query.nfType # NoValue /\ ~Authorized(query.nfType)

-----------------------------------------------------------------------------
(* The consumer: what the client of the OpenAPI library makes of a request,
   as the tests of the parser use it.  A leaf that is not given has no value,
   not an empty one. *)

Given(values) == Filter(values, LAMBDA v : v # NoValue)

Keys(list) ==
    [sst |-> [i \in DOMAIN list |-> list[i].sst],
     sd  |-> Given([i \in DOMAIN list |-> list[i].sd])]

Part(list, field) == [i \in DOMAIN list |-> list[i][field]]

ExplodedRegistration(r) ==
    Exploded([subscribed |-> [snssai  |-> Keys(Part(r.subscribed, "snssai")),
                              default |-> Given(Part(r.subscribed, "default")),
                              srgs    |-> FlattenSeq(Part(r.subscribed, "srgs"))],
              requested |-> Keys(r.requested), forMapping |-> Keys(r.forMapping),
              serving |-> Keys(Part(r.mapping, "serving")),
              home |-> Keys(Part(r.mapping, "home")),
              requestMapping |-> r.requestMapping,
              defaultConfigured |-> r.defaultConfigured,
              ueSupNssrgInd |-> NoValue, suppressNssrgInd |-> NoValue,
              nsagSupported |-> NoValue])

ExplodedSession(r) ==
    Exploded([sst |-> r.snssai.sst, sd |-> r.snssai.sd, homeSst |-> NoValue,
              homeSd |-> NoValue, roaming |-> r.roaming])

RegistrationPart(r) == [f \in DOMAIN NoRegistration |-> r[f]]
SessionPart(r) == [f \in DOMAIN NoSession |-> r[f]]

QueryFor(r, registration, session) ==
    [nfType |-> "AMF", nfId |-> r.nfId, home |-> r.home, tai |-> r.tai,
     registration |-> registration, session |-> session]

EncodeExploded(r) ==
    IF r.kind = "registration" THEN QueryFor(r, ExplodedRegistration(r), Absent)
    ELSE QueryFor(r, Absent, ExplodedSession(r))

EncodeJson(r) ==
    IF r.kind = "registration" THEN QueryFor(r, Json(RegistrationPart(r)), Absent)
    ELSE QueryFor(r, Absent, Json(SessionPart(r)))

\* A request is a registration or a session, and says nothing of the other.
OneKind(r) == IF r.kind = "registration" THEN SessionPart(r) = NoSession
              ELSE RegistrationPart(r) = NoRegistration

\* Requests the keys say everything of: where a leaf is not given, it is not
\* given for the rest of the list either, and one SRG at most goes with an S-NSSAI.
GivenFirst(values) ==
    \A i, j \in DOMAIN values : i < j /\ values[j] # NoValue => values[i] # NoValue

Positional(r) ==
    LET subscribed == Part(r.subscribed, "snssai")
        lists == {subscribed, r.requested, r.forMapping,
                  Part(r.mapping, "serving"), Part(r.mapping, "home")}
        srgs == Part(r.subscribed, "srgs")
    IN /\ \A list \in lists : GivenFirst(Part(list, "sd"))
       /\ GivenFirst(Part(r.subscribed, "default"))
       /\ \A i, j \in DOMAIN srgs :
             /\ Len(srgs[i]) <= 1 /\ srgs[i] # <<NoValue>>
             /\ i < j /\ srgs[j] # <<>> => srgs[i] # <<>>
=============================================================================
