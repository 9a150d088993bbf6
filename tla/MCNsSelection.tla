---------------------------- MODULE MCNsSelection ----------------------------
(* Instance of NsSelection for TLC. *)
EXTENDS NsSelection

CONSTANTS x, y, amf1, amf2, amf3, set1, set2, t1, t2, h1, h2, h3, h4

MCSsts == 0 .. 2
MCSds == {x, y}

std == [sst |-> 1, sd |-> NoValue]
a == [sst |-> 1, sd |-> x]
b == [sst |-> 2, sd |-> y]

MCNfIds == {amf1, amf2, amf3}
MCAmfSetIds == {set1, set2}

\* t2 is not configured, nor is h3; h2 has no list of mappings, h4 an empty one.
MCTaList == [t \in {t1} |-> {std, a}]
MCMappingOfPlmn ==
    [p \in {h1, h2, h4} |->
        CASE p = h1 -> <<[serving |-> a, home |-> b], [serving |-> b, home |-> a]>>
          [] p = h2 -> NoMapping
          [] p = h4 -> <<>>]
\* The list of b is empty.
MCNsiList == [s \in {a, b} |-> IF s = a THEN 1 ELSE 0]
MCAmfSetList ==
    <<[id |-> set1, amfs |-> {amf2}, data |-> {<<t1, a>>}],
      [id |-> set2, amfs |-> {}, data |-> {<<t1, std>>}]>>
MCAmfData == {{}, {<<t1, a>>}, {<<t1, std>>, <<t1, a>>}}
MCInitialAmfList ==
    <<[nfId |-> amf2, data |-> {<<t1, a>>}],
      [nfId |-> amf1, data |-> {<<t1, std>>, <<t1, a>>}]>>
MCSupportedLists == {PlmnMissing, {a}, {b}, {a, b}}

Sub(s, d) == [snssai |-> s, default |-> d, srgs |-> <<>>]

Registers ==
    [kind |-> "registration", nfId |-> amf1, home |-> NoPlmn, tai |-> t1,
     requested |-> <<a, std>>, subscribed |-> <<Sub(b, TRUE), Sub(a, TRUE), Sub(std, FALSE)>>,
     mapping |-> <<>>, forMapping |-> <<>>, requestMapping |-> FALSE,
     defaultConfigured |-> FALSE, snssai |-> ZeroSnssai, roaming |-> TRUE]

\* Asks for more than an Allowed NSSAI holds, for what is not subscribed, not in
\* the TA, or nothing; from AMFs with and without a record; at home and roaming.
AtHome ==
    {Registers,
     [Registers EXCEPT !.nfId = amf2],
     [Registers EXCEPT !.nfId = amf3],
     [Registers EXCEPT !.requested = <<>>],
     [Registers EXCEPT !.requested = <<a, b, std>>, !.subscribed = <<Sub(a, FALSE), Sub(std, FALSE)>>],
     [Registers EXCEPT !.requested = <<a, std>>, !.subscribed = <<Sub(b, TRUE), Sub(a, TRUE)>>],
     [Registers EXCEPT !.requested = <<b>>],
     [Registers EXCEPT !.requested = <<a, b, std>>, !.tai = NoTai],
     [Registers EXCEPT !.requested = <<std, a>>, !.defaultConfigured = TRUE],
     [Registers EXCEPT !.tai = t2],
     [Registers EXCEPT !.requestMapping = TRUE]}

\* Leaves that only some elements of a list have, and lists of SRGs.
Sparse ==
    {[Registers EXCEPT !.requested = <<std, b>>, !.tai = NoTai],
     [Registers EXCEPT !.subscribed = <<Sub(a, NoValue), Sub(b, TRUE)>>],
     [Registers EXCEPT !.subscribed = <<[snssai |-> a, default |-> TRUE, srgs |-> <<1>>],
                                        [snssai |-> b, default |-> NoValue, srgs |-> <<2>>]>>],
     [Registers EXCEPT !.subscribed = <<[snssai |-> a, default |-> TRUE, srgs |-> <<1, 2>>]>>]}

Roamer == [Registers EXCEPT !.home = h1, !.mapping = <<[serving |-> a, home |-> b]>>]

Roamers ==
    {Roamer,
     [Roamer EXCEPT !.mapping = <<>>],
     [Roamer EXCEPT !.mapping = <<>>, !.requested = <<a>>],
     [Roamer EXCEPT !.requested = <<>>],
     [Roamer EXCEPT !.requestMapping = TRUE, !.forMapping = <<a, std>>],
     [Roamer EXCEPT !.home = h2, !.requested = <<>>],
     [Roamer EXCEPT !.home = h4, !.requested = <<>>,
                    !.subscribed = <<Sub(std, TRUE), Sub(b, TRUE)>>],
     [Roamer EXCEPT !.home = h3]}

Session ==
    [Registers EXCEPT !.kind = "session", !.requested = <<>>, !.subscribed = <<>>,
                      !.snssai = a, !.roaming = FALSE]

Sessions ==
    {Session,
     [Session EXCEPT !.snssai = b],
     [Session EXCEPT !.snssai = std],
     [Session EXCEPT !.snssai = b, !.tai = NoTai],
     [Session EXCEPT !.roaming = TRUE],
     [Session EXCEPT !.home = h1, !.roaming = TRUE],
     [Session EXCEPT !.home = h3],
     [Session EXCEPT !.tai = t2]}

MCRequests == AtHome \cup Sparse \cup Roamers \cup Sessions

Asks == EncodeExploded(Roamer)
AsksFor(field, keys) ==
    [Asks EXCEPT !.registration = Exploded([Asks.registration.value EXCEPT ![field] = keys])]
AsksSession == EncodeExploded(Session)
Leaf(field, v) ==
    [AsksSession EXCEPT !.session = Exploded([AsksSession.session.value EXCEPT ![field] = v])]

Sst(values) == [sst |-> values, sd |-> <<>>]

\* Queries that are refused, and some that are not: with gaps in a list, with an
\* indication too many, with both parts, with a session that says nothing.
MCRawQueries ==
    {[Asks EXCEPT !.nfType = NoValue],
     [Asks EXCEPT !.nfType = "SMF"],
     [Asks EXCEPT !.nfType = "SMF", !.registration = Absent],
     [Asks EXCEPT !.registration = Absent],
     [Asks EXCEPT !.registration = Json(BadJson)],
     [Asks EXCEPT !.home = BadJson],
     [Asks EXCEPT !.nfType = "NSSF", !.session = AsksSession.session],
     AsksFor("requested", [sst |-> <<1>>, sd |-> <<x, y>>]),
     AsksFor("requested", Sst(<<1, NotAValue>>)),
     AsksFor("requested", Sst(<<NoValue, 1>>)),
     AsksFor("serving", Sst(<<NoValue, 1>>)),
     AsksFor("subscribed", [snssai |-> Sst(<<1>>), default |-> <<NotAValue>>, srgs |-> <<>>]),
     AsksFor("subscribed", [snssai |-> Sst(<<1>>), default |-> <<FALSE, TRUE>>, srgs |-> <<>>]),
     AsksFor("requestMapping", NotAValue),
     AsksFor("nsagSupported", NotAValue),
     Leaf("sst", NoValue),
     Leaf("homeSst", NotAValue),
     [AsksSession EXCEPT !.session.value.sst = NoValue, !.session.value.sd = NoValue,
                         !.session.value.roaming = NoValue]}

\* Filter keeps what SelectSeq keeps, in the same order.
ASSUME FilterIsSelectSeq ==
    \A list \in BoundedSeq(0 .. 2, 5), S \in SUBSET (0 .. 2) :
        LET Test(v) == v \in S IN Filter(list, Test) = SelectSeq(list, Test)
=============================================================================
