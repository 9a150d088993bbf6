---------------------- MODULE NssaiAvailabilityProofs ----------------------
(***************************************************************************)
(* Proofs about NssaiAvailability, for any handlers, AMFs, items, initial  *)
(* list and interleaving of the requests: its types, when an AMF can get   *)
(* two records, when a handler can panic with the lock held, that a PUT is *)
(* answered with its data, and that the set of AMFs behaves as             *)
(* AmfDirectory says.                                                      *)
(***************************************************************************)
EXTENDS NssaiAvailability, ListLemmas

USE AvailabilityAssumption

\* The AMFs with a record.
Registered == {amfList[i].nfId : i \in DOMAIN amfList}

\* What a lookup of each AMF finds.
Shown == [n \in NfIds |-> DataNow(n)]

-----------------------------------------------------------------------------
(* The list operations of the three procedures.                            *)

\* The place of the first record of AMF n in list s, 0 if there is none.
First(s, n) == SelectInSeq(s, LAMBDA r : r.nfId = n)

LEMMA FirstFound ==
    ASSUME NEW s \in Seq(AmfRecords), NEW n
    PROVE  /\ First(s, n) \in {0} \cup DOMAIN s
           /\ First(s, n) = 0 <=> ~\E i \in DOMAIN s : s[i].nfId = n
           /\ First(s, n) # 0 =>
                 /\ s[First(s, n)].nfId = n
                 /\ \A j \in DOMAIN s : s[j].nfId = n => First(s, n) <= j
<1> DEFINE I == {i \in 1 .. Len(s) : s[i].nfId = n}
<1>1. First(s, n) = IF I # {} THEN Min(I) ELSE 0
    BY DEF First, SelectInSeq
<1>2. Len(s) \in Nat /\ DOMAIN s = 1 .. Len(s)
    BY LenProperties
<1>3. I \subseteq Nat
    BY <1>2
<1>4. CASE I = {}
    BY <1>1, <1>2, <1>4
<1>5. CASE I # {}
    <2>1. Min(I) \in I /\ \A j \in I : Min(I) <= j
        BY <1>3, <1>5, MinInSet
    <2>2. Min(I) # 0
        BY <2>1, <1>2
    <2> QED  BY <1>1, <1>2, <1>5, <2>1, <2>2
<1> QED  BY <1>4, <1>5

LEMMA FirstOfNone ==
    ASSUME NEW s \in Seq(AmfRecords), NEW n,
           ~\E i \in DOMAIN s : s[i].nfId = n
    PROVE  First(s, n) = 0
BY FirstFound

LEMMA FirstRecordFound ==
    ASSUME amfList \in Seq(AmfRecords), NEW n
    PROVE  FirstRecord(n) \in {0} \cup DOMAIN amfList
<1>1. FirstRecord(n) = First(amfList, n)
    BY DEF FirstRecord, First
<1> QED  BY <1>1, FirstFound

LEMMA WriteRecord ==
    ASSUME amfList \in Seq(AmfRecords), NEW i \in DOMAIN amfList,
           NEW d \in SUBSET Items,
           amfList' = [amfList EXCEPT ![i].data = d]
    PROVE  /\ amfList' \in Seq(AmfRecords)
           /\ DOMAIN amfList' = DOMAIN amfList
           /\ \A j \in DOMAIN amfList :
                 /\ amfList'[j].nfId = amfList[j].nfId
                 /\ amfList'[j].data = IF j = i THEN d ELSE amfList[j].data
<1>1. DOMAIN amfList = 1 .. Len(amfList) /\ Len(amfList) \in Nat
      /\ amfList \in [1 .. Len(amfList) -> AmfRecords]
    BY LenProperties
<1>2. amfList' = [amfList EXCEPT ![i] = [amfList[i] EXCEPT !.data = d]]
    OBVIOUS
<1>3. [amfList[i] EXCEPT !.data = d] \in AmfRecords
    BY <1>1 DEF AmfRecords
<1>4. amfList' \in [1 .. Len(amfList) -> AmfRecords]
    BY <1>1, <1>2, <1>3
<1>5. amfList' \in Seq(AmfRecords)
    BY <1>1, <1>4, SeqDef
<1>6. ASSUME NEW j \in DOMAIN amfList
      PROVE  /\ amfList'[j].nfId = amfList[j].nfId
             /\ amfList'[j].data = IF j = i THEN d ELSE amfList[j].data
    <2>1. amfList[j] \in AmfRecords
        BY <1>1
    <2> QED  BY <1>1, <1>2, <2>1 DEF AmfRecords
<1> QED  BY <1>1, <1>4, <1>5, <1>6

LEMMA AppendRecord ==
    ASSUME amfList \in Seq(AmfRecords), NEW r \in AmfRecords,
           amfList' = Append(amfList, r)
    PROVE  /\ amfList' \in Seq(AmfRecords)
           /\ DOMAIN amfList' = DOMAIN amfList \cup {Len(amfList) + 1}
           /\ Len(amfList) + 1 \notin DOMAIN amfList
           /\ \A j \in DOMAIN amfList : amfList'[j] = amfList[j]
           /\ amfList'[Len(amfList) + 1] = r
<1>1. DOMAIN amfList = 1 .. Len(amfList) /\ Len(amfList) \in Nat
    BY LenProperties
<1>2. /\ amfList' \in Seq(AmfRecords)
      /\ Len(amfList') = Len(amfList) + 1
      /\ \A j \in 1 .. Len(amfList) : amfList'[j] = amfList[j]
      /\ amfList'[Len(amfList) + 1] = r
    BY AppendElements
<1>3. DOMAIN amfList' = 1 .. Len(amfList) + 1
    BY <1>2, LenProperties
<1> QED  BY <1>1, <1>2, <1>3

\* Every record of the shorter list is one of the longer, another place for
\* each, and only the removed place has none.
LEMMA RemoveRecord ==
    ASSUME amfList \in Seq(AmfRecords), NEW i \in DOMAIN amfList,
           amfList' = RemoveAt(amfList, i)
    PROVE  /\ amfList' \in Seq(AmfRecords)
           /\ \A j \in DOMAIN amfList' :
                 LET k == IF j < i THEN j ELSE j + 1
                 IN  k \in DOMAIN amfList \ {i} /\ amfList'[j] = amfList[k]
           /\ \A k \in DOMAIN amfList \ {i} :
                 \E j \in DOMAIN amfList' : amfList'[j] = amfList[k]
<1>1. DOMAIN amfList = 1 .. Len(amfList) /\ Len(amfList) \in Nat
    BY LenProperties
<1>2. /\ amfList' \in Seq(AmfRecords)
      /\ Len(amfList') = Len(amfList) - 1
      /\ \A j \in 1 .. Len(amfList) - 1 :
            amfList'[j] = IF j < i THEN amfList[j] ELSE amfList[j + 1]
    <2> DEFINE s == RemoveAt(amfList, i)
    <2>1. /\ s \in Seq(AmfRecords)
          /\ Len(s) = Len(amfList) - 1
          /\ \A j \in 1 .. Len(amfList) - 1 :
                s[j] = IF j < i THEN amfList[j] ELSE amfList[j + 1]
        <3>1. i \in 1 .. Len(amfList)
            BY <1>1
        <3> HIDE AvailabilityAssumption
        <3> QED  BY <3>1, RemoveAtProperties
    <2> HIDE DEF s
    <2>2. amfList' = s
        BY DEF s
    <2> QED  BY <2>1, <2>2
<1>3. DOMAIN amfList' = 1 .. Len(amfList) - 1
    BY <1>2, LenProperties
<1>4. ASSUME NEW k \in DOMAIN amfList \ {i}
      PROVE  \E j \in DOMAIN amfList' : amfList'[j] = amfList[k]
    <2> DEFINE j == IF k < i THEN k ELSE k - 1
    <2>1. j \in DOMAIN amfList' /\ amfList'[j] = amfList[k]
        BY <1>1, <1>2, <1>3
    <2> QED  BY <2>1
<1> QED  BY <1>1, <1>2, <1>3, <1>4

-----------------------------------------------------------------------------
(* Types, and what a handler's place in the code says of its request.      *)

Stage ==
    \A h \in Handlers :
        /\ pc[h] = "decode" => request[h].kind \in {"put", "patch"}
        /\ pc[h] \in {"check", "update", "append"} => request[h].kind = "put"
        /\ pc[h] \in {"lookup", "apply", "write"} => request[h].kind = "patch"
        /\ pc[h] = "delete" => request[h].kind = "delete"
        /\ pc[h] = "respond" => request[h].kind \in {"put", "patch"} /\ answer[h] = "ok"
        /\ pc[h] = "answered" => answer[h] # "none"

Base == TypeOK /\ Stage

\* A request that has a kind names an AMF.
LEMMA NamedAmf ==
    ASSUME TypeOK, NEW h \in Handlers, request[h].kind # "none"
    PROVE  request[h].nfId \in NfIds
    BY DEF TypeOK, Requests, NoRequest

LEMMA BaseInit == Init => Base
<1> SUFFICES ASSUME Init PROVE Base
    OBVIOUS
<1>1. NoRequest \in Requests
    BY DEF Requests
<1> QED  BY <1>1 DEF Init, Base, TypeOK, Stage, NoBody

LEMMA BaseArrival ==
    ASSUME Base, NEW h \in Handlers, Arrives(h) \/ Decode(h) \/ Return(h)
    PROVE  Base'
<1> USE DEF Base, TypeOK, Stage, store, outcome, history, Goto
<1>1. ASSUME NEW n \in NfIds, NEW kind \in {"put", "patch", "delete"},
             Arrive(h, kind, n)
      PROVE  Base'
    <2>1. [kind |-> kind, nfId |-> n] \in Requests
        BY DEF Requests
    <2> QED  BY <1>1, <2>1 DEF Arrive
<1>2. ASSUME NEW data \in SUBSET Items, DecodePut(h, data) PROVE Base'
    BY <1>2 DEF DecodePut
<1>3. ASSUME NEW add \in SUBSET Items, NEW remove \in SUBSET Items,
             DecodePatch(h, add, remove)
      PROVE  Base'
    BY <1>3 DEF DecodePatch
<1>4. CASE DecodeFails(h)
    BY <1>4 DEF DecodeFails, Answer
<1>5. CASE Return(h)
    <2>1. NoRequest \in Requests
        BY DEF Requests
    <2> QED  BY <1>5, <2>1 DEF Return, NoBody
<1>6. CASE Arrives(h)
    BY <1>1, <1>6 DEF Arrives
<1>7. CASE Decode(h)
    <2>1. \A i \in Items : {i} \in SUBSET Items /\ {} \in SUBSET Items
        OBVIOUS
    <2> QED  BY ONLY <2>1, <1>2, <1>3, <1>4, <1>7 DEF Decode
<1> QED  BY <1>5, <1>6, <1>7

\* What is looked up in the list is availability data.
LEMMA FoundData ==
    ASSUME TypeOK, NEW n
    PROVE  /\ FirstRecord(n) \in {0} \cup DOMAIN amfList
           /\ \A i \in DOMAIN amfList : amfList[i].data \subseteq Items
           /\ DataNow(n) \subseteq Items
<1>1. /\ DOMAIN amfList = 1 .. Len(amfList) /\ Len(amfList) \in Nat
      /\ \A i \in DOMAIN amfList : amfList[i] \in AmfRecords
    BY LenProperties, ElementOfSeq DEF TypeOK
<1>2. \A i \in DOMAIN amfList : amfList[i].data \subseteq Items
    BY <1>1 DEF AmfRecords
<1>3. FirstRecord(n) \in {0} \cup DOMAIN amfList
    BY <1>1, FirstRecordFound DEF TypeOK
<1> QED  BY <1>2, <1>3 DEF DataNow

LEMMA BasePut == ASSUME Base, NEW h \in Handlers, Put(h) PROVE Base'
<1> USE DEF Base, store, outcome, history, Goto, Answer, Respond, RespondToPut
<1>1. CASE PutCheck(h)
    <2>1. TypeOK'
        <3>1. CASE UNCHANGED <<unvisited, answer>> /\ Goto(h, "update")
            BY <1>1, <3>1 DEF PutCheck, TypeOK
        <3>2. ASSUME NEW i \in unvisited[h], UNCHANGED <<pc, answer>>,
                     unvisited' = [unvisited EXCEPT ![h] = @ \ {i}]
              PROVE  TypeOK'
            BY <1>1, <3>2 DEF PutCheck, TypeOK
        <3>3. CASE UNCHANGED unvisited /\ Answer(h, "refused")
            BY <1>1, <3>3 DEF PutCheck, TypeOK
        <3> QED  BY ONLY <1>1, <3>1, <3>2, <3>3 DEF PutCheck, Answer, Goto
    <2>2. Stage'
        BY <1>1 DEF PutCheck, TypeOK, Stage
    <2> QED  BY <2>1, <2>2
<1>2. CASE PutUpdate(h)
    <2> DEFINE i == FirstRecord(request[h].nfId)
    <2>1. i \in {0} \cup DOMAIN amfList /\ body[h].add \subseteq Items
        BY FoundData DEF TypeOK
    <2>2. amfList' \in Seq(AmfRecords)
        BY <1>2, <2>1, WriteRecord DEF PutUpdate, TypeOK
    <2> HIDE DEF i
    <2>3. TypeOK'
        <3>0. /\ doubled' \subseteq NfIds /\ orphaned' \subseteq Handlers
              /\ overwritten' \subseteq Handlers
            <4>1. request[h].nfId \in NfIds
                BY <1>2, NamedAmf DEF PutUpdate, Stage
            <4> QED  BY <1>2, <4>1 DEF PutUpdate, PutsRespondingOf, HandlersAt, TypeOK
        <3>1. CASE RespondToPut(h)
            BY <1>2, <2>1, <2>2, <3>0, <3>1 DEF PutUpdate, TypeOK
        <3>2. CASE Goto(h, "append") /\ UNCHANGED <<unvisited, answer>>
            BY <1>2, <2>2, <3>0, <3>2 DEF PutUpdate, TypeOK
        <3> QED  BY ONLY <1>2, <3>1, <3>2 DEF PutUpdate, RespondToPut, Respond
    <2>4. Stage'
        <3>1. request[h].kind = "put"
            BY <1>2 DEF PutUpdate, Stage
        <3>2. /\ UNCHANGED request
              /\ \/ /\ pc' = [pc EXCEPT ![h] = "respond"]
                    /\ answer' = [answer EXCEPT ![h] = "ok"]
                 \/ pc' = [pc EXCEPT ![h] = "append"] /\ UNCHANGED answer
            BY ONLY <1>2 DEF PutUpdate, RespondToPut, Respond, Goto
        <3>3. DOMAIN pc = Handlers /\ DOMAIN answer = Handlers
            BY DEF TypeOK
        <3> QED  BY ONLY Stage, h \in Handlers, <3>1, <3>2, <3>3 DEF Stage
    <2> QED  BY <2>3, <2>4
<1>3. CASE PutAppend(h)
    <2>1. [nfId |-> request[h].nfId, data |-> body[h].add] \in AmfRecords
        BY <1>3, NamedAmf DEF PutAppend, AmfRecords, TypeOK, Stage
    <2>2. amfList' \in Seq(AmfRecords)
        BY <1>3, <2>1, AppendRecord DEF PutAppend, TypeOK
    <2>3. TypeOK'
        BY <1>3, <2>2 DEF PutAppend, TypeOK
    <2>4. Stage'
        BY <1>3 DEF PutAppend, TypeOK, Stage
    <2> QED  BY <2>3, <2>4
<1>4. CASE PutRespond(h)
    <2>1. TypeOK'
        <3>1. ASSUME NEW i \in unvisited[h],
                     unvisited' = [unvisited EXCEPT ![h] = @ \ {i}],
                     response' = [response EXCEPT
                        ![h] = @ \cup ({i} \cap DataNow(request[h].nfId))]
              PROVE  /\ unvisited' \in [Handlers -> SUBSET Items]
                     /\ response' \in [Handlers -> SUBSET Items]
            BY <3>1 DEF TypeOK
        <3>2. ASSUME UNCHANGED unvisited, UNCHANGED response
              PROVE  /\ unvisited' \in [Handlers -> SUBSET Items]
                     /\ response' \in [Handlers -> SUBSET Items]
            BY <3>2 DEF TypeOK
        <3>3. /\ unvisited' \in [Handlers -> SUBSET Items]
              /\ response' \in [Handlers -> SUBSET Items]
            BY ONLY PutRespond(h), <1>4, <3>1, <3>2 DEF PutRespond
        <3>4. pc' \in [Handlers -> {"idle", "decode", "check", "update", "append",
                            "lookup", "apply", "write", "delete", "respond",
                            "answered", "panicked"}]
            BY <1>4 DEF PutRespond, TypeOK
        <3>5. UNCHANGED <<store, request, body, modified, answer, history>>
            BY <1>4 DEF PutRespond
        <3> QED  BY <3>3, <3>4, <3>5 DEF TypeOK
    <2>2. Stage'
        BY <1>4 DEF PutRespond, TypeOK, Stage
    <2> QED  BY <2>1, <2>2
<1> QED  BY <1>1, <1>2, <1>3, <1>4 DEF Put

LEMMA BasePatch == ASSUME Base, NEW h \in Handlers, Patch(h) PROVE Base'
<1> USE DEF Base, store, outcome, history, Goto, Answer, Respond
<1>1. CASE PatchLookup(h)
    <2>1. TypeOK'
        BY <1>1, FoundData DEF PatchLookup, TypeOK
    <2>2. Stage'
        BY <1>1 DEF PatchLookup, TypeOK, Stage
    <2> QED  BY <2>1, <2>2
<1>2. CASE PatchApply(h)
    <2>1. TypeOK'
        <3>1. (modified[h] \ body[h].remove) \cup body[h].add \in SUBSET Items
            BY DEF TypeOK
        <3>2. modified' \in [Handlers -> SUBSET Items]
            <4>1. \/ UNCHANGED modified
                  \/ modified' = [modified EXCEPT
                        ![h] = (modified[h] \ body[h].remove) \cup body[h].add]
                BY ONLY <1>2 DEF PatchApply
            <4>2. modified \in [Handlers -> SUBSET Items]
                BY DEF TypeOK
            <4> QED  BY ONLY <3>1, <4>1, <4>2
        <3> QED  BY <1>2, <3>2 DEF PatchApply, TypeOK
    <2>2. Stage'
        BY <1>2 DEF PatchApply, TypeOK, Stage
    <2> QED  BY <2>1, <2>2
<1>3. CASE PatchWrite(h)
    <2>1. amfList' \in Seq(AmfRecords)
        <3>1. CASE UNCHANGED amfList
            BY <3>1 DEF TypeOK
        <3>2. CASE amfList # <<>> /\ ~UNCHANGED amfList
            <4>1. 1 \in DOMAIN amfList
                BY <3>2, EmptySeq, LenProperties DEF TypeOK
            <4>2. PICK d \in SUBSET Items : amfList' = [amfList EXCEPT ![1].data = d]
                BY <1>3, <3>2, <4>1, FoundData DEF PatchWrite, WrittenRecord, TypeOK
            <4> QED  BY <4>1, <4>2, WriteRecord DEF TypeOK
        <3> QED  BY <1>3, <3>1, <3>2 DEF PatchWrite
    <2>2. TypeOK'
        BY <1>3, <2>1 DEF PatchWrite, PutsRespondingOf, HandlersAt, TypeOK
    <2>3. Stage'
        BY <1>3 DEF PatchWrite, TypeOK, Stage
    <2> QED  BY <2>2, <2>3
<1>4. CASE PatchRespond(h)
    <2>1. TypeOK'
        BY <1>4, FoundData DEF PatchRespond, TypeOK
    <2>2. Stage'
        BY <1>4 DEF PatchRespond, TypeOK, Stage
    <2> QED  BY <2>1, <2>2
<1> QED  BY <1>1, <1>2, <1>3, <1>4 DEF Patch

LEMMA BaseDelete == ASSUME Base, NEW h \in Handlers, DeleteRecord(h) PROVE Base'
<1> DEFINE i == FirstRecord(request[h].nfId)
<1>1. i = 0 \/ i \in DOMAIN amfList
    BY FirstRecordFound, LenProperties DEF Base, TypeOK
<1>2. amfList' \in Seq(AmfRecords)
    BY <1>1, RemoveRecord DEF Base, TypeOK, DeleteRecord, Without
<1> HIDE DEF i
<1>3. \E a \in {"ok", "missing"} : Answer(h, a)
    BY DEF DeleteRecord
<1>4. TypeOK'
    BY <1>2, <1>3 DEF DeleteRecord, PatchesOf, PutsRespondingOf, HandlersAt, Answer,
                      Goto, Base, TypeOK
<1>5. Stage'
    BY <1>3 DEF DeleteRecord, Answer, Goto, Base, TypeOK, Stage
<1> QED  BY <1>4, <1>5 DEF Base

LEMMA BaseStep == ASSUME Base, [Next]_vars PROVE Base'
<1>1. CASE UNCHANGED vars
    BY <1>1 DEF vars, store, outcome, history, Base, TypeOK, Stage
<1> QED  BY <1>1, BaseArrival, BasePut, BasePatch, BaseDelete DEF Next

LEMMA BaseInvariant == Spec => []Base
<1> QED  BY BaseInit, BaseStep, PTL DEF Spec

\* The list of AMFs keeps its shape, and every request its, however handlers
\* interleave.
THEOREM TypesKept == Spec => []TypeOK
<1>1. Base => TypeOK
    BY DEF Base
<1> QED  BY <1>1, BaseInvariant, PTL

-----------------------------------------------------------------------------
(* What a lookup finds before and after the list is written.  Only the     *)
(* record written or removed is looked up differently: two records of one  *)
(* AMF are not excluded here.                                              *)

Data(s, n) == IF First(s, n) = 0 THEN {} ELSE s[First(s, n)].data

LEMMA FirstIs ==
    ASSUME NEW s \in Seq(AmfRecords), NEW n, NEW i \in DOMAIN s, s[i].nfId = n,
           \A j \in DOMAIN s : s[j].nfId = n => i <= j
    PROVE  First(s, n) = i
<1>1. DOMAIN s \subseteq Nat /\ 0 \notin DOMAIN s
    BY LenProperties
<1>2. First(s, n) # 0 /\ First(s, n) \in DOMAIN s
    BY FirstFound
<1>3. First(s, n) <= i /\ i <= First(s, n)
    BY <1>2, FirstFound
<1> QED  BY <1>1, <1>2, <1>3

\* The same list of AMFs is looked up in the same places.
LEMMA FirstSame ==
    ASSUME NEW s \in Seq(AmfRecords), NEW t \in Seq(AmfRecords), NEW n,
           DOMAIN t = DOMAIN s, \A j \in DOMAIN s : t[j].nfId = s[j].nfId
    PROVE  First(t, n) = First(s, n)
<1>1. CASE First(s, n) = 0
    <2>1. ~\E i \in DOMAIN s : s[i].nfId = n
        BY <1>1, FirstFound
    <2>2. ~\E i \in DOMAIN t : t[i].nfId = n
        BY <2>1
    <2> QED  BY <1>1, <2>2, FirstFound
<1>2. CASE First(s, n) # 0
    <2> DEFINE i == First(s, n)
    <2>1. i \in DOMAIN s /\ s[i].nfId = n /\ \A j \in DOMAIN s : s[j].nfId = n => i <= j
        BY <1>2, FirstFound
    <2> HIDE DEF i
    <2>2. First(t, n) = i
        BY <2>1, FirstIs
    <2> QED  BY <2>2 DEF i
<1> QED  BY <1>1, <1>2

LEMMA LookedUp ==
    ASSUME TypeOK, NEW n \in NfIds
    PROVE  /\ FirstRecord(n) \in {0} \cup DOMAIN amfList
           /\ FirstRecord(n) # 0 <=> n \in Registered
           /\ FirstRecord(n) # 0 => /\ amfList[FirstRecord(n)].nfId = n
                                    /\ Shown[n] = amfList[FirstRecord(n)].data
           /\ Shown[n] = DataNow(n)
<1>1. FirstRecord(n) = First(amfList, n)
    BY DEF FirstRecord, First
<1>2. amfList \in Seq(AmfRecords)
    BY DEF TypeOK
<1>3. FirstRecord(n) # 0 <=> n \in Registered
    BY <1>1, <1>2, FirstFound DEF Registered
<1> QED  BY <1>1, <1>2, <1>3, FirstFound DEF Shown, DataNow

LEMMA ShownIs ==
    ASSUME NEW n \in NfIds
    PROVE  Shown[n] = Data(amfList, n) /\ Shown'[n] = Data(amfList', n)
<1>1. FirstRecord(n) = First(amfList, n) /\ FirstRecord(n)' = First(amfList', n)
    BY DEF First, FirstRecord, SelectInSeq
<1>2. Shown[n] = DataNow(n) /\ Shown'[n] = DataNow(n)'
    BY DEF Shown
<1> QED  BY <1>1, <1>2 DEF DataNow, Data

LEMMA AfterWrite ==
    ASSUME TypeOK, NEW i \in DOMAIN amfList, NEW d \in SUBSET Items,
           amfList' = [amfList EXCEPT ![i].data = d]
    PROVE  /\ Registered' = Registered
           /\ UniqueNfIds /\ doubled \subseteq doubled' => UniqueNfIds'
           /\ \A n \in NfIds :
                 Shown'[n] = IF FirstRecord(n) = i THEN d ELSE Shown[n]
<1>1. /\ amfList' \in Seq(AmfRecords)
      /\ DOMAIN amfList' = DOMAIN amfList
      /\ \A j \in DOMAIN amfList :
            /\ amfList'[j].nfId = amfList[j].nfId
            /\ amfList'[j].data = IF j = i THEN d ELSE amfList[j].data
    BY WriteRecord DEF TypeOK
<1>2. Registered' = Registered
    BY <1>1 DEF Registered
<1>3. UniqueNfIds /\ doubled \subseteq doubled' => UniqueNfIds'
    BY <1>1 DEF UniqueNfIds
<1>4. ASSUME NEW n \in NfIds
      PROVE  Shown'[n] = IF FirstRecord(n) = i THEN d ELSE Shown[n]
    <2>1. First(amfList', n) = First(amfList, n)
        BY <1>1, FirstSame DEF TypeOK
    <2>2. First(amfList, n) \in {0} \cup DOMAIN amfList
        BY FirstFound DEF TypeOK
    <2>3. 0 \notin DOMAIN amfList
        BY LenProperties DEF TypeOK
    <2>4. FirstRecord(n) = First(amfList, n)
        BY DEF FirstRecord, First
    <2> QED  BY <1>1, <2>1, <2>2, <2>3, <2>4, ShownIs DEF Data
<1> QED  BY <1>2, <1>3, <1>4

LEMMA AfterAppend ==
    ASSUME TypeOK, NEW n \in NfIds, NEW d \in SUBSET Items,
           amfList' = Append(amfList, [nfId |-> n, data |-> d])
    PROVE  /\ Registered' = Registered \cup {n}
           /\ UniqueNfIds /\ (n \notin Registered \/ n \in doubled) /\ UNCHANGED doubled
                 => UniqueNfIds'
           /\ \A m \in NfIds :
                 Shown'[m] = IF m = n /\ n \notin Registered THEN d ELSE Shown[m]
<1> DEFINE r == [nfId |-> n, data |-> d]
           new == Len(amfList) + 1
<1>1. r \in AmfRecords
    BY DEF AmfRecords
<1>2. /\ amfList' \in Seq(AmfRecords)
      /\ DOMAIN amfList' = DOMAIN amfList \cup {new}
      /\ new \notin DOMAIN amfList
      /\ \A j \in DOMAIN amfList : amfList'[j] = amfList[j]
      /\ amfList'[new].nfId = n /\ amfList'[new].data = d
    BY <1>1, AppendRecord DEF TypeOK
<1>3. new \in Nat \ {0} /\ \A j \in DOMAIN amfList : j <= new
    BY LenProperties DEF TypeOK
<1> HIDE DEF new
<1>4. Registered' = Registered \cup {n}
    BY <1>2 DEF Registered
<1>5. UniqueNfIds /\ (n \notin Registered \/ n \in doubled) /\ UNCHANGED doubled
         => UniqueNfIds'
    BY <1>2 DEF UniqueNfIds, Registered
<1>6. ASSUME NEW m \in NfIds
      PROVE  Shown'[m] = IF m = n /\ n \notin Registered THEN d ELSE Shown[m]
    <2> DEFINE i == First(amfList, m)
    <2>1. /\ i \in {0} \cup DOMAIN amfList
          /\ i = 0 <=> ~\E j \in DOMAIN amfList : amfList[j].nfId = m
          /\ i # 0 => /\ amfList[i].nfId = m
                      /\ \A j \in DOMAIN amfList : amfList[j].nfId = m => i <= j
        BY FirstFound DEF TypeOK
    <2>2. 0 \notin DOMAIN amfList
        BY LenProperties DEF TypeOK
    <2>3. i = 0 <=> m \notin Registered
        BY <2>1 DEF Registered
    <2>4. Shown[m] = IF i = 0 THEN {} ELSE amfList[i].data
        BY ShownIs DEF Data
    <2> HIDE DEF i
    <2>5. CASE i # 0
        <3>1. i \in DOMAIN amfList' /\ amfList'[i].nfId = m
            BY <1>2, <2>1, <2>5
        <3>2. \A j \in DOMAIN amfList' : amfList'[j].nfId = m => i <= j
            BY <1>2, <1>3, <2>1, <2>5
        <3>3. First(amfList', m) = i
            BY <1>2, <3>1, <3>2, FirstIs
        <3>4. Shown'[m] = amfList'[i].data
            BY <2>5, <3>3, ShownIs DEF Data
        <3> QED  BY <1>2, <2>1, <2>3, <2>4, <2>5, <3>4
    <2>6. CASE i = 0 /\ m = n
        <3>1. \A j \in DOMAIN amfList' : amfList'[j].nfId = m => j = new
            BY <1>2, <2>1, <2>6
        <3>2. First(amfList', m) = new
            <4>1. new \in DOMAIN amfList' /\ amfList'[new].nfId = m
                BY <1>2, <2>6
            <4>2. \A j \in DOMAIN amfList' : amfList'[j].nfId = m => new <= j
                BY <1>3, <3>1
            <4> QED  BY <1>2, <4>1, <4>2, FirstIs
        <3>3. Shown'[m] = amfList'[new].data
            BY <1>3, <3>2, ShownIs DEF Data
        <3> QED  BY <1>2, <2>3, <2>6, <3>3
    <2>7. CASE i = 0 /\ m # n
        <3>1. ~\E j \in DOMAIN amfList' : amfList'[j].nfId = m
            BY <1>2, <2>1, <2>7
        <3>2. First(amfList', m) = 0
            BY <1>2, <3>1, FirstOfNone
        <3>3. Shown'[m] = {}
            BY <3>2, ShownIs DEF Data
        <3> QED  BY <2>4, <2>7, <3>3
    <2> QED  BY <2>5, <2>6, <2>7
<1> QED  BY <1>4, <1>5, <1>6

\* Every place but the removed one is where an element of the shorter list was.
LEMMA LenAfterRemove ==
    ASSUME TypeOK, NEW i \in DOMAIN amfList, amfList' = RemoveAt(amfList, i)
    PROVE  \A k \in DOMAIN amfList \ {i} :
              (IF k < i THEN k ELSE k - 1) \in DOMAIN amfList'
<1>1. DOMAIN amfList = 1 .. Len(amfList) /\ Len(amfList) \in Nat
    BY LenProperties DEF TypeOK
<1>2. i \in 1 .. Len(amfList) /\ amfList \in Seq(AmfRecords)
    BY <1>1 DEF TypeOK
<1> HIDE AvailabilityAssumption
<1>3. amfList' \in Seq(AmfRecords) /\ Len(amfList') = Len(amfList) - 1
    BY <1>2, RemoveAtProperties
<1>4. DOMAIN amfList' = 1 .. Len(amfList) - 1
    BY <1>3, LenProperties
<1> QED  BY <1>1, <1>2, <1>4

LEMMA AfterRemove ==
    ASSUME TypeOK, NEW i \in DOMAIN amfList, amfList' = RemoveAt(amfList, i)
    PROVE  /\ Registered' \in {Registered, Registered \ {amfList[i].nfId}}
           /\ UniqueNfIds /\ UNCHANGED doubled =>
                 /\ UniqueNfIds'
                 /\ amfList[i].nfId \notin doubled =>
                       Registered' = Registered \ {amfList[i].nfId}
           /\ \A n \in NfIds : n # amfList[i].nfId => Shown'[n] = Shown[n]
<1> DEFINE Was(j) == IF j < i THEN j ELSE j + 1
           k == amfList[i].nfId
<1>1. /\ \A j \in DOMAIN amfList' :
            Was(j) \in DOMAIN amfList \ {i} /\ amfList'[j] = amfList[Was(j)]
      /\ \A m \in DOMAIN amfList \ {i} :
            \E j \in DOMAIN amfList' : amfList'[j] = amfList[m]
      /\ amfList' \in Seq(AmfRecords)
    BY RemoveRecord DEF TypeOK
<1>2. DOMAIN amfList' \subseteq Nat \ {0} /\ i \in Nat /\ DOMAIN amfList \subseteq Nat \ {0}
    BY <1>1, LenProperties DEF TypeOK
<1>3. \A j, m \in DOMAIN amfList' : (Was(j) = Was(m) => j = m) /\ (Was(j) <= Was(m) => j <= m)
    BY <1>2
<1>4. \A j \in DOMAIN amfList' : Was(j) \in Nat
    BY <1>2
<1> HIDE DEF Was
<1>5. \A n : n # k => (n \in Registered' <=> n \in Registered)
    BY <1>1 DEF Registered
<1>6. k \in Registered
    BY DEF Registered
<1>7. Registered' \in {Registered, Registered \ {k}}
    <2>1. CASE k \in Registered'
        <3>1. \A n : n \in Registered' <=> n \in Registered
            BY <1>5, <1>6, <2>1
        <3> QED  BY <3>1
    <2>2. CASE k \notin Registered'
        <3>1. Registered' = Registered \ {k}
            BY <1>5, <1>6, <2>2
        <3> QED  BY <3>1
    <2> QED  BY <2>1, <2>2
<1>8. ASSUME UniqueNfIds, UNCHANGED doubled
      PROVE  UniqueNfIds' /\ (k \notin doubled => Registered' = Registered \ {k})
    <2>1. UniqueNfIds'
        BY <1>1, <1>3, <1>8 DEF UniqueNfIds
    <2>2. ASSUME k \notin doubled PROVE k \notin Registered'
        <3>1. \A j \in DOMAIN amfList \ {i} : amfList[j].nfId # k
            BY <1>8, <2>2 DEF UniqueNfIds
        <3> QED  BY <1>1, <3>1 DEF Registered
    <2> QED  BY <1>5, <2>1, <2>2
<1>9. ASSUME NEW n \in NfIds, n # k
      PROVE  Shown'[n] = Shown[n]
    <2> DEFINE f == First(amfList, n)
    <2>1. /\ f \in {0} \cup DOMAIN amfList
          /\ f = 0 <=> ~\E j \in DOMAIN amfList : amfList[j].nfId = n
          /\ f # 0 => /\ amfList[f].nfId = n
                      /\ \A j \in DOMAIN amfList : amfList[j].nfId = n => f <= j
        BY FirstFound DEF TypeOK
    <2>2. Shown[n] = IF f = 0 THEN {} ELSE amfList[f].data
        BY ShownIs DEF Data
    <2> HIDE DEF f
    <2>3. CASE f = 0
        <3>1. ~\E j \in DOMAIN amfList' : amfList'[j].nfId = n
            BY <1>1, <2>1, <2>3
        <3>2. amfList' \in Seq(AmfRecords)
            BY <1>1
        <3>3. First(amfList', n) = 0
            BY <3>1, <3>2, FirstFound
        <3> QED  BY <2>2, <2>3, <3>3, ShownIs DEF Data
    <2>4. CASE f # 0
        <3> DEFINE g == First(amfList', n)
        <3>1. f \in DOMAIN amfList \ {i}
            BY <1>9, <2>1, <2>4
        <3>2. PICK h \in DOMAIN amfList' : amfList'[h] = amfList[f]
            BY <1>1, <3>1
        <3>3. /\ g \in {0} \cup DOMAIN amfList'
              /\ g # 0
              /\ amfList'[g].nfId = n
              /\ \A j \in DOMAIN amfList' : amfList'[j].nfId = n => g <= j
            <4>1. amfList' \in Seq(AmfRecords)
                BY <1>1
            <4>2. \E j \in DOMAIN amfList' : amfList'[j].nfId = n
                BY <2>1, <2>4, <3>2
            <4> QED  BY <4>1, <4>2, FirstFound
        <3>4. Shown'[n] = amfList'[g].data
            BY <3>3, ShownIs DEF Data
        <3> HIDE DEF g
        <3>5. Was(g) = f
            <4>1. g \in DOMAIN amfList' /\ Was(g) \in DOMAIN amfList \ {i}
                  /\ amfList'[g] = amfList[Was(g)]
                BY <1>1, <3>3
            <4>2. f <= Was(g)
                BY <2>1, <2>4, <3>3, <4>1
            <4>3. PICK e \in DOMAIN amfList' : Was(e) = f
                <5>1. CASE f < i
                    <6>1. f \in DOMAIN amfList' /\ Was(f) = f
                        BY <5>1, <3>1, LenAfterRemove DEF Was
                    <6> QED  BY <6>1
                <5>2. CASE ~(f < i)
                    <6>1. f - 1 \in DOMAIN amfList' /\ Was(f - 1) = f
                        BY <5>2, <3>1, <1>2, LenAfterRemove DEF Was
                    <6> QED  BY <6>1
                <5> QED  BY <5>1, <5>2
            <4>4. amfList'[e].nfId = n
                BY <1>1, <2>1, <2>4, <4>3
            <4>5. g <= e
                BY <3>3, <4>4
            <4>6. Was(g) <= Was(e)
                BY <4>1, <4>5, <1>2 DEF Was
            <4>7. Was(g) \in Nat /\ f \in Nat
                BY <3>1, <4>1, <1>2
            <4>8. Was(g) <= f
                BY <4>3, <4>6
            <4> QED  BY ONLY <4>2, <4>7, <4>8
        <3> QED  BY <1>1, <2>2, <2>4, <3>3, <3>4, <3>5
    <2> QED  BY <2>3, <2>4
<1> QED  BY <1>7, <1>8, <1>9

-----------------------------------------------------------------------------
(* The invariant relates each handler to what the list holds of the AMF    *)
(* its request names.  Requests for other AMFs cannot disturb it, but for  *)
(* the PATCH that writes the first record; requests for the same AMF can,  *)
(* and doubled, orphaned and overwritten say when they did.                *)

\* Outside doubled, one handler at most is about to append a record for an AMF.
AppendAlone ==
    \A g, h \in Handlers :
        /\ pc[g] = "append" /\ pc[h] = "append"
        /\ request[g].nfId = request[h].nfId /\ request[h].nfId \notin doubled
        => g = h

Handling(h) ==
    /\ pc[h] \notin {"respond", "answered"} => response[h] = {}
    /\ pc[h] = "append" =>
          request[h].nfId \notin Registered \/ request[h].nfId \in doubled
    /\ pc[h] \in {"apply", "write"} => request[h].nfId \in Registered \/ h \in orphaned
    /\ pc[h] = "panicked" => h \in orphaned
    /\ (h \notin overwritten /\ request[h].kind = "put") =>
          /\ pc[h] = "respond" =>
                /\ request[h].nfId \in Registered
                /\ Shown[request[h].nfId] = body[h].add
                /\ response[h] \cup unvisited[h] = body[h].add
          /\ (pc[h] = "answered" /\ answer[h] = "ok") => response[h] = body[h].add

StoreInv ==
    /\ UniqueNfIds
    /\ LockNeverLeaks
    /\ AppendAlone
    /\ \A h \in Handlers : Handling(h)

\* A step of one handler leaves the others what they have ...
OthersUntouched(h) ==
    \A g \in Handlers \ {h} :
        /\ pc'[g] = pc[g] /\ request'[g] = request[g] /\ body'[g] = body[g]
        /\ unvisited'[g] = unvisited[g] /\ answer'[g] = answer[g]
        /\ response'[g] = response[g]
        /\ g \in overwritten => g \in overwritten'
        /\ g \in orphaned => g \in orphaned'

\* ... and in the list what they rely on, or counts them as disturbed.
Undisturbed(g) ==
    /\ pc[g] = "append" /\ request[g].nfId \in Registered' =>
          request[g].nfId \in Registered \/ request[g].nfId \in doubled'
    /\ pc[g] \in {"apply", "write"} /\ request[g].nfId \in Registered =>
          request[g].nfId \in Registered' \/ g \in orphaned'
    /\ /\ pc[g] = "respond" /\ request[g].kind = "put"
       /\ g \notin overwritten' /\ request[g].nfId \in Registered
       => /\ request[g].nfId \in Registered'
          /\ Shown'[request[g].nfId] = Shown[request[g].nfId]

LEMMA OthersKept ==
    ASSUME NEW h \in Handlers, OthersUntouched(h), doubled \subseteq doubled',
           NEW g \in Handlers \ {h}, Handling(g), Undisturbed(g)
    PROVE  Handling(g)'
<1>1. /\ pc'[g] = pc[g] /\ request'[g] = request[g] /\ body'[g] = body[g]
      /\ unvisited'[g] = unvisited[g] /\ answer'[g] = answer[g]
      /\ response'[g] = response[g]
      /\ g \in overwritten => g \in overwritten'
      /\ g \in orphaned => g \in orphaned'
    BY DEF OthersUntouched
<1> QED  BY <1>1 DEF Handling, Undisturbed

LEMMA AppendAloneStays ==
    ASSUME AppendAlone, doubled \subseteq doubled',
           \A g \in Handlers : pc'[g] = "append" =>
                pc[g] = "append" /\ request'[g] = request[g]
    PROVE  AppendAlone'
    BY DEF AppendAlone

LEMMA LeakStays ==
    ASSUME TypeOK, LockNeverLeaks, UNCHANGED lockLeaked,
           \A g \in Handlers : pc[g] = "panicked" =>
                pc'[g] = "panicked" /\ (g \in orphaned => g \in orphaned')
    PROVE  LockNeverLeaks'
<1> SUFFICES ASSUME lockLeaked' PROVE \E g \in orphaned' : pc'[g] = "panicked"
    BY DEF LockNeverLeaks
<1>1. PICK g \in orphaned : pc[g] = "panicked"
    BY DEF LockNeverLeaks
<1> QED  BY <1>1 DEF TypeOK

\* Most steps leave the list alone.
LEMMA ListStays ==
    ASSUME StoreInv, UNCHANGED amfList, doubled \subseteq doubled'
    PROVE  /\ UniqueNfIds' /\ Registered' = Registered /\ Shown' = Shown
           /\ \A g \in Handlers : Undisturbed(g)
<1>1. Registered' = Registered
    BY DEF Registered
<1>2. Shown' = Shown
    <2>1. \A n \in NfIds : Shown'[n] = Shown[n]
        BY ShownIs
    <2>2. Shown = [n \in NfIds |-> Shown[n]] /\ Shown' = [n \in NfIds |-> Shown'[n]]
        BY DEF Shown
    <2> QED  BY <2>1, <2>2
<1>3. UniqueNfIds'
    BY DEF StoreInv, UniqueNfIds
<1> QED  BY <1>1, <1>2, <1>3 DEF Undisturbed

\* A request is known by its kind and its AMF.
LEMMA RequestIs ==
    ASSUME TypeOK, NEW g \in Handlers, request[g].kind # "none"
    PROVE  request[g] = [kind |-> request[g].kind, nfId |-> request[g].nfId]
    BY DEF TypeOK, Requests, NoRequest

LEMMA StoreInit == Init => StoreInv
<1> SUFFICES ASSUME Init PROVE StoreInv
    OBVIOUS
<1>1. UniqueNfIds
    <2>1. \A i \in DOMAIN amfList : amfList[i].nfId \in NfIds
        <3>1. \A i \in DOMAIN InitialAmfList : InitialAmfList[i] \in AmfRecords
            BY LenProperties, ElementOfSeq
        <3> QED  BY <3>1 DEF Init, AmfRecords
    <2> QED  BY <2>1 DEF Init, UniqueNfIds
<1> QED  BY <1>1 DEF Init, StoreInv, AppendAlone, LockNeverLeaks, Handling

LEMMA StoreArrival ==
    ASSUME Base, StoreInv, NEW h \in Handlers, Arrives(h) \/ Decode(h) \/ Return(h)
    PROVE  StoreInv'
<1> USE DEF outcome, history, Goto, Answer
<1>1. /\ UNCHANGED <<store, doubled>> /\ pc[h] \in {"idle", "decode", "answered"}
      /\ pc'[h] # "append"
    BY DEF Arrives, Arrive, Decode, DecodePut, DecodePatch, DecodeFails, Return,
           Base, TypeOK
<1>2. OthersUntouched(h)
    BY DEF Arrives, Arrive, Decode, DecodePut, DecodePatch, DecodeFails, Return,
           OthersUntouched, Base, TypeOK
<1>3. /\ UniqueNfIds' /\ Registered' = Registered
      /\ \A g \in Handlers : Undisturbed(g)
    BY <1>1, ListStays DEF store
<1>4. LockNeverLeaks'
    BY <1>1, <1>2, LeakStays DEF Base, store, StoreInv, OthersUntouched
<1>5. AppendAlone'
    BY <1>1, <1>2, AppendAloneStays DEF StoreInv, OthersUntouched
<1>6. Handling(h)'
    <2>1. Handling(h)
        BY DEF StoreInv
    <2>2. CASE Decode(h)
        BY <2>1, <2>2 DEF Decode, DecodePut, DecodePatch, DecodeFails, Handling,
                          Base, TypeOK
    <2>3. CASE Return(h)
        BY <2>3 DEF Return, Handling, NoRequest, Base, TypeOK
    <2>4. CASE Arrives(h)
        BY <2>1, <2>4 DEF Arrives, Arrive, Handling, Base, TypeOK
    <2> QED  BY <2>2, <2>3, <2>4
<1> QED  BY <1>1, <1>2, <1>3, <1>4, <1>5, <1>6, OthersKept DEF StoreInv

\* What each critical section of a PUT does to the others, in terms of the list.
LEMMA StorePutUpdate ==
    ASSUME Base, StoreInv, NEW h \in Handlers, PutUpdate(h)
    PROVE  StoreInv'
<1> DEFINE n == request[h].nfId
           i == FirstRecord(n)
<1> USE DEF outcome, Goto, Answer, Respond, RespondToPut
<1>1. /\ pc[h] = "update" /\ request[h].kind = "put" /\ n \in NfIds
      /\ body[h].add \in SUBSET Items
      /\ UNCHANGED <<lockLeaked, request, body, response, orphaned>>
      /\ Handling(h) /\ doubled \subseteq doubled'
    BY NamedAmf DEF PutUpdate, Base, TypeOK, Stage, StoreInv
<1>2. OthersUntouched(h)
    BY DEF PutUpdate, OthersUntouched, Base, TypeOK
<1>3. LockNeverLeaks'
    BY <1>1, <1>2, LeakStays DEF Base, StoreInv, OthersUntouched
<1>4. /\ i \in {0} \cup DOMAIN amfList
      /\ i # 0 <=> n \in Registered
      /\ i # 0 => amfList[i].nfId = n
    BY <1>1, LookedUp DEF Base
<1>5. CASE i = 0
    <2>1. /\ UNCHANGED <<amfList, overwritten>> /\ pc' = [pc EXCEPT ![h] = "append"]
          /\ doubled' = doubled \cup {m \in {n} : HandlersAt("append", "put", m) # {}}
        BY <1>5 DEF PutUpdate
    <2>2. /\ UniqueNfIds' /\ Registered' = Registered
          /\ \A g \in Handlers : Undisturbed(g)
        BY <1>1, <2>1, ListStays
    <2>3. Handling(h)'
        BY <1>1, <1>4, <1>5, <2>1, <2>2 DEF Handling, Base, TypeOK
    <2>4. ASSUME NEW g \in Handlers \ {h}, pc[g] = "append", request[g].nfId = n
          PROVE  n \in doubled'
        <3>1. request[g].kind = "put"
            BY <2>4 DEF Base, Stage
        <3>2. g \in HandlersAt("append", "put", n)
            BY <2>4, <3>1, RequestIs DEF HandlersAt, Base
        <3> QED  BY <2>1, <3>2
    <2>5. AppendAlone'
        <3> SUFFICES ASSUME NEW f \in Handlers, NEW g \in Handlers,
                            pc'[f] = "append", pc'[g] = "append",
                            request'[f].nfId = request'[g].nfId,
                            request'[g].nfId \notin doubled', f # g
                     PROVE  FALSE
            BY DEF AppendAlone
        <3>1. CASE f # h /\ g # h
            BY <1>1, <1>2, <3>1 DEF OthersUntouched, StoreInv, AppendAlone
        <3>2. CASE f = h
            BY <1>1, <1>2, <2>4, <3>2 DEF OthersUntouched
        <3>3. CASE g = h
            BY <1>1, <1>2, <2>4, <3>3 DEF OthersUntouched
        <3> QED  BY <3>1, <3>2, <3>3
    <2> QED  BY <1>1, <1>2, <1>3, <2>2, <2>3, <2>5, OthersKept DEF StoreInv
<1>6. CASE i # 0
    <2>1. /\ amfList' = [amfList EXCEPT ![i].data = body[h].add]
          /\ pc' = [pc EXCEPT ![h] = "respond"] /\ answer' = [answer EXCEPT ![h] = "ok"]
          /\ unvisited' = [unvisited EXCEPT ![h] = body[h].add]
          /\ overwritten' = overwritten \cup PutsRespondingOf(n) /\ UNCHANGED doubled
        BY <1>6 DEF PutUpdate
    <2>2. i \in DOMAIN amfList /\ amfList[i].nfId = n
        BY <1>4, <1>6
    <2> HIDE DEF i
    <2>3. /\ Registered' = Registered
          /\ UniqueNfIds'
          /\ \A m \in NfIds :
                Shown'[m] = IF FirstRecord(m) = i THEN body[h].add ELSE Shown[m]
        BY <1>1, <2>1, <2>2, AfterWrite DEF Base, StoreInv
    <2>4. AppendAlone'
        BY <1>1, <1>2, <2>1, AppendAloneStays DEF StoreInv, OthersUntouched, Base, TypeOK
    <2>5. Handling(h)'
        <3>1. Shown'[n] = body[h].add
            BY <1>1, <2>3 DEF i
        <3>2. pc'[h] = "respond" /\ unvisited'[h] = body[h].add /\ response[h] = {}
            BY <1>1, <2>1 DEF Handling, Base, TypeOK
        <3> QED  BY <1>1, <1>4, <1>6, <2>3, <3>1, <3>2 DEF Handling
    <2>6. ASSUME NEW g \in Handlers \ {h} PROVE Undisturbed(g)
        <3>1. pc[g] = "respond" /\ request[g].kind = "put" /\ request[g].nfId = n
                => g \in overwritten'
            BY <2>1, RequestIs DEF PutsRespondingOf, HandlersAt, Base
        <3>2. request[g].kind = "put" /\ request[g].nfId # n
                => Shown'[request[g].nfId] = Shown[request[g].nfId]
            <4> HAVE request[g].kind = "put" /\ request[g].nfId # n
            <4>1. request[g].nfId \in NfIds
                BY NamedAmf DEF Base
            <4>2. i # 0 /\ amfList[i].nfId # request[g].nfId
                BY <1>6, <2>2
            <4>3. FirstRecord(request[g].nfId) # i
                BY <4>1, <4>2, LookedUp DEF Base
            <4> QED  BY <2>3, <4>1, <4>3
        <3> QED  BY <2>3, <3>1, <3>2 DEF Undisturbed
    <2> QED  BY <1>1, <1>2, <1>3, <2>3, <2>4, <2>5, <2>6, OthersKept DEF StoreInv
<1> QED  BY <1>5, <1>6

LEMMA StorePutAppend ==
    ASSUME Base, StoreInv, NEW h \in Handlers, PutAppend(h)
    PROVE  StoreInv'
<1> DEFINE n == request[h].nfId
<1> USE DEF outcome, Goto, Answer, Respond, RespondToPut
<1>1. /\ pc[h] = "append" /\ request[h].kind = "put" /\ n \in NfIds
      /\ body[h].add \in SUBSET Items
      /\ UNCHANGED <<lockLeaked, request, body, response, doubled, orphaned>>
      /\ Handling(h)
      /\ amfList' = Append(amfList, [nfId |-> n, data |-> body[h].add])
      /\ pc' = [pc EXCEPT ![h] = "respond"]
      /\ unvisited' = [unvisited EXCEPT ![h] = body[h].add]
      /\ overwritten' = overwritten \cup {g \in {h} : FirstRecord(n) # 0}
    BY NamedAmf DEF PutAppend, Base, TypeOK, Stage, StoreInv
<1>2. OthersUntouched(h)
    BY DEF PutAppend, OthersUntouched, Base, TypeOK
<1>3. LockNeverLeaks'
    BY <1>1, <1>2, LeakStays DEF Base, StoreInv, OthersUntouched
<1>4. n \notin Registered \/ n \in doubled
    BY <1>1 DEF Handling
<1>5. /\ Registered' = Registered \cup {n}
      /\ UniqueNfIds'
      /\ \A m \in NfIds :
            Shown'[m] = IF m = n /\ n \notin Registered THEN body[h].add ELSE Shown[m]
    BY <1>1, <1>4, AfterAppend DEF Base, StoreInv
<1>6. AppendAlone'
    BY <1>1, <1>2, AppendAloneStays DEF StoreInv, OthersUntouched, Base, TypeOK
<1>7. Handling(h)'
    <2>1. h \notin overwritten' => n \notin Registered
        BY <1>1, LookedUp DEF Base
    <2>2. pc'[h] = "respond" /\ unvisited'[h] = body[h].add /\ response[h] = {}
        BY <1>1 DEF Handling, Base, TypeOK
    <2> QED  BY <1>1, <1>5, <2>1, <2>2 DEF Handling
<1>8. ASSUME NEW g \in Handlers \ {h} PROVE Undisturbed(g)
    <2>1. pc[g] = "append" /\ request[g].nfId = n => n \in doubled
        BY <1>1 DEF StoreInv, AppendAlone
    <2>2. request[g].kind = "put" => request[g].nfId \in NfIds
        BY NamedAmf DEF Base
    <2> QED  BY <1>1, <1>5, <2>1, <2>2 DEF Undisturbed
<1> QED  BY <1>1, <1>2, <1>3, <1>5, <1>6, <1>7, <1>8, OthersKept DEF StoreInv

LEMMA StorePut ==
    ASSUME Base, StoreInv, NEW h \in Handlers, Put(h)
    PROVE  StoreInv'
<1> DEFINE n == request[h].nfId
<1>1. CASE PutCheck(h) \/ PutRespond(h)
    <2> USE DEF outcome, history, Goto, Answer
    <2>1. /\ UNCHANGED <<store, request, body, history>> /\ request[h].kind = "put"
          /\ pc[h] \in {"check", "respond"}
          /\ pc'[h] \notin {"append", "apply", "write", "panicked"}
          /\ n \in NfIds /\ OthersUntouched(h) /\ Handling(h)
        BY <1>1, NamedAmf DEF PutCheck, PutRespond, OthersUntouched, Base, TypeOK,
                              Stage, StoreInv
    <2>2. /\ UniqueNfIds' /\ Registered' = Registered /\ Shown' = Shown
          /\ \A g \in Handlers : Undisturbed(g)
        BY <2>1, ListStays DEF store
    <2>3. LockNeverLeaks'
        BY <2>1, LeakStays DEF Base, store, StoreInv, OthersUntouched
    <2>4. AppendAlone'
        BY <2>1, AppendAloneStays DEF StoreInv, OthersUntouched
    <2>5. Handling(h)'
        <3>1. CASE PutCheck(h)
            BY <2>1, <3>1 DEF PutCheck, Handling, Base, TypeOK
        <3>2. CASE PutRespond(h)
            <4>1. pc[h] = "respond" /\ answer' = answer
                BY <3>2 DEF PutRespond
            <4>2. DataNow(n) = Shown[n]
                BY <2>1, LookedUp DEF Base
            <4>3. CASE unvisited[h] = {} /\ pc'[h] = "answered" /\ UNCHANGED response
                BY <2>1, <2>2, <4>1, <4>3 DEF Handling
            <4>4. ASSUME NEW i \in unvisited[h],
                         unvisited'[h] = unvisited[h] \ {i},
                         response'[h] = response[h] \cup ({i} \cap DataNow(n)),
                         UNCHANGED pc
                  PROVE  Handling(h)'
                BY <2>1, <2>2, <4>1, <4>2, <4>4 DEF Handling
            <4> QED  BY <3>2, <4>3, <4>4 DEF PutRespond, Base, TypeOK
        <3> QED  BY <1>1, <3>1, <3>2
    <2> QED  BY <2>1, <2>2, <2>3, <2>4, <2>5, OthersKept DEF StoreInv
<1> QED  BY <1>1, StorePutUpdate, StorePutAppend DEF Put

\* The first record is written whosever it is: it stays a record, and the PUTs
\* that answer from it are those overwritten counts.
LEMMA StoreWrite ==
    ASSUME Base, StoreInv, NEW h \in Handlers, PatchWrite(h)
    PROVE  StoreInv'
<1> USE DEF outcome, Goto, Answer, Respond, WrittenRecord
<1>1. /\ pc[h] = "write" /\ request[h].kind = "patch" /\ request[h].nfId \in NfIds
      /\ Handling(h)
      /\ UNCHANGED <<request, body, unvisited, response, doubled, orphaned>>
    BY NamedAmf DEF PatchWrite, Base, Stage, StoreInv
<1>2. OthersUntouched(h) /\ pc'[h] \in {"respond", "answered", "panicked"}
    BY DEF PatchWrite, OthersUntouched, Base, TypeOK
<1>3. AppendAlone'
    BY <1>1, <1>2, AppendAloneStays DEF StoreInv, OthersUntouched
<1>4. CASE amfList = <<>>
    <2>1. UNCHANGED amfList /\ pc'[h] = "panicked"
        BY <1>4 DEF PatchWrite, Base, TypeOK
    <2>2. h \in orphaned
        <3>1. request[h].nfId \notin Registered
            BY <1>4, EmptySeq DEF Registered
        <3> QED  BY <1>1, <3>1 DEF Handling
    <2>3. LockNeverLeaks'
        BY <1>1, <2>1, <2>2 DEF LockNeverLeaks
    <2>4. /\ UniqueNfIds' /\ \A g \in Handlers : Undisturbed(g)
        BY <1>1, <2>1, ListStays
    <2>5. Handling(h)'
        BY <1>1, <2>1, <2>2 DEF Handling
    <2> QED  BY <1>1, <1>2, <1>3, <2>3, <2>4, <2>5, OthersKept DEF StoreInv
<1>5. CASE amfList # <<>>
    <2>1. 1 \in DOMAIN amfList
        BY <1>5, LenProperties, EmptySeq DEF Base, TypeOK
    <2> DEFINE m == amfList[1].nfId
    <2>2. PICK d \in SUBSET Items : amfList' = [amfList EXCEPT ![1].data = d]
        <3>1. modified[h] \in SUBSET Items /\ amfList[1].data \in SUBSET Items
            BY <2>1, FoundData DEF Base, TypeOK
        <3>2. CASE amfList' = [amfList EXCEPT ![1].data = modified[h]]
            BY <3>1, <3>2
        <3>3. ASSUME NEW part \in SUBSET (modified[h] \cup amfList[1].data),
                     amfList' = [amfList EXCEPT ![1].data = part]
              PROVE  \E d \in SUBSET Items : amfList' = [amfList EXCEPT ![1].data = d]
            <4>1. part \in SUBSET Items
                BY <3>1
            <4> QED  BY <3>3, <4>1
        <3> QED  BY <1>5, <3>2, <3>3 DEF PatchWrite
    <2>3. /\ Registered' = Registered
          /\ UniqueNfIds'
          /\ \A k \in NfIds : Shown'[k] = IF FirstRecord(k) = 1 THEN d ELSE Shown[k]
        BY <1>1, <2>1, <2>2, AfterWrite DEF Base, StoreInv
    <2>4. /\ UNCHANGED lockLeaked
          /\ overwritten' = overwritten \cup PutsRespondingOf(m)
          /\ pc'[h] \in {"respond", "answered"}
        BY <1>5 DEF PatchWrite, Base, TypeOK
    <2>5. LockNeverLeaks'
        BY <1>1, <1>2, <2>4, LeakStays DEF Base, StoreInv, OthersUntouched
    <2>6. Handling(h)'
        BY <1>1, <2>4 DEF Handling
    <2>7. ASSUME NEW g \in Handlers \ {h} PROVE Undisturbed(g)
        <3>1. pc[g] = "respond" /\ request[g].kind = "put" /\ request[g].nfId = m
                => g \in overwritten'
            BY <2>4, RequestIs DEF PutsRespondingOf, HandlersAt, Base
        <3>2. request[g].kind = "put" /\ request[g].nfId # m
                => Shown'[request[g].nfId] = Shown[request[g].nfId]
            <4> HAVE request[g].kind = "put" /\ request[g].nfId # m
            <4>1. request[g].nfId \in NfIds
                BY NamedAmf DEF Base
            <4>2. FirstRecord(request[g].nfId) # 1
                BY <4>1, LookedUp DEF Base
            <4> QED  BY <2>3, <4>1, <4>2
        <3> QED  BY <2>3, <3>1, <3>2 DEF Undisturbed
    <2> QED  BY <1>1, <1>2, <1>3, <2>3, <2>5, <2>6, <2>7, OthersKept DEF StoreInv
<1> QED  BY <1>4, <1>5

LEMMA StorePatch ==
    ASSUME Base, StoreInv, NEW h \in Handlers, Patch(h)
    PROVE  StoreInv'
<1> USE DEF outcome, history, Goto, Answer
<1>1. CASE PatchWrite(h)
    BY <1>1, StoreWrite
<1>2. CASE PatchLookup(h) \/ PatchApply(h) \/ PatchRespond(h)
    <2>1. /\ UNCHANGED <<store, request, history>> /\ OthersUntouched(h)
          /\ pc[h] \in {"lookup", "apply", "respond"}
          /\ pc'[h] \in {"apply", "write", "answered"}
          /\ request[h].kind = "patch" /\ request[h].nfId \in NfIds /\ Handling(h)
        BY <1>2, NamedAmf DEF PatchLookup, PatchApply, PatchRespond, OthersUntouched,
                              Base, TypeOK, Stage, StoreInv
    <2>2. /\ UniqueNfIds' /\ Registered' = Registered
          /\ \A g \in Handlers : Undisturbed(g)
        BY <2>1, ListStays DEF store
    <2>3. LockNeverLeaks'
        BY <2>1, LeakStays DEF Base, store, StoreInv, OthersUntouched
    <2>4. AppendAlone'
        BY <2>1, AppendAloneStays DEF StoreInv, OthersUntouched
    <2>5. Handling(h)'
        <3>1. FirstRecord(request[h].nfId) # 0 => request[h].nfId \in Registered
            BY <2>1, LookedUp DEF Base
        <3>2. CASE PatchLookup(h)
            BY <2>1, <2>2, <3>1, <3>2 DEF PatchLookup, Handling, Base, TypeOK
        <3>3. CASE PatchApply(h)
            BY <2>1, <2>2, <3>3 DEF PatchApply, Handling, Base, TypeOK
        <3>4. CASE PatchRespond(h)
            BY <2>1, <2>2, <3>4 DEF PatchRespond, Handling, Base, TypeOK
        <3> QED  BY <1>2, <3>2, <3>3, <3>4
    <2> QED  BY <2>1, <2>2, <2>3, <2>4, <2>5, OthersKept DEF StoreInv
<1> QED  BY <1>1, <1>2 DEF Patch

LEMMA StoreDelete ==
    ASSUME Base, StoreInv, NEW h \in Handlers, DeleteRecord(h)
    PROVE  StoreInv'
<1> DEFINE n == request[h].nfId
           i == FirstRecord(n)
<1> USE DEF outcome, Goto, Answer
<1>1. /\ UNCHANGED <<request, lockLeaked, doubled, response>>
      /\ pc[h] = "delete" /\ pc'[h] = "answered"
      /\ OthersUntouched(h) /\ request[h].kind = "delete" /\ n \in NfIds /\ Handling(h)
    BY NamedAmf DEF DeleteRecord, OthersUntouched, Base, TypeOK, Stage, StoreInv
<1>2. AppendAlone'
    BY <1>1, AppendAloneStays DEF StoreInv, OthersUntouched
<1>3. LockNeverLeaks'
    BY <1>1, LeakStays DEF Base, StoreInv, OthersUntouched
<1>4. Handling(h)'
    BY <1>1 DEF Handling
<1>5. CASE i = 0
    <2>1. UNCHANGED amfList
        BY <1>5 DEF DeleteRecord
    <2>2. UniqueNfIds' /\ \A g \in Handlers : Undisturbed(g)
        BY <1>1, <2>1, ListStays
    <2> QED  BY <1>1, <1>2, <1>3, <1>4, <2>2, OthersKept DEF StoreInv
<1>6. CASE i # 0
    <2>1. i \in DOMAIN amfList /\ amfList[i].nfId = n
        BY <1>1, <1>6, LookedUp DEF Base
    <2>2. /\ amfList' = RemoveAt(amfList, i)
          /\ orphaned' = orphaned \cup PatchesOf(n)
          /\ overwritten' = overwritten \cup PutsRespondingOf(n)
        BY <1>6 DEF DeleteRecord, Without
    <2> HIDE DEF i
    <2>3. /\ UniqueNfIds'
          /\ Registered' \in {Registered, Registered \ {n}}
          /\ \A k \in NfIds : k # n => Shown'[k] = Shown[k]
        BY <1>1, <2>1, <2>2, AfterRemove DEF Base, StoreInv
    <2>4. ASSUME NEW g \in Handlers \ {h} PROVE Undisturbed(g)
        <3>1. pc[g] = "respond" /\ request[g].kind = "put" /\ request[g].nfId = n
                => g \in overwritten'
            BY <2>2, RequestIs DEF PutsRespondingOf, HandlersAt, Base
        <3>2. pc[g] \in {"apply", "write"} /\ request[g].nfId = n => g \in orphaned'
            <4>1. pc[g] \in {"apply", "write"} => request[g].kind = "patch"
                BY DEF Base, Stage
            <4> QED  BY <2>2, <4>1, RequestIs DEF PatchesOf, HandlersAt, Base
        <3>3. request[g].kind = "put" => request[g].nfId \in NfIds
            BY NamedAmf DEF Base
        <3> QED  BY <2>3, <3>1, <3>2, <3>3 DEF Undisturbed
    <2> QED  BY <1>1, <1>2, <1>3, <1>4, <2>3, <2>4, OthersKept DEF StoreInv
<1> QED  BY <1>5, <1>6

LEMMA StoreStep ==
    ASSUME Base, StoreInv, [Next]_vars
    PROVE  StoreInv'
<1>1. CASE UNCHANGED vars
    <2>1. /\ UNCHANGED <<amfList, lockLeaked, pc, request, body, unvisited, answer,
                         response, doubled, orphaned, overwritten>>
        BY <1>1 DEF vars, store, outcome, history
    <2>2. UniqueNfIds' /\ Registered' = Registered /\ Shown' = Shown
        BY <2>1, ListStays
    <2>3. AppendAlone' /\ LockNeverLeaks'
        BY <2>1 DEF StoreInv, AppendAlone, LockNeverLeaks
    <2>4. \A h \in Handlers : Handling(h)'
        BY <2>1, <2>2 DEF StoreInv, Handling
    <2> QED  BY <2>2, <2>3, <2>4 DEF StoreInv
<1> QED  BY <1>1, StoreArrival, StorePut, StorePatch, StoreDelete DEF Next

LEMMA StoreInvariant == Spec => [](Base /\ StoreInv)
<1>1. Base /\ StoreInv /\ [Next]_vars => (Base /\ StoreInv)'
    BY BaseStep, StoreStep
<1> QED  BY BaseInit, StoreInit, <1>1, PTL DEF Spec

\* PUT looks for the AMF's record in one critical section and appends in
\* another: an AMF gets a second record only if two PUTs of it are between the
\* two sections at once, whatever PATCHes and DELETEs of it come in between.
THEOREM SecondRecordNeedsOverlap == Spec => []UniqueNfIds
<1>1. Base /\ StoreInv => UniqueNfIds
    BY DEF StoreInv
<1> QED  BY <1>1, StoreInvariant, PTL

\* A handler panics with ConfigLock held only in a PATCH whose AMF a DELETE
\* removed between its two sections: requests for other AMFs cannot empty the
\* list under it.
THEOREM PanicNeedsDelete == Spec => []LockNeverLeaks
<1>1. Base /\ StoreInv => LockNeverLeaks
    BY DEF StoreInv
<1> QED  BY <1>1, StoreInvariant, PTL

\* The response of a PUT, looked up after the lock was given back, is what was
\* put, unless the record of this AMF was put, written or deleted meanwhile.
THEOREM PutGetsItsData == Spec => []PutAnsweredWithItsData
<1>1. Base /\ StoreInv => PutAnsweredWithItsData
    BY DEF StoreInv, Handling, PutAnsweredWithItsData
<1> QED  BY <1>1, StoreInvariant, PTL

-----------------------------------------------------------------------------
(* The refinement.  A request takes effect on the set of AMFs at the one   *)
(* step that writes the list for it; every other step is the client's, or  *)
(* changes nothing the directory knows.                                    *)

Status ==
    [h \in Handlers |->
        CASE pc[h] = "idle" -> "none"
          [] pc[h] \in {"respond", "answered"} -> answer[h]
          [] pc[h] \in {"apply", "write", "panicked"} -> "found"
          [] OTHER -> "pending"]

LEMMA RegisteredAmfs == ASSUME TypeOK PROVE Registered \subseteq NfIds
<1>1. \A i \in DOMAIN amfList : amfList[i] \in AmfRecords
    BY LenProperties, ElementOfSeq DEF TypeOK
<1> QED  BY <1>1 DEF Registered, AmfRecords

LEMMA DirectoryInit == Init => Directory!Init
<1> SUFFICES ASSUME Init PROVE Directory!Init
    OBVIOUS
<1>1. TypeOK
    BY BaseInit DEF Base
<1>2. Registered \subseteq NfIds
    BY <1>1, RegisteredAmfs
<1>3. Status = [h \in Handlers |-> "none"]
    BY DEF Init, Status
<1>4. request = [c \in Handlers |-> Directory!NoRequest]
    BY DEF Init, NoRequest, Directory!NoRequest
<1>5. doubled \subseteq NfIds
    BY <1>1 DEF TypeOK
<1> QED  BY <1>2, <1>3, <1>4, <1>5 DEF Directory!Init, Registered, Status

\* The steps of the directory, in terms of the mapped state.
LEMMA Decided ==
    ASSUME NEW h \in Handlers, NEW from, NEW k, NEW s,
           Status[h] = from, request[h].kind = k,
           Status' = [Status EXCEPT ![h] = s], UNCHANGED <<request, doubled>>
    PROVE  Directory!Decide(h, from, k, s)
    BY DEF Directory!Decide, Status

LEMMA Stutters ==
    ASSUME Registered' = Registered, UNCHANGED <<request, doubled>>, Status' = Status
    PROVE  UNCHANGED Directory!vars
    BY DEF Directory!vars, Registered, Status

LEMMA StatusAt ==
    ASSUME NEW h \in Handlers
    PROVE  /\ pc[h] = "idle" => Status[h] = "none"
           /\ pc[h] \in {"respond", "answered"} => Status[h] = answer[h]
           /\ pc[h] \in {"apply", "write", "panicked"} => Status[h] = "found"
           /\ pc[h] \in {"decode", "check", "update", "append", "lookup", "delete"}
                 => Status[h] = "pending"
           /\ pc'[h] = "idle" => Status'[h] = "none"
           /\ pc'[h] \in {"respond", "answered"} => Status'[h] = answer'[h]
           /\ pc'[h] \in {"apply", "write", "panicked"} => Status'[h] = "found"
           /\ pc'[h] \in {"decode", "check", "update", "append", "lookup", "delete"}
                 => Status'[h] = "pending"
    BY DEF Status

LEMMA StatusOfOne ==
    ASSUME NEW h \in Handlers, OthersUntouched(h)
    PROVE  Status' = [Status EXCEPT ![h] = Status'[h]]
<1>1. \A g \in Handlers \ {h} : Status'[g] = Status[g]
    BY DEF Status, OthersUntouched
<1>2. DOMAIN Status = Handlers /\ DOMAIN Status' = Handlers
      /\ Status = [g \in Handlers |-> Status[g]]
      /\ Status' = [g \in Handlers |-> Status'[g]]
    BY DEF Status
<1> QED  BY <1>1, <1>2

LEMMA StatusSame ==
    ASSUME NEW h \in Handlers, OthersUntouched(h), Status'[h] = Status[h]
    PROVE  Status' = Status
<1>1. Status = [g \in Handlers |-> Status[g]]
    BY DEF Status
<1> QED  BY <1>1, StatusOfOne

LEMMA RegisteredSame ==
    ASSUME UNCHANGED amfList
    PROVE  Registered' = Registered
    BY DEF Registered

LEMMA DirectoryArrival ==
    ASSUME Base, NEW h \in Handlers, Arrives(h) \/ Decode(h) \/ Return(h)
    PROVE  [Directory!Next]_(Directory!vars)
<1>1. OthersUntouched(h) /\ UNCHANGED <<amfList, doubled>>
    BY DEF Arrives, Arrive, Decode, DecodePut, DecodePatch, DecodeFails, Return,
           OthersUntouched, Answer, Goto, outcome, history, store, Base, TypeOK
<1>2. Registered' = Registered
    BY <1>1, RegisteredSame
<1>3. ASSUME NEW n \in NfIds, NEW kind \in {"put", "patch", "delete"},
             Arrive(h, kind, n)
      PROVE  Directory!Invoke(h, kind, n)
    <2>1. Status[h] = "none" /\ Status'[h] = "pending"
        BY <1>3, StatusAt DEF Arrive, Goto, Base, TypeOK
    <2>2. Status' = [Status EXCEPT ![h] = "pending"]
        BY <1>1, <2>1, StatusOfOne
    <2>3. request' = [request EXCEPT ![h] = [kind |-> kind, nfId |-> n]]
        BY <1>3 DEF Arrive
    <2> QED  BY <1>1, <1>2, <2>1, <2>2, <2>3 DEF Directory!Invoke, Registered, Status
<1>4. CASE Arrives(h)
    BY <1>3, <1>4 DEF Arrives, Directory!Next, Directory!Kinds
<1>5. CASE DecodeFails(h)
    <2>1. /\ Status[h] = "pending" /\ Status'[h] = "refused" /\ UNCHANGED request
          /\ request[h].kind \in {"put", "patch"}
        BY <1>5, StatusAt DEF DecodeFails, Answer, Goto, Base, TypeOK, Stage
    <2>2. Status' = [Status EXCEPT ![h] = "refused"]
        BY <1>1, <2>1, StatusOfOne
    <2>3. \E k \in {"put", "patch"} :
             request[h].kind = k /\ Directory!Decide(h, "pending", k, "refused")
        BY <1>1, <2>1, <2>2, Decided
    <2> QED  BY <1>2, <2>3 DEF Directory!Next, Directory!Put, Directory!Patch, Registered
<1>6. CASE Decode(h) /\ ~DecodeFails(h)
    <2>1. Status'[h] = Status[h] /\ UNCHANGED request
        BY <1>6, StatusAt DEF Decode, DecodePut, DecodePatch, Goto, Base, TypeOK
    <2> QED  BY <1>1, <1>2, <2>1, StatusSame, Stutters
<1>7. CASE Return(h)
    <2>1. /\ Status[h] \in {"ok", "refused", "missing"} /\ Status'[h] = "none"
          /\ request' = [request EXCEPT ![h] = Directory!NoRequest]
        BY <1>7, StatusAt DEF Return, Goto, Base, TypeOK, Stage, NoRequest,
                              Directory!NoRequest
    <2>2. Status' = [Status EXCEPT ![h] = "none"]
        BY <1>1, <2>1, StatusOfOne
    <2>3. Directory!Return(h)
        BY <1>1, <1>2, <2>1, <2>2 DEF Directory!Return, Registered, Status
    <2> QED  BY <2>3 DEF Directory!Next
<1> QED  BY <1>4, <1>5, <1>6, <1>7

LEMMA DirectoryPut ==
    ASSUME Base, NEW h \in Handlers, Put(h)
    PROVE  [Directory!Next]_(Directory!vars)
<1> DEFINE n == request[h].nfId
<1>1. /\ OthersUntouched(h) /\ UNCHANGED request /\ request[h].kind = "put"
      /\ n \in NfIds /\ body[h].add \in SUBSET Items
    BY NamedAmf DEF Put, PutCheck, PutUpdate, PutAppend, PutRespond, Respond,
           RespondToPut, Answer, Goto, OthersUntouched, outcome, history, Base,
           TypeOK, Stage
<1>2. ASSUME UNCHANGED <<amfList, doubled>>, Status'[h] = Status[h]
      PROVE  [Directory!Next]_(Directory!vars)
    <2>1. Registered' = Registered /\ Status' = Status
        BY <1>1, <1>2, RegisteredSame, StatusSame
    <2> QED  BY <1>1, <1>2, <2>1, Stutters
<1>3. ASSUME Status[h] = "pending", Status'[h] = "ok", Registered' = Registered \cup {n},
             UNCHANGED doubled
      PROVE  Directory!Next
    <2>1. Status' = [Status EXCEPT ![h] = "ok"]
        BY <1>1, <1>3, StatusOfOne
    <2>2. Directory!Decide(h, "pending", "put", "ok")
        BY <1>1, <1>3, <2>1, Decided
    <2> QED  BY <1>3, <2>2 DEF Directory!Next, Directory!Put, Registered
<1> USE DEF Goto, Answer, Respond, RespondToPut, outcome, history, store
<1>4. CASE PutCheck(h)
    <2>1. /\ UNCHANGED <<amfList, doubled>> /\ Status[h] = "pending"
          /\ Status'[h] \in {"pending", "refused"}
        BY <1>4, StatusAt DEF PutCheck, Base, TypeOK
    <2>2. CASE Status'[h] = "refused"
        <3>1. Status' = [Status EXCEPT ![h] = "refused"]
            BY <1>1, <2>2, StatusOfOne
        <3>2. Directory!Decide(h, "pending", "put", "refused")
            BY <1>1, <2>1, <3>1, Decided
        <3> QED  BY <2>1, <3>2 DEF Directory!Next, Directory!Put
    <2> QED  BY <1>2, <2>1, <2>2
<1>5. CASE PutUpdate(h)
    <2> DEFINE i == FirstRecord(n)
    <2>1. /\ i \in {0} \cup DOMAIN amfList /\ (i # 0 => amfList[i].nfId = n)
          /\ i # 0 <=> n \in Registered
        BY <1>1, LookedUp DEF Base
    <2>2. CASE i = 0
        <3>1. /\ UNCHANGED amfList /\ Status[h] = "pending" /\ Status'[h] = "pending"
              /\ doubled' = doubled \cup {m \in {n} : HandlersAt("append", "put", m) # {}}
            BY <1>5, <2>2, StatusAt DEF PutUpdate, Base, TypeOK
        <3>2. Registered' = Registered /\ Status' = Status
            BY <1>1, <3>1, RegisteredSame, StatusSame
        <3>3. CASE HandlersAt("append", "put", n) = {}
            BY <1>2, <3>1, <3>3
        <3>4. CASE HandlersAt("append", "put", n) # {}
            <4>1. PICK g \in Handlers : pc[g] = "append" /\ request[g] = [kind |-> "put", nfId |-> n]
                BY <3>4 DEF HandlersAt
            <4>2. Status[g] = "pending" /\ g # h
                BY <1>5, <4>1, StatusAt DEF PutUpdate
            <4>3. request[h] = [kind |-> "put", nfId |-> n]
                BY <1>1, RequestIs DEF Base
            <4>4. {g, h} \subseteq Directory!PendingPutsOf(n)
                BY <3>1, <4>1, <4>2, <4>3 DEF Directory!PendingPutsOf, Status
            <4>5. doubled' = doubled \cup {n}
                BY <3>1, <3>4
            <4>6. n \notin Registered
                BY <2>1, <2>2
            <4>7. Directory!Overlap(n)
                BY <1>1, <3>2, <4>2, <4>4, <4>5, <4>6
                   DEF Directory!Overlap, Registered, Status
            <4> QED  BY <1>1, <4>7 DEF Directory!Next
        <3> QED  BY <3>3, <3>4
    <2>3. CASE i # 0
        <3>1. amfList' = [amfList EXCEPT ![i].data = body[h].add]
            BY <1>5, <2>3 DEF PutUpdate
        <3>2. Status[h] = "pending" /\ Status'[h] = "ok" /\ UNCHANGED doubled
            BY <1>5, <2>3, StatusAt DEF PutUpdate, Base, TypeOK
        <3> HIDE DEF i
        <3>3. Registered' = Registered
            BY <1>1, <2>1, <2>3, <3>1, AfterWrite DEF Base
        <3>4. n \in Registered
            BY <2>1, <2>3
        <3> QED  BY <1>3, <3>2, <3>3, <3>4
    <2> QED  BY <2>2, <2>3
<1>6. CASE PutAppend(h)
    <2>1. Registered' = Registered \cup {n}
        BY <1>1, <1>6, AfterAppend DEF PutAppend, Base
    <2>2. Status[h] = "pending" /\ Status'[h] = "ok" /\ UNCHANGED doubled
        BY <1>6, StatusAt DEF PutAppend, Base, TypeOK
    <2> QED  BY <1>3, <2>1, <2>2
<1>7. CASE PutRespond(h)
    BY <1>2, <1>7, StatusAt DEF PutRespond, Base, TypeOK
<1> QED  BY <1>4, <1>5, <1>6, <1>7 DEF Put

LEMMA DirectoryPatch ==
    ASSUME Base, NEW h \in Handlers, Patch(h)
    PROVE  [Directory!Next]_(Directory!vars)
<1> DEFINE n == request[h].nfId
<1> USE DEF Goto, Answer, Respond, outcome, history, store
<1>1. UNCHANGED <<request, doubled>> /\ request[h].kind = "patch" /\ n \in NfIds
    BY NamedAmf DEF Patch, PatchLookup, PatchApply, PatchWrite, PatchRespond,
                    Base, TypeOK, Stage
<1>2. /\ \A g \in Handlers \ {h} : pc'[g] = pc[g] /\ answer'[g] = answer[g]
    BY DEF Patch, PatchLookup, PatchApply, PatchWrite, PatchRespond, Base, TypeOK
<1>3. Status' = [Status EXCEPT ![h] = Status'[h]]
    <2>1. \A g \in Handlers \ {h} : Status'[g] = Status[g]
        BY <1>2 DEF Status
    <2>2. /\ Status = [g \in Handlers |-> Status[g]]
          /\ Status' = [g \in Handlers |-> Status'[g]]
        BY DEF Status
    <2> QED  BY <2>1, <2>2
<1>4. ASSUME NEW from, NEW s, Status[h] = from, Status'[h] = s
      PROVE  Directory!Decide(h, from, "patch", s)
    BY <1>1, <1>3, <1>4, Decided
<1>5. Status = [g \in Handlers |-> Status[g]]
    BY DEF Status
<1>6. ASSUME UNCHANGED amfList, Status'[h] = Status[h]
      PROVE  [Directory!Next]_(Directory!vars)
    <2>1. Registered' = Registered /\ Status' = Status
        BY <1>3, <1>5, <1>6, RegisteredSame
    <2> QED  BY <1>1, <2>1, Stutters
<1>7. CASE PatchLookup(h)
    <2> DEFINE i == FirstRecord(n)
    <2>1. /\ UNCHANGED amfList /\ Status[h] = "pending"
          /\ Status'[h] = IF i # 0 THEN "found" ELSE "missing"
        BY <1>7, StatusAt DEF PatchLookup, Base, TypeOK
    <2>2. i # 0 <=> n \in Registered
        BY <1>1, LookedUp DEF Base
    <2> HIDE DEF i
    <2>3. CASE i # 0
        <3>1. Directory!Decide(h, "pending", "patch", "found")
            BY <1>4, <2>1, <2>3
        <3> QED  BY <2>1, <2>2, <2>3, <3>1 DEF Directory!Next, Directory!Patch, Registered
    <2>4. CASE i = 0
        <3>1. Directory!Decide(h, "pending", "patch", "missing")
            BY <1>4, <2>1, <2>4
        <3> QED  BY <2>1, <2>2, <2>4, <3>1 DEF Directory!Next, Directory!Patch, Registered
    <2> QED  BY <2>3, <2>4
<1>8. CASE PatchApply(h)
    <2>1. UNCHANGED amfList /\ Status[h] = "found" /\ Status'[h] \in {"found", "refused"}
        BY <1>8, StatusAt DEF PatchApply, Base, TypeOK
    <2>2. CASE Status'[h] = "refused"
        <3>1. Directory!Decide(h, "found", "patch", "refused")
            BY <1>4, <2>1, <2>2
        <3> QED  BY <2>1, <3>1 DEF Directory!Next, Directory!Patch
    <2> QED  BY <1>6, <2>1, <2>2
<1>9. CASE PatchWrite(h)
    <2>1. CASE amfList = <<>>
        <3>1. UNCHANGED amfList /\ Status[h] = "found" /\ Status'[h] = "found"
            BY <1>9, <2>1, StatusAt DEF PatchWrite, Base, TypeOK
        <3> QED  BY <1>6, <3>1
    <2>2. CASE amfList # <<>>
        <3>1. Status[h] = "found" /\ Status'[h] \in {"ok", "refused"}
            BY <1>9, <2>2, StatusAt DEF PatchWrite, Base, TypeOK
        <3>2. Registered' = Registered
            <4>1. 1 \in DOMAIN amfList
                BY <2>2, EmptySeq, LenProperties DEF Base, TypeOK
            <4>2. PICK d \in SUBSET Items : amfList' = [amfList EXCEPT ![1].data = d]
                BY <1>9, <2>2, <4>1, FoundData DEF PatchWrite, WrittenRecord, Base, TypeOK
            <4> QED  BY <4>1, <4>2, AfterWrite DEF Base
        <3>3. \E s \in {"ok", "refused"} : Directory!Decide(h, "found", "patch", s)
            BY <1>4, <3>1
        <3> QED  BY <3>2, <3>3 DEF Directory!Next, Directory!Patch, Registered
    <2> QED  BY <2>1, <2>2
<1>10. CASE PatchRespond(h)
    BY <1>6, <1>10, StatusAt DEF PatchRespond, Base, TypeOK
<1> QED  BY <1>7, <1>8, <1>9, <1>10 DEF Patch

LEMMA DirectoryDelete ==
    ASSUME Base, UniqueNfIds, NEW h \in Handlers, DeleteRecord(h)
    PROVE  Directory!Next
<1> DEFINE n == request[h].nfId
           i == FirstRecord(n)
<1>1. /\ OthersUntouched(h) /\ UNCHANGED <<request, doubled>>
      /\ request[h].kind = "delete" /\ n \in NfIds
      /\ Status[h] = "pending"
      /\ Status'[h] = IF i # 0 THEN "ok" ELSE "missing"
    BY NamedAmf, StatusAt
       DEF DeleteRecord, Answer, Goto, OthersUntouched, Base, TypeOK, Stage
<1>2. Status' = [Status EXCEPT ![h] = Status'[h]]
    BY <1>1, StatusOfOne
<1>3. /\ i \in {0} \cup DOMAIN amfList
      /\ i # 0 => amfList[i].nfId = n
      /\ i # 0 <=> n \in Registered
    BY <1>1, LookedUp DEF Base
<1>4. amfList' = IF i # 0 THEN RemoveAt(amfList, i) ELSE amfList
    BY DEF DeleteRecord, Without
<1> HIDE DEF i
<1>5. CASE i # 0
    <2>1. \/ Registered' = Registered \ {n}
          \/ n \in doubled /\ Registered' = Registered
        BY <1>1, <1>3, <1>4, <1>5, AfterRemove DEF Base
    <2>2. Directory!Decide(h, "pending", "delete", "ok")
        BY <1>1, <1>2, <1>5, Decided
    <2> QED  BY <1>3, <1>5, <2>1, <2>2 DEF Directory!Next, Directory!Delete, Registered
<1>6. CASE i = 0
    <2>1. Registered' = Registered
        BY <1>4, <1>6, RegisteredSame
    <2>2. Directory!Decide(h, "pending", "delete", "missing")
        BY <1>1, <1>2, <1>6, Decided
    <2> QED  BY <1>3, <1>6, <2>1, <2>2 DEF Directory!Next, Directory!Delete, Registered
<1> QED  BY <1>5, <1>6

LEMMA DirectoryStep ==
    ASSUME Base, UniqueNfIds, [Next]_vars
    PROVE  [Directory!Next]_(Directory!vars)
<1>1. CASE UNCHANGED vars
    <2>1. UNCHANGED <<amfList, request, pc, answer, doubled>>
        BY <1>1 DEF vars, store, outcome, history
    <2>2. Registered' = Registered /\ Status' = Status
        BY <2>1, RegisteredSame DEF Status
    <2> QED  BY <2>1, <2>2, Stutters
<1> QED  BY <1>1, DirectoryArrival, DirectoryPut, DirectoryPatch, DirectoryDelete DEF Next

\* PUT, PATCH and DELETE, each several critical sections, act on the set of AMFs
\* as if each took effect at one moment, however they interleave.
THEOREM RefinesDirectory == Spec => DirectoryKept
<1>1. Base /\ StoreInv /\ [Next]_vars => [Directory!Next]_(Directory!vars)
    BY DirectoryStep DEF StoreInv
<1> QED  BY DirectoryInit, <1>1, StoreInvariant, PTL
         DEF Spec, DirectoryKept, Directory!Spec
=============================================================================
