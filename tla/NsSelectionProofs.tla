-------------------------- MODULE NsSelectionProofs --------------------------
(***************************************************************************)
(* Proofs about NsSelection, for any configuration, requests, AMFs and     *)
(* number of changes: all its invariants, and that the parser gives back   *)
(* what was sent.                                                          *)
(*                                                                         *)
(* SelectionInv is the inductive invariant: the types, what a request in   *)
(* each stage is (RequestInv), what the scans have found (ScanInv), what   *)
(* Select decided (DecisionInv) and what is configured of it by now        *)
(* (ConfigureInv).                                                         *)
(***************************************************************************)
EXTENDS NsSelection, NsQueryProofs

AllowedTyped == allowed \in Seq(Elements)

-----------------------------------------------------------------------------
(* The invariant of the scans.                                             *)

ListInv ==
    /\ amfArray \in Seq(AmfRecords) /\ amfLen \in 0 .. Len(amfArray)
    /\ oldArray \in Seq(AmfRecords)
    /\ pc = "parse" => /\ amfArray = InitialAmfList /\ amfLen = Len(InitialAmfList)
                       /\ oldArray = <<>> /\ disturbed = FALSE

\* Where a request is, and what it has computed by then.
StageInv ==
    /\ ownServes \in {"unknown", "yes", "no"}
    /\ pc \in {"parse", "start", "plmn", "session", "select"} =>
          next = 1 /\ ownServes = "unknown"
    /\ pc \in {"scan", "record", "data"} =>
          next \in 1 .. Len(allowed) /\ ownServes = "unknown"
    /\ pc \in {"record", "data"} =>
          scanAt \in Nat \ {0} /\ scanLen \in 0 .. Len(Scanned)
    /\ pc = "data" => scanAt <= scanLen

Place == OwnPlace(request, amfArray, amfLen)
Own == OwnData(request, amfArray, amfLen)

\* The S-NSSAIs were those of the asking AMF at some moment of the request.
SeenOnce(data) == data \subseteq ownHadOnce /\ Snssais \ data \subseteq ownLackedOnce

DataAt(array, j) == {s \in Snssais : <<request.tai, s>> \in array[j].data}

\* The record of the asking AMF is nowhere else in the array, not even behind
\* the end of the slice, where a DELETE leaves the record it moved last.
OwnOnce == \A j \in DOMAIN amfArray : amfArray[j].nfId = request.nfId => j = Place

OldSeen ==
    \A j \in DOMAIN oldArray :
        oldArray[j].nfId = request.nfId => SeenOnce(DataAt(oldArray, j))

\* The record is before the scan, or the AMF had none at some moment.
Ahead ==
    \/ Snssais \subseteq ownLackedOnce
    \/ \E p \in DOMAIN Scanned :
          scanAt <= p /\ p <= scanLen /\ Scanned[p].nfId = request.nfId

UndisturbedInv ==
    /\ OwnOnce /\ OldSeen
    /\ pc \in {"record", "data"} => Ahead
    /\ pc = "data" => Scanned[scanAt].nfId = request.nfId
    /\ pc \in {"scan", "record", "data"} =>
          \A i \in DOMAIN allowed : i < next => allowed[i].snssai \in ownHadOnce

\* What the scans found was true at some moment.
Sound ==
    /\ ownServes = "no" => SnssaisOf(allowed) \cap ownLackedOnce # {}
    /\ ownServes = "yes" => SnssaisOf(allowed) \subseteq ownHadOnce

Running == pc \notin {"parse", "answered"}

ScanInv ==
    /\ ListInv /\ StageInv
    /\ Running => SeenOnce(Own)
    /\ Running /\ ~disturbed => UndisturbedInv
    /\ ~disturbed => Sound

-----------------------------------------------------------------------------
(* Places and arrays.                                                      *)

LEMMA PlaceFound ==
    ASSUME NEW array \in Seq(AmfRecords), NEW len \in 0 .. Len(array), NEW r
    PROVE  /\ OwnPlace(r, array, len) \in 0 .. len
           /\ OwnPlace(r, array, len) # 0 =>
                 array[OwnPlace(r, array, len)].nfId = r.nfId
           /\ OwnPlace(r, array, len) = 0 =>
                 \A j \in 1 .. len : array[j].nfId # r.nfId
<1> DEFINE list == SubSeq(array, 1, len)
           I == {i \in 1 .. Len(list) : list[i].nfId = r.nfId}
<1>1. Len(array) \in Nat /\ \A j \in 1 .. Len(array) : array[j] \in AmfRecords
    BY LenProperties, ElementOfSeq
<1>2. Len(list) = len /\ \A j \in 1 .. len : list[j] = array[j]
    <2>1. /\ Len(list) = IF 1 <= len THEN len - 1 + 1 ELSE 0
          /\ \A j \in 1 .. len - 1 + 1 : list[j] = array[1 + j - 1]
        BY <1>1, SubSeqProperties
    <2> QED  BY <1>1, <2>1
<1>3. OwnPlace(r, array, len) = IF I # {} THEN Min(I) ELSE 0
    BY DEF OwnPlace, SelectInSeq
<1> HIDE DEF list
<1>4. I \subseteq Nat /\ I = {i \in 1 .. len : array[i].nfId = r.nfId}
    BY <1>1, <1>2
<1>5. CASE I = {}
    BY <1>1, <1>3, <1>4, <1>5
<1>6. CASE I # {}
    <2>1. Min(I) \in I
        BY <1>4, <1>6, MinInSet
    <2>2. Min(I) \in 1 .. len /\ array[Min(I)].nfId = r.nfId /\ Min(I) # 0
        BY <1>1, <1>4, <2>1
    <2> QED  BY <1>1, <1>3, <1>6, <2>2
<1> QED  BY <1>5, <1>6

\* An array in which the AMF is at one place at most has it at this place.
LEMMA PlaceIs ==
    ASSUME NEW array \in Seq(AmfRecords), NEW len \in 0 .. Len(array), NEW r,
           NEW p \in 1 .. len, array[p].nfId = r.nfId,
           \A j \in 1 .. len : array[j].nfId = r.nfId => j = p
    PROVE  OwnPlace(r, array, len) = p
<1>1. Len(array) \in Nat
    BY LenProperties
<1> QED  BY <1>1, PlaceFound

-----------------------------------------------------------------------------
(* Changes of AmfList.                                                     *)

\* What ScanInv needs of a change: the array gets no shorter, the old one is
\* left to the scan or written to in place, and, unless the record of the
\* asking AMF is touched, it stays where it is and nowhere else.
LEMMA ListChange ==
    ASSUME ScanInv,
           NEW array \in Seq(AmfRecords), NEW len \in 0 .. Len(array),
           NEW moves \in BOOLEAN, ChangeAmfList(array, len, moves),
           Len(amfArray) <= Len(array),
           oldArray' = oldArray \/ (oldArray = <<>> /\ oldArray' = amfArray),
           ~disturbed /\ ~moves =>
               /\ \A j \in DOMAIN array :
                     array[j].nfId = request.nfId => j = OwnPlace(request, array, len)
               /\ Place # 0 => OwnPlace(request, array, len) = Place
    PROVE  ScanInv'
<1>1. /\ Running /\ UNCHANGED <<pc, request, scanAt, scanLen, ownServes, next, allowed>>
      /\ amfArray' = array /\ amfLen' = len
      /\ disturbed' = (disturbed \/ moves)
      /\ ownHadOnce' = ownHadOnce \cup OwnData(request, array, len)
      /\ ownLackedOnce' = ownLackedOnce \cup (Snssais \ OwnData(request, array, len))
    BY DEF ChangeAmfList, MayChange, Running, asked, result
<1>2. /\ Len(amfArray) \in Nat /\ DOMAIN amfArray = 1 .. Len(amfArray)
      /\ Len(oldArray) \in Nat /\ DOMAIN oldArray = 1 .. Len(oldArray)
      /\ Len(array) \in Nat /\ DOMAIN array = 1 .. Len(array)
      /\ Len(<<>>) = 0
    BY LenProperties DEF ScanInv, ListInv
<1>3. ListInv'
    BY <1>1 DEF ScanInv, ListInv, Running
<1>4. Len(Scanned) \in Nat /\ Len(Scanned') \in Nat /\ Len(Scanned) <= Len(Scanned')
    BY <1>1, <1>2, <1>3 DEF Scanned
<1>5. StageInv'
    BY <1>1, <1>4 DEF ScanInv, StageInv
<1>6. SeenOnce(Own)'
    BY <1>1 DEF SeenOnce, Own
<1>7. ASSUME ~disturbed' PROVE UndisturbedInv' /\ Sound'
    <2>1. /\ ~disturbed /\ UndisturbedInv /\ Sound /\ SeenOnce(Own)
          /\ \A j \in DOMAIN array :
                array[j].nfId = request.nfId => j = OwnPlace(request, array, len)
          /\ Place # 0 => OwnPlace(request, array, len) = Place
        BY <1>1, <1>7 DEF ScanInv
    <2>2. OwnOnce'
        BY <1>1, <2>1 DEF OwnOnce, Place
    <2>3. \A data : SeenOnce(data) => SeenOnce(data)'
        BY <1>1 DEF SeenOnce
    <2>4. OldSeen'
        <3>1. CASE oldArray' = oldArray
            BY <1>1, <2>1, <2>3, <3>1 DEF UndisturbedInv, OldSeen, DataAt
        <3>2. CASE oldArray' = amfArray
            <4>1. ASSUME NEW j \in DOMAIN amfArray, amfArray[j].nfId = request.nfId
                  PROVE  DataAt(amfArray, j) = Own
                <5>1. j = Place /\ Place # 0
                    BY <1>2, <2>1, <4>1 DEF UndisturbedInv, OwnOnce
                <5> QED  BY <5>1 DEF DataAt, Own, OwnData, Place
            <4>2. ASSUME NEW j \in DOMAIN amfArray, amfArray[j].nfId = request.nfId
                  PROVE  SeenOnce(DataAt(oldArray, j))'
                <5>1. /\ Own \subseteq ownHadOnce' /\ Snssais \ Own \subseteq ownLackedOnce'
                    BY <1>1, <2>1 DEF SeenOnce
                <5>2. DataAt(oldArray, j)' = Own
                    BY <1>1, <3>2, <4>1, <4>2 DEF DataAt
                <5> QED  BY <1>1, <3>2, <5>1, <5>2 DEF SeenOnce
            <4> QED  BY <1>1, <3>2, <4>2 DEF OldSeen
        <3> QED  BY <3>1, <3>2
    <2>5. \A p \in DOMAIN Scanned :
             Scanned[p].nfId = request.nfId =>
                p \in DOMAIN Scanned' /\ Scanned'[p].nfId = request.nfId
        <3>1. CASE oldArray = <<>>
            <4> TAKE p \in DOMAIN Scanned
            <4> HAVE Scanned[p].nfId = request.nfId
            <4>1. Scanned = amfArray /\ p = Place /\ p # 0
                BY <1>2, <2>1, <3>1 DEF Scanned, UndisturbedInv, OwnOnce
            <4>2. OwnPlace(request, array, len) = p /\ array[p].nfId = request.nfId
                BY <2>1, <4>1, PlaceFound
            <4> QED  BY <1>1, <1>2, <4>1, <4>2, <3>1 DEF Scanned
        <3>2. CASE oldArray # <<>>
            BY <1>1, <3>2 DEF Scanned
        <3> QED  BY <3>1, <3>2
    <2>6. pc \in {"record", "data"} => Ahead'
        BY <1>1, <2>1, <2>5 DEF UndisturbedInv, Ahead
    <2>7. pc = "data" => (Scanned[scanAt].nfId = request.nfId)'
        BY <1>1, <2>1, <2>5 DEF UndisturbedInv, ScanInv, StageInv
    <2> QED  BY <1>1, <2>1, <2>2, <2>4, <2>6, <2>7 DEF UndisturbedInv, Sound
<1> QED  BY <1>1, <1>3, <1>5, <1>6, <1>7 DEF ScanInv

LEMMA PlaceKept ==
    ASSUME NEW array \in Seq(AmfRecords), NEW len \in 0 .. Len(array), NEW p,
           p = 0 \/ (p \in 1 .. len /\ array[p].nfId = request.nfId),
           \A j \in DOMAIN array : array[j].nfId = request.nfId => j = p
    PROVE  /\ \A j \in DOMAIN array :
                 array[j].nfId = request.nfId => j = OwnPlace(request, array, len)
           /\ p # 0 => OwnPlace(request, array, len) = p
<1>1. DOMAIN array = 1 .. Len(array) /\ Len(array) \in Nat
    BY LenProperties
<1>2. CASE p = 0
    BY <1>1, <1>2
<1>3. CASE p # 0
    <2>1. /\ p \in 1 .. len /\ array[p].nfId = request.nfId
          /\ \A j \in 1 .. len : array[j].nfId = request.nfId => j = p
        BY <1>1, <1>3
    <2>2. OwnPlace(request, array, len) = p
        BY <2>1, PlaceIs
    <2> QED  BY <2>2
<1> QED  BY <1>2, <1>3

\* A record whose data is replaced stays where it is.
LEMMA WriteStep ==
    ASSUME ScanInv, NEW i \in 1 .. amfLen, NEW data \in AmfData, NEW moves \in BOOLEAN,
           ChangeAmfList([amfArray EXCEPT ![i].data = data], amfLen, moves),
           UNCHANGED oldArray
    PROVE  ScanInv'
<1> DEFINE array == [amfArray EXCEPT ![i].data = data]
<1>1. /\ amfArray \in [1 .. Len(amfArray) -> AmfRecords] /\ Len(amfArray) \in Nat
      /\ amfLen \in 0 .. Len(amfArray) /\ i \in 1 .. Len(amfArray)
      /\ Running
    BY LenProperties DEF ScanInv, ListInv, ChangeAmfList, MayChange, Running
<1>2. /\ array \in [1 .. Len(amfArray) -> AmfRecords]
      /\ \A j \in 1 .. Len(amfArray) : array[j].nfId = amfArray[j].nfId
    BY <1>1 DEF AmfRecords
<1>3. array \in Seq(AmfRecords) /\ Len(array) = Len(amfArray)
    BY <1>1, <1>2, LenProperties, SeqDef
<1>4. ChangeAmfList(array, amfLen, moves)
    OBVIOUS
<1> HIDE DEF array
<1>5. ASSUME ~disturbed
      PROVE  /\ \A j \in DOMAIN array :
                   array[j].nfId = request.nfId => j = OwnPlace(request, array, amfLen)
             /\ Place # 0 => OwnPlace(request, array, amfLen) = Place
    <2>1. /\ Place \in 0 .. amfLen
          /\ Place # 0 => amfArray[Place].nfId = request.nfId
          /\ OwnOnce
        BY <1>1, <1>5, PlaceFound DEF Place, ScanInv, ListInv, UndisturbedInv
    <2>2. Place = 0 \/ (Place \in 1 .. amfLen /\ array[Place].nfId = request.nfId)
        BY <1>1, <1>2, <2>1
    <2>3. \A j \in DOMAIN array : array[j].nfId = request.nfId => j = Place
        BY <1>1, <1>2, <2>1 DEF OwnOnce
    <2> QED  BY <1>1, <1>3, <2>2, <2>3, PlaceKept
<1> QED  BY <1>1, <1>3, <1>4, <1>5, ListChange

\* The new record comes behind the last, over what a DELETE left there.
LEMMA AppendStep == ASSUME ScanInv, PutAppend PROVE ScanInv'
<1>1. PICK n \in NfIds \ {amfArray[i].nfId : i \in 1 .. amfLen}, data \in AmfData :
         /\ ChangeAmfList(
               Append(SubSeq(amfArray, 1, amfLen), [nfId |-> n, data |-> data])
                   \o SubSeq(amfArray, amfLen + 2, Len(amfArray)),
               amfLen + 1, FALSE)
         /\ \/ UNCHANGED oldArray
            \/ /\ amfLen = Len(amfArray)
               /\ oldArray' = IF oldArray = <<>> THEN amfArray ELSE oldArray
    BY DEF PutAppend
<1> DEFINE record == [nfId |-> n, data |-> data]
           head == SubSeq(amfArray, 1, amfLen)
           tail == SubSeq(amfArray, amfLen + 2, Len(amfArray))
           array == Append(head, record) \o tail
<1>2. /\ amfArray \in Seq(AmfRecords) /\ Len(amfArray) \in Nat
      /\ DOMAIN amfArray = 1 .. Len(amfArray)
      /\ amfLen \in 0 .. Len(amfArray) /\ record \in AmfRecords /\ Running
    BY <1>1, LenProperties DEF ScanInv, ListInv, ChangeAmfList, MayChange, Running, AmfRecords
<1>3. amfLen \in Nat /\ Len(amfArray) \in Nat /\ amfLen <= Len(amfArray)
    BY <1>2
<1>4. ChangeAmfList(array, amfLen + 1, FALSE)
    BY <1>1
<1>5. /\ array \in Seq(AmfRecords)
      /\ Len(array) = IF amfLen = Len(amfArray) THEN amfLen + 1 ELSE Len(amfArray)
      /\ \A j \in 1 .. Len(array) :
            array[j] = IF j = amfLen + 1 THEN record ELSE amfArray[j]
    <2> HIDE DEF record
    <2>1. /\ head \in Seq(AmfRecords) /\ Len(head) = amfLen
          /\ \A j \in 1 .. amfLen : head[j] = amfArray[j]
        <3>1. /\ head \in Seq(AmfRecords)
              /\ Len(head) = IF 1 <= amfLen THEN amfLen - 1 + 1 ELSE 0
              /\ \A j \in 1 .. amfLen - 1 + 1 : head[j] = amfArray[1 + j - 1]
            BY <1>2, SubSeqProperties
        <3> QED  BY <1>2, <3>1
    <2>2. /\ tail \in Seq(AmfRecords)
          /\ Len(tail) = IF amfLen = Len(amfArray) THEN 0 ELSE Len(amfArray) - amfLen - 1
          /\ \A j \in 1 .. Len(tail) : tail[j] = amfArray[amfLen + 1 + j]
        <3>1. /\ tail \in Seq(AmfRecords)
              /\ Len(tail) = IF amfLen + 2 <= Len(amfArray)
                             THEN Len(amfArray) - (amfLen + 2) + 1 ELSE 0
              /\ \A j \in 1 .. Len(amfArray) - (amfLen + 2) + 1 :
                    tail[j] = amfArray[amfLen + 2 + j - 1]
            BY <1>2, SubSeqProperties
        <3> HIDE DEF tail
        <3>2. Len(tail) = IF amfLen = Len(amfArray) THEN 0 ELSE Len(amfArray) - amfLen - 1
            <4>1. Len(tail) = IF amfLen + 2 <= Len(amfArray)
                              THEN Len(amfArray) - (amfLen + 2) + 1 ELSE 0
                BY <3>1
            <4>2. \A k, m \in Nat : k <= m =>
                     (IF k + 2 <= m THEN m - (k + 2) + 1 ELSE 0)
                         = (IF k = m THEN 0 ELSE m - k - 1)
                OBVIOUS
            <4> QED  BY ONLY <1>3, <4>1, <4>2, Zenon
        <3>3. ASSUME NEW j \in 1 .. Len(tail)
              PROVE  tail[j] = amfArray[amfLen + 1 + j]
            <4>1. j \in Nat /\ 1 <= j /\ j <= Len(tail)
                BY <1>3, <3>2
            <4>2. amfLen # Len(amfArray) /\ j <= Len(amfArray) - amfLen - 1
                BY <1>3, <3>2, <4>1
            <4>3. /\ j \in 1 .. Len(amfArray) - (amfLen + 2) + 1
                  /\ amfLen + 2 + j - 1 = amfLen + 1 + j
                BY <1>3, <4>1, <4>2
            <4> QED  BY <3>1, <4>3
        <3> QED  BY <3>1, <3>2, <3>3
    <2> HIDE DEF head, tail
    <2> DEFINE front == Append(head, record)
    <2>3. /\ front \in Seq(AmfRecords) /\ Len(front) = amfLen + 1
          /\ \A j \in 1 .. amfLen : front[j] = amfArray[j]
          /\ front[amfLen + 1] = record
        BY <1>2, <2>1, AppendElements
    <2> HIDE DEF front
    <2>4. /\ front \o tail \in Seq(AmfRecords)
          /\ Len(front \o tail) = Len(front) + Len(tail)
          /\ \A j \in 1 .. Len(front) + Len(tail) :
                (front \o tail)[j] = IF j <= Len(front) THEN front[j]
                                     ELSE tail[j - Len(front)]
        BY <2>2, <2>3, ConcatProperties
    <2>5. array = front \o tail
        BY DEF front
    <2> HIDE DEF array
    <2>6. Len(array) = IF amfLen = Len(amfArray) THEN amfLen + 1 ELSE Len(amfArray)
        BY <1>2, <2>2, <2>3, <2>4, <2>5
    <2>7. ASSUME NEW j \in 1 .. Len(array)
          PROVE  array[j] = IF j = amfLen + 1 THEN record ELSE amfArray[j]
        <3>1. CASE j <= amfLen + 1
            BY <1>2, <2>2, <2>3, <2>4, <2>5, <2>6, <3>1
        <3>2. CASE j > amfLen + 1
            <4>1. j \in Int /\ amfLen \in Int /\ j - (amfLen + 1) \in 1 .. Len(tail)
                BY <1>3, <2>2, <2>6, <3>2
            <4>2. tail[j - (amfLen + 1)] = amfArray[j]
                <5> DEFINE k == j - (amfLen + 1)
                <5>1. k \in 1 .. Len(tail) /\ amfLen + 1 + k = j
                    BY <4>1
                <5> HIDE DEF k
                <5>2. tail[k] = amfArray[j]
                    BY <2>2, <5>1
                <5> QED  BY <5>2 DEF k
            <4>3. array[j] = tail[j - (amfLen + 1)]
                <5>1. j \in 1 .. Len(front) + Len(tail) /\ ~(j <= Len(front))
                    BY <1>3, <2>3, <2>4, <2>5, <3>2, <4>1
                <5> QED  BY <2>3, <2>4, <2>5, <5>1
            <4> QED  BY <3>2, <4>1, <4>2, <4>3
        <3> QED  BY <1>3, <2>6, <3>1, <3>2
    <2> QED  BY <2>4, <2>5, <2>6, <2>7
<1> HIDE DEF array
<1>6. /\ amfLen + 1 \in 0 .. Len(array) /\ Len(amfArray) <= Len(array)
      /\ DOMAIN array = 1 .. Len(array) /\ Len(array) \in Nat
    <2>1. DOMAIN array = 1 .. Len(array) /\ Len(array) \in Nat
        BY <1>5, LenProperties
    <2> QED  BY <1>3, <1>5, <2>1
<1> HIDE DEF record
<1>7. record.nfId = n
    BY DEF record
<1>8. ASSUME ~disturbed
      PROVE  /\ \A j \in DOMAIN array :
                   array[j].nfId = request.nfId => j = OwnPlace(request, array, amfLen + 1)
             /\ Place # 0 => OwnPlace(request, array, amfLen + 1) = Place
    <2>1. /\ Place \in 0 .. amfLen
          /\ Place # 0 => amfArray[Place].nfId = request.nfId
          /\ OwnOnce
        BY <1>2, <1>8, PlaceFound DEF Place, ScanInv, ListInv, UndisturbedInv
    <2> DEFINE p == IF n = request.nfId THEN amfLen + 1 ELSE Place
    <2>2. n = request.nfId => Place = 0
        <3>1. \A i \in 1 .. amfLen : amfArray[i].nfId # n
            BY <1>1
        <3> QED  BY <1>2, <2>1, <3>1
    <2>3. p = 0 \/ (p \in 1 .. amfLen + 1 /\ array[p].nfId = request.nfId)
        <3>1. amfLen + 1 \in 1 .. amfLen + 1 /\ array[amfLen + 1].nfId = n
            BY <1>3, <1>5, <1>6, <1>7
        <3>2. CASE n = request.nfId
            BY <3>1, <3>2
        <3>3. CASE n # request.nfId /\ Place # 0
            <4>1. Place \in 1 .. amfLen /\ Place \in 1 .. Len(array) /\ Place # amfLen + 1
                BY <1>3, <1>6, <2>1, <3>3
            <4>2. array[Place].nfId = request.nfId
                BY <1>5, <2>1, <3>3, <4>1
            <4> QED  BY <1>3, <3>3, <4>1, <4>2
        <3> QED  BY <3>2, <3>3
    <2>4. \A j \in DOMAIN array : array[j].nfId = request.nfId => j = p
        <3> TAKE j \in DOMAIN array
        <3> HAVE array[j].nfId = request.nfId
        <3>1. CASE j = amfLen + 1
            BY <1>2, <1>5, <1>6, <1>7, <3>1
        <3>2. CASE j # amfLen + 1
            <4>1. j \in DOMAIN amfArray /\ amfArray[j].nfId = request.nfId
                <5>1. j \in 1 .. Len(amfArray)
                    BY <1>3, <1>5, <1>6, <3>2
                <5>2. array[j] = amfArray[j]
                    BY <1>5, <1>6, <3>2
                <5> QED  BY <1>2, <5>1, <5>2
            <4>2. j = Place /\ j # 0
                BY <1>2, <2>1, <4>1 DEF OwnOnce
            <4> QED  BY <2>2, <4>2
        <3> QED  BY <3>1, <3>2
    <2> HIDE DEF p
    <2>5. /\ \A j \in DOMAIN array :
                array[j].nfId = request.nfId => j = OwnPlace(request, array, amfLen + 1)
          /\ p # 0 => OwnPlace(request, array, amfLen + 1) = p
        BY <1>5, <1>6, <2>3, <2>4, PlaceKept
    <2> QED  BY <2>2, <2>5 DEF p
<1>9. oldArray' = oldArray \/ (oldArray = <<>> /\ oldArray' = amfArray)
    BY <1>1
<1> QED  BY <1>4, <1>5, <1>6, <1>8, <1>9, ListChange

\* The records behind the removed one move up, in place.
LEMMA DeleteStep == ASSUME ScanInv, DeleteRecord PROVE ScanInv'
<1>1. PICK i \in 1 .. amfLen :
         /\ ChangeAmfList(
               [j \in DOMAIN amfArray |->
                   IF j \in i .. amfLen - 1 THEN amfArray[j + 1] ELSE amfArray[j]],
               amfLen - 1, i <= Place)
         /\ UNCHANGED oldArray
    BY DEF DeleteRecord, Place
<1> DEFINE array == [j \in DOMAIN amfArray |->
                       IF j \in i .. amfLen - 1 THEN amfArray[j + 1] ELSE amfArray[j]]
           moves == i <= Place
<1>2. /\ amfArray \in [1 .. Len(amfArray) -> AmfRecords] /\ Len(amfArray) \in Nat
      /\ DOMAIN amfArray = 1 .. Len(amfArray)
      /\ amfLen \in 0 .. Len(amfArray) /\ i \in 1 .. Len(amfArray)
      /\ Running
    BY <1>1, LenProperties DEF ScanInv, ListInv, ChangeAmfList, MayChange, Running
<1>3. array \in [1 .. Len(amfArray) -> AmfRecords]
    BY <1>1, <1>2
<1>4. array \in Seq(AmfRecords) /\ Len(array) = Len(amfArray)
      /\ DOMAIN array = 1 .. Len(amfArray)
    BY <1>2, <1>3, LenProperties, SeqDef
<1>5. ChangeAmfList(array, amfLen - 1, moves)
    BY <1>1
<1>6. \A j \in 1 .. Len(amfArray) :
         array[j] = IF j \in i .. amfLen - 1 THEN amfArray[j + 1] ELSE amfArray[j]
    BY <1>2
<1> HIDE DEF array
<1>7. /\ Place \in 0 .. amfLen
      /\ Place # 0 => amfArray[Place].nfId = request.nfId
    BY <1>2, PlaceFound DEF Place, ScanInv, ListInv
<1>8. ASSUME ~disturbed, ~moves
      PROVE  /\ \A j \in DOMAIN array :
                   array[j].nfId = request.nfId => j = OwnPlace(request, array, amfLen - 1)
             /\ Place # 0 => OwnPlace(request, array, amfLen - 1) = Place
    <2>1. OwnOnce /\ Place < i
        BY <1>1, <1>2, <1>7, <1>8 DEF ScanInv, UndisturbedInv
    <2>2. Place = 0 \/ (Place \in 1 .. amfLen - 1 /\ array[Place].nfId = request.nfId)
        BY <1>1, <1>2, <1>6, <1>7, <2>1
    <2>3. ASSUME NEW j \in DOMAIN array, array[j].nfId = request.nfId
          PROVE  j = Place
        <3>1. CASE j \in i .. amfLen - 1
            <4>1. j + 1 \in DOMAIN amfArray /\ amfArray[j + 1].nfId = request.nfId
                BY <1>1, <1>2, <1>4, <1>6, <2>3, <3>1
            <4>2. j + 1 = Place
                BY <2>1, <4>1 DEF OwnOnce
            <4> QED  BY <1>1, <1>2, <1>7, <2>1, <3>1, <4>2
        <3>2. CASE j \notin i .. amfLen - 1
            BY <1>2, <1>4, <1>6, <2>1, <2>3, <3>2 DEF OwnOnce
        <3> QED  BY <3>1, <3>2
    <2>4. amfLen - 1 \in 0 .. Len(array)
        BY <1>1, <1>2, <1>4
    <2> QED  BY <1>4, <2>2, <2>3, <2>4, PlaceKept
<1>9. moves \in BOOLEAN /\ amfLen - 1 \in 0 .. Len(array) /\ Len(amfArray) <= Len(array)
    BY <1>1, <1>2, <1>4
<1> HIDE DEF moves
<1> QED  BY <1>1, <1>4, <1>5, <1>8, <1>9, ListChange

LEMMA ScanStays ==
    ASSUME ScanInv,
           UNCHANGED <<pc, request, scanAt, scanLen, ownServes, next, allowed, amfArray,
                       amfLen, oldArray, ownLackedOnce, ownHadOnce, disturbed>>
    PROVE  ScanInv'
    BY DEF ScanInv, ListInv, StageInv, UndisturbedInv, Sound, OwnOnce, OldSeen, Ahead,
           SeenOnce, Own, Place, DataAt, Scanned, Running, SnssaisOf

\* PUT and PATCH write to a record, the poller does not touch the list.
LEMMA ChangeStep == ASSUME ScanInv, Change PROVE ScanInv'
<1>1. ASSUME StoreSupported PROVE ScanInv'
    <2>1. /\ UNCHANGED <<pc, request, scanAt, scanLen, ownServes, next, allowed, amfArray,
                         amfLen, oldArray, ownLackedOnce, ownHadOnce, disturbed>>
        BY <1>1 DEF StoreSupported, MayChange, asked, result
    <2> QED  BY <2>1, ScanStays
<1>2. ASSUME PutUpdate PROVE ScanInv'
    <2>1. PICK i \in 1 .. amfLen, data \in AmfData :
             /\ ChangeAmfList([amfArray EXCEPT ![i].data = data], amfLen, FALSE)
             /\ UNCHANGED oldArray
        BY <1>2 DEF PutUpdate
    <2> QED  BY <2>1, WriteStep
<1>3. ASSUME PatchFirst PROVE ScanInv'
    <2>1. PICK data \in AmfData :
             ChangeAmfList([amfArray EXCEPT ![1].data = data], amfLen,
                           amfArray[1].nfId = request.nfId)
        BY <1>3 DEF PatchFirst
    <2>2. 1 \in 1 .. amfLen /\ UNCHANGED oldArray
        BY <1>3, LenProperties DEF PatchFirst, ScanInv, ListInv
    <2> QED  BY <2>1, <2>2, WriteStep
<1> QED  BY <1>1, <1>2, <1>3, AppendStep, DeleteStep DEF Change

-----------------------------------------------------------------------------
(* The request.                                                            *)

LEMMA ParseStep == ASSUME ScanInv, ParseQuery PROVE ScanInv'
<1>1. /\ pc = "parse" /\ amfArray = InitialAmfList /\ amfLen = Len(InitialAmfList)
      /\ oldArray = <<>> /\ disturbed = FALSE
      /\ next = 1 /\ ownServes = "unknown"
      /\ amfArray \in Seq(AmfRecords) /\ amfLen \in 0 .. Len(amfArray)
    BY DEF ParseQuery, ScanInv, ListInv, StageInv
<1>2. UNCHANGED <<amfArray, amfLen, oldArray, disturbed, scanAt, scanLen, ownServes, next,
                  allowed>>
    BY DEF ParseQuery, config, scan
<1>3. pc' \in {"start", "answered"}
    BY DEF ParseQuery, Refuse
<1>4. ListInv' /\ StageInv' /\ Sound'
    BY <1>1, <1>2, <1>3 DEF ScanInv, ListInv, StageInv, Sound
<1>5. ASSUME Running' PROVE SeenOnce(Own)' /\ UndisturbedInv'
    <2>1. /\ pc' = "start"
          /\ ownHadOnce' = OwnData(request', amfArray, amfLen)
          /\ ownLackedOnce' = Snssais \ ownHadOnce'
        BY <1>5 DEF ParseQuery, Refuse, Running
    <2>2. SeenOnce(Own)'
        BY <1>2, <2>1 DEF SeenOnce, Own
    <2>3. DOMAIN amfArray = 1 .. amfLen /\ Len(amfArray) \in Nat
        BY <1>1, LenProperties
    <2>4. OwnOnce'
        <3> SUFFICES ASSUME NEW j \in DOMAIN amfArray, amfArray[j].nfId = request'.nfId
                     PROVE  j = OwnPlace(request', amfArray, amfLen)
            BY <1>2 DEF OwnOnce, Place
        <3>1. \A k \in 1 .. amfLen : amfArray[k].nfId = request'.nfId => k = j
            BY <1>1, <2>3, SelectionAssumption
        <3> QED  BY <1>1, <2>3, <3>1, PlaceIs
    <2>5. OldSeen'
        BY <1>1, <1>2, EmptySeq DEF OldSeen
    <2> QED  BY <1>1, <1>2, <2>1, <2>2, <2>4, <2>5 DEF UndisturbedInv
<1> QED  BY <1>4, <1>5 DEF ScanInv

\* Steps outside the scan: what they change of what ScanInv speaks of is the
\* place in the code, and the Allowed NSSAI before the scan.
LEMMA OutsideScan ==
    ASSUME ScanInv, pc \in {"start", "plmn", "session", "select", "refer", "configure"},
           UNCHANGED <<request, amfArray, amfLen, oldArray, ownLackedOnce, ownHadOnce,
                       disturbed, ownServes>>,
           pc \in {"refer", "configure"} => UNCHANGED allowed,
           pc' \in {"plmn", "session", "select"} =>
               UNCHANGED next /\ pc \notin {"refer", "configure"},
           pc' = "scan" =>
               /\ UNCHANGED next /\ pc = "select" /\ 1 \in 1 .. Len(allowed'),
           pc' \in {"plmn", "session", "select", "scan", "configure", "answered"}
    PROVE  ScanInv'
<1>1. ListInv' /\ StageInv'
    BY DEF ScanInv, ListInv, StageInv
<1>2. Running' => Running /\ SeenOnce(Own)'
    BY DEF ScanInv, Running, SeenOnce, Own
<1>3. ~disturbed' => Sound'
    BY DEF ScanInv, StageInv, Sound
<1>4. Running' /\ ~disturbed' => UndisturbedInv'
    <2>1. UndisturbedInv /\ ~disturbed => OwnOnce' /\ OldSeen'
        BY DEF UndisturbedInv, OwnOnce, OldSeen, Place, SeenOnce, DataAt
    <2>2. pc' = "scan" => next' = 1
        BY DEF ScanInv, StageInv
    <2>3. pc' = "scan" =>
              (\A i \in DOMAIN allowed : i < next => allowed[i].snssai \in ownHadOnce)'
        BY <2>2, LenProperties
    <2> QED  BY <1>2, <2>1, <2>3 DEF ScanInv, UndisturbedInv, Running
<1> QED  BY <1>1, <1>2, <1>3, <1>4 DEF ScanInv

LEMMA OutsideSteps ==
    ASSUME ScanInv, AllowedTyped',
           RejectHomePlmn \/ RejectTa \/ ReturnMapping \/ BeginSelection \/ CheckPlmn
               \/ Select \/ AddAmfInformation \/ SetConfigured \/ EndRegistration
               \/ EndSession
    PROVE  ScanInv'
<1>1. /\ pc \in {"start", "plmn", "session", "select", "refer", "configure"}
      /\ UNCHANGED <<request, amfArray, amfLen, oldArray, ownLackedOnce, ownHadOnce,
                     disturbed, ownServes>>
    BY DEF RejectHomePlmn, RejectTa, ReturnMapping, BeginSelection, CheckPlmn, Select,
           AddAmfInformation, SetConfigured, EndRegistration, EndSession,
           asked, config, history, scan, result
<1>2. pc \in {"refer", "configure"} => UNCHANGED allowed
    BY DEF RejectHomePlmn, RejectTa, ReturnMapping, BeginSelection, CheckPlmn, Select,
           AddAmfInformation, SetConfigured, EndRegistration, EndSession, result
<1>3. CASE RejectHomePlmn \/ RejectTa \/ ReturnMapping \/ EndRegistration \/ EndSession
    <2>1. pc' = "answered"
        BY <1>3 DEF RejectHomePlmn, RejectTa, ReturnMapping, EndRegistration, EndSession,
                    Answer, SelectNsi
    <2> QED  BY <1>1, <1>2, <2>1, OutsideScan
<1>4. CASE BeginSelection \/ CheckPlmn
    <2>1. /\ pc' \in {"plmn", "session", "select", "answered"} /\ UNCHANGED next
          /\ pc \notin {"refer", "configure"}
        BY <1>4 DEF BeginSelection, CheckPlmn, Answer
    <2> QED  BY <1>1, <1>2, <2>1, OutsideScan
<1>5. CASE Select
    <2>1. /\ pc = "select" /\ UNCHANGED next /\ pc' \in {"scan", "configure"}
          /\ pc' = "scan" => allowed' # <<>>
        BY <1>5 DEF Select
    <2>2. allowed' # <<>> => 1 \in 1 .. Len(allowed')
        <3>1. /\ Len(allowed') \in Nat
              /\ Len(allowed') = 0 => allowed' = <<>>
            BY LenProperties, EmptySeq DEF AllowedTyped
        <3> QED  BY <3>1
    <2> QED  BY <1>1, <1>2, <2>1, <2>2, OutsideScan
<1>6. CASE AddAmfInformation \/ SetConfigured
    <2>1. pc' = "configure"
        BY <1>6 DEF AddAmfInformation, SetConfigured
    <2> QED  BY <1>1, <1>2, <2>1, OutsideScan
<1> QED  BY <1>3, <1>4, <1>5, <1>6

\* The scan starts at the front of the array that holds the list now.
LEMMA StartStep == ASSUME ScanInv, ScanStart PROVE ScanInv'
<1>1. /\ pc = "scan" /\ pc' = "record" /\ scanAt' = 1 /\ scanLen' = amfLen
      /\ oldArray' = <<>>
      /\ UNCHANGED <<request, amfArray, amfLen, ownLackedOnce, ownHadOnce, disturbed,
                     ownServes, next, allowed>>
    BY DEF ScanStart, asked, config, history, result
<1>2. Scanned' = amfArray
    BY <1>1 DEF Scanned
<1>3. /\ ListInv /\ StageInv /\ Len(amfArray) \in Nat /\ DOMAIN amfArray = 1 .. Len(amfArray)
    BY LenProperties DEF ScanInv, ListInv
<1>4. ListInv' /\ StageInv'
    <2>1. <<>> \in Seq(AmfRecords)
        BY EmptySeq
    <2> QED  BY <1>1, <1>2, <1>3, <2>1 DEF ListInv, StageInv
<1>5. SeenOnce(Own) /\ SeenOnce(Own)'
    BY <1>1 DEF ScanInv, Running, SeenOnce, Own
<1>6. ASSUME ~disturbed PROVE UndisturbedInv' /\ Sound'
    <2>1. UndisturbedInv /\ Sound
        BY <1>1, <1>6 DEF ScanInv, Running
    <2>2. OwnOnce'
        BY <1>1, <2>1 DEF UndisturbedInv, OwnOnce, Place
    <2>3. OldSeen'
        BY <1>1, EmptySeq DEF OldSeen
    <2>4. /\ Place \in 0 .. amfLen
          /\ Place # 0 => amfArray[Place].nfId = request.nfId
        BY <1>3, PlaceFound DEF Place, ListInv
    <2>5. Ahead'
        <3>1. CASE Place = 0
            <4>1. Own = {}
                BY <3>1 DEF Own, OwnData, Place
            <4>2. Snssais \subseteq ownLackedOnce
                BY <1>5, <4>1 DEF SeenOnce
            <4> QED  BY <1>1, <4>2 DEF Ahead
        <3>2. CASE Place # 0
            <4>1. Place \in DOMAIN amfArray /\ 1 <= Place /\ Place <= amfLen
                BY <1>3, <2>4, <3>2 DEF ListInv
            <4> QED  BY <1>1, <1>2, <2>4, <3>2, <4>1 DEF Ahead
        <3> QED  BY <3>1, <3>2
    <2> QED  BY <1>1, <2>1, <2>2, <2>3, <2>5 DEF UndisturbedInv, Sound
<1> QED  BY <1>1, <1>4, <1>5, <1>6 DEF ScanInv

\* A scan that ends has passed no record of the asking AMF.
LEMMA RecordStep == ASSUME ScanInv, AllowedTyped, ScanRecord PROVE ScanInv'
<1>1. /\ pc = "record" /\ pc' \in {"record", "data", "refer"}
      /\ UNCHANGED <<request, amfArray, amfLen, oldArray, scanLen, ownLackedOnce,
                     ownHadOnce, disturbed, next, allowed>>
    BY DEF ScanRecord, asked, config, history, result
<1>2. Scanned' = Scanned
    BY <1>1 DEF Scanned
<1>3. /\ next \in 1 .. Len(allowed) /\ ownServes = "unknown"
      /\ scanAt \in Nat \ {0} /\ scanLen \in 0 .. Len(Scanned)
      /\ Len(Scanned) \in Nat /\ DOMAIN Scanned = 1 .. Len(Scanned)
    BY <1>1, LenProperties DEF ScanInv, ListInv, StageInv, Scanned
<1>4. scanAt \in Nat /\ scanLen \in Nat
    BY <1>3
<1>5. \/ pc' = "refer" /\ ownServes' = "no" /\ scanAt > scanLen /\ UNCHANGED scanAt
      \/ /\ pc' = "data" /\ ~(scanAt > scanLen) /\ Scanned[scanAt].nfId = request.nfId
         /\ UNCHANGED <<scanAt, ownServes>>
      \/ /\ pc' = "record" /\ scanAt' = scanAt + 1 /\ UNCHANGED ownServes
         /\ Scanned[scanAt].nfId # request.nfId
    BY <1>1 DEF ScanRecord, ScanEnded
<1>6. ListInv'
    BY <1>1 DEF ScanInv, ListInv
<1>7. /\ scanAt' \in Nat \ {0}
      /\ pc' = "data" => scanAt' <= scanLen'
    BY <1>1, <1>3, <1>4, <1>5
<1>8. StageInv'
    BY <1>1, <1>2, <1>3, <1>5, <1>7 DEF StageInv
<1>9. SeenOnce(Own)'
    BY <1>1 DEF ScanInv, Running, SeenOnce, Own
<1>10. ASSUME ~disturbed PROVE UndisturbedInv' /\ Sound'
    <2>1. UndisturbedInv /\ Ahead
        BY <1>1, <1>10 DEF ScanInv, Running, UndisturbedInv
    <2>2. OwnOnce' /\ OldSeen'
        BY <1>1, <2>1 DEF UndisturbedInv, OwnOnce, OldSeen, Place, SeenOnce, DataAt
    <2>3. pc' \in {"record", "data"} => Ahead'
        <3>1. ASSUME NEW p \in DOMAIN Scanned, scanAt <= p, Scanned[p].nfId = request.nfId,
                     pc' \in {"record", "data"}
              PROVE  scanAt' <= p
            BY <1>3, <1>4, <1>5, <3>1
        <3> QED  BY <1>1, <1>2, <2>1, <3>1 DEF Ahead
    <2>4. (pc = "data" => Scanned[scanAt].nfId = request.nfId)'
        BY <1>1, <1>2, <1>5
    <2>5. UndisturbedInv'
        BY <1>1, <2>1, <2>2, <2>3, <2>4 DEF UndisturbedInv
    <2>6. pc' = "refer" => SnssaisOf(allowed) \cap ownLackedOnce # {}
        <3>1. pc' = "refer" => Snssais \subseteq ownLackedOnce
            <4>1. pc' = "refer" => scanAt > scanLen
                BY <1>5
            <4>2. ASSUME scanAt > scanLen, NEW p \in 1 .. Len(Scanned),
                         scanAt <= p, p <= scanLen
                  PROVE  FALSE
                BY <1>4, <4>2
            <4> QED  BY <1>3, <2>1, <4>1, <4>2 DEF Ahead
        <3>2. allowed[next].snssai \in Snssais \cap SnssaisOf(allowed)
            <4>1. next \in DOMAIN allowed /\ allowed[next] \in Elements
                BY <1>3, LenProperties, ElementOfSeq DEF AllowedTyped
            <4> QED  BY <4>1 DEF Elements, SnssaisOf
        <3> QED  BY <3>1, <3>2
    <2>7. Sound'
        <3>1. /\ ownServes' # "yes" /\ (ownServes' = "no" => pc' = "refer")
            BY <1>3, <1>5
        <3> QED  BY <1>1, <2>6, <3>1 DEF Sound
    <2> QED  BY <2>5, <2>7
<1> QED  BY <1>1, <1>6, <1>8, <1>9, <1>10 DEF ScanInv

\* The data of the record found is the AMF's, or was when append left it behind.
LEMMA DataStep == ASSUME ScanInv, AllowedTyped, ScanData PROVE ScanInv'
<1>1. /\ pc = "data" /\ pc' \in {"refer", "scan", "configure"}
      /\ UNCHANGED <<request, amfArray, amfLen, oldArray, scanAt, scanLen, ownLackedOnce,
                     ownHadOnce, disturbed, allowed>>
    BY DEF ScanData, asked, config, history, result
<1> DEFINE s == allowed[next].snssai
           serves == <<request.tai, s>> \in Scanned[scanAt].data
<1>2. \/ ~serves /\ ownServes' = "no" /\ pc' = "refer"
      \/ /\ serves /\ next < Len(allowed) /\ next' = next + 1 /\ pc' = "scan"
         /\ UNCHANGED ownServes
      \/ serves /\ next = Len(allowed) /\ ownServes' = "yes" /\ pc' = "configure"
    BY DEF ScanData
<1>3. /\ next \in 1 .. Len(allowed) /\ ownServes = "unknown"
      /\ scanAt \in Nat \ {0} /\ scanLen \in 0 .. Len(Scanned) /\ scanAt <= scanLen
      /\ Len(Scanned) \in Nat /\ DOMAIN Scanned = 1 .. Len(Scanned)
      /\ Len(allowed) \in Nat /\ DOMAIN allowed = 1 .. Len(allowed)
    BY <1>1, LenProperties DEF ScanInv, ListInv, StageInv, Scanned, AllowedTyped
<1>4. s \in Snssais /\ s \in SnssaisOf(allowed)
    <2>1. allowed[next] \in Elements
        BY <1>3, ElementOfSeq DEF AllowedTyped
    <2>2. next \in DOMAIN allowed
        BY <1>3
    <2> QED  BY <2>1, <2>2 DEF Elements, SnssaisOf
<1> HIDE DEF s
<1>5. next \in Nat /\ 1 <= next /\ next <= Len(allowed)
    BY <1>3
<1>6. ListInv'
    BY <1>1 DEF ScanInv, ListInv
<1>7. pc' = "scan" => next' \in 1 .. Len(allowed)
    BY <1>1, <1>2, <1>3, <1>5
<1>8. StageInv'
    BY <1>1, <1>2, <1>3, <1>7 DEF StageInv
<1>9. SeenOnce(Own) /\ SeenOnce(Own)'
    BY <1>1 DEF ScanInv, Running, SeenOnce, Own
<1>10. ASSUME ~disturbed PROVE UndisturbedInv' /\ Sound'
    <2>1. /\ UndisturbedInv /\ OwnOnce /\ OldSeen
          /\ Scanned[scanAt].nfId = request.nfId
        BY <1>1, <1>10 DEF ScanInv, Running, UndisturbedInv
    <2>2. scanAt \in DOMAIN Scanned
        BY <1>3
    <2>3. SeenOnce(DataAt(Scanned, scanAt))
        <3>1. CASE oldArray = <<>>
            <4>1. Scanned = amfArray /\ scanAt = Place /\ Place # 0
                BY <1>3, <2>1, <2>2, <3>1 DEF Scanned, OwnOnce
            <4>2. DataAt(Scanned, scanAt) = Own
                BY <4>1 DEF DataAt, Own, OwnData, Place
            <4> QED  BY <1>9, <4>2
        <3>2. CASE oldArray # <<>>
            BY <2>1, <2>2, <3>2 DEF Scanned, OldSeen
        <3> QED  BY <3>1, <3>2
    <2>4. (serves => s \in ownHadOnce) /\ (~serves => s \in ownLackedOnce)
        BY <1>4, <2>3 DEF SeenOnce, DataAt
    <2>5. \A i \in DOMAIN allowed : i < next => allowed[i].snssai \in ownHadOnce
        BY <1>1, <2>1 DEF UndisturbedInv
    <2>6. serves => \A i \in DOMAIN allowed : i <= next => allowed[i].snssai \in ownHadOnce
        <3> SUFFICES ASSUME serves, NEW i \in DOMAIN allowed, i <= next
                     PROVE  allowed[i].snssai \in ownHadOnce
            OBVIOUS
        <3>1. i < next \/ i = next
            BY <1>3, <1>5
        <3> QED  BY <2>4, <2>5, <3>1 DEF s
    <2>7. OwnOnce' /\ OldSeen'
        BY <1>1, <2>1 DEF OwnOnce, OldSeen, Place, SeenOnce, DataAt
    <2>8. pc' = "scan" =>
             \A i \in DOMAIN allowed : i < next' => allowed[i].snssai \in ownHadOnce
        <3> SUFFICES ASSUME pc' = "scan", NEW i \in DOMAIN allowed, i < next'
                     PROVE  allowed[i].snssai \in ownHadOnce
            OBVIOUS
        <3>1. serves /\ next' = next + 1
            BY <1>2
        <3>2. i <= next
            BY <1>3, <1>5, <3>1
        <3> QED  BY <2>6, <3>1, <3>2
    <2>9. UndisturbedInv'
        BY <1>1, <2>7, <2>8 DEF UndisturbedInv
    <2>10. ownServes' = "yes" => SnssaisOf(allowed) \subseteq ownHadOnce
        <3>1. ownServes' = "yes" => serves /\ next = Len(allowed)
            BY <1>2, <1>3
        <3>2. \A i \in DOMAIN allowed : i <= Len(allowed)
            BY <1>3
        <3> QED  BY <2>6, <3>1, <3>2 DEF SnssaisOf
    <2>11. ownServes' = "no" => s \in ownLackedOnce
        BY <1>2, <1>3, <2>4
    <2> QED  BY <1>1, <1>4, <2>9, <2>10, <2>11 DEF Sound
<1> QED  BY <1>1, <1>6, <1>8, <1>9, <1>10 DEF ScanInv

-----------------------------------------------------------------------------

LEMMA ScanInit == Init => ScanInv
<1> SUFFICES ASSUME Init PROVE ScanInv
    OBVIOUS
<1>1. /\ pc = "parse" /\ next = 1 /\ ownServes = "unknown" /\ disturbed = FALSE
      /\ amfArray = InitialAmfList /\ amfLen = Len(InitialAmfList) /\ oldArray = <<>>
    BY DEF Init
<1>2. /\ InitialAmfList \in Seq(AmfRecords) /\ <<>> \in Seq(AmfRecords)
      /\ Len(InitialAmfList) \in Nat
    BY SelectionAssumption, LenProperties, EmptySeq
<1> QED  BY <1>1, <1>2 DEF ScanInv, ListInv, StageInv, Running, Sound

LEMMA ScanStep ==
    ASSUME ScanInv, AllowedTyped, AllowedTyped', [Next]_vars
    PROVE  ScanInv'
<1>1. CASE UNCHANGED vars
    BY <1>1, ScanStays DEF vars, asked, config, history, scan, result
<1>2. CASE Next
    BY <1>2, ChangeStep, ParseStep, OutsideSteps, StartStep, RecordStep, DataStep
       DEF Next, Registration
<1> QED  BY <1>1, <1>2

-----------------------------------------------------------------------------
(* The request, and what the configuration says of it.                     *)

Deciding == pc \in {"scan", "record", "data", "refer", "configure"}

RequestInv ==
    /\ pc = "parse" =>
          /\ status = "none" /\ query \in QueryRecords(NfIds, Plmns, Tais)
          /\ sent # NoRequest =>
                sent \in Requests /\ query \in {EncodeExploded(sent), EncodeJson(sent)}
    /\ Running => request \in RequestRecords(NfIds, Plmns, Tais) /\ status = "none"
    /\ Running /\ pc # "start" => HomeSupported /\ TaSupported
    /\ pc = "session" => request.kind = "session"

RequestTyped == request \in RequestRecords(NfIds, Plmns, Tais)

LEMMA RequestFields ==
    ASSUME RequestTyped
    PROVE  /\ request.subscribed \in Seq(SubscribedRecords)
           /\ request.requested \in Seq(Snssais) /\ request.forMapping \in Seq(Snssais)
           /\ request.mapping \in Seq(Tuples(Snssais)) /\ request.snssai \in Snssais
           /\ Len(request.subscribed) \in Nat
           /\ DOMAIN request.subscribed = 1 .. Len(request.subscribed)
           /\ \A i \in DOMAIN request.subscribed :
                 request.subscribed[i] \in SubscribedRecords
                     /\ request.subscribed[i].snssai \in Snssais
           /\ Subscribed \subseteq Snssais /\ NoSnssai \notin Subscribed
           /\ Asked \in Seq(Snssais)
<1>1. /\ request.subscribed \in Seq(SubscribedRecords)
      /\ request.requested \in Seq(Snssais) /\ request.forMapping \in Seq(Snssais)
      /\ request.mapping \in Seq(Tuples(Snssais)) /\ request.snssai \in Snssais
    BY DEF RequestTyped, RequestRecords
<1>2. /\ Len(request.subscribed) \in Nat
      /\ DOMAIN request.subscribed = 1 .. Len(request.subscribed)
      /\ \A i \in DOMAIN request.subscribed : request.subscribed[i] \in SubscribedRecords
    BY <1>1, LenProperties, ElementOfSeq
<1>3. \A i \in DOMAIN request.subscribed : request.subscribed[i].snssai \in Snssais
    BY <1>2 DEF SubscribedRecords
<1>4. Subscribed \subseteq Snssais /\ NoSnssai \notin Subscribed
    BY <1>3, QueryAssumption DEF Subscribed
<1>5. Asked \in Seq(Snssais)
    BY <1>1 DEF Asked
<1> QED  BY <1>1, <1>2, <1>3, <1>4, <1>5

LEMMA HomeOfType ==
    ASSUME RequestTyped, NEW s \in Snssais
    PROVE  HomeOf(s) \in Snssais \cup {NoSnssai} /\ (~NeedsMapping(s) => HomeOf(s) = s)
<1> DEFINE I == {i \in 1 .. Len(request.mapping) : request.mapping[i].serving = s}
           i == SelectInSeq(request.mapping, LAMBDA m : m.serving = s)
<1>1. request.mapping \in Seq(Tuples(Snssais))
    BY RequestFields
<1>2. \A j \in 1 .. Len(request.mapping) : request.mapping[j].home \in Snssais
    <2>1. \A j \in 1 .. Len(request.mapping) : request.mapping[j] \in Tuples(Snssais)
        BY <1>1, ElementOfSeq
    <2> QED  BY <2>1 DEF Tuples
<1>3. i = IF I # {} THEN Min(I) ELSE 0
    BY DEF SelectInSeq
<1>4. I # {} => Min(I) \in 1 .. Len(request.mapping)
    <2>1. I \in SUBSET Nat /\ I \subseteq 1 .. Len(request.mapping)
        OBVIOUS
    <2> HIDE DEF I
    <2> QED  BY <2>1, MinInSet
<1>5. /\ HomeOf(s) = IF ~NeedsMapping(s) THEN s
                     ELSE IF i = 0 THEN NoSnssai ELSE request.mapping[i].home
    BY DEF HomeOf
<1> HIDE DEF i, I
<1> QED  BY <1>2, <1>3, <1>4, <1>5

LEMMA ServingOfType ==
    ASSUME RequestTyped, HomeSupported, NEW s \in Snssais
    PROVE  ServingOf(s) \in Snssais \cup {NoSnssai} /\ (~NeedsMapping(s) => ServingOf(s) = s)
<1> DEFINE mapping == IF NoMappingOfPlmn THEN <<>> ELSE MappingOfPlmn[request.home]
           I == {i \in 1 .. Len(mapping) : mapping[i].home = s}
           i == SelectInSeq(mapping, LAMBDA m : m.home = s)
<1>1. NeedsMapping(s) => mapping \in Seq(Tuples(Snssais))
    BY SelectionAssumption, EmptySeq DEF NeedsMapping, HomeSupported, NoMappingOfPlmn
<1>2. NeedsMapping(s) => \A j \in 1 .. Len(mapping) : mapping[j].serving \in Snssais
    <2> HIDE DEF mapping
    <2>1. NeedsMapping(s) => \A j \in 1 .. Len(mapping) : mapping[j] \in Tuples(Snssais)
        BY <1>1, ElementOfSeq
    <2> QED  BY <2>1 DEF Tuples
<1>3. i = IF I # {} THEN Min(I) ELSE 0
    BY DEF SelectInSeq
<1>4. I # {} => Min(I) \in 1 .. Len(mapping)
    <2>1. I \in SUBSET Nat /\ I \subseteq 1 .. Len(mapping)
        OBVIOUS
    <2> HIDE DEF I
    <2> QED  BY <2>1, MinInSet
<1>5. /\ ServingOf(s) = IF ~NeedsMapping(s) THEN s
                        ELSE IF i = 0 THEN NoSnssai ELSE mapping[i].serving
    BY DEF ServingOf
<1> HIDE DEF i, I, mapping
<1> QED  BY <1>2, <1>3, <1>4, <1>5

LEMMA ElementTypes ==
    ASSUME RequestTyped, NEW s \in Snssais
    PROVE  /\ RequestedElement(s) \in Elements
           /\ HomeSupported /\ ServingOf(s) # NoSnssai => SubscribedElement(s) \in Elements
<1>1. RequestedElement(s) \in Elements
    BY HomeOfType DEF RequestedElement, Elements
<1>2. HomeSupported /\ ServingOf(s) # NoSnssai => SubscribedElement(s) \in Elements
    BY ServingOfType DEF SubscribedElement, Elements
<1> QED  BY <1>1, <1>2

\* An Allowed NSSAI is the front of the list it is made from, as long as allowed.
LEMMA AddAllowedFront ==
    ASSUME NEW S, NEW list \in Seq(S)
    PROVE  /\ AddAllowed(list) \in Seq(S) /\ Len(AddAllowed(list)) <= AllowedNssaiNum
           /\ \A i \in DOMAIN AddAllowed(list) :
                 i \in DOMAIN list /\ AddAllowed(list)[i] = list[i]
           /\ Len(AddAllowed(list)) < AllowedNssaiNum => AddAllowed(list) = list
<1> DEFINE m == IF Len(list) < AllowedNssaiNum THEN Len(list) ELSE AllowedNssaiNum
           front == SubSeq(list, 1, m)
<1>1. Len(list) \in Nat /\ DOMAIN list = 1 .. Len(list) /\ AllowedNssaiNum \in Nat \ {0}
    BY LenProperties, SelectionAssumption
<1>2. /\ m \in Nat /\ m \in 1 - 1 .. Len(list) /\ m <= AllowedNssaiNum
      /\ m < AllowedNssaiNum => m = Len(list)
    <2>1. \A l \in Nat, n \in Nat :
             LET k == IF l < n THEN l ELSE n IN
             /\ k \in Nat /\ k \in 1 - 1 .. l /\ k <= n
             /\ k < n => k = l
        OBVIOUS
    <2> QED  BY <1>1, <2>1
<1>3. AddAllowed(list) = front
    BY DEF AddAllowed
<1> HIDE DEF m
<1>4. /\ front \in Seq(S) /\ Len(front) = m
      /\ \A i \in 1 .. m : front[i] = list[i]
    <2>1. /\ front \in Seq(S) /\ Len(front) = IF 1 <= m THEN m - 1 + 1 ELSE 0
          /\ \A i \in 1 .. m - 1 + 1 : front[i] = list[1 + i - 1]
        <3>1. 1 \in 1 .. Len(list) + 1
            BY <1>1
        <3> QED  BY <1>2, <3>1, SubSeqProperties
    <2> QED  BY <1>2, <2>1
<1> HIDE DEF front
<1>5. DOMAIN front = 1 .. m
    BY <1>4, LenProperties
<1>6. \A i \in 1 .. m : i \in 1 .. Len(list)
    <2>1. \A k \in Nat, l \in Nat : k \in 1 - 1 .. l => 1 .. k \subseteq 1 .. l
        OBVIOUS
    <2>2. 1 .. m \subseteq 1 .. Len(list)
        BY <1>1, <1>2, <2>1
    <2> QED  BY <2>2
<1>7. m < AllowedNssaiNum => front = list
    BY <1>1, <1>2, <1>4, SeqEqual
<1> QED  BY <1>1, <1>2, <1>3, <1>4, <1>5, <1>6, <1>7

-----------------------------------------------------------------------------
(* The decision.                                                           *)

\* What may be allowed: the TA supports it, and the UE is subscribed to it at home.
Entitled(e) ==
    /\ ~NotInTa(e.snssai)
    /\ (IF e.home = NoSnssai THEN e.snssai ELSE e.home) \in Subscribed
    /\ ~Roaming => e.home = NoSnssai

\* What Select leaves, and nothing changes afterwards.
Outcome ==
    /\ ToSet(rejectedInTa) = {s \in ToSet(request.requested) : NotInTa(s)}
    /\ ToSet(rejectedInPlmn) = {s \in ToSet(request.requested) : InvalidInPlmn(s)}
    /\ \A i \in DOMAIN allowed : Entitled(allowed[i])
    /\ Len(allowed) < AllowedNssaiNum =>
          \A s \in ToSet(request.requested) : Permitted(s) => s \in SnssaisOf(allowed)

DecisionInv == Deciding \/ Selected => Outcome

LEMMA EntitledRequested ==
    ASSUME RequestTyped, NEW s \in Snssais, Permitted(s)
    PROVE  /\ RequestedElement(s) \in Elements /\ Entitled(RequestedElement(s))
           /\ RequestedElement(s).snssai = s
<1>1. HomeOf(s) # NoSnssai /\ HomeOf(s) \in Subscribed /\ ~NotInTa(s)
    BY RequestFields DEF Permitted
<1>2. ~NeedsMapping(s) => HomeOf(s) = s
    BY HomeOfType
<1>3. ~Roaming => ~NeedsMapping(s)
    BY DEF NeedsMapping
<1>4. RequestedElement(s) = [snssai |-> s, home |-> IF NeedsMapping(s) THEN HomeOf(s) ELSE NoSnssai]
    BY DEF RequestedElement
<1> QED  BY <1>1, <1>2, <1>3, <1>4, ElementTypes DEF Entitled

LEMMA EntitledDefault ==
    ASSUME RequestTyped, HomeSupported, NEW e \in SubscribedRecords,
           e.snssai \in Subscribed, UsableDefault(e)
    PROVE  /\ SubscribedElement(e.snssai) \in Elements
           /\ Entitled(SubscribedElement(e.snssai))
<1> DEFINE s == e.snssai
<1>1. /\ s \in Subscribed /\ s \in Snssais /\ s # NoSnssai
      /\ ServingOf(s) # NoSnssai /\ ~NotInTa(ServingOf(s))
    BY RequestFields DEF UsableDefault
<1> HIDE DEF s
<1>2. ~NeedsMapping(s) => ServingOf(s) = s
    BY <1>1, ServingOfType
<1>3. ~Roaming => ~NeedsMapping(s)
    BY DEF NeedsMapping
<1>4. SubscribedElement(s) = [snssai |-> ServingOf(s), home |-> IF NeedsMapping(s) THEN s ELSE NoSnssai]
    BY DEF SubscribedElement
<1>5. SubscribedElement(s) \in Elements
    BY <1>1, ElementTypes
<1>6. Entitled(SubscribedElement(s))
    BY <1>1, <1>2, <1>3, <1>4 DEF Entitled
<1> QED  BY <1>5, <1>6 DEF s

\* The elements kept of a list have what they were kept for.
LEMMA Kept ==
    ASSUME NEW S, NEW T, NEW list \in Seq(S), NEW P \in SUBSET DOMAIN list,
           \A i \in P : list[i] \in T
    PROVE  AtPlaces(list, P) \in Seq(T)
<1>1. AtPlaces(list, P) \in Seq({list[i] : i \in P})
    BY AtPlacesOfSeq
<1>2. {list[i] : i \in P} \subseteq T
    OBVIOUS
<1> QED  BY <1>1, <1>2, SeqMonotonic

LEMMA SelectAllows ==
    ASSUME RequestTyped, HomeSupported, Select
    PROVE  /\ allowed' \in Seq(Elements) /\ Len(allowed') <= AllowedNssaiNum
           /\ \A i \in DOMAIN allowed' : Entitled(allowed'[i])
           /\ Len(allowed') < AllowedNssaiNum =>
                 \A s \in ToSet(request.requested) :
                     Permitted(s) => s \in {allowed'[i].snssai : i \in DOMAIN allowed'}
<1> DEFINE requested == request.requested
           subscribed == request.subscribed
           P == {i \in DOMAIN requested : Permitted(requested[i])}
           D == {i \in DOMAIN subscribed : UsableDefault(subscribed[i])}
           permitted == AtPlaces(requested, P)
           defaults == AtPlaces(subscribed, D)
           ofRequested == [i \in DOMAIN permitted |-> RequestedElement(permitted[i])]
           ofDefaults == [i \in DOMAIN defaults |-> SubscribedElement(defaults[i].snssai)]
           chosen == IF permitted # <<>> THEN ofRequested ELSE ofDefaults
           G == {e \in Elements : Entitled(e)}
           PS == {s \in Snssais : Permitted(s)}
           DS == {e \in SubscribedRecords : e.snssai \in Subscribed /\ UsableDefault(e)}
<1>1. allowed' = AddAllowed(chosen)
    BY DEF Select, Filter, ListOf
<1>2. /\ requested \in Seq(Snssais) /\ subscribed \in Seq(SubscribedRecords)
      /\ \A i \in DOMAIN requested : requested[i] \in Snssais
      /\ \A i \in DOMAIN subscribed :
            subscribed[i] \in SubscribedRecords /\ subscribed[i].snssai \in Subscribed
    BY RequestFields, LenProperties, ElementOfSeq DEF Subscribed
<1>3. P \in SUBSET DOMAIN requested /\ D \in SUBSET DOMAIN subscribed
    OBVIOUS
<1>4. (\A i \in P : requested[i] \in PS) /\ (\A i \in D : subscribed[i] \in DS)
    BY <1>2
<1>5. permitted \in Seq(PS) /\ defaults \in Seq(DS)
    <2> HIDE DEF P, D, PS, DS
    <2>1. permitted \in Seq(PS)
        BY <1>2, <1>3, <1>4, Kept
    <2>2. defaults \in Seq(DS)
        BY <1>2, <1>3, <1>4, Kept
    <2> QED  BY <2>1, <2>2
<1>6. /\ Len(permitted) \in Nat /\ DOMAIN permitted = 1 .. Len(permitted)
      /\ \A i \in DOMAIN permitted : permitted[i] \in PS
      /\ Len(defaults) \in Nat /\ DOMAIN defaults = 1 .. Len(defaults)
      /\ \A i \in DOMAIN defaults : defaults[i] \in DS
    <2> HIDE DEF permitted, defaults, PS, DS
    <2> QED  BY <1>5, LenProperties, ElementOfSeq
<1>7. ofRequested \in Seq(G) /\ DOMAIN ofRequested = DOMAIN permitted
    <2>1. \A i \in DOMAIN permitted : RequestedElement(permitted[i]) \in G
        BY <1>6, EntitledRequested
    <2> HIDE DEF permitted, G
    <2>2. ofRequested \in [1 .. Len(permitted) -> G]
        BY <1>6, <2>1
    <2> QED  BY <1>6, <2>2, ListType
<1>8. ofDefaults \in Seq(G)
    <2>1. \A i \in DOMAIN defaults : SubscribedElement(defaults[i].snssai) \in G
        BY <1>6, EntitledDefault
    <2> HIDE DEF defaults, G
    <2>2. ofDefaults \in [1 .. Len(defaults) -> G]
        BY <1>6, <2>1
    <2> QED  BY <1>6, <2>2, ListType
<1>9. chosen \in Seq(G)
    BY <1>7, <1>8
<1>10. /\ allowed' \in Seq(G) /\ Len(allowed') <= AllowedNssaiNum
       /\ Len(allowed') < AllowedNssaiNum => allowed' = chosen
    <2> HIDE DEF chosen, G
    <2> QED  BY <1>1, <1>9, AddAllowedFront
<1>11. allowed' \in Seq(Elements)
    <2>1. G \subseteq Elements
        OBVIOUS
    <2> HIDE DEF G
    <2> QED  BY <1>10, <2>1, SeqMonotonic
<1>12. \A i \in DOMAIN allowed' : Entitled(allowed'[i])
    <2>1. \A i \in DOMAIN allowed' : allowed'[i] \in G
        <3> HIDE DEF G
        <3> QED  BY <1>10, LenProperties, ElementOfSeq
    <2> QED  BY <2>1
<1>13. ASSUME NEW s \in ToSet(requested), Permitted(s)
       PROVE  s \in {chosen[i].snssai : i \in DOMAIN chosen}
    <2>1. PICK i \in P : s = requested[i]
        BY <1>13 DEF ToSet
    <2>2. s \in ToSet(permitted) /\ permitted # <<>>
        <3> HIDE DEF P
        <3>1. ToSet(permitted) = {requested[j] : j \in P}
            <4>1. Len(requested) \in Nat /\ P \in SUBSET (1 .. Len(requested))
                BY <1>2, <1>3, LenProperties
            <4> HIDE DEF requested
            <4> QED  BY <4>1, AtPlacesSet
        <3>2. permitted # <<>>
            BY <1>2, <1>3, <2>1, AtPlacesOfSeq
        <3> QED  BY <2>1, <3>1, <3>2
    <2>3. PICK k \in DOMAIN permitted : permitted[k] = s
        BY <2>2 DEF ToSet
    <2>4. s \in Snssais
        BY <1>2, <2>1
    <2> HIDE DEF permitted
    <2>5. chosen = ofRequested /\ k \in DOMAIN chosen /\ chosen[k] = RequestedElement(s)
        BY <2>2, <2>3
    <2>6. chosen[k].snssai = s
        BY <1>13, <2>4, <2>5, EntitledRequested
    <2> QED  BY <2>5, <2>6
<1> HIDE DEF chosen
<1> QED  BY <1>10, <1>11, <1>12, <1>13

\* The mapping of the configuration is told like an Allowed NSSAI.
LEMMA MappingAllows ==
    ASSUME RequestTyped, ReturnMapping, ~UNCHANGED allowed
    PROVE  allowed' \in Seq(Elements) /\ Len(allowed') <= AllowedNssaiNum
<1> DEFINE all == ListOf(LAMBDA e : e.snssai, request.subscribed) \o request.forMapping
           P == {i \in DOMAIN all : NeedsMapping(all[i]) /\ ServingOf(all[i]) # NoSnssai}
           wanted == AtPlaces(all, P)
           WS == {s \in Snssais : ServingOf(s) # NoSnssai}
           list == [i \in DOMAIN wanted |-> SubscribedElement(wanted[i])]
<1>1. HomeSupported /\ allowed' = AddAllowed(list)
    BY DEF ReturnMapping, Filter, ListOf
<1>2. all \in Seq(Snssais)
    <2> DEFINE front == [i \in DOMAIN request.subscribed |-> request.subscribed[i].snssai]
    <2>1. /\ Len(request.subscribed) \in Nat /\ request.forMapping \in Seq(Snssais)
          /\ front \in [1 .. Len(request.subscribed) -> Snssais]
        BY RequestFields
    <2>2. front \in Seq(Snssais)
        BY <2>1, ListType
    <2>3. all = front \o request.forMapping
        BY DEF ListOf
    <2> HIDE DEF front, all
    <2> QED  BY <2>1, <2>2, <2>3, ConcatProperties
<1>3. P \in SUBSET DOMAIN all
    OBVIOUS
<1>4. \A i \in P : all[i] \in WS
    <2>1. \A i \in DOMAIN all : all[i] \in Snssais
        <3> HIDE DEF all
        <3> QED  BY <1>2, LenProperties, ElementOfSeq
    <2> QED  BY <2>1
<1>5. wanted \in Seq(WS)
    <2> HIDE DEF all, P, WS
    <2> QED  BY <1>2, <1>3, <1>4, Kept
<1>6. /\ Len(wanted) \in Nat /\ DOMAIN wanted = 1 .. Len(wanted)
      /\ \A i \in DOMAIN wanted : wanted[i] \in WS
    <2> HIDE DEF wanted, WS
    <2> QED  BY <1>5, LenProperties, ElementOfSeq
<1> HIDE DEF wanted
<1>7. \A i \in DOMAIN wanted : SubscribedElement(wanted[i]) \in Elements
    BY <1>1, <1>6, ElementTypes
<1>8. list \in [1 .. Len(wanted) -> Elements]
    BY <1>6, <1>7
<1>9. list \in Seq(Elements)
    BY <1>6, <1>8, ListType
<1> HIDE DEF list
<1> QED  BY <1>1, <1>9, AddAllowedFront

LEMMA SelectRejects ==
    ASSUME RequestTyped, Select
    PROVE  /\ rejectedInTa' \in Seq(Snssais) /\ rejectedInPlmn' \in Seq(Snssais)
           /\ ToSet(rejectedInTa') = {s \in ToSet(request.requested) : NotInTa(s)}
           /\ ToSet(rejectedInPlmn') = {s \in ToSet(request.requested) : InvalidInPlmn(s)}
<1> DEFINE requested == request.requested
           T == {i \in DOMAIN requested : NotInTa(requested[i])}
           I == {i \in DOMAIN requested : InvalidInPlmn(requested[i])}
<1>1. rejectedInTa' = AtPlaces(requested, T) /\ rejectedInPlmn' = AtPlaces(requested, I)
    BY DEF Select, Filter
<1>2. requested \in Seq(Snssais)
    BY RequestFields
<1>3. /\ Len(requested) \in Nat /\ DOMAIN requested = 1 .. Len(requested)
      /\ T \in SUBSET DOMAIN requested /\ I \in SUBSET DOMAIN requested
    BY <1>2, LenProperties
<1>4. /\ {requested[i] : i \in T} = {s \in ToSet(requested) : NotInTa(s)}
      /\ {requested[i] : i \in I} = {s \in ToSet(requested) : InvalidInPlmn(s)}
    BY DEF ToSet
<1> HIDE DEF T, I
<1>5. AtPlaces(requested, T) \in Seq(Snssais) /\ AtPlaces(requested, I) \in Seq(Snssais)
    BY <1>2, <1>3, AtPlacesOfSeq
<1> HIDE DEF requested
<1>6. /\ ToSet(AtPlaces(requested, T)) = {requested[i] : i \in T}
      /\ ToSet(AtPlaces(requested, I)) = {requested[i] : i \in I}
    BY <1>3, AtPlacesSet
<1> USE DEF requested
<1> QED  BY <1>1, <1>4, <1>5, <1>6

-----------------------------------------------------------------------------
(* The invariants of the selection.                                        *)

\* The subscribed S-NSSAIs before n are configured, or the PLMN lacked them.
ConfiguredBefore(n) ==
    \A i \in DOMAIN request.subscribed :
        i < n => request.subscribed[i].snssai
                     \in SnssaisOf(configured) \cup (lackedOnce \ Standard)

ConfigureInv ==
    /\ Lacking(supported) \subseteq lackedOnce /\ next # 0
    /\ pc = "configure" /\ ~Roaming /\ Configures => ConfiguredBefore(next)
    /\ Selected /\ ~Roaming /\ Configures => ConfiguredBefore(Len(request.subscribed) + 1)

SelectionInv ==
    TypeOK /\ RequestInv /\ ScanInv /\ DecisionInv /\ ConfigureInv

\* The queries of the fixed configuration have the answers they had.
LEMMA SameQueries ==
    ASSUME UNCHANGED request
    PROVE  /\ Roaming' = Roaming /\ HomeSupported' = HomeSupported
           /\ TaSupported' = TaSupported /\ Subscribed' = Subscribed
           /\ NoMappingOfPlmn' = NoMappingOfPlmn
           /\ \A s : /\ NotInTa(s)' = NotInTa(s) /\ NeedsMapping(s)' = NeedsMapping(s)
                     /\ HomeOf(s)' = HomeOf(s)
                     /\ Permitted(s)' = Permitted(s) /\ InvalidInPlmn(s)' = InvalidInPlmn(s)
           /\ \A e : Entitled(e)' = Entitled(e)
<1>1. /\ Roaming' = Roaming /\ HomeSupported' = HomeSupported
      /\ TaSupported' = TaSupported /\ Subscribed' = Subscribed
      /\ NoMappingOfPlmn' = NoMappingOfPlmn
    BY DEF Roaming, HomeSupported, TaSupported, Subscribed, NoMappingOfPlmn
<1>2. \A s : NotInTa(s)' = NotInTa(s) /\ NeedsMapping(s)' = NeedsMapping(s)
    BY DEF NotInTa, NeedsMapping, Roaming
<1>3. \A s : HomeOf(s)' = HomeOf(s)
    BY <1>2 DEF HomeOf, SelectInSeq
<1>4. \A s : Permitted(s)' = Permitted(s) /\ InvalidInPlmn(s)' = InvalidInPlmn(s)
    BY <1>1, <1>2, <1>3 DEF Permitted, InvalidInPlmn
<1>5. \A e : Entitled(e)' = Entitled(e)
    BY <1>1, <1>2 DEF Entitled
<1> QED  BY <1>1, <1>2, <1>3, <1>4, <1>5

LEMMA TypeKept ==
    ASSUME TypeOK, RequestInv, ScanInv', Running, UNCHANGED asked,
           pc' \in {"start", "plmn", "select", "scan", "record", "data", "refer",
                    "configure", "session", "answered"},
           supported' \in SupportedLists, changes' \in 0 .. MaxChanges,
           scanAt' \in Nat, scanLen' \in Nat, next' \in Nat,
           checkInvalidRequestedNssai' \in BOOLEAN,
           allowed' \in Seq(Elements), Len(allowed') <= AllowedNssaiNum,
           rejectedInTa' \in Seq(Snssais), rejectedInPlmn' \in Seq(Snssais),
           configured' \in Seq(Elements), referral' \subseteq NfIds \cup AmfSetIds,
           status' \in {"none", "ok", "forbidden", "badRequest", "panicked"}
    PROVE  TypeOK'
<1>1. /\ request \in RequestRecords(NfIds, Plmns, Tais)
      /\ request' = request /\ query' = NoQuery /\ sent' = NoRequest
    BY DEF RequestInv, TypeOK, Running, asked
<1>2. /\ amfArray' \in Seq(AmfRecords) /\ amfLen' \in 0 .. Len(amfArray')
      /\ oldArray' \in Seq(AmfRecords) /\ ownServes' \in {"unknown", "yes", "no"}
    BY DEF ScanInv, ListInv, StageInv
<1>3. pc' # "parse"
    OBVIOUS
<1> QED  BY <1>1, <1>2, <1>3 DEF TypeOK

LEMMA RequestKept ==
    ASSUME RequestInv, Running, UNCHANGED asked, pc' # "parse",
           Running' => UNCHANGED status,
           Running' /\ pc' # "start" => HomeSupported /\ TaSupported,
           pc' = "session" => request.kind = "session"
    PROVE  RequestInv'
    BY SameQueries DEF RequestInv, asked

LEMMA DecisionKept ==
    ASSUME DecisionInv, UNCHANGED <<request, allowed, rejectedInTa, rejectedInPlmn>>,
           Deciding' \/ Selected' => Deciding \/ Selected
    PROVE  DecisionInv'
    BY SameQueries DEF DecisionInv, Outcome, SnssaisOf

\* A change of the configuration leaves what is decided and told alone.
LEMMA ChangeKeeps ==
    ASSUME SelectionInv, Change, ScanInv'
    PROVE  SelectionInv'
<1>1. /\ Running /\ changes < MaxChanges /\ changes' = changes + 1
      /\ UNCHANGED <<asked, pc, scanAt, scanLen, ownServes, next,
                     checkInvalidRequestedNssai, result>>
    BY DEF Change, StoreSupported, PutUpdate, PutAppend, PatchFirst, DeleteRecord,
           ChangeAmfList, MayChange, Running
<1>2. /\ supported' \in SupportedLists
      /\ lackedOnce \subseteq lackedOnce' /\ Lacking(supported') \subseteq lackedOnce'
    <2>1. CASE StoreSupported
        BY <2>1 DEF StoreSupported
    <2>2. CASE PutUpdate \/ PutAppend \/ PatchFirst \/ DeleteRecord
        <3>1. UNCHANGED <<supported, lackedOnce>>
            BY <2>2 DEF PutUpdate, PutAppend, PatchFirst, DeleteRecord, ChangeAmfList
        <3> QED  BY <3>1 DEF SelectionInv, TypeOK, ConfigureInv
    <2> QED  BY <2>1, <2>2 DEF Change
<1>3. UNCHANGED request /\ pc # "parse" /\ pc # "answered"
    BY <1>1 DEF asked, Running
<1>4. TypeOK'
    <2>1. changes' \in 0 .. MaxChanges
        BY <1>1, SelectionAssumption DEF SelectionInv, TypeOK
    <2> QED  BY <1>1, <1>2, <1>3, <2>1, TypeKept DEF SelectionInv, TypeOK, result
<1>5. RequestInv'
    BY <1>1, <1>3, RequestKept DEF SelectionInv, RequestInv, result, Running
<1>6. ~Selected /\ ~Selected'
    BY <1>1, <1>3 DEF Selected
<1>7. DecisionInv'
    BY <1>1, <1>3, <1>6, DecisionKept DEF SelectionInv, result, Deciding
<1>8. ConfigureInv'
    <2>1. Configures' = Configures /\ Roaming' = Roaming
        BY <1>1, <1>3, SameQueries DEF Configures
    <2>2. ConfiguredBefore(next) => ConfiguredBefore(next)'
        BY <1>1, <1>2, <1>3 DEF ConfiguredBefore, SnssaisOf, result
    <2> QED  BY <1>1, <1>2, <1>6, <2>1, <2>2 DEF SelectionInv, ConfigureInv, Lacking
<1> QED  BY <1>4, <1>5, <1>7, <1>8 DEF SelectionInv

\* Outside the stages of the decision there is nothing to show of it.
LEMMA Undecided ==
    ASSUME ConfigureInv, UNCHANGED <<supported, lackedOnce, next>>,
           ~Deciding', ~Selected'
    PROVE  DecisionInv' /\ ConfigureInv'
    BY DEF DecisionInv, ConfigureInv, Deciding, Lacking

\* The answers without a selection, and the way to it.
LEMMA EarlyKeeps ==
    ASSUME SelectionInv, ScanInv',
           RejectHomePlmn \/ RejectTa \/ ReturnMapping \/ BeginSelection \/ CheckPlmn
               \/ EndSession
    PROVE  SelectionInv'
<1>1. /\ pc \in {"start", "plmn", "session"} /\ Running /\ RequestTyped
      /\ UNCHANGED <<asked, config, history, scan, next, checkInvalidRequestedNssai,
                     configured, referral>>
      /\ UNCHANGED <<request, supported, lackedOnce, next>>
    <2>1. pc \in {"start", "plmn", "session"}
        BY DEF RejectHomePlmn, RejectTa, ReturnMapping, BeginSelection, CheckPlmn, EndSession
    <2>2. UNCHANGED <<asked, config, history, scan, next, checkInvalidRequestedNssai,
                      configured, referral>>
        BY DEF RejectHomePlmn, RejectTa, ReturnMapping, BeginSelection, CheckPlmn, EndSession,
               result
    <2>3. UNCHANGED <<request, supported, lackedOnce, next>>
        BY <2>2 DEF asked, config, history
    <2>4. Running /\ RequestTyped
        BY <2>1 DEF Running, RequestTyped, SelectionInv, RequestInv
    <2> QED  BY <2>1, <2>2, <2>3, <2>4
<1>2. UNCHANGED allowed \/ (ReturnMapping /\ ~UNCHANGED allowed)
    BY DEF RejectHomePlmn, RejectTa, ReturnMapping, BeginSelection, CheckPlmn, EndSession, result
<1>3. allowed' \in Seq(Elements) /\ Len(allowed') <= AllowedNssaiNum
    BY <1>1, <1>2, MappingAllows DEF SelectionInv, TypeOK
<1>4. rejectedInTa' \in Seq(Snssais) /\ rejectedInPlmn' \in Seq(Snssais)
    <2>1. rejectedInTa' \in {rejectedInTa, Asked} /\ rejectedInPlmn' \in {rejectedInPlmn, Asked}
        BY DEF RejectHomePlmn, RejectTa, ReturnMapping, BeginSelection, CheckPlmn, EndSession,
               result
    <2>2. Asked \in Seq(Snssais)
        BY <1>1, RequestFields
    <2> QED  BY <2>1, <2>2 DEF SelectionInv, TypeOK
<1>5. status' \in {"none", "ok", "forbidden", "badRequest", "panicked"}
    BY DEF RejectHomePlmn, RejectTa, ReturnMapping, BeginSelection, CheckPlmn, EndSession,
           Answer, SelectNsi, result, SelectionInv, TypeOK
<1>6. pc' \in {"plmn", "session", "select", "answered"}
    BY DEF RejectHomePlmn, RejectTa, ReturnMapping, BeginSelection, CheckPlmn, EndSession,
           Answer, SelectNsi
<1>7. TypeOK'
    BY <1>1, <1>3, <1>4, <1>5, <1>6, TypeKept DEF SelectionInv, TypeOK, config, scan
<1>8. RequestInv'
    <2>1. pc' # "answered" =>
             /\ UNCHANGED status /\ HomeSupported /\ TaSupported
             /\ pc' = "session" => request.kind = "session"
        <3>1. CASE BeginSelection
            BY <3>1 DEF BeginSelection, result
        <3>2. CASE CheckPlmn
            BY <1>1, <3>2 DEF CheckPlmn, Answer, SelectionInv, RequestInv
        <3>3. CASE RejectHomePlmn \/ RejectTa \/ ReturnMapping \/ EndSession
            BY <3>3 DEF RejectHomePlmn, RejectTa, ReturnMapping, EndSession, Answer, SelectNsi
        <3> QED  BY <3>1, <3>2, <3>3
    <2> QED  BY <1>1, <1>6, <2>1, RequestKept DEF SelectionInv, Running
<1>9. ~Deciding' /\ ~Selected'
    <2>1. ~Deciding'
        BY <1>6 DEF Deciding
    <2>2. CASE RejectHomePlmn
        BY <2>1, <1>1, <2>2, SameQueries DEF RejectHomePlmn, Selected
    <2>3. CASE RejectTa
        BY <2>1, <1>1, <2>3, SameQueries DEF RejectTa, Selected
    <2>4. CASE ReturnMapping
        BY <2>1, <1>1, <2>4 DEF ReturnMapping, Selected
    <2>5. CASE BeginSelection
        BY <2>1, <2>5 DEF BeginSelection, Selected
    <2>6. CASE CheckPlmn
        BY <2>1, <2>6 DEF CheckPlmn, Answer, Selected
    <2>7. CASE EndSession
        BY <2>1, <1>1, <2>7 DEF EndSession, SelectionInv, RequestInv, Selected
    <2> QED  BY <2>1, <2>2, <2>3, <2>4, <2>5, <2>6, <2>7
<1> QED  BY <1>1, <1>7, <1>8, <1>9, Undecided DEF SelectionInv

\* The query becomes a request of the types the procedures expect, or none.
LEMMA ParseKeeps ==
    ASSUME SelectionInv, ParseQuery, ScanInv'
    PROVE  SelectionInv'
<1>1. /\ pc = "parse" /\ query' = NoQuery /\ sent' = NoRequest
      /\ query \in QueryRecords(NfIds, Plmns, Tais)
      /\ UNCHANGED <<config, lackedOnce, disturbed, scan, next, checkInvalidRequestedNssai,
                     allowed, rejectedInTa, rejectedInPlmn, configured, referral>>
    BY DEF ParseQuery, SelectionInv, RequestInv
<1>2. request = NoRequest /\ status = "none"
    BY <1>1 DEF SelectionInv, TypeOK, RequestInv
<1>3. \/ /\ pc' = "answered" /\ request' = NoRequest
         /\ status' \in {"badRequest", "forbidden"}
      \/ /\ pc' = "start" /\ request' \in RequestRecords(NfIds, Plmns, Tais)
         /\ UNCHANGED status
    <2>1. \/ Refuse("badRequest") \/ Refuse("forbidden")
          \/ /\ ~BadQuery(query) /\ request' = RequestOf(query) /\ pc' = "start"
             /\ UNCHANGED status
        BY DEF ParseQuery
    <2>2. CASE Refuse("badRequest") \/ Refuse("forbidden")
        BY <1>2, <2>2 DEF Refuse
    <2>3. CASE /\ ~BadQuery(query) /\ request' = RequestOf(query) /\ pc' = "start"
               /\ UNCHANGED status
        <3>1. GoodQuery(query)
            BY <2>3 DEF BadQuery
        <3>2. RequestOf(query) \in RequestRecords(NfIds, Plmns, Tais)
            BY <1>1, <3>1, RequestOfType
        <3> QED  BY <2>3, <3>2
    <2> QED  BY <2>1, <2>2, <2>3
<1>4. status' \in {"none", "badRequest", "forbidden"} /\ (pc' = "start" => status' = "none")
    BY <1>2, <1>3
<1>5. TypeOK'
    <2>1. /\ amfArray' \in Seq(AmfRecords) /\ amfLen' \in 0 .. Len(amfArray')
          /\ oldArray' \in Seq(AmfRecords) /\ ownServes' \in {"unknown", "yes", "no"}
        BY DEF ScanInv, ListInv, StageInv
    <2> QED  BY <1>1, <1>3, <1>4, <2>1 DEF SelectionInv, TypeOK, config, scan
<1>6. RequestInv'
    BY <1>1, <1>3, <1>4 DEF RequestInv, Running
<1>7. ~Deciding' /\ ~Selected'
    BY <1>3, <1>4 DEF Deciding, Selected
<1>8. UNCHANGED <<supported, lackedOnce, next>>
    BY <1>1 DEF config
<1> QED  BY <1>5, <1>6, <1>7, <1>8, Undecided DEF SelectionInv

LEMMA SelectKeeps ==
    ASSUME SelectionInv, Select, ScanInv'
    PROVE  SelectionInv'
<1>1. /\ pc = "select" /\ pc' \in {"scan", "configure"} /\ next = 1
      /\ RequestTyped /\ HomeSupported /\ TaSupported /\ Running
      /\ UNCHANGED <<asked, config, history, scan, next, configured, referral, status>>
    BY DEF Select, SelectionInv, ScanInv, StageInv, RequestInv, RequestTyped, Running
<1>2. UNCHANGED <<request, supported, lackedOnce, next, status>>
    BY <1>1 DEF asked, config, history
<1>3. checkInvalidRequestedNssai' \in BOOLEAN
    BY DEF Select
<1>4. TypeOK'
    BY <1>1, <1>3, SelectAllows, SelectRejects, TypeKept
       DEF SelectionInv, TypeOK, config, scan
<1>5. RequestInv'
    BY <1>1, <1>2, RequestKept DEF SelectionInv
<1>6. Outcome'
    <2>1. /\ ToSet(rejectedInTa)' = {s \in ToSet(request.requested) : NotInTa(s)}'
          /\ ToSet(rejectedInPlmn)' = {s \in ToSet(request.requested) : InvalidInPlmn(s)}'
        BY <1>1, <1>2, SelectRejects, SameQueries
    <2>2. (\A i \in DOMAIN allowed : Entitled(allowed[i]))'
        BY <1>1, <1>2, SelectAllows, SameQueries
    <2>3. (Len(allowed) < AllowedNssaiNum =>
              \A s \in ToSet(request.requested) : Permitted(s) => s \in SnssaisOf(allowed))'
        BY <1>1, <1>2, SelectAllows, SameQueries DEF SnssaisOf
    <2> QED  BY <2>1, <2>2, <2>3 DEF Outcome
<1>7. DecisionInv'
    BY <1>6 DEF DecisionInv
<1>8. ConfigureInv'
    <2>1. ConfiguredBefore(next)'
        BY <1>1, <1>2, RequestFields DEF ConfiguredBefore
    <2>2. ~Selected'
        BY <1>1 DEF Selected
    <2> QED  BY <1>2, <2>1, <2>2 DEF SelectionInv, ConfigureInv, Lacking
<1> QED  BY <1>4, <1>5, <1>7, <1>8 DEF SelectionInv

\* The scan and what it leads to change neither the request nor the decision.
LEMMA ScanKeeps ==
    ASSUME SelectionInv, ScanStart \/ ScanRecord \/ ScanData \/ AddAmfInformation, ScanInv'
    PROVE  SelectionInv'
<1>1. /\ pc \in {"scan", "record", "data", "refer"} /\ Running /\ Deciding
      /\ pc' \in {"scan", "record", "data", "refer", "configure"}
      /\ UNCHANGED <<asked, config, history, checkInvalidRequestedNssai,
                     allowed, rejectedInTa, rejectedInPlmn, configured, status>>
    BY DEF ScanStart, ScanRecord, ScanData, AddAmfInformation, Running, Deciding, result
<1>2. UNCHANGED <<request, supported, lackedOnce, changes>>
    BY <1>1 DEF asked, config, history
<1>3. /\ scanAt' \in Nat /\ scanLen' \in Nat /\ next' \in Nat /\ next' # 0
      /\ pc' = "configure" => next' = 1
    <2>1. CASE ScanStart
        BY <2>1 DEF ScanStart, SelectionInv, TypeOK, ConfigureInv
    <2>2. CASE ScanRecord
        BY <2>2 DEF ScanRecord, SelectionInv, TypeOK, ConfigureInv
    <2>3. CASE ScanData
        BY <2>3 DEF ScanData, SelectionInv, TypeOK, ConfigureInv
    <2>4. CASE AddAmfInformation
        BY <2>4 DEF AddAmfInformation, scan, SelectionInv, TypeOK, ConfigureInv
    <2> QED  BY <2>1, <2>2, <2>3, <2>4
<1>4. referral' \subseteq NfIds \cup AmfSetIds
    <2>1. CASE ScanStart \/ ScanRecord \/ ScanData
        BY <2>1 DEF ScanStart, ScanRecord, ScanData, result, SelectionInv, TypeOK
    <2>2. CASE AddAmfInformation
        <3> DEFINE I == {k \in 1 .. Len(AmfSetList) : ServesAllowed(AmfSetList[k].data)}
                   i == SelectInSeq(AmfSetList, LAMBDA set : ServesAllowed(set.data))
                   K == {k \in 1 .. amfLen : ServesAllowed(amfArray[k].data)}
        <3>1. referral' =
                 CASE i = 0 -> {amfArray[j].nfId : j \in K}
                   [] i # 0 /\ AmfSetList[i].amfs # {} -> AmfSetList[i].amfs
                   [] OTHER -> {AmfSetList[i].id}
            BY <2>2 DEF AddAmfInformation
        <3>2. i = IF I # {} THEN Min(I) ELSE 0
            BY DEF SelectInSeq
        <3>3. K \subseteq 1 .. Len(amfArray) /\ amfArray \in Seq(AmfRecords)
            BY LenProperties DEF SelectionInv, TypeOK
        <3>4. I \in SUBSET Nat /\ I \subseteq 1 .. Len(AmfSetList)
            OBVIOUS
        <3> HIDE DEF i, I, K
        <3>5. \A j \in K : amfArray[j].nfId \in NfIds
            <4>1. \A j \in K : amfArray[j] \in AmfRecords
                BY <3>3, ElementOfSeq
            <4> QED  BY <4>1 DEF AmfRecords
        <3>6. i # 0 => i \in 1 .. Len(AmfSetList)
            BY <3>2, <3>4, MinInSet
        <3>7. i # 0 => AmfSetList[i].amfs \subseteq NfIds /\ AmfSetList[i].id \in AmfSetIds
            <4> DEFINE sets == [id : AmfSetIds, amfs : SUBSET NfIds,
                                data : SUBSET (Tais \X Snssais)]
            <4>1. AmfSetList \in Seq(sets)
                BY SelectionAssumption
            <4> HIDE DEF sets
            <4>2. i # 0 => AmfSetList[i] \in sets
                BY <3>6, <4>1, ElementOfSeq
            <4> QED  BY <4>2 DEF sets
        <3> QED  BY <3>1, <3>5, <3>7
    <2> QED  BY <2>1, <2>2
<1>5. TypeOK'
    BY <1>1, <1>2, <1>3, <1>4, TypeKept DEF SelectionInv, TypeOK
<1>6. RequestInv'
    <2>1. HomeSupported /\ TaSupported
        BY <1>1 DEF SelectionInv, RequestInv
    <2> QED  BY <1>1, <2>1, RequestKept DEF SelectionInv
<1>7. DecisionInv'
    BY <1>1, <1>2, DecisionKept DEF SelectionInv
<1>8. ConfigureInv'
    <2>1. pc' = "configure" => ConfiguredBefore(next)'
        <3>1. pc' = "configure" => next' = 1
            BY <1>3
        <3>2. DOMAIN request.subscribed \subseteq Nat \ {0}
            BY <1>1, RequestFields DEF SelectionInv, RequestInv, RequestTyped
        <3> QED  BY <1>2, <3>1, <3>2 DEF ConfiguredBefore
    <2>2. ~Selected'
        BY <1>1 DEF Selected
    <2> QED  BY <1>2, <1>3, <2>1, <2>2 DEF SelectionInv, ConfigureInv, Lacking
<1> QED  BY <1>5, <1>6, <1>7, <1>8 DEF SelectionInv

\* One subscribed S-NSSAI more is configured, or the PLMN lacks it now.
LEMMA ConfigureKeeps ==
    ASSUME SelectionInv, SetConfigured, ScanInv'
    PROVE  SelectionInv'
<1> DEFINE s == request.subscribed[next].snssai
           supports == ServingOf(s) # NoSnssai /\ SupportedInPlmn(ServingOf(s))
           element == SubscribedElement(s)
<1>1. /\ pc = "configure" /\ next <= Len(request.subscribed)
      /\ RequestTyped /\ HomeSupported /\ TaSupported /\ Running /\ Deciding
      /\ next \in Nat /\ next' = next + 1
      /\ UNCHANGED <<asked, pc, config, history, scan, checkInvalidRequestedNssai,
                     allowed, rejectedInTa, rejectedInPlmn, referral, status>>
    BY DEF SetConfigured, NextSubscribed, SelectionInv, TypeOK, RequestInv, RequestTyped,
           Running, Deciding
<1>2. UNCHANGED <<request, supported, lackedOnce>>
    BY <1>1 DEF asked, config, history
<1>3. configured \in Seq(Elements) /\ Lacking(supported) \subseteq lackedOnce
    BY DEF SelectionInv, TypeOK, ConfigureInv
<1>4. /\ configured' = IF supports THEN Append(configured, element) ELSE configured
      /\ Configures
    BY DEF SetConfigured
<1>5. next' \in Nat
    BY <1>1
<1>6. s \in Snssais /\ next \in DOMAIN request.subscribed
    <2>1. next \in 1 .. Len(request.subscribed)
        BY <1>1, RequestFields DEF SelectionInv, ConfigureInv
    <2> QED  BY <1>1, <2>1, RequestFields
<1>7. configured' \in Seq(Elements)
    <2>1. supports => element \in Elements
        BY <1>1, <1>6, ElementTypes
    <2> HIDE DEF element
    <2> QED  BY <1>3, <1>4, <2>1, AppendProperties
<1> HIDE DEF element, supports, s
<1>8. TypeOK'
    BY <1>1, <1>5, <1>7, TypeKept DEF SelectionInv, TypeOK, config, scan
<1>9. RequestInv'
    BY <1>1, RequestKept DEF SelectionInv, RequestInv
<1>10. DecisionInv'
    BY <1>1, <1>2, DecisionKept DEF SelectionInv
<1>11. SnssaisOf(configured) \subseteq SnssaisOf(configured)'
       /\ (supports => element.snssai \in SnssaisOf(configured)')
    <2>1. CASE supports
        <3>1. /\ Len(configured) \in Nat /\ DOMAIN configured = 1 .. Len(configured)
              /\ configured' = Append(configured, element)
            BY <1>3, <1>4, <2>1, LenProperties
        <3>2. /\ DOMAIN configured' = 1 .. Len(configured) + 1
              /\ \A i \in 1 .. Len(configured) : configured'[i] = configured[i]
              /\ configured'[Len(configured) + 1] = element
            BY <1>3, <3>1, AppendProperties
        <3>3. Len(configured) + 1 \in 1 .. Len(configured) + 1
              /\ 1 .. Len(configured) \subseteq 1 .. Len(configured) + 1
            BY <3>1
        <3> QED  BY <3>1, <3>2, <3>3 DEF SnssaisOf
    <2>2. CASE ~supports
        BY <1>4, <2>2 DEF SnssaisOf
    <2> QED  BY <2>1, <2>2
<1>12. ~Roaming => s \in SnssaisOf(configured)' \cup (lackedOnce \ Standard)
    <2> SUFFICES ASSUME ~Roaming PROVE s \in SnssaisOf(configured)' \cup (lackedOnce \ Standard)
        OBVIOUS
    <2>1. ServingOf(s) = s /\ s # NoSnssai
        BY <1>1, <1>6, ServingOfType, QueryAssumption DEF NeedsMapping
    <2>2. CASE supports
        <3>1. element.snssai = s
            BY <2>1 DEF element, SubscribedElement
        <3> QED  BY <1>11, <2>2, <3>1
    <2>3. CASE ~supports
        <3>1. ~SupportedInPlmn(s)
            BY <2>1, <2>3 DEF supports
        <3>2. s \notin Standard /\ s \in Lacking(supported)
            BY <1>6, <3>1 DEF SupportedInPlmn, Lacking
        <3> QED  BY <1>3, <3>2
    <2> QED  BY <2>2, <2>3
<1>13. ConfigureInv'
    <2>1. ~Roaming => ConfiguredBefore(next)
        BY <1>1, <1>4 DEF SelectionInv, ConfigureInv
    <2>2. ASSUME ~Roaming, NEW i \in DOMAIN request.subscribed, i < next + 1
          PROVE  request.subscribed[i].snssai \in SnssaisOf(configured)' \cup (lackedOnce \ Standard)
        <3>1. i < next \/ i = next
            <4>1. i \in Nat
                BY <1>1, RequestFields
            <4> QED  BY <1>1, <2>2, <4>1
        <3>2. CASE i < next
            BY <1>11, <2>1, <2>2, <3>2 DEF ConfiguredBefore
        <3>3. CASE i = next
            BY <1>12, <2>2, <3>3 DEF s
        <3> QED  BY <3>1, <3>2, <3>3
    <2>3. ~Roaming' => ConfiguredBefore(next)'
        <3>1. Roaming' = Roaming
            BY <1>2, SameQueries
        <3> QED  BY <1>1, <1>2, <2>2, <3>1 DEF ConfiguredBefore
    <2>4. next' # 0
        BY <1>1
    <2>5. ~Selected'
        BY <1>1 DEF Selected
    <2> QED  BY <1>2, <1>3, <2>3, <2>4, <2>5 DEF ConfigureInv, Lacking
<1> QED  BY <1>8, <1>9, <1>10, <1>13 DEF SelectionInv

\* The answer to a registration: nothing is decided or configured any more.
LEMMA EndKeeps ==
    ASSUME SelectionInv, EndRegistration, ScanInv'
    PROVE  SelectionInv'
<1>1. /\ pc = "configure" /\ pc' = "answered" /\ status' = "ok"
      /\ RequestTyped /\ Running /\ Deciding
      /\ ~(Configures /\ next <= Len(request.subscribed))
      /\ UNCHANGED <<asked, config, history, scan, next, checkInvalidRequestedNssai,
                     allowed, rejectedInTa, rejectedInPlmn, referral>>
    BY DEF EndRegistration, Answer, SelectionInv, RequestInv, RequestTyped, Running, Deciding
<1>2. UNCHANGED <<request, supported, lackedOnce>>
    BY <1>1 DEF asked, config, history
<1>3. configured' = IF request.defaultConfigured THEN DefaultConfigured ELSE configured
    BY DEF EndRegistration
<1>4. configured' \in Seq(Elements)
    <2> DEFINE requested == request.requested
               P == {i \in DOMAIN requested : requested[i] \in Standard \cap Subscribed}
               kept == AtPlaces(requested, P)
    <2>1. DefaultConfigured = [i \in DOMAIN kept |-> [snssai |-> kept[i], home |-> NoSnssai]]
        BY DEF DefaultConfigured, ListOf, Filter
    <2>2. requested \in Seq(Snssais) /\ P \in SUBSET DOMAIN requested
        BY <1>1, RequestFields
    <2>3. \A i \in P : requested[i] \in Snssais
        BY <2>2, LenProperties, ElementOfSeq
    <2>4. kept \in Seq(Snssais)
        <3> HIDE DEF P, requested
        <3> QED  BY <2>2, <2>3, Kept
    <2> HIDE DEF kept
    <2>5. /\ Len(kept) \in Nat /\ DOMAIN kept = 1 .. Len(kept)
          /\ \A i \in DOMAIN kept : kept[i] \in Snssais
        BY <2>4, LenProperties, ElementOfSeq
    <2>6. DefaultConfigured \in [1 .. Len(kept) -> Elements]
        BY <2>1, <2>5 DEF Elements
    <2>7. DefaultConfigured \in Seq(Elements)
        BY <2>5, <2>6, ListType
    <2> QED  BY <1>3, <2>7 DEF SelectionInv, TypeOK
<1>5. TypeOK'
    BY <1>1, <1>4, TypeKept DEF SelectionInv, TypeOK, config, scan
<1>6. RequestInv'
    BY <1>1, RequestKept DEF SelectionInv, Running
<1>7. DecisionInv'
    BY <1>1, <1>2, DecisionKept DEF SelectionInv
<1>8. ConfigureInv'
    <2>1. Configures' = Configures /\ Roaming' = Roaming
        BY <1>1, <1>2, SameQueries DEF Configures
    <2>2. ASSUME Configures, ~Roaming PROVE ConfiguredBefore(Len(request.subscribed) + 1)'
        <3>1. ConfiguredBefore(next) /\ configured' = configured
              /\ ~(next <= Len(request.subscribed))
            BY <1>1, <1>3, <2>2 DEF SelectionInv, ConfigureInv, Configures
        <3>2. \A i \in DOMAIN request.subscribed : i < next
            BY <1>1, <3>1, RequestFields DEF SelectionInv, TypeOK
        <3> QED  BY <1>2, <3>1, <3>2 DEF ConfiguredBefore
    <2> QED  BY <1>1, <1>2, <2>1, <2>2 DEF SelectionInv, ConfigureInv, Lacking
<1> QED  BY <1>5, <1>6, <1>7, <1>8 DEF SelectionInv

-----------------------------------------------------------------------------

LEMMA RequestsTyped ==
    /\ \A r \in Requests :
          /\ r \in RequestRecords(NfIds, Plmns, Tais) /\ OneKind(r)
          /\ r.home # BadJson /\ r.tai # BadJson
    /\ RawQueries \subseteq QueryRecords(NfIds, Plmns, Tais)
<1>1. /\ \A r \in Requests : r \in RequestRecords(NfIds, Plmns, Tais) /\ OneKind(r)
      /\ RawQueries \subseteq QueryRecords(NfIds, Plmns, Tais)
    BY SelectionAssumption
<1>2. BadJson \notin Plmns \cup {NoPlmn} /\ BadJson \notin Tais \cup {NoTai}
    BY SelectionAssumption DEF Plmns, Tais
<1>3. ASSUME NEW r \in RequestRecords(NfIds, Plmns, Tais)
      PROVE  r.home # BadJson /\ r.tai # BadJson
    <2>1. r.home \in Plmns \cup {NoPlmn} /\ r.tai \in Tais \cup {NoTai}
        BY DEF RequestRecords
    <2> QED  BY <1>2, <2>1
<1> QED  BY <1>1, <1>3

LEMMA SelectionInit == ASSUME Init PROVE SelectionInv
<1>1. ScanInv
    BY ScanInit
<1>2. query \in QueryRecords(NfIds, Plmns, Tais)
    <2>1. CASE sent \in Requests /\ query \in {EncodeExploded(sent), EncodeJson(sent)}
        <3>1. sent \in RequestRecords(NfIds, Plmns, Tais)
            BY <2>1, RequestsTyped
        <3> QED  BY <2>1, <3>1, EncodeType
    <2>2. CASE sent = NoRequest /\ query \in RawQueries
        BY <2>2, RequestsTyped
    <2> QED  BY <2>1, <2>2 DEF Init
<1>3. RequestInv
    BY <1>2 DEF Init, RequestInv, Running
<1>4. TypeOK
    <2>1. /\ <<>> \in Seq(Elements) /\ <<>> \in Seq(Snssais) /\ Len(<<>>) = 0
          /\ <<>> \in Seq(AmfRecords)
        BY EmptySeq
    <2>2. /\ AllowedNssaiNum \in Nat /\ 0 \in 0 .. MaxChanges /\ 0 <= AllowedNssaiNum
          /\ InitialAmfList \in Seq(AmfRecords)
          /\ Len(InitialAmfList) \in 0 .. Len(InitialAmfList)
        BY SelectionAssumption, LenProperties
    <2>3. /\ amfArray = InitialAmfList /\ amfLen = Len(InitialAmfList) /\ oldArray = <<>>
          /\ scanAt = 0 /\ scanLen = 0 /\ next = 1 /\ request = NoRequest /\ pc = "parse"
          /\ checkInvalidRequestedNssai = FALSE /\ ownServes = "unknown"
          /\ allowed = <<>> /\ rejectedInTa = <<>> /\ rejectedInPlmn = <<>>
          /\ configured = <<>> /\ referral = {} /\ status = "none"
          /\ changes = 0 /\ supported \in SupportedLists
        BY DEF Init
    <2> QED  BY <2>1, <2>2, <2>3 DEF TypeOK
<1>5. DecisionInv /\ ConfigureInv
    BY DEF Init, DecisionInv, ConfigureInv, Deciding, Selected, Lacking
<1> QED  BY <1>1, <1>3, <1>4, <1>5 DEF SelectionInv

LEMMA AllowedStep ==
    ASSUME SelectionInv, [Next]_vars
    PROVE  AllowedTyped'
<1>1. AllowedTyped
    BY DEF SelectionInv, TypeOK, AllowedTyped
<1>2. CASE UNCHANGED allowed
    BY <1>1, <1>2 DEF AllowedTyped
<1>3. CASE Select
    <2>1. RequestTyped /\ HomeSupported
        BY <1>3 DEF Select, SelectionInv, RequestInv, RequestTyped, Running
    <2> QED  BY <1>3, <2>1, SelectAllows DEF AllowedTyped
<1>4. CASE ReturnMapping
    <2>1. RequestTyped
        BY <1>4 DEF ReturnMapping, SelectionInv, RequestInv, RequestTyped, Running
    <2> QED  BY <1>2, <1>4, <2>1, MappingAllows DEF AllowedTyped
<1>5. UNCHANGED allowed \/ Select \/ ReturnMapping
    <2>1. CASE UNCHANGED vars
        BY <2>1 DEF vars, result
    <2>2. CASE Change
        BY <2>2 DEF Change, StoreSupported, PutUpdate, PutAppend, PatchFirst, DeleteRecord,
                    ChangeAmfList, MayChange, result
    <2>3. CASE ParseQuery \/ RejectHomePlmn \/ RejectTa \/ BeginSelection \/ CheckPlmn
                   \/ EndSession
        BY <2>3 DEF ParseQuery, RejectHomePlmn, RejectTa, BeginSelection, CheckPlmn,
                    EndSession, result
    <2>4. CASE Registration
        BY <2>4 DEF Registration, ScanStart, ScanRecord, ScanData, AddAmfInformation,
                    SetConfigured, EndRegistration, result
    <2> QED  BY <2>1, <2>2, <2>3, <2>4 DEF Next
<1> QED  BY <1>2, <1>3, <1>4, <1>5

LEMMA StayKeeps ==
    ASSUME SelectionInv, UNCHANGED vars, ScanInv'
    PROVE  SelectionInv'
<1>1. /\ UNCHANGED <<query, sent, request, pc, supported, changes, scanAt, scanLen, next>>
      /\ UNCHANGED <<checkInvalidRequestedNssai, lackedOnce, result>>
      /\ UNCHANGED <<request, allowed, rejectedInTa, rejectedInPlmn, configured, referral,
                     status>>
    BY DEF vars, asked, config, history, scan, result
<1>2. /\ amfArray' \in Seq(AmfRecords) /\ amfLen' \in 0 .. Len(amfArray')
      /\ oldArray' \in Seq(AmfRecords) /\ ownServes' \in {"unknown", "yes", "no"}
    BY DEF ScanInv, ListInv, StageInv
<1>3. TypeOK'
    BY <1>1, <1>2 DEF SelectionInv, TypeOK
<1>4. RequestInv'
    BY <1>1, SameQueries DEF SelectionInv, RequestInv, Running
<1>5. Selected' = Selected /\ Deciding' = Deciding /\ Configures' = Configures
      /\ Roaming' = Roaming
    BY <1>1, SameQueries DEF Selected, Deciding, Configures
<1>6. DecisionInv'
    BY <1>1, <1>5, DecisionKept DEF SelectionInv
<1>7. ConfigureInv'
    <2>1. \A n : ConfiguredBefore(n)' = ConfiguredBefore(n)
        BY <1>1 DEF ConfiguredBefore, SnssaisOf
    <2> QED  BY <1>1, <1>5, <2>1 DEF SelectionInv, ConfigureInv, Lacking
<1> QED  BY <1>3, <1>4, <1>6, <1>7 DEF SelectionInv

LEMMA SelectionStep ==
    ASSUME SelectionInv, [Next]_vars
    PROVE  SelectionInv'
<1>1. ScanInv'
    <2>1. ScanInv /\ AllowedTyped
        BY DEF SelectionInv, TypeOK, AllowedTyped
    <2> QED  BY <2>1, AllowedStep, ScanStep
<1>2. CASE UNCHANGED vars
    BY <1>1, <1>2, StayKeeps
<1>3. CASE Next
    BY <1>1, <1>3, ChangeKeeps, ParseKeeps, EarlyKeeps, SelectKeeps, ScanKeeps,
       ConfigureKeeps, EndKeeps DEF Next, Registration
<1> QED  BY <1>2, <1>3

LEMMA SelectionAlways == Spec => []SelectionInv
<1>1. Init => SelectionInv
    BY SelectionInit
<1>2. SelectionInv /\ [Next]_vars => SelectionInv'
    BY SelectionStep
<1> QED  BY <1>1, <1>2, PTL DEF Spec

-----------------------------------------------------------------------------
(* The theorems.                                                           *)

\* Whatever is asked and whatever changes meanwhile, the variables have their
\* types: no list read by index is shorter than the index, the Allowed NSSAI
\* never exceeds its limit (AddAllowedSnssai), and an answered query is a
\* request of the parser's types or was refused.
THEOREM SelectionIsTyped == Spec => []TypeOK
<1>1. SelectionInv => TypeOK
    BY DEF SelectionInv
<1> QED  BY <1>1, SelectionAlways, PTL

\* Nothing reaches the Allowed NSSAI that the UE is not subscribed to at home or
\* the TA does not support, by whatever path it came (nsselectionForRegistration,
\* useDefaultSubscribedSnssai).
THEOREM AllowedAreEntitled == Spec => []OnlyEntitled
<1>1. SelectionInv => OnlyEntitled
    BY DEF SelectionInv, DecisionInv, Outcome, OnlyEntitled, Entitled
<1> QED  BY <1>1, SelectionAlways, PTL

\* The answer to a UE at home does not reject what it allows.
THEOREM AnswerIsConsistent == Spec => []NotAllowedAndRejected
<1>1. SelectionInv => NotAllowedAndRejected
    <2> SUFFICES ASSUME SelectionInv, Selected, ~Roaming
                 PROVE  SnssaisOf(allowed)
                            \cap (ToSet(rejectedInTa) \cup ToSet(rejectedInPlmn)) = {}
        BY DEF NotAllowedAndRejected
    <2>1. Outcome /\ RequestTyped
        BY DEF SelectionInv, DecisionInv, TypeOK, Selected, RequestTyped
    <2>2. ASSUME NEW s \in SnssaisOf(allowed)
          PROVE  ~NotInTa(s) /\ s \in Subscribed
        BY <2>1, <2>2 DEF Outcome, Entitled, SnssaisOf
    <2>3. ASSUME NEW s \in ToSet(request.requested), InvalidInPlmn(s)
          PROVE  s \notin Subscribed
        <3>1. s \in Snssais
            <4>1. request.requested \in Seq(Snssais)
                BY <2>1, RequestFields
            <4>2. \A i \in DOMAIN request.requested : request.requested[i] \in Snssais
                BY <4>1, LenProperties, ElementOfSeq
            <4> QED  BY <2>3, <4>2 DEF ToSet
        <3>2. HomeOf(s) = s
            BY <2>1, <3>1, HomeOfType DEF NeedsMapping
        <3> QED  BY <2>3, <3>2 DEF InvalidInPlmn
    <2> QED  BY <2>1, <2>2, <2>3 DEF Outcome
<1> QED  BY <1>1, SelectionAlways, PTL

\* No requested S-NSSAI is left without a decision, unless the Allowed NSSAI is full.
THEOREM AllRequestsAreDecided == Spec => []EveryRequestDecided
<1>1. SelectionInv => EveryRequestDecided
    <2> SUFFICES ASSUME SelectionInv, Selected, Len(allowed) < AllowedNssaiNum,
                        NEW s \in ToSet(request.requested)
                 PROVE  s \in SnssaisOf(allowed) \cup ToSet(rejectedInTa)
                                  \cup ToSet(rejectedInPlmn)
        BY DEF EveryRequestDecided
    <2>1. Outcome
        BY DEF SelectionInv, DecisionInv
    <2>2. NotInTa(s) \/ InvalidInPlmn(s) \/ Permitted(s)
        BY DEF InvalidInPlmn, Permitted
    <2> QED  BY <2>1, <2>2 DEF Outcome
<1> QED  BY <1>1, SelectionAlways, PTL

\* Although the supported list is read once for the check and again for each
\* subscribed S-NSSAI (setConfiguredNssai), what is allowed to a UE at home is
\* configured, unless the PLMN lacked it at some moment of the request.
THEOREM AllowedGetsConfigured == Spec => []AllowedIsConfigured
<1>1. SelectionInv => AllowedIsConfigured
    <2> SUFFICES ASSUME SelectionInv, Selected, ~Roaming, Configures,
                        NEW i \in DOMAIN allowed
                 PROVE  allowed[i].snssai \in SnssaisOf(configured) \cup (lackedOnce \ Standard)
        BY DEF AllowedIsConfigured, SnssaisOf
    <2>1. /\ Outcome /\ RequestTyped
          /\ ConfiguredBefore(Len(request.subscribed) + 1)
        BY DEF SelectionInv, DecisionInv, ConfigureInv, TypeOK, Selected, RequestTyped
    <2>2. allowed[i].snssai \in Subscribed
        BY <2>1 DEF Outcome, Entitled
    <2>3. PICK j \in DOMAIN request.subscribed :
             allowed[i].snssai = request.subscribed[j].snssai
        BY <2>2 DEF Subscribed
    <2>4. j < Len(request.subscribed) + 1
        BY <2>1, RequestFields
    <2> QED  BY <2>1, <2>3, <2>4 DEF ConfiguredBefore
<1> QED  BY <1>1, SelectionAlways, PTL

\* What the scans without the lock find of the asking AMF was true at some
\* moment of the request, whatever PUT, PATCH and DELETE write to the array
\* meanwhile, and however often, unless its own record was patched in place or
\* moved (CheckSupportedSnssaiInAmfTa).
THEOREM ScanIsSound == Spec => []ScanSound
<1>1. SelectionInv => ScanSound
    BY DEF SelectionInv, ScanInv, Sound, ScanSound
<1> QED  BY <1>1, SelectionAlways, PTL

\* Whatever the request, of any number of S-NSSAIs: sent as JSON, or with keys
\* that say everything of it, it is parsed to what was sent (parseQueryParameter
\* and the parsers of the exploded lists), and accepted.
THEOREM QueriesAreUnderstood == Spec => UnderstoodWhenPositional
<1> DEFINE Understood ==
              pc = "parse" /\ sent # NoRequest /\ (query = EncodeJson(sent) \/ Positional(sent)) =>
                  pc' = "start" /\ request' = sent
<1>1. ASSUME SelectionInv, [Next]_vars PROVE [Understood]_vars
    <2> SUFFICES ASSUME Next, pc = "parse", sent # NoRequest,
                        query = EncodeJson(sent) \/ Positional(sent)
                 PROVE  pc' = "start" /\ request' = sent
        BY <1>1
    <2>1. ParseQuery
        BY DEF Next, Registration, Change, StoreSupported, PutUpdate, PutAppend, PatchFirst,
               DeleteRecord, ChangeAmfList, MayChange, RejectHomePlmn, RejectTa,
               BeginSelection, CheckPlmn, EndSession, ReturnMapping, Select, ScanStart,
               ScanRecord, ScanData, AddAmfInformation, SetConfigured, EndRegistration
    <2>2. /\ sent \in Requests /\ query \in {EncodeExploded(sent), EncodeJson(sent)}
          /\ sent \in RequestRecords(NfIds, Plmns, Tais) /\ OneKind(sent)
          /\ sent.home # BadJson /\ sent.tai # BadJson
        BY <1>1, RequestsTyped DEF SelectionInv, RequestInv
    <2>3. ~BadQuery(query) /\ ~UnauthorizedQuery(query) /\ RequestOf(query) = sent
        <3>1. CASE query = EncodeJson(sent)
            BY <2>2, <3>1, JsonUnderstood, SelectionAssumption
        <3>2. CASE query = EncodeExploded(sent) /\ Positional(sent)
            BY <2>2, <3>2, ExplodedUnderstood
        <3> QED  BY <2>2, <3>1, <3>2
    <2> QED  BY <2>1, <2>3 DEF ParseQuery
<1> QED  BY <1>1, SelectionAlways, PTL DEF Spec, UnderstoodWhenPositional
=============================================================================
