------------------------ MODULE SubscriptionsProofs ------------------------
(***************************************************************************)
(* Proofs about Subscriptions, for any handlers, any initial lists and any *)
(* bound on the ids: the types, that a list that ascends gives an unused   *)
(* id, and that only an unsubscription ends a subscription.                *)
(***************************************************************************)
EXTENDS Subscriptions, ListLemmas

USE SubscriptionsAssumption

-----------------------------------------------------------------------------
(* Types.                                                                  *)

LEMMA Targeted ==
    ASSUME subscriptions \in Seq(Ids), NEW id
    PROVE  LET i == SelectInSeq(subscriptions, LAMBDA s : s = id)
           IN  i = 0 \/ (i \in 1 .. Len(subscriptions) /\ subscriptions[i] = id)
<1> DEFINE I == {i \in 1 .. Len(subscriptions) : subscriptions[i] = id}
           i == SelectInSeq(subscriptions, LAMBDA s : s = id)
<1>1. i = IF I # {} THEN Min(I) ELSE 0
    BY DEF SelectInSeq
<1>2. CASE I # {}
    <2>1. I \subseteq Nat
        BY LenProperties
    <2>2. Min(I) \in I
        BY <1>2, <2>1, MinInSet
    <2> QED  BY <1>1, <1>2, <2>2
<1> QED  BY <1>1, <1>2

\* An unsubscription removes one place, which holds its target.
LEMMA Removal ==
    ASSUME TypeOK, NEW h \in Handlers, Unsubscribe(h), ~UNCHANGED subscriptions
    PROVE  \E i \in 1 .. Len(subscriptions) :
              /\ subscriptions[i] = target[h]
              /\ subscriptions' \in Seq(Ids)
              /\ Len(subscriptions') = Len(subscriptions) - 1
              /\ \A j \in 1 .. Len(subscriptions) - 1 :
                    subscriptions'[j] = IF j < i THEN subscriptions[j]
                                                 ELSE subscriptions[j + 1]
<1> DEFINE i == SelectInSeq(subscriptions, LAMBDA s : s = target[h])
           new == RemoveAt(subscriptions, i)
<1>1. i # 0 /\ subscriptions' = new
    BY DEF Unsubscribe, Without
<1>2. i \in 1 .. Len(subscriptions) /\ subscriptions[i] = target[h]
    BY <1>1, Targeted DEF TypeOK
<1>3. subscriptions \in Seq(Ids)
    BY DEF TypeOK
<1> HIDE DEF i
<1>4. /\ new \in Seq(Ids)
      /\ Len(new) = Len(subscriptions) - 1
      /\ \A j \in 1 .. Len(subscriptions) - 1 :
            new[j] = IF j < i THEN subscriptions[j] ELSE subscriptions[j + 1]
    BY <1>2, <1>3, RemoveAtProperties
<1> HIDE DEF new
<1> QED  BY <1>1, <1>2, <1>4

LEMMA TypingInit == Init => TypeOK
    BY DEF Init, TypeOK, Ids

LEMMA TypingStep == ASSUME TypeOK, [Next]_vars PROVE TypeOK'
<1> USE DEF TypeOK
<1>1. ASSUME NEW h \in Handlers, PostArrives(h) \/ ReadArrives(h) PROVE TypeOK'
    BY <1>1 DEF PostArrives, ReadArrives
<1>2. ASSUME NEW h \in Handlers, NEW id \in NamedIds, UnsubscribeArrives(h, id)
      PROVE  TypeOK'
    BY <1>2 DEF UnsubscribeArrives
<1>3. ASSUME NEW h \in Handlers, Post(h) PROVE TypeOK'
    <2>1. subscriptions' \in Seq(Ids)
        <3>1. CASE UNCHANGED subscriptions
            BY <3>1
        <3>2. ASSUME NEW k \in 1 .. Len(subscriptions) + 1,
                     subscriptions' = Append(subscriptions, k)
              PROVE  subscriptions' \in Seq(Ids)
            <4>1. k \in Ids
                BY LenProperties DEF Ids
            <4> QED  BY <3>2, <4>1, AppendElements
        <3> QED  BY <1>3, <3>1, <3>2 DEF Post, PostRefused, PostStores, UnusedId
    <2> QED  BY <1>3, <2>1 DEF Post, PostRefused, PostStores
<1>4. ASSUME NEW h \in Handlers, ReadSection(h) PROVE TypeOK'
    BY <1>4 DEF ReadSection
<1>5. ASSUME NEW h \in Handlers, Unsubscribe(h) PROVE TypeOK'
    <2>1. subscriptions' \in Seq(Ids)
        BY <1>5, Removal
    <2> QED  BY <1>5, <2>1 DEF Unsubscribe
<1>6. ASSUME NEW h \in Handlers, Return(h) PROVE TypeOK'
    <2>1. 0 \in Ids
        BY DEF Ids
    <2> QED  BY <1>6, <2>1 DEF Return
<1>7. CASE UNCHANGED vars
    BY <1>7 DEF vars
<1> QED  BY <1>1, <1>2, <1>3, <1>4, <1>5, <1>6, <1>7 DEF Next, Arrives, Serve

\* The list of ids and the handlers keep their types.
THEOREM TypesKept == Spec => []TypeOK
    BY TypingInit, TypingStep, PTL DEF Spec

-----------------------------------------------------------------------------
(* Ids.  In a list that ascends, the number at place i is at least i.  The  *)
(* places before the end of the scan hold their own number, or one that    *)
(* wraps to it and is beyond every id the scan can give; the places after  *)
(* it hold larger numbers.                                                 *)

LEMMA NoWrap == \A n \in 0 .. MaxUint32 : Uint32(n) = n
    BY DEF Uint32

\* Numbers up to a place are at least as large as it.
LEMMA AscendingGrows ==
    ASSUME NEW list \in Seq(Ids), Ascending(list), NEW k \in Nat,
           \A i \in 1 .. k : i \in DOMAIN list /\ list[i] # NotANumber
    PROVE  \A i \in 1 .. k : list[i] \in Int /\ list[i] >= i
<1> DEFINE Bad == {i \in 1 .. k : ~(list[i] >= i)}
<1>1. /\ \A i \in 1 .. k : list[i] \in Int /\ list[i] > 0
      /\ \A i, j \in 1 .. k : i < j => list[i] < list[j]
    <2>1. \A i \in 1 .. k : list[i] \in Ids
        BY ElementOfSeq, LenProperties
    <2> QED  BY <2>1 DEF Ascending, Ids
<1>2. Bad = {}
    <2> SUFFICES ASSUME Bad # {} PROVE FALSE
        OBVIOUS
    <2>1. Bad \subseteq Nat
        OBVIOUS
    <2>2. PICK i \in Bad : \A j \in Bad : i <= j
        BY <2>1, MinInSet
    <2>3. i > 1
        BY <1>1, <2>2
    <2>4. i - 1 \in 1 .. k /\ i - 1 \notin Bad
        BY <2>2, <2>3
    <2>5. list[i - 1] >= i - 1 /\ list[i - 1] < list[i]
        BY <1>1, <2>4, <2>2
    <2>6. list[i] \in Int /\ list[i - 1] \in Int /\ i \in Nat /\ ~(list[i] >= i)
        BY <1>1, <2>2, <2>4
    <2> HIDE DEF Bad
    <2> QED  BY ONLY <2>5, <2>6
<1> QED  BY <1>1, <1>2

\* The place at which the scan of an ascending list ends is no id of the list.
LEMMA ScanFindsUnused ==
    ASSUME NEW list \in Seq(Ids), Ascending(list),
           NEW k \in 1 .. Len(list) + 1, ScanEndsAt(list, k), ~ScanFails(list, k)
    PROVE  \A i \in 1 .. Len(list) : list[i] # k
<1>1. /\ DOMAIN list = 1 .. Len(list) /\ Len(list) \in Nat
      /\ \A i \in 1 .. Len(list) : list[i] \in Int \cup {NotANumber}
    BY LenProperties, ElementOfSeq DEF Ids
<1>2. k \in 1 .. MaxUint32
    BY <1>1 DEF ScanFails
<1>3. \A i \in 1 .. k - 1 : list[i] # NotANumber /\ Uint32(list[i]) = i
    BY DEF ScanEndsAt, HasNumber
<1>4. \A i \in 1 .. k - 1 : list[i] # k
    BY <1>2, <1>3, NoWrap
<1>5. k <= Len(list) => list[k] # NotANumber /\ list[k] # k
    <2>1. k <= Len(list) => list[k] # NotANumber
        BY DEF ScanFails
    <2>2. Uint32(k) = k
        BY <1>2, NoWrap
    <2>3. k <= Len(list) /\ list[k] # NotANumber => Uint32(list[k]) # k
        BY DEF ScanEndsAt, HasNumber
    <2> QED  BY <2>1, <2>2, <2>3
<1>6. k <= Len(list) => list[k] \in Int /\ list[k] > k
    <2> HAVE k <= Len(list)
    <2>1. \A i \in 1 .. k : i \in DOMAIN list /\ list[i] # NotANumber
        BY <1>1, <1>3, <1>5
    <2>2. list[k] \in Int /\ list[k] >= k
        BY <1>2, <2>1, AscendingGrows
    <2> QED  BY <1>2, <1>5, <2>2
<1> TAKE i \in 1 .. Len(list)
<1>7. CASE i < k
    BY <1>1, <1>2, <1>4, <1>7
<1>8. CASE i = k
    BY <1>5, <1>8
<1>9. CASE i > k
    <2>1. CASE list[i] = NotANumber
        BY <1>2, <2>1
    <2>2. CASE list[i] # NotANumber
        <3>1. k \in DOMAIN list /\ i \in DOMAIN list /\ list[k] # NotANumber
            BY <1>1, <1>2, <1>5, <1>9
        <3>2. list[k] < list[i]
            BY <1>9, <2>2, <3>1 DEF Ascending
        <3> QED  BY <1>1, <1>2, <1>6, <1>9, <2>2, <3>2
    <2> QED  BY <2>1, <2>2
<1> QED  BY <1>1, <1>2, <1>7, <1>8, <1>9

\* What POST does to the list.
LEMMA Addition ==
    ASSUME TypeOK, NEW h \in Handlers, Post(h), ~UNCHANGED subscriptions
    PROVE  \E k \in 1 .. Len(subscriptions) + 1 :
              /\ ScanEndsAt(subscriptions, k) /\ ~ScanFails(subscriptions, k)
              /\ DOMAIN subscriptions' = DOMAIN subscriptions \cup {Len(subscriptions) + 1}
              /\ \A j \in DOMAIN subscriptions : subscriptions'[j] = subscriptions[j]
              /\ subscriptions'[Len(subscriptions) + 1] = k
<1>1. PICK k \in 1 .. Len(subscriptions) + 1 :
         /\ ScanEndsAt(subscriptions, k) /\ ~ScanFails(subscriptions, k)
         /\ subscriptions' = Append(subscriptions, k)
    BY DEF Post, PostRefused, PostStores, UnusedId
<1>2. subscriptions \in Seq(Ids) /\ Len(subscriptions) \in Nat /\ k \in Ids
    BY LenProperties DEF TypeOK, Ids
<1>3. /\ subscriptions' \in Seq(Ids)
      /\ Len(subscriptions') = Len(subscriptions) + 1
      /\ \A j \in 1 .. Len(subscriptions) : subscriptions'[j] = subscriptions[j]
      /\ subscriptions'[Len(subscriptions) + 1] = k
    BY <1>1, <1>2, AppendElements
<1>4. /\ DOMAIN subscriptions = 1 .. Len(subscriptions)
      /\ DOMAIN subscriptions' = 1 .. Len(subscriptions) + 1
    BY <1>2, <1>3, LenProperties
<1>5. DOMAIN subscriptions' = DOMAIN subscriptions \cup {Len(subscriptions) + 1}
    BY <1>2, <1>4
<1>6. \A j \in DOMAIN subscriptions : subscriptions'[j] = subscriptions[j]
    BY <1>3, <1>4
<1> QED  BY <1>1, <1>3, <1>5, <1>6

\* Only POST and unsubscriptions change the list.
LEMMA OthersLeaveList ==
    ASSUME [Next]_vars, \A h \in Handlers : ~Post(h) /\ ~Unsubscribe(h)
    PROVE  UNCHANGED subscriptions
    BY DEF Next, Arrives, PostArrives, ReadArrives, UnsubscribeArrives, Serve,
           ReadSection, Return, vars

\* A POST that finds a list that ascends takes an id nobody has, with holes or
\* numbers beyond uint32 in it, and from any configured list.
THEOREM AscendingGivesUnused == Spec => NewIdUnused
<1> DEFINE Fresh ==
        \A i \in DOMAIN subscriptions' :
            i \notin DOMAIN subscriptions /\ Ascending(subscriptions)
                => subscriptions'[i] \notin Range(subscriptions)
<1>1. ASSUME TypeOK, [Next]_vars PROVE Fresh
    <2>1. CASE UNCHANGED subscriptions
        BY <2>1
    <2>2. ASSUME NEW h \in Handlers, Post(h), ~UNCHANGED subscriptions PROVE Fresh
        <3>1. PICK k \in 1 .. Len(subscriptions) + 1 :
                 /\ ScanEndsAt(subscriptions, k) /\ ~ScanFails(subscriptions, k)
                 /\ DOMAIN subscriptions' =
                       DOMAIN subscriptions \cup {Len(subscriptions) + 1}
                 /\ subscriptions'[Len(subscriptions) + 1] = k
            BY <1>1, <2>2, Addition
        <3>2. Ascending(subscriptions) => k \notin Range(subscriptions)
            <4>1. subscriptions \in Seq(Ids)
                BY <1>1 DEF TypeOK
            <4>2. Ascending(subscriptions) =>
                    \A i \in 1 .. Len(subscriptions) : subscriptions[i] # k
                BY <3>1, <4>1, ScanFindsUnused
            <4> QED  BY <4>1, <4>2, LenProperties DEF Range
        <3> QED  BY <3>1, <3>2
    <2>3. ASSUME NEW h \in Handlers, Unsubscribe(h), ~UNCHANGED subscriptions
          PROVE  Fresh
        <3>1. Len(subscriptions') = Len(subscriptions) - 1 /\ subscriptions' \in Seq(Ids)
            BY <1>1, <2>3, Removal
        <3>2. /\ DOMAIN subscriptions = 1 .. Len(subscriptions)
              /\ DOMAIN subscriptions' = 1 .. Len(subscriptions) - 1
              /\ Len(subscriptions) \in Nat
            BY <1>1, <3>1, LenProperties DEF TypeOK
        <3> QED  BY <3>2
    <2> HIDE DEF Fresh
    <2> QED  BY <1>1, <2>1, <2>2, <2>3, OthersLeaveList
<1>2. TypeOK /\ [Next]_vars => [Fresh]_vars
    BY <1>1
<1> QED  BY <1>2, TypesKept, PTL DEF Spec, NewIdUnused

-----------------------------------------------------------------------------
\* A subscription ends only by an unsubscription that names it.
THEOREM OnlyUnsubscribeEnds == Spec => EndsOnlyByUnsubscribe
<1> DEFINE Kept ==
        \A i \in DOMAIN subscriptions :
            subscriptions[i] \notin Range(subscriptions') =>
                \E h \in Handlers :
                    pc[h] = "unsubscribe" /\ target[h] = subscriptions[i]
<1>1. ASSUME TypeOK, [Next]_vars PROVE Kept \/ UNCHANGED vars
    <2>1. CASE UNCHANGED subscriptions
        BY <2>1 DEF Range
    <2>2. ASSUME NEW h \in Handlers, Post(h), ~UNCHANGED subscriptions PROVE Kept
        BY <1>1, <2>2, Addition DEF Range
    <2>3. ASSUME NEW h \in Handlers, Unsubscribe(h), ~UNCHANGED subscriptions
          PROVE  Kept
        <3>1. PICK i \in 1 .. Len(subscriptions) :
                  /\ subscriptions[i] = target[h]
                  /\ subscriptions' \in Seq(Ids)
                  /\ Len(subscriptions') = Len(subscriptions) - 1
                  /\ \A j \in 1 .. Len(subscriptions) - 1 :
                        subscriptions'[j] = IF j < i THEN subscriptions[j]
                                                     ELSE subscriptions[j + 1]
            BY <1>1, <2>3, Removal
        <3>2. /\ DOMAIN subscriptions = 1 .. Len(subscriptions)
              /\ DOMAIN subscriptions' = 1 .. Len(subscriptions) - 1
              /\ Len(subscriptions) \in Nat
            BY <1>1, <3>1, LenProperties DEF TypeOK
        <3>3. ASSUME NEW j \in DOMAIN subscriptions, j # i
              PROVE  subscriptions[j] \in Range(subscriptions')
            <4> DEFINE k == IF j < i THEN j ELSE j - 1
            <4>1. k \in DOMAIN subscriptions' /\ subscriptions'[k] = subscriptions[j]
                BY <3>1, <3>2, <3>3
            <4> QED  BY <4>1 DEF Range
        <3>4. pc[h] = "unsubscribe"
            BY <2>3 DEF Unsubscribe
        <3> QED  BY <3>1, <3>3, <3>4
    <2> HIDE DEF Kept
    <2> QED  BY <1>1, <2>1, <2>2, <2>3, OthersLeaveList
<1>2. TypeOK /\ [Next]_vars => [Kept]_vars
    BY <1>1
<1> QED  BY <1>2, TypesKept, PTL DEF Spec, EndsOnlyByUnsubscribe
=============================================================================
