---------------------------- MODULE NsQueryProofs ----------------------------
(***************************************************************************)
(* Proofs about NsQuery, for any slice types, differentiators and lists.   *)
(***************************************************************************)
EXTENDS NsQuery, ListLemmas, FiniteSetTheorems

-----------------------------------------------------------------------------
(* AtPlaces                                                                *)

Upto(P, i) == {j \in P : j <= i}
Rank(P, i) == Cardinality(Upto(P, i))

LEMMA PlaceType ==
    ASSUME NEW n \in Nat, NEW P \in SUBSET (1 .. n)
    PROVE  \A i \in P : i \in Nat /\ i # 0 /\ i - 1 \in Nat /\ (i - 1) + 1 = i /\ i <= n
    OBVIOUS

LEMMA RankType ==
    ASSUME NEW n \in Nat, NEW P \in SUBSET (1 .. n), NEW i
    PROVE  /\ IsFiniteSet(P) /\ Cardinality(P) \in 0 .. n
           /\ IsFiniteSet(Upto(P, i)) /\ Rank(P, i) \in 0 .. Cardinality(P)
<1>1. IsFiniteSet(1 .. n) /\ Cardinality(1 .. n) = n
    BY FS_Interval
<1>2. IsFiniteSet(P) /\ Cardinality(P) <= n
    BY <1>1, FS_Subset
<1>3. Upto(P, i) \in SUBSET P
    BY DEF Upto
<1>4. IsFiniteSet(Upto(P, i)) /\ Cardinality(Upto(P, i)) <= Cardinality(P)
    BY <1>2, <1>3, FS_Subset
<1>5. Cardinality(P) \in Nat /\ Cardinality(Upto(P, i)) \in Nat
    BY <1>2, <1>4, FS_CardinalityType
<1> QED  BY <1>2, <1>4, <1>5 DEF Rank

\* A place counts one more than those up to the place before.
LEMMA RankStep ==
    ASSUME NEW n \in Nat, NEW P \in SUBSET (1 .. n), NEW i \in Nat
    PROVE  Rank(P, i + 1) = IF i + 1 \in P THEN Rank(P, i) + 1 ELSE Rank(P, i)
<1>1. IsFiniteSet(Upto(P, i)) /\ Cardinality(Upto(P, i)) = Rank(P, i)
    BY RankType DEF Rank
<1>2. i + 1 \notin Upto(P, i)
    BY DEF Upto
<1>3. CASE i + 1 \in P
    <2>1. Upto(P, i + 1) = Upto(P, i) \cup {i + 1}
        <3>1. \A j \in P : j <= i + 1 <=> j <= i \/ j = i + 1
            BY PlaceType
        <3> QED  BY <1>3, <3>1, Zenon DEF Upto
    <2> QED  BY <1>1, <1>2, <1>3, <2>1, FS_AddElement DEF Rank
<1>4. CASE i + 1 \notin P
    <2>1. Upto(P, i + 1) = Upto(P, i)
        <3>1. \A j \in P : j # i + 1 => (j <= i + 1 <=> j <= i)
            BY PlaceType
        <3> QED  BY <1>4, <3>1, Zenon DEF Upto
    <2> QED  BY <1>4, <2>1 DEF Rank
<1> QED  BY <1>3, <1>4

LEMMA RankEnds ==
    ASSUME NEW n \in Nat, NEW P \in SUBSET (1 .. n)
    PROVE  Rank(P, 0) = 0 /\ Rank(P, n) = Cardinality(P)
<1>1. \A i \in P : ~(i <= 0) /\ i <= n
    BY PlaceType
<1>2. Upto(P, 0) = {} /\ Upto(P, n) = P
    BY <1>1, Zenon DEF Upto
<1> QED  BY <1>2, FS_EmptySet DEF Rank

\* Each rank is that of a place: the first up to which so many are counted.
LEMMA RankTaken ==
    ASSUME NEW n \in Nat, NEW P \in SUBSET (1 .. n), NEW k \in 1 .. Cardinality(P)
    PROVE  \E i \in P : Rank(P, i) = k
<1> DEFINE T == {i \in Nat : k <= Rank(P, i)}
<1>1. \A i \in Nat : Rank(P, i) \in Nat
    BY RankType
<1>2. Cardinality(P) \in Nat /\ k \in Nat /\ 1 <= k /\ k <= Cardinality(P)
    BY RankType
<1>3. n \in T /\ 0 \notin T
    BY <1>2, RankEnds
<1>4. PICK i \in T : \A j \in T : i <= j
    BY <1>3, MinInSet
<1>5. i # 0 /\ i \in Nat
    BY <1>3, <1>4
<1>6. i - 1 \in Nat /\ i - 1 \notin T /\ (i - 1) + 1 = i
    BY <1>4, <1>5
<1>7. Rank(P, i) = IF i \in P THEN Rank(P, i - 1) + 1 ELSE Rank(P, i - 1)
    BY <1>6, RankStep
<1>8. Rank(P, i - 1) \in Nat /\ Rank(P, i) \in Nat /\ ~(k <= Rank(P, i - 1)) /\ k <= Rank(P, i)
    BY <1>1, <1>4, <1>6
<1> QED  BY <1>2, <1>7, <1>8

\* Two places do not share their rank.
LEMMA RankAscends ==
    ASSUME NEW n \in Nat, NEW P \in SUBSET (1 .. n), NEW i \in P, NEW j \in P, i < j
    PROVE  Rank(P, i) < Rank(P, j)
<1>0. /\ j <= j /\ ~(j <= i)
      /\ \A l \in P : l <= i => l <= j
    BY PlaceType
<1>1. Upto(P, i) \in SUBSET Upto(P, j) /\ j \in Upto(P, j) /\ j \notin Upto(P, i)
    BY <1>0, Zenon DEF Upto
<1>2. /\ IsFiniteSet(Upto(P, j))
      /\ Cardinality(Upto(P, i)) \in Nat /\ Cardinality(Upto(P, j)) \in Nat
    <2>1. IsFiniteSet(Upto(P, i)) /\ IsFiniteSet(Upto(P, j))
        BY RankType
    <2> QED  BY <2>1, FS_CardinalityType
<1>3. /\ Cardinality(Upto(P, i)) <= Cardinality(Upto(P, j))
      /\ Cardinality(Upto(P, i)) # Cardinality(Upto(P, j))
    BY <1>1, <1>2, FS_Subset
<1> QED  BY <1>2, <1>3 DEF Rank

\* AtPlaces has the elements at its places, all of them, and no others.
LEMMA AtPlacesElements ==
    ASSUME NEW list, NEW n \in Nat, NEW P \in SUBSET (1 .. n)
    PROVE  /\ Cardinality(P) \in 0 .. n
           /\ DOMAIN AtPlaces(list, P) = 1 .. Cardinality(P)
           /\ AtPlaces(list, P) \in Seq({list[i] : i \in P})
           /\ Len(AtPlaces(list, P)) = Cardinality(P)
           /\ \A i \in P :
                 Rank(P, i) \in 1 .. Cardinality(P) /\ AtPlaces(list, P)[Rank(P, i)] = list[i]
<1> DEFINE c == Cardinality(P)
           place(k) == CHOOSE i \in P : Rank(P, i) = k
<1>1. c \in 0 .. n /\ c \in Nat
    <2>1. c \in 0 .. n
        BY RankType
    <2> HIDE DEF c
    <2> QED  BY <2>1
<1>2. AtPlaces(list, P) = [k \in 1 .. c |-> list[place(k)]]
    BY DEF AtPlaces, Rank, Upto
<1>3. \A k \in 1 .. c : place(k) \in P /\ Rank(P, place(k)) = k
    BY RankTaken
<1>4. \A i \in P : Rank(P, i) \in 1 .. c
    <2> TAKE i \in P
    <2> DEFINE j == i - 1
    <2>1. j \in Nat /\ j + 1 = i
        BY PlaceType
    <2> HIDE DEF j
    <2>2. Rank(P, i) = Rank(P, j) + 1
        BY <2>1, RankStep
    <2>3. Rank(P, j) \in 0 .. c /\ Rank(P, i) \in 0 .. c
        BY RankType
    <2> HIDE DEF c
    <2> QED  BY <1>1, <2>2, <2>3
<1>5. \A i \in P : place(Rank(P, i)) = i
    <2> TAKE i \in P
    <2> DEFINE j == place(Rank(P, i))
    <2>1. j \in P /\ Rank(P, j) = Rank(P, i)
        BY <1>3, <1>4
    <2> HIDE DEF j
    <2>2. i < j \/ i = j \/ j < i
        BY <2>1, PlaceType
    <2>3. Rank(P, i) \in Nat /\ ~(Rank(P, i) < Rank(P, i))
        BY <1>1, <1>4
    <2>4. ~(i < j) /\ ~(j < i)
        <3>1. i < j => Rank(P, i) < Rank(P, j)
            BY <2>1, RankAscends
        <3>2. j < i => Rank(P, j) < Rank(P, i)
            BY <2>1, RankAscends
        <3> QED  BY <2>1, <2>3, <3>1, <3>2
    <2>5. i = j
        BY <2>2, <2>4
    <2> QED  BY <2>5 DEF j
<1> HIDE DEF place
<1>6. AtPlaces(list, P) \in [1 .. c -> {list[i] : i \in P}]
    BY <1>2, <1>3
<1>7. AtPlaces(list, P) \in Seq({list[i] : i \in P}) /\ Len(AtPlaces(list, P)) = c
    BY <1>1, <1>6, SeqDef, LenProperties
<1>8. DOMAIN AtPlaces(list, P) = 1 .. c
    BY <1>2
<1>9. \A i \in P : AtPlaces(list, P)[Rank(P, i)] = list[i]
    BY <1>2, <1>4, <1>5
<1> QED  BY <1>1, <1>4, <1>7, <1>8, <1>9

\* The places at the front keep the front.
LEMMA AtFront ==
    ASSUME NEW list, NEW m \in Nat
    PROVE  AtPlaces(list, 1 .. m) = [k \in 1 .. m |-> list[k]]
<1>1. \A i \in 1 .. m : Rank(1 .. m, i) = i
    <2> TAKE i \in 1 .. m
    <2>1. Upto(1 .. m, i) = 1 .. i
        BY DEF Upto
    <2>2. Cardinality(1 .. i) = i
        BY FS_Interval
    <2> QED  BY <2>1, <2>2 DEF Rank
<1>2. /\ Cardinality(1 .. m) = m
      /\ DOMAIN AtPlaces(list, 1 .. m) = 1 .. m
      /\ \A i \in 1 .. m : AtPlaces(list, 1 .. m)[i] = list[i]
    <2>1. Cardinality(1 .. m) = m
        BY FS_Interval
    <2>2. 1 .. m \in SUBSET (1 .. m)
        OBVIOUS
    <2>3. /\ DOMAIN AtPlaces(list, 1 .. m) = 1 .. Cardinality(1 .. m)
          /\ \A i \in 1 .. m : AtPlaces(list, 1 .. m)[Rank(1 .. m, i)] = list[i]
        BY <2>2, AtPlacesElements
    <2> QED  BY <1>1, <2>1, <2>3
<1> QED  BY <1>2 DEF AtPlaces

LEMMA AtPlacesSet ==
    ASSUME NEW list, NEW n \in Nat, NEW P \in SUBSET (1 .. n)
    PROVE  ToSet(AtPlaces(list, P)) = {list[i] : i \in P}
<1> DEFINE kept == AtPlaces(list, P)
           S == {list[i] : i \in P}
<1>1. /\ kept \in Seq(S)
      /\ \A i \in P : Rank(P, i) \in DOMAIN kept /\ kept[Rank(P, i)] = list[i]
    <2>1. kept \in Seq(S)
        BY AtPlacesElements
    <2>2. DOMAIN kept = 1 .. Cardinality(P)
        BY AtPlacesElements
    <2>3. \A i \in P : Rank(P, i) \in 1 .. Cardinality(P) /\ kept[Rank(P, i)] = list[i]
        BY AtPlacesElements
    <2> HIDE DEF kept, S
    <2> QED  BY <2>1, <2>2, <2>3
<1>2. ToSet(kept) \subseteq S
    <2> HIDE DEF kept, S
    <2> QED  BY <1>1, ElementOfSeq, LenProperties DEF ToSet
<1>3. S \subseteq ToSet(kept)
    <2> HIDE DEF kept
    <2> QED  BY <1>1 DEF ToSet
<1> QED  BY <1>2, <1>3

\* AtPlaces of a list.
LEMMA AtPlacesOfSeq ==
    ASSUME NEW S, NEW list \in Seq(S), NEW P \in SUBSET DOMAIN list
    PROVE  /\ AtPlaces(list, P) \in Seq(S)
           /\ AtPlaces(list, P) \in Seq({list[i] : i \in P})
           /\ AtPlaces(list, P) = <<>> <=> P = {}
<1> DEFINE kept == AtPlaces(list, P)
<1>1. Len(list) \in Nat /\ DOMAIN list = 1 .. Len(list)
    BY LenProperties
<1>2. P \in SUBSET (1 .. Len(list))
    BY <1>1
<1>3. /\ DOMAIN kept = 1 .. Cardinality(P)
      /\ kept \in Seq({list[i] : i \in P})
      /\ Len(kept) = Cardinality(P)
      /\ \A i \in P : Rank(P, i) \in 1 .. Cardinality(P) /\ kept[Rank(P, i)] = list[i]
      /\ Cardinality(P) \in 0 .. Len(list)
    BY <1>1, <1>2, AtPlacesElements
<1> HIDE DEF kept
<1>4. {list[i] : i \in P} \subseteq S
    BY <1>1, ElementOfSeq
<1>5. kept \in Seq(S)
    BY <1>3, <1>4, SeqMonotonic
<1>6. kept = <<>> <=> P = {}
    <2>1. IsFiniteSet(P)
        BY <1>1, <1>2, RankType
    <2>2. P = {} <=> Cardinality(P) = 0
        BY <2>1, FS_EmptySet
    <2>3. kept = <<>> <=> Len(kept) = 0
        BY <1>5, EmptySeq
    <2> QED  BY <1>3, <2>2, <2>3
<1> QED  BY <1>3, <1>5, <1>6 DEF kept

-----------------------------------------------------------------------------
(* What a good query is parsed to.                                         *)

LEMMA Zero == ZeroSnssai \in Snssais
    BY QueryAssumption DEF ZeroSnssai, Snssais

LEMMA ValueAtType ==
    ASSUME NEW S, NEW values \in Seq(S), NEW i
    PROVE  ValueAt(values, i) \in S \cup {NoValue}
    BY ElementOfSeq, LenProperties DEF ValueAt

LEMMA LongerType ==
    ASSUME NEW m \in Nat, NEW n \in Nat
    PROVE  Longer(m, n) \in Nat /\ m <= Longer(m, n) /\ n <= Longer(m, n)
    BY DEF Longer

LEMMA KeysType ==
    ASSUME NEW list \in SnssaiKeys
    PROVE  /\ list.sst \in Seq(SstValues) /\ list.sd \in Seq(Sds \cup {NoValue})
           /\ Len(list.sst) \in Nat /\ Len(list.sd) \in Nat
           /\ Longer(Len(list.sst), Len(list.sd)) \in Nat
<1>1. list.sst \in Seq(SstValues) /\ list.sd \in Seq(Sds \cup {NoValue})
    BY DEF SnssaiKeys
<1> QED  BY <1>1, LenProperties, LongerType

LEMMA SnssaiOfType ==
    ASSUME NEW sst \in SstValues, NEW sd \in Sds \cup {NoValue}, GoodSnssai(sst, sd)
    PROVE  SnssaiOf(sst, sd) \in Snssais \cup {NoSnssai}
    BY DEF SstValues, GoodSnssai, SnssaiOf, Snssais

LEMMA EntriesType ==
    ASSUME NEW list \in SnssaiKeys, GoodList(list)
    PROVE  /\ Entries(list) \in Seq(Snssais \cup {NoSnssai})
           /\ DOMAIN Entries(list) = Indices(list)
           /\ SnssaiList(list) \in Seq(Snssais)
<1> DEFINE n == Longer(Len(list.sst), Len(list.sd))
<1>1. /\ list.sst \in Seq(SstValues) /\ list.sd \in Seq(Sds \cup {NoValue})
      /\ n \in Nat
    BY KeysType
<1>2. \A i \in Indices(list) : Entries(list)[i] \in Snssais \cup {NoSnssai}
    <2> TAKE i \in Indices(list)
    <2>1. ValueAt(list.sst, i) \in SstValues \cup {NoValue}
        BY <1>1, ValueAtType
    <2>2. ValueAt(list.sd, i) \in Sds \cup {NoValue} \cup {NoValue}
        BY <1>1, ValueAtType
    <2>3. ValueAt(list.sst, i) \in SstValues /\ ValueAt(list.sd, i) \in Sds \cup {NoValue}
        BY <2>1, <2>2 DEF SstValues
    <2>4. SnssaiOf(ValueAt(list.sst, i), ValueAt(list.sd, i)) \in Snssais \cup {NoSnssai}
        BY <2>3, SnssaiOfType DEF GoodList
    <2> QED  BY <2>4 DEF Entries
<1>3. /\ DOMAIN Entries(list) = Indices(list) /\ Indices(list) = 1 .. n
      /\ Entries(list) \in [1 .. n -> Snssais \cup {NoSnssai}]
    BY <1>2 DEF Entries, Indices
<1> HIDE DEF n
<1>4. Entries(list) \in Seq(Snssais \cup {NoSnssai})
    BY <1>1, <1>3, SeqDef
<1> DEFINE P == {i \in DOMAIN Entries(list) : Entries(list)[i] # NoSnssai}
<1>5. SnssaiList(list) = AtPlaces(Entries(list), P)
    BY DEF SnssaiList, Filter
<1>6. SnssaiList(list) \in Seq({Entries(list)[i] : i \in P})
    BY <1>4, <1>5, AtPlacesOfSeq
<1>7. {Entries(list)[i] : i \in P} \subseteq Snssais
    BY <1>2, <1>3
<1>8. SnssaiList(list) \in Seq(Snssais)
    BY <1>6, <1>7, SeqMonotonic
<1> QED  BY <1>3, <1>4, <1>8

\* A list given by its elements.
LEMMA ListType ==
    ASSUME NEW S, NEW n \in Nat, NEW list \in [1 .. n -> S]
    PROVE  list \in Seq(S) /\ DOMAIN list = 1 .. n /\ Len(list) = n
    BY SeqDef, LenProperties

LEMMA SubscribedListType ==
    ASSUME NEW list \in [snssai : SnssaiKeys, default : Seq(Bools),
                         srgs : Seq(Nat \cup {NoValue})],
           GoodList(list.snssai), \A v \in ToSet(list.default) : GoodBool(v)
    PROVE  SubscribedList(list) \in Seq(SubscribedRecords)
<1> DEFINE snssais == SnssaiList(list.snssai)
           one     == Len(snssais) = 1 /\ Len(list.srgs) > 1
           srgs(i) == CASE one -> list.srgs
                        [] ~one /\ ValueAt(list.srgs, i) # NoValue -> <<ValueAt(list.srgs, i)>>
                        [] OTHER -> <<>>
           n == Longer(Len(snssais), Longer(Len(list.default), Len(list.srgs)))
           items == [i \in 1 .. n |->
                        [snssai  |-> IF i \in DOMAIN snssais THEN snssais[i] ELSE ZeroSnssai,
                         default |-> ValueAt(list.default, i),
                         srgs    |-> srgs(i)]]
           P == {i \in DOMAIN items : \/ i \in DOMAIN snssais
                                      \/ items[i].default # NoValue
                                      \/ items[i].srgs # <<>>}
<1>1. /\ snssais \in Seq(Snssais)
      /\ list.default \in Seq(Bools) /\ list.srgs \in Seq(Nat \cup {NoValue})
    BY EntriesType
<1>2. SubscribedList(list) = AtPlaces(items, P)
    BY DEF SubscribedList
<1>3. n \in Nat
    BY <1>1, LenProperties, LongerType
<1>4. ASSUME NEW i \in 1 .. n
      PROVE  /\ (IF i \in DOMAIN snssais THEN snssais[i] ELSE ZeroSnssai) \in Snssais
             /\ ValueAt(list.default, i) \in BOOLEAN \cup {NoValue}
             /\ srgs(i) \in Seq(Nat \cup {NoValue})
    <2>1. (IF i \in DOMAIN snssais THEN snssais[i] ELSE ZeroSnssai) \in Snssais
        BY <1>1, Zero, ElementOfSeq, LenProperties
    <2>2. ValueAt(list.default, i) \in BOOLEAN \cup {NoValue}
        <3>1. \A j \in DOMAIN list.default : list.default[j] \in Bools /\ list.default[j] # NotAValue
            BY <1>1, ElementOfSeq, LenProperties DEF ToSet, GoodBool
        <3> QED  BY <3>1 DEF ValueAt, Bools
    <2>3. srgs(i) \in Seq(Nat \cup {NoValue})
        <3>1. ValueAt(list.srgs, i) \in Nat \cup {NoValue}
            BY <1>1, ValueAtType
        <3>2. <<ValueAt(list.srgs, i)>> \in Seq(Nat \cup {NoValue})
            BY <3>1
        <3> QED  BY <1>1, <3>2, EmptySeq
    <2> QED  BY <2>1, <2>2, <2>3
<1> HIDE DEF n, snssais, srgs
<1>5. items \in [1 .. n -> SubscribedRecords]
    BY <1>4 DEF SubscribedRecords
<1> HIDE DEF items
<1>6. items \in Seq(SubscribedRecords)
    BY <1>3, <1>5, ListType
<1>7. P \in SUBSET DOMAIN items
    OBVIOUS
<1> HIDE DEF P
<1>8. AtPlaces(items, P) \in Seq(SubscribedRecords)
    BY <1>6, <1>7, AtPlacesOfSeq
<1> QED  BY <1>2, <1>8

LEMMA MappingListType ==
    ASSUME NEW serving \in SnssaiKeys, NEW home \in SnssaiKeys,
           GoodList(serving), GoodList(home)
    PROVE  MappingList(serving, home) \in Seq(Tuples(Snssais))
<1> DEFINE part(list, i) == ValueAt(Entries(list), i)
           given(list, i) == part(list, i) \notin {NoValue, NoSnssai}
           orZero(list, i) == IF given(list, i) THEN part(list, i) ELSE ZeroSnssai
           n == Longer(Len(Entries(serving)), Len(Entries(home)))
           items == [i \in 1 .. n |-> [serving |-> orZero(serving, i), home |-> orZero(home, i)]]
           P == {i \in DOMAIN items : given(serving, i) \/ given(home, i)}
<1>1. /\ Entries(serving) \in Seq(Snssais \cup {NoSnssai})
      /\ Entries(home) \in Seq(Snssais \cup {NoSnssai})
    BY EntriesType
<1>2. MappingList(serving, home) = AtPlaces(items, P)
    BY DEF MappingList
<1>3. n \in Nat
    BY <1>1, LenProperties, LongerType
<1>4. ASSUME NEW i \in 1 .. n
      PROVE  orZero(serving, i) \in Snssais /\ orZero(home, i) \in Snssais
    BY <1>1, Zero, ValueAtType
<1> HIDE DEF n, orZero
<1>5. items \in [1 .. n -> Tuples(Snssais)]
    BY <1>4 DEF Tuples
<1> HIDE DEF items
<1>6. items \in Seq(Tuples(Snssais))
    BY <1>3, <1>5, ListType
<1>7. P \in SUBSET DOMAIN items
    OBVIOUS
<1> HIDE DEF P
<1>8. AtPlaces(items, P) \in Seq(Tuples(Snssais))
    BY <1>6, <1>7, AtPlacesOfSeq
<1> QED  BY <1>2, <1>8

LEMMA RegistrationOfType ==
    ASSUME NEW p \in Parameters(RegistrationRecords, RegistrationKeys), GoodRegistration(p)
    PROVE  RegistrationOf(p) \in RegistrationRecords
<1>1. CASE p \in [form : {"absent"}]
    <2>1. p.form = "absent"
        BY <1>1
    <2> QED  BY <2>1, EmptySeq DEF RegistrationOf, NoRegistration, RegistrationRecords
<1>2. CASE p \in [form : {"json"}, value : RegistrationRecords \cup {BadJson}]
    BY <1>2 DEF RegistrationOf, GoodRegistration
<1>3. CASE p \in [form : {"exploded"}, value : RegistrationKeys]
    <2> DEFINE keys == p.value
    <2>1. p.form = "exploded" /\ keys \in RegistrationKeys
        BY <1>3
    <2>2. /\ \A list \in {keys.subscribed.snssai, keys.forMapping, keys.requested,
                          keys.serving, keys.home} : GoodList(list)
          /\ \A v \in ToSet(keys.subscribed.default) : GoodBool(v)
        BY <2>1 DEF GoodRegistration
    <2>3. /\ keys.subscribed \in [snssai : SnssaiKeys, default : Seq(Bools),
                                  srgs : Seq(Nat \cup {NoValue})]
          /\ keys.requested \in SnssaiKeys /\ keys.forMapping \in SnssaiKeys
          /\ keys.serving \in SnssaiKeys /\ keys.home \in SnssaiKeys
        BY <2>1 DEF RegistrationKeys
    <2>4. SubscribedList(keys.subscribed) \in Seq(SubscribedRecords)
        BY <2>2, <2>3, SubscribedListType
    <2>5. SnssaiList(keys.requested) \in Seq(Snssais) /\ SnssaiList(keys.forMapping) \in Seq(Snssais)
        BY <2>2, <2>3, EntriesType
    <2>6. MappingList(keys.serving, keys.home) \in Seq(Tuples(Snssais))
        BY <2>2, <2>3, MappingListType
    <2> QED  BY <2>1, <2>4, <2>5, <2>6 DEF RegistrationOf, RegistrationRecords
<1> QED  BY <1>1, <1>2, <1>3 DEF Parameters

LEMMA SessionOfType ==
    ASSUME NEW p \in Parameters(SessionRecords, SessionKeys), GoodSession(p)
    PROVE  SessionOf(p) \in SessionRecords
<1>1. CASE p \in [form : {"absent"}]
    <2>1. p.form = "absent"
        BY <1>1
    <2> QED  BY <2>1, Zero DEF SessionOf, NoSession, SessionRecords
<1>2. CASE p \in [form : {"json"}, value : SessionRecords \cup {BadJson}]
    BY <1>2 DEF SessionOf, GoodSession
<1>3. CASE p \in [form : {"exploded"}, value : SessionKeys]
    <2> DEFINE keys == p.value
    <2>1. p.form = "exploded" /\ keys \in SessionKeys
        BY <1>3
    <2>2. GoodSnssai(keys.sst, keys.sd)
        BY <2>1 DEF GoodSession
    <2>3. keys.sst \in SstValues /\ keys.sd \in Sds \cup {NoValue}
        BY <2>1 DEF SessionKeys
    <2>4. (IF keys.sst = NoValue THEN ZeroSnssai ELSE SnssaiOf(keys.sst, keys.sd)) \in Snssais
        BY <2>2, <2>3, Zero DEF GoodSnssai, SnssaiOf, SstValues, Snssais
    <2> QED  BY <2>1, <2>4 DEF SessionOf, SessionRecords
<1> QED  BY <1>1, <1>2, <1>3 DEF Parameters

\* What a query that is not refused is parsed to is a request: every list, record
\* and value in it is of its type, whatever gaps and lengths its keys have.
LEMMA RequestOfType ==
    ASSUME NEW nfs, NEW plmns, NEW tais, NEW query \in QueryRecords(nfs, plmns, tais),
           GoodQuery(query)
    PROVE  RequestOf(query) \in RequestRecords(nfs, plmns, tais)
<1>1. /\ query.registration \in Parameters(RegistrationRecords, RegistrationKeys)
      /\ query.session \in Parameters(SessionRecords, SessionKeys)
      /\ query.nfId \in nfs
      /\ query.home \in plmns \cup {NoPlmn, BadJson} /\ query.tai \in tais \cup {NoTai, BadJson}
    BY DEF QueryRecords
<1>2. /\ GoodRegistration(query.registration) /\ GoodSession(query.session)
      /\ query.home \in plmns \cup {NoPlmn} /\ query.tai \in tais \cup {NoTai}
    BY <1>1 DEF GoodQuery
<1>3. RegistrationOf(query.registration) \in RegistrationRecords
    BY <1>1, <1>2, RegistrationOfType
<1>4. SessionOf(query.session) \in SessionRecords
    BY <1>1, <1>2, SessionOfType
<1> DEFINE info == RegistrationOf(query.registration)
           session == SessionOf(query.session)
<1> HIDE DEF info, session
<1>5. /\ info.subscribed \in Seq(SubscribedRecords) /\ info.requested \in Seq(Snssais)
      /\ info.forMapping \in Seq(Snssais) /\ info.mapping \in Seq(Tuples(Snssais))
      /\ info.requestMapping \in BOOLEAN /\ info.defaultConfigured \in BOOLEAN
    BY <1>3 DEF info, RegistrationRecords
<1>6. session.snssai \in Snssais /\ session.roaming \in BOOLEAN
    BY <1>4 DEF session, SessionRecords
<1>7. RequestOf(query) =
         [kind |-> IF query.registration = Absent THEN "session" ELSE "registration",
          nfId |-> query.nfId, home |-> query.home, tai |-> query.tai,
          subscribed |-> info.subscribed, requested |-> info.requested,
          forMapping |-> info.forMapping, mapping |-> info.mapping,
          requestMapping |-> info.requestMapping,
          defaultConfigured |-> info.defaultConfigured,
          snssai |-> session.snssai, roaming |-> session.roaming]
    BY DEF RequestOf, info, session
<1> QED  BY <1>1, <1>2, <1>5, <1>6, <1>7 DEF RequestRecords

-----------------------------------------------------------------------------
(* FlattenSeq                                                              *)

\* f[i] is the first i lists, one behind the other.
FlattensTo(f, lists, n) ==
    f = [i \in 1 .. n |-> IF i = 1 THEN lists[i] ELSE f[i - 1] \o lists[i]]

LEMMA FlattenExists ==
    ASSUME NEW lists, NEW n \in Nat
    PROVE  \E f : FlattensTo(f, lists, n)
<1> DEFINE Bad == {m \in Nat : ~\E f : FlattensTo(f, lists, m)}
<1> SUFFICES ASSUME Bad # {} PROVE FALSE
    OBVIOUS
<1>1. PICK m \in Bad : \A j \in Bad : m <= j
    BY MinInSet
<1>2. CASE m = 0
    <2>1. FlattensTo([i \in {} |-> <<>>], lists, 0)
        BY DEF FlattensTo
    <2> QED  BY <1>1, <1>2, <2>1
<1>3. CASE m # 0
    <2>1. m - 1 \in Nat /\ m - 1 \notin Bad /\ m \in Nat
        BY <1>1, <1>3
    <2>2. PICK f : FlattensTo(f, lists, m - 1)
        BY <2>1
    <2> DEFINE g == [i \in 1 .. m |-> IF i = 1 THEN lists[i] ELSE f[i - 1] \o lists[i]]
    <2>3. ASSUME NEW i \in 1 .. m, i # 1
          PROVE  f[i - 1] = g[i - 1]
        <3>1. i - 1 \in 1 .. m - 1 /\ i - 1 \in 1 .. m
            BY <2>1, <2>3
        <3>2. f[i - 1] = IF i - 1 = 1 THEN lists[i - 1] ELSE f[(i - 1) - 1] \o lists[i - 1]
            BY <2>2, <3>1 DEF FlattensTo
        <3>3. g[i - 1] = IF i - 1 = 1 THEN lists[i - 1] ELSE f[(i - 1) - 1] \o lists[i - 1]
            BY <3>1
        <3> QED  BY <3>2, <3>3
    <2>4. g = [i \in 1 .. m |-> IF i = 1 THEN lists[i] ELSE g[i - 1] \o lists[i]]
        BY <2>3
    <2>5. FlattensTo(g, lists, m)
        BY <2>4 DEF FlattensTo
    <2> QED  BY <1>1, <2>5
<1> QED  BY <1>2, <1>3

LEMMA FlattenIs ==
    ASSUME NEW S, NEW lists \in Seq(S), lists # <<>>
    PROVE  \E f : FlattensTo(f, lists, Len(lists)) /\ FlattenSeq(lists) = f[Len(lists)]
<1> DEFINE f == CHOOSE f : FlattensTo(f, lists, Len(lists))
<1>1. Len(lists) \in Nat /\ Len(lists) # 0
    BY LenProperties, EmptySeq
<1>2. FlattensTo(f, lists, Len(lists))
    BY <1>1, FlattenExists
<1>3. FlattenSeq(lists) = f[Len(lists)]
    BY <1>1 DEF FlattenSeq, FlattensTo
<1> QED  BY <1>2, <1>3

LEMMA FlattenType ==
    ASSUME NEW S, NEW lists \in Seq(Seq(S))
    PROVE  FlattenSeq(lists) \in Seq(S)
<1>1. CASE lists = <<>>
    <2>1. FlattenSeq(lists) = <<>>
        BY <1>1, EmptySeq DEF FlattenSeq
    <2> QED  BY <2>1, EmptySeq
<1>2. CASE lists # <<>>
    <2>0. Len(lists) \in Nat /\ Len(lists) # 0 /\ DOMAIN lists = 1 .. Len(lists)
        BY <1>2, LenProperties, EmptySeq
    <2> DEFINE n == Len(lists)
    <2>1. PICK f : FlattensTo(f, lists, n) /\ FlattenSeq(lists) = f[n]
        BY <1>2, FlattenIs
    <2>2. \A i \in 1 .. n : lists[i] \in Seq(S)
        BY <2>0, ElementOfSeq
    <2> DEFINE Bad == {i \in 1 .. n : f[i] \notin Seq(S)}
    <2>3. Bad = {}
        <3> SUFFICES ASSUME Bad # {} PROVE FALSE
            OBVIOUS
        <3>0. Bad \in SUBSET Nat
            OBVIOUS
        <3>1. PICK m \in Bad : \A j \in Bad : m <= j
            BY <3>0, MinInSet
        <3>2. CASE m = 1
            BY <2>1, <2>2, <3>1, <3>2 DEF FlattensTo
        <3>3. CASE m # 1
            <4>1. m - 1 \in 1 .. n /\ ~(m <= m - 1)
                BY <2>0, <3>1, <3>3
            <4>2. f[m - 1] \in Seq(S)
                BY <3>1, <4>1
            <4>3. f[m] = f[m - 1] \o lists[m]
                BY <2>1, <3>1, <3>3 DEF FlattensTo
            <4>4. m \in 1 .. n /\ lists[m] \in Seq(S)
                BY <2>2, <3>1
            <4>5. f[m - 1] \o lists[m] \in Seq(S)
                BY <4>2, <4>4, ConcatProperties
            <4> QED  BY <3>1, <4>3, <4>5
        <3> QED  BY <3>2, <3>3
    <2> QED  BY <2>0, <2>1, <2>3
<1> QED  BY <1>1, <1>2

\* Places without gaps are the first ones.
LEMMA FirstPlaces ==
    ASSUME NEW n \in Nat, NEW P \in SUBSET (1 .. n),
           \A i, j \in 1 .. n : i < j /\ j \in P => i \in P
    PROVE  \E m \in 0 .. n : P = 1 .. m
<1> DEFINE Out == {i \in Nat : i # 0 /\ i \notin P}
<1>1. n + 1 \in Out
    OBVIOUS
<1>2. PICK o \in Out : \A j \in Out : o <= j
    BY <1>1, MinInSet
<1>3. o \in Nat /\ o # 0 /\ o <= n + 1
    BY <1>1, <1>2
<1>4. ASSUME NEW i \in 1 .. n
      PROVE  i \in P <=> i < o
    <2>1. i < o => i \in P
        BY <1>2, <1>3
    <2>2. i = o => i \notin P
        BY <1>2
    <2>3. o < i => i \notin P
        BY <1>2, <1>3
    <2> QED  BY <1>3, <2>1, <2>2, <2>3
<1>5. o - 1 \in 0 .. n
    BY <1>3
<1>6. \A i : i \in P <=> i \in 1 .. (o - 1)
    <2> TAKE i
    <2>1. i \in 1 .. (o - 1) <=> i \in 1 .. n /\ i < o
        BY <1>3
    <2> QED  BY <1>4, <2>1
<1>7. P = 1 .. (o - 1)
    BY <1>6
<1> QED  BY <1>5, <1>7

\* A list of lists of one, and of empty ones behind them.
LEMMA FlattenOnes ==
    ASSUME NEW S, NEW lists \in Seq(Seq(S)), NEW m \in 0 .. Len(lists),
           \A i \in 1 .. Len(lists) : IF i <= m THEN Len(lists[i]) = 1 ELSE lists[i] = <<>>
    PROVE  FlattenSeq(lists) = [i \in 1 .. m |-> lists[i][1]]
<1>0. Len(lists) \in Nat /\ DOMAIN lists = 1 .. Len(lists)
    BY LenProperties
<1>1. CASE lists = <<>>
    <2>1. m = 0 /\ FlattenSeq(lists) = <<>>
        BY <1>1, EmptySeq DEF FlattenSeq
    <2> QED  BY <2>1
<1>2. CASE lists # <<>>
    <2> DEFINE n == Len(lists)
    <2>0. n # 0
        BY <1>2, EmptySeq
    <2>1. PICK f : FlattensTo(f, lists, n) /\ FlattenSeq(lists) = f[n]
        BY <1>2, FlattenIs
    <2>2. \A i \in 1 .. n : lists[i] \in Seq(S)
        BY <1>0, ElementOfSeq
    <2> DEFINE upto(i) == IF i <= m THEN i ELSE m
               front(i) == [k \in 1 .. upto(i) |-> lists[k][1]]
               Bad == {i \in 1 .. n : f[i] # front(i)}
    <2>4. ASSUME NEW i \in 1 .. n
          PROVE  front(i) \in Seq(S) /\ Len(front(i)) = upto(i) /\ upto(i) \in Nat
        <3>1. upto(i) \in Nat /\ \A k \in 1 .. upto(i) : k \in 1 .. n /\ k <= m
            BY <1>0
        <3>2. \A k \in 1 .. upto(i) : lists[k] \in Seq(S) /\ Len(lists[k]) = 1
            BY <2>2, <3>1
        <3>3. \A k \in 1 .. upto(i) : lists[k][1] \in S
            BY <3>2, ElementOfSeq
        <3> HIDE DEF upto
        <3>4. front(i) \in [1 .. upto(i) -> S]
            BY <3>3
        <3> QED  BY <3>1, <3>4, ListType
    <2>3. Bad = {}
        <3> SUFFICES ASSUME Bad # {} PROVE FALSE
            OBVIOUS
        <3>0. Bad \in SUBSET Nat
            OBVIOUS
        <3>1. PICK o \in Bad : \A j \in Bad : o <= j
            BY <3>0, MinInSet
        <3>2. o \in 1 .. n /\ o \in Nat /\ f[o] # front(o) /\ lists[o] \in Seq(S)
            BY <2>2, <3>1
        <3>3. ASSUME o <= m PROVE lists[o] = <<lists[o][1]>>
            <4>1. Len(lists[o]) = 1
                BY <3>2, <3>3
            <4> QED  BY <3>2, <4>1
        <3>4. CASE o = 1
            <4>1. f[1] = lists[1]
                BY <2>1, <3>2, <3>4 DEF FlattensTo
            <4>2. CASE 1 <= m
                <5>1. front(1) = <<lists[1][1]>>
                    BY <4>2
                <5> QED  BY <3>2, <3>3, <3>4, <4>1, <4>2, <5>1
            <4>3. CASE ~(1 <= m)
                <5>1. front(1) = <<>> /\ lists[1] = <<>>
                    BY <3>2, <3>4, <4>3
                <5> QED  BY <3>2, <3>4, <4>1, <5>1
            <4> QED  BY <4>2, <4>3
        <3>5. CASE o # 1
            <4>1. o - 1 \in 1 .. n /\ ~(o <= o - 1)
                BY <1>0, <3>2, <3>5
            <4>2. f[o - 1] = front(o - 1)
                BY <3>1, <4>1
            <4>3. f[o] = front(o - 1) \o lists[o]
                <5> HIDE DEF front
                <5>1. f[o] = f[o - 1] \o lists[o]
                    BY <2>1, <3>2, <3>5 DEF FlattensTo
                <5> QED  BY <4>2, <5>1
            <4>4. CASE o <= m
                <5>1. lists[o] = <<lists[o][1]>> /\ upto(o) = o /\ upto(o - 1) = o - 1
                    BY <3>2, <3>3, <4>4
                <5>3. front(o - 1) \in Seq(S) /\ Len(front(o - 1)) = o - 1
                    BY <2>4, <4>1, <5>1
                <5>4. f[o] = Append(front(o - 1), lists[o][1])
                    <6>1. lists[o][1] \in S
                        BY <3>2, <5>1, ElementOfSeq
                    <6>2. Append(front(o - 1), lists[o][1]) = front(o - 1) \o <<lists[o][1]>>
                        BY <5>3, <6>1, AppendIsConcat
                    <6> QED  BY <4>3, <5>1, <6>2
                <5>5. Append(front(o - 1), lists[o][1]) = front(o)
                    <6> HIDE DEF front
                    <6>1. /\ DOMAIN Append(front(o - 1), lists[o][1]) = 1 .. o
                          /\ \A k \in 1 .. o : Append(front(o - 1), lists[o][1])[k] =
                                IF k < o THEN front(o - 1)[k] ELSE lists[o][1]
                        <7>1. lists[o][1] \in S /\ o \in Nat /\ o >= 1
                            BY <3>2, <5>1, ElementOfSeq
                        <7>2. /\ Len(Append(front(o - 1), lists[o][1])) = (o - 1) + 1
                              /\ Append(front(o - 1), lists[o][1]) \in Seq(S)
                              /\ \A k \in 1 .. (o - 1) :
                                    Append(front(o - 1), lists[o][1])[k] = front(o - 1)[k]
                              /\ Append(front(o - 1), lists[o][1])[(o - 1) + 1] = lists[o][1]
                            BY <5>3, <7>1, AppendProperties
                        <7>3. DOMAIN Append(front(o - 1), lists[o][1]) = 1 .. ((o - 1) + 1)
                            BY <7>2, LenProperties
                        <7>4. (o - 1) + 1 = o /\ \A k \in 1 .. o : k < o => k \in 1 .. (o - 1)
                            BY <7>1
                        <7>5. \A k \in 1 .. o : ~(k < o) => k = o
                            BY <7>1
                        <7> QED  BY <7>2, <7>3, <7>4, <7>5
                    <6>2. Append(front(o - 1), lists[o][1]) = [k \in 1 .. o |->
                                IF k < o THEN front(o - 1)[k] ELSE lists[o][1]]
                        <7>1. Append(front(o - 1), lists[o][1]) \in Seq(S)
                            BY <3>2, <5>1, <5>3, ElementOfSeq, AppendProperties
                        <7> QED  BY <6>1, <7>1
                    <6> USE DEF front
                    <6> QED  BY <3>2, <5>1, <6>1, <6>2
                <5> QED  BY <3>2, <5>4, <5>5
            <4>5. CASE ~(o <= m)
                <5>1. lists[o] = <<>> /\ upto(o) = upto(o - 1)
                    BY <1>0, <3>2, <4>5
                <5>2. front(o - 1) \in Seq(S)
                    BY <2>4, <4>1
                <5> QED  BY <3>2, <4>3, <5>1, <5>2, ConcatEmptySeq
            <4> QED  BY <4>4, <4>5
        <3> QED  BY <3>4, <3>5
    <2>5. n \in 1 .. n /\ upto(n) = m
        <3>1. n \in Nat /\ n # 0 /\ m \in Nat /\ m <= n
            BY <1>0, <2>0
        <3> HIDE DEF n
        <3> QED  BY <3>1
    <2>6. f[n] = front(n)
        <3> HIDE DEF front
        <3> QED  BY <2>3, <2>5
    <2> QED  BY <2>1, <2>5, <2>6
<1> QED  BY <1>1, <1>2

-----------------------------------------------------------------------------
(* What a consumer's request is encoded to.                                *)

LEMMA PartType ==
    ASSUME NEW S, NEW T, NEW list \in Seq(S), NEW field, \A e \in S : e[field] \in T
    PROVE  /\ Part(list, field) \in Seq(T)
           /\ DOMAIN Part(list, field) = 1 .. Len(list)
           /\ Len(Part(list, field)) = Len(list) /\ Len(list) \in Nat
<1>1. /\ Len(list) \in Nat /\ DOMAIN list = 1 .. Len(list)
      /\ \A i \in 1 .. Len(list) : list[i] \in S
    BY LenProperties, ElementOfSeq
<1>2. Part(list, field) \in [1 .. Len(list) -> T]
    BY <1>1 DEF Part
<1> QED  BY <1>1, <1>2, ListType

LEMMA GivenType ==
    ASSUME NEW S, NEW values \in Seq(S)
    PROVE  Given(values) \in Seq(S)
<1> DEFINE P == {i \in DOMAIN values : values[i] # NoValue}
<1>1. P \in SUBSET DOMAIN values
    OBVIOUS
<1>2. Given(values) = AtPlaces(values, P)
    BY DEF Given, Filter
<1> HIDE DEF P
<1>3. AtPlaces(values, P) \in Seq(S)
    BY <1>1, AtPlacesOfSeq
<1> QED  BY <1>2, <1>3

\* Where the values given come first, a place has its own value.
LEMMA GivenFront ==
    ASSUME NEW S, NEW values \in Seq(S), GivenFirst(values)
    PROVE  /\ Len(Given(values)) \in 0 .. Len(values)
           /\ \A i \in 1 .. Len(values) : ValueAt(Given(values), i) = values[i]
           /\ ToSet(Given(values)) \subseteq S \ {NoValue}
<1> DEFINE P == {i \in DOMAIN values : values[i] # NoValue}
           n == Len(values)
<1>1. n \in Nat /\ DOMAIN values = 1 .. n
    BY LenProperties
<1>2. P \in SUBSET (1 .. n) /\ P \in SUBSET DOMAIN values
    BY <1>1
<1>3. \A i, j \in 1 .. n : i < j /\ j \in P => i \in P
    BY <1>1 DEF GivenFirst
<1>4. Given(values) = AtPlaces(values, P)
    BY DEF Given, Filter
<1>5. \A i \in 1 .. n : i \in P <=> values[i] # NoValue
    BY <1>1
<1>6. \A i \in 1 .. n : values[i] \in S
    BY <1>1, ElementOfSeq
<1> HIDE DEF P, n
<1>7. PICK m \in 0 .. n : P = 1 .. m
    BY <1>1, <1>2, <1>3, FirstPlaces
<1>8. m \in Nat /\ m <= n
    BY <1>1, <1>7
<1>9. Given(values) = [k \in 1 .. m |-> values[k]]
    BY <1>4, <1>7, <1>8, AtFront
<1>10. Len(Given(values)) = m /\ DOMAIN Given(values) = 1 .. m
    <2>1. [k \in 1 .. m |-> values[k]] \in [1 .. m -> {values[k] : k \in 1 .. m}]
        OBVIOUS
    <2> QED  BY <1>8, <1>9, <2>1, ListType
<1>11. \A i \in 1 .. n : ValueAt(Given(values), i) = values[i]
    <2> TAKE i \in 1 .. n
    <2>1. i \in P <=> i \in 1 .. m
        BY <1>7
    <2> QED  BY <1>5, <1>9, <1>10, <2>1 DEF ValueAt
<1>12. ToSet(Given(values)) \subseteq S \ {NoValue}
    <2>1. \A k \in 1 .. m : k \in 1 .. n /\ k \in P
        BY <1>7, <1>8, <1>1
    <2> QED  BY <1>5, <1>6, <1>9, <1>10, <2>1 DEF ToSet
<1> QED  BY <1>7, <1>10, <1>11, <1>12 DEF n

LEMMA KeysOfType ==
    ASSUME NEW list \in Seq(Snssais)
    PROVE  Keys(list) \in SnssaiKeys
<1>1. \A s \in Snssais : s["sst"] \in SstValues /\ s["sd"] \in Sds \cup {NoValue}
    BY DEF Snssais, SstValues
<1>2. Part(list, "sst") \in Seq(SstValues) /\ Part(list, "sd") \in Seq(Sds \cup {NoValue})
    BY <1>1, PartType
<1>3. Given(Part(list, "sd")) \in Seq(Sds \cup {NoValue})
    BY <1>2, GivenType
<1>4. Keys(list) = [sst |-> Part(list, "sst"), sd |-> Given(Part(list, "sd"))]
    BY DEF Keys, Part
<1> QED  BY <1>2, <1>3, <1>4 DEF SnssaiKeys

\* A list of S-NSSAIs comes back from its keys.
LEMMA SnssaisBack ==
    ASSUME NEW list \in Seq(Snssais), GivenFirst(Part(list, "sd"))
    PROVE  /\ GoodList(Keys(list)) /\ Entries(Keys(list)) = list
           /\ SnssaiList(Keys(list)) = list
<1> DEFINE n == Len(list)
           ssts == Part(list, "sst")
           sds == Given(Part(list, "sd"))
<1>1. /\ n \in Nat /\ DOMAIN list = 1 .. n
      /\ \A i \in 1 .. n : list[i] \in Snssais
    BY LenProperties, ElementOfSeq
<1>2. \A s \in Snssais : s["sst"] \in SstValues /\ s["sd"] \in Sds \cup {NoValue}
    BY DEF Snssais, SstValues
<1>3. /\ ssts \in Seq(SstValues) /\ DOMAIN ssts = 1 .. n /\ Len(ssts) = n
      /\ Part(list, "sd") \in Seq(Sds \cup {NoValue})
      /\ DOMAIN Part(list, "sd") = 1 .. n /\ Len(Part(list, "sd")) = n
    <2>1. ssts \in Seq(SstValues) /\ DOMAIN ssts = 1 .. n /\ Len(ssts) = n
        BY <1>2, PartType
    <2>2. /\ Part(list, "sd") \in Seq(Sds \cup {NoValue})
          /\ DOMAIN Part(list, "sd") = 1 .. n /\ Len(Part(list, "sd")) = n
        BY <1>2, PartType
    <2> QED  BY <2>1, <2>2
<1>4. /\ Len(sds) \in 0 .. n
      /\ \A i \in 1 .. n : ValueAt(sds, i) = Part(list, "sd")[i]
    BY <1>3, GivenFront
<1>5. Keys(list) = [sst |-> ssts, sd |-> sds]
    BY DEF Keys, Part
<1>6. Indices(Keys(list)) = 1 .. n
    BY <1>1, <1>3, <1>4, <1>5 DEF Indices, Longer
<1>7. ASSUME NEW i \in 1 .. n
      PROVE  /\ ValueAt(ssts, i) = list[i].sst /\ ValueAt(sds, i) = list[i].sd
             /\ GoodSnssai(list[i].sst, list[i].sd)
             /\ SnssaiOf(list[i].sst, list[i].sd) = list[i]
    <2>1. ValueAt(ssts, i) = list[i].sst
        BY <1>1, <1>3 DEF ValueAt, Part
    <2>2. ValueAt(sds, i) = list[i].sd
        BY <1>1, <1>4 DEF Part
    <2>3. list[i] = [sst |-> list[i].sst, sd |-> list[i].sd] /\ list[i].sst \in Nat
        BY <1>1, QueryAssumption DEF Snssais
    <2>4. list[i].sst # NoValue /\ list[i].sst # NotAValue
        BY <2>3, QueryAssumption
    <2> QED  BY <2>1, <2>2, <2>3, <2>4 DEF GoodSnssai, SnssaiOf
<1> HIDE DEF ssts, sds
<1>8. GoodList(Keys(list))
    BY <1>5, <1>6, <1>7 DEF GoodList
<1>9. Entries(Keys(list)) = list
    <2>1. Entries(Keys(list)) = [i \in 1 .. n |-> list[i]]
        BY <1>5, <1>6, <1>7 DEF Entries
    <2> QED  BY <1>1, <2>1
<1>10. SnssaiList(Keys(list)) = list
    <2>1. {i \in DOMAIN list : list[i] # NoSnssai} = 1 .. n
        BY <1>1, QueryAssumption
    <2>2. SnssaiList(Keys(list)) = AtPlaces(list, 1 .. n)
        BY <1>9, <2>1 DEF SnssaiList, Filter
    <2>3. AtPlaces(list, 1 .. n) = [k \in 1 .. n |-> list[k]]
        BY <1>1, AtFront
    <2> QED  BY <1>1, <2>2, <2>3
<1> QED  BY <1>8, <1>9, <1>10

\* The subscription as it is exploded.
SubscribedKeys(list) ==
    [snssai  |-> Keys(Part(list, "snssai")),
     default |-> Given(Part(list, "default")),
     srgs    |-> FlattenSeq(Part(list, "srgs"))]

LEMMA SubscribedParts ==
    ASSUME NEW list \in Seq(SubscribedRecords)
    PROVE  /\ Len(list) \in Nat /\ DOMAIN list = 1 .. Len(list)
           /\ \A i \in 1 .. Len(list) : list[i] \in SubscribedRecords
           /\ /\ Part(list, "snssai") \in Seq(Snssais)
              /\ Len(Part(list, "snssai")) = Len(list)
              /\ DOMAIN Part(list, "snssai") = 1 .. Len(list)
           /\ /\ Part(list, "default") \in Seq(BOOLEAN \cup {NoValue})
              /\ Len(Part(list, "default")) = Len(list)
              /\ DOMAIN Part(list, "default") = 1 .. Len(list)
           /\ /\ Part(list, "srgs") \in Seq(Seq(Nat \cup {NoValue}))
              /\ Len(Part(list, "srgs")) = Len(list)
              /\ DOMAIN Part(list, "srgs") = 1 .. Len(list)
<1>1. \A e \in SubscribedRecords : /\ e["snssai"] \in Snssais
                                   /\ e["default"] \in BOOLEAN \cup {NoValue}
                                   /\ e["srgs"] \in Seq(Nat \cup {NoValue})
    BY DEF SubscribedRecords
<1>2. /\ Part(list, "snssai") \in Seq(Snssais)
      /\ Len(Part(list, "snssai")) = Len(list) /\ DOMAIN Part(list, "snssai") = 1 .. Len(list)
    BY <1>1, PartType
<1>3. /\ Part(list, "default") \in Seq(BOOLEAN \cup {NoValue})
      /\ Len(Part(list, "default")) = Len(list) /\ DOMAIN Part(list, "default") = 1 .. Len(list)
    BY <1>1, PartType
<1>4. /\ Part(list, "srgs") \in Seq(Seq(Nat \cup {NoValue}))
      /\ Len(Part(list, "srgs")) = Len(list) /\ DOMAIN Part(list, "srgs") = 1 .. Len(list)
    <2> DEFINE T == Seq(Nat \cup {NoValue})
    <2>1. \A e \in SubscribedRecords : e["srgs"] \in T
        BY <1>1
    <2> HIDE DEF T
    <2>2. /\ Part(list, "srgs") \in Seq(T)
          /\ Len(Part(list, "srgs")) = Len(list) /\ DOMAIN Part(list, "srgs") = 1 .. Len(list)
        BY <2>1, PartType
    <2> QED  BY <2>2 DEF T
<1>5. /\ Len(list) \in Nat /\ DOMAIN list = 1 .. Len(list)
      /\ \A i \in 1 .. Len(list) : list[i] \in SubscribedRecords
    BY LenProperties, ElementOfSeq
<1> QED  BY <1>2, <1>3, <1>4, <1>5

\* Where one SRG at most goes with an S-NSSAI, and the first ones have theirs, a
\* place has its own SRG.
LEMMA SrgsFront ==
    ASSUME NEW S, NEW lists \in Seq(Seq(S)),
           \A i, j \in DOMAIN lists :
              /\ Len(lists[i]) <= 1 /\ lists[i] # <<NoValue>>
              /\ i < j /\ lists[j] # <<>> => lists[i] # <<>>
    PROVE  /\ Len(FlattenSeq(lists)) \in 0 .. Len(lists)
           /\ \A i \in 1 .. Len(lists) :
                 lists[i] = IF ValueAt(FlattenSeq(lists), i) = NoValue THEN <<>>
                            ELSE <<ValueAt(FlattenSeq(lists), i)>>
<1> DEFINE n == Len(lists)
           P == {i \in 1 .. n : lists[i] # <<>>}
           flat == FlattenSeq(lists)
<1>1. n \in Nat /\ DOMAIN lists = 1 .. n
    BY LenProperties
<1>2. \A i \in 1 .. n : lists[i] \in Seq(S)
    BY <1>1, ElementOfSeq
<1>3. P \in SUBSET (1 .. n)
    OBVIOUS
<1>4. \A i, j \in 1 .. n : i < j /\ j \in P => i \in P
    BY <1>1
<1>5. \A i \in 1 .. n : i \in P <=> lists[i] # <<>>
    OBVIOUS
<1> HIDE DEF P
<1>6. PICK m \in 0 .. n : P = 1 .. m
    <2> HIDE DEF n
    <2> QED  BY <1>1, <1>3, <1>4, FirstPlaces
<1>7. m \in Nat /\ m <= n /\ \A i \in 1 .. n : i <= m <=> i \in P
    BY <1>1, <1>6
<1>8. \A i \in 1 .. n : IF i <= m THEN Len(lists[i]) = 1 ELSE lists[i] = <<>>
    <2> TAKE i \in 1 .. n
    <2>1. i <= m => lists[i] # <<>>
        BY <1>5, <1>7
    <2>2. ~(i <= m) => lists[i] = <<>>
        BY <1>5, <1>7
    <2>3. /\ lists[i] \in Seq(S) /\ Len(lists[i]) <= 1 /\ Len(lists[i]) \in Nat
          /\ Len(lists[i]) = 0 <=> lists[i] = <<>>
        BY <1>1, <1>2, EmptySeq, LenProperties
    <2>4. CASE i <= m
        <3>1. Len(lists[i]) # 0
            BY <2>1, <2>3, <2>4
        <3>2. \A l \in Nat : l <= 1 /\ l # 0 => l = 1
            OBVIOUS
        <3>3. Len(lists[i]) = 1
            BY <2>3, <3>1, <3>2
        <3> QED  BY <2>4, <3>3
    <2>5. CASE ~(i <= m)
        BY <2>2, <2>5
    <2> QED  BY <2>4, <2>5
<1>9. flat = [i \in 1 .. m |-> lists[i][1]]
    BY <1>6, <1>8, FlattenOnes
<1>10. Len(flat) = m /\ DOMAIN flat = 1 .. m
    <2>1. flat \in [1 .. m -> {lists[i][1] : i \in 1 .. m}]
        BY <1>9
    <2> HIDE DEF flat
    <2> QED  BY <1>7, <2>1, ListType
<1>11. ASSUME NEW i \in 1 .. n
       PROVE  lists[i] = IF ValueAt(flat, i) = NoValue THEN <<>> ELSE <<ValueAt(flat, i)>>
    <2>1. CASE i <= m
        <3>1. i \in 1 .. m /\ Len(lists[i]) = 1 /\ lists[i] \in Seq(S)
            BY <1>2, <1>7, <1>8, <2>1
        <3>2. lists[i] = <<lists[i][1]>>
            BY <3>1
        <3>3. ValueAt(flat, i) = lists[i][1]
            BY <1>9, <1>10, <3>1 DEF ValueAt
        <3>4. ValueAt(flat, i) # NoValue
            BY <1>1, <3>2, <3>3
        <3> QED  BY <3>2, <3>3, <3>4
    <2>2. CASE ~(i <= m)
        <3>1. lists[i] = <<>> /\ i \notin 1 .. m
            BY <1>7, <1>8, <2>2
        <3>2. ValueAt(flat, i) = NoValue
            BY <1>10, <3>1 DEF ValueAt
        <3> QED  BY <3>1, <3>2
    <2> QED  BY <2>1, <2>2
<1> QED  BY <1>6, <1>10, <1>11

LEMMA SubscribedBack ==
    ASSUME NEW list \in Seq(SubscribedRecords),
           GivenFirst(Part(Part(list, "snssai"), "sd")),
           GivenFirst(Part(list, "default")),
           \A i, j \in DOMAIN Part(list, "srgs") :
              LET srgs == Part(list, "srgs") IN
              /\ Len(srgs[i]) <= 1 /\ srgs[i] # <<NoValue>>
              /\ i < j /\ srgs[j] # <<>> => srgs[i] # <<>>
    PROVE  SubscribedList(SubscribedKeys(list)) = list
<1> DEFINE n == Len(list)
           keys == SubscribedKeys(list)
           flat == FlattenSeq(Part(list, "srgs"))
           given == Given(Part(list, "default"))
           snssais == Part(list, "snssai")
           one     == Len(snssais) = 1 /\ Len(flat) > 1
           srgs(i) == CASE one -> flat
                        [] ~one /\ ValueAt(flat, i) # NoValue -> <<ValueAt(flat, i)>>
                        [] OTHER -> <<>>
           items == [i \in 1 .. Longer(Len(snssais), Longer(Len(given), Len(flat))) |->
                        [snssai  |-> IF i \in DOMAIN snssais THEN snssais[i] ELSE ZeroSnssai,
                         default |-> ValueAt(given, i),
                         srgs    |-> srgs(i)]]
           P == {i \in DOMAIN items : \/ i \in DOMAIN snssais
                                      \/ items[i].default # NoValue
                                      \/ items[i].srgs # <<>>}
<1>1. /\ n \in Nat /\ DOMAIN list = 1 .. n
      /\ \A i \in 1 .. n : list[i] \in SubscribedRecords
      /\ snssais \in Seq(Snssais) /\ Len(snssais) = n /\ DOMAIN snssais = 1 .. n
    BY SubscribedParts
<1>2. /\ Len(given) \in 0 .. n
      /\ \A i \in 1 .. n : ValueAt(given, i) = Part(list, "default")[i]
    BY SubscribedParts, GivenFront
<1>3. /\ Len(flat) \in 0 .. n
      /\ \A i \in 1 .. n : Part(list, "srgs")[i] =
             IF ValueAt(flat, i) = NoValue THEN <<>> ELSE <<ValueAt(flat, i)>>
    BY SubscribedParts, SrgsFront
<1>4. \A i \in 1 .. n : /\ Part(list, "srgs")[i] = list[i].srgs
                        /\ Part(list, "default")[i] = list[i].default
                        /\ snssais[i] = list[i].snssai
    BY <1>1 DEF Part
<1>5. SubscribedList(keys) = AtPlaces(items, P)
    <2>1. /\ SnssaiList(keys.snssai) = snssais /\ keys.default = given /\ keys.srgs = flat
        BY <1>1, SnssaisBack DEF SubscribedKeys
    <2> HIDE DEF keys, snssais, given, flat
    <2> QED  BY <2>1 DEF SubscribedList
<1> HIDE DEF n, keys, snssais, given, flat
<1>6. ~one
    BY <1>1, <1>3
<1>7. Longer(Len(snssais), Longer(Len(given), Len(flat))) = n
    BY <1>1, <1>2, <1>3 DEF Longer
<1>8. ASSUME NEW i \in 1 .. n
      PROVE  srgs(i) = list[i].srgs /\ ValueAt(given, i) = list[i].default
    BY <1>2, <1>3, <1>4, <1>6
<1>9. \A i \in 1 .. n : list[i] = [snssai |-> list[i].snssai, default |-> list[i].default,
                                   srgs |-> list[i].srgs]
    BY <1>1 DEF SubscribedRecords
<1> HIDE DEF srgs
<1>10. items = [i \in 1 .. n |-> list[i]]
    BY <1>1, <1>4, <1>7, <1>8, <1>9
<1>11. P = 1 .. n
    BY <1>1, <1>10
<1>12. AtPlaces(items, 1 .. n) = [k \in 1 .. n |-> items[k]]
    BY <1>1, AtFront
<1> HIDE DEF items
<1>13. [k \in 1 .. n |-> items[k]] = list
    BY <1>1, <1>10
<1> QED  BY <1>5, <1>11, <1>12, <1>13 DEF keys

LEMMA MappingParts ==
    ASSUME NEW list \in Seq(Tuples(Snssais))
    PROVE  /\ Len(list) \in Nat /\ DOMAIN list = 1 .. Len(list)
           /\ \A i \in 1 .. Len(list) : list[i] \in Tuples(Snssais)
           /\ Part(list, "serving") \in Seq(Snssais) /\ Len(Part(list, "serving")) = Len(list)
           /\ DOMAIN Part(list, "serving") = 1 .. Len(list)
           /\ Part(list, "home") \in Seq(Snssais) /\ Len(Part(list, "home")) = Len(list)
           /\ DOMAIN Part(list, "home") = 1 .. Len(list)
<1>1. \A e \in Tuples(Snssais) : e["serving"] \in Snssais /\ e["home"] \in Snssais
    BY DEF Tuples
<1>2. /\ Part(list, "serving") \in Seq(Snssais) /\ Len(Part(list, "serving")) = Len(list)
      /\ DOMAIN Part(list, "serving") = 1 .. Len(list)
    BY <1>1, PartType
<1>3. /\ Part(list, "home") \in Seq(Snssais) /\ Len(Part(list, "home")) = Len(list)
      /\ DOMAIN Part(list, "home") = 1 .. Len(list)
    BY <1>1, PartType
<1>4. /\ Len(list) \in Nat /\ DOMAIN list = 1 .. Len(list)
      /\ \A i \in 1 .. Len(list) : list[i] \in Tuples(Snssais)
    BY LenProperties, ElementOfSeq
<1> QED  BY <1>2, <1>3, <1>4

LEMMA MappingBack ==
    ASSUME NEW list \in Seq(Tuples(Snssais)),
           GivenFirst(Part(Part(list, "serving"), "sd")),
           GivenFirst(Part(Part(list, "home"), "sd"))
    PROVE  MappingList(Keys(Part(list, "serving")), Keys(Part(list, "home"))) = list
<1> DEFINE n == Len(list)
           servings == Part(list, "serving")
           homes == Part(list, "home")
           serving == Keys(servings)
           home == Keys(homes)
           part(keys, i) == ValueAt(Entries(keys), i)
           given(keys, i) == part(keys, i) \notin {NoValue, NoSnssai}
           orZero(keys, i) == IF given(keys, i) THEN part(keys, i) ELSE ZeroSnssai
           items == [i \in 1 .. Longer(Len(Entries(serving)), Len(Entries(home))) |->
                        [serving |-> orZero(serving, i), home |-> orZero(home, i)]]
           P == {i \in DOMAIN items : given(serving, i) \/ given(home, i)}
<1>1. /\ n \in Nat /\ DOMAIN list = 1 .. n
      /\ \A i \in 1 .. n : list[i] \in Tuples(Snssais)
      /\ servings \in Seq(Snssais) /\ Len(servings) = n /\ DOMAIN servings = 1 .. n
      /\ homes \in Seq(Snssais) /\ Len(homes) = n /\ DOMAIN homes = 1 .. n
    BY MappingParts
<1>2. Entries(serving) = servings /\ Entries(home) = homes
    BY <1>1, SnssaisBack
<1>3. MappingList(serving, home) = AtPlaces(items, P)
    BY DEF MappingList
<1>4. \A i \in 1 .. n : /\ servings[i] = list[i].serving /\ homes[i] = list[i].home
                        /\ list[i] = [serving |-> list[i].serving, home |-> list[i].home]
                        /\ list[i].serving \in Snssais /\ list[i].home \in Snssais
    BY <1>1 DEF Part, Tuples
<1> HIDE DEF n, serving, home, servings, homes
<1>5. ASSUME NEW i \in 1 .. n
      PROVE  /\ given(serving, i) /\ orZero(serving, i) = list[i].serving
             /\ given(home, i) /\ orZero(home, i) = list[i].home
    <2>1. part(serving, i) = list[i].serving /\ part(home, i) = list[i].home
        BY <1>1, <1>2, <1>4 DEF ValueAt
    <2> HIDE DEF part
    <2>2. given(serving, i) /\ given(home, i)
        BY <1>4, <2>1, QueryAssumption
    <2> QED  BY <2>1, <2>2
<1>6. Longer(Len(Entries(serving)), Len(Entries(home))) = n
    BY <1>1, <1>2 DEF Longer
<1> HIDE DEF orZero, given
<1>7. items = [i \in 1 .. n |-> list[i]]
    BY <1>4, <1>5, <1>6
<1>8. P = 1 .. n
    BY <1>5, <1>7
<1> HIDE DEF items
<1>9. AtPlaces(items, 1 .. n) = [k \in 1 .. n |-> items[k]]
    BY <1>1, AtFront
<1>10. [k \in 1 .. n |-> items[k]] = list
    BY <1>1, <1>7
<1> QED  BY <1>3, <1>8, <1>9, <1>10 DEF serving, home, servings, homes

LEMMA ExplodedRegistrationType ==
    ASSUME NEW nfs, NEW plmns, NEW tais, NEW r \in RequestRecords(nfs, plmns, tais)
    PROVE  /\ r.subscribed \in Seq(SubscribedRecords) /\ r.requested \in Seq(Snssais)
           /\ r.forMapping \in Seq(Snssais) /\ r.mapping \in Seq(Tuples(Snssais))
           /\ ExplodedRegistration(r) = Exploded(
                 [subscribed |-> SubscribedKeys(r.subscribed),
                  requested |-> Keys(r.requested), forMapping |-> Keys(r.forMapping),
                  serving |-> Keys(Part(r.mapping, "serving")),
                  home |-> Keys(Part(r.mapping, "home")),
                  requestMapping |-> r.requestMapping,
                  defaultConfigured |-> r.defaultConfigured,
                  ueSupNssrgInd |-> NoValue, suppressNssrgInd |-> NoValue,
                  nsagSupported |-> NoValue])
           /\ ExplodedRegistration(r) \in [form : {"exploded"}, value : RegistrationKeys]
<1>1. /\ r.subscribed \in Seq(SubscribedRecords) /\ r.requested \in Seq(Snssais)
      /\ r.forMapping \in Seq(Snssais) /\ r.mapping \in Seq(Tuples(Snssais))
      /\ r.requestMapping \in BOOLEAN /\ r.defaultConfigured \in BOOLEAN
    BY DEF RequestRecords
<1> DEFINE subscribed == SubscribedKeys(r.subscribed)
           requested == Keys(r.requested)
           forMapping == Keys(r.forMapping)
           serving == Keys(Part(r.mapping, "serving"))
           home == Keys(Part(r.mapping, "home"))
<1>2. requested \in SnssaiKeys /\ forMapping \in SnssaiKeys
    BY <1>1, KeysOfType
<1>3. serving \in SnssaiKeys /\ home \in SnssaiKeys
    BY <1>1, MappingParts, KeysOfType
<1>4. subscribed \in [snssai : SnssaiKeys, default : Seq(Bools), srgs : Seq(Nat \cup {NoValue})]
    <2> DEFINE list == r.subscribed
    <2>1. /\ Part(list, "snssai") \in Seq(Snssais)
          /\ Part(list, "default") \in Seq(BOOLEAN \cup {NoValue})
          /\ Part(list, "srgs") \in Seq(Seq(Nat \cup {NoValue}))
        BY <1>1, SubscribedParts
    <2>2. Keys(Part(list, "snssai")) \in SnssaiKeys
        BY <2>1, KeysOfType
    <2>3. Given(Part(list, "default")) \in Seq(Bools)
        <3>1. Given(Part(list, "default")) \in Seq(BOOLEAN \cup {NoValue})
            BY <2>1, GivenType
        <3>2. BOOLEAN \cup {NoValue} \subseteq Bools
            BY DEF Bools
        <3> QED  BY <3>1, <3>2, SeqMonotonic
    <2>4. FlattenSeq(Part(list, "srgs")) \in Seq(Nat \cup {NoValue})
        BY <2>1, FlattenType
    <2> QED  BY <2>2, <2>3, <2>4 DEF SubscribedKeys
<1>5. ExplodedRegistration(r) = Exploded(
         [subscribed |-> subscribed, requested |-> requested, forMapping |-> forMapping,
          serving |-> serving, home |-> home, requestMapping |-> r.requestMapping,
          defaultConfigured |-> r.defaultConfigured, ueSupNssrgInd |-> NoValue,
          suppressNssrgInd |-> NoValue, nsagSupported |-> NoValue])
    BY DEF ExplodedRegistration, SubscribedKeys
<1> HIDE DEF subscribed, requested, forMapping, serving, home
<1>6. ExplodedRegistration(r) \in [form : {"exploded"}, value : RegistrationKeys]
    BY <1>1, <1>2, <1>3, <1>4, <1>5 DEF Exploded, RegistrationKeys, Bools
<1> QED  BY <1>1, <1>5, <1>6 DEF subscribed, requested, forMapping, serving, home

\* Whatever a request is, and however it is encoded, the query is one.
LEMMA EncodeType ==
    ASSUME NEW nfs, NEW plmns, NEW tais, NEW r \in RequestRecords(nfs, plmns, tais)
    PROVE  /\ EncodeExploded(r) \in QueryRecords(nfs, plmns, tais)
           /\ EncodeJson(r) \in QueryRecords(nfs, plmns, tais)
<1> DEFINE RP == Parameters(RegistrationRecords, RegistrationKeys)
           SP == Parameters(SessionRecords, SessionKeys)
<1>1. Absent \in RP /\ Absent \in SP
    BY DEF Absent, Parameters
<1>2. ExplodedRegistration(r) \in RP
    BY ExplodedRegistrationType DEF Parameters
<1>3. Json(RegistrationPart(r)) \in RP
    <2>1. RegistrationPart(r) \in RegistrationRecords
        BY DEF RegistrationPart, NoRegistration, RequestRecords, RegistrationRecords
    <2> QED  BY <2>1 DEF Json, Parameters
<1>4. ExplodedSession(r) \in SP
    BY DEF RequestRecords, Snssais, ExplodedSession, Exploded, Parameters, SessionKeys, SstValues
<1>5. Json(SessionPart(r)) \in SP
    <2>1. SessionPart(r) \in SessionRecords
        BY DEF SessionPart, NoSession, RequestRecords, SessionRecords
    <2> QED  BY <2>1 DEF Json, Parameters
<1>6. ASSUME NEW registration \in RP, NEW session \in SP
      PROVE  QueryFor(r, registration, session) \in QueryRecords(nfs, plmns, tais)
    BY DEF QueryFor, QueryRecords, RequestRecords, NfTypes
<1> HIDE DEF RP, SP
<1> QED  BY <1>1, <1>2, <1>3, <1>4, <1>5, <1>6 DEF EncodeExploded, EncodeJson

-----------------------------------------------------------------------------
(* There and back.                                                         *)

\* A request is told by its kind and its parts.
LEMMA RequestIs ==
    ASSUME NEW nfs, NEW plmns, NEW tais, NEW r \in RequestRecords(nfs, plmns, tais), NEW query,
           query.nfId = r.nfId, query.home = r.home, query.tai = r.tai,
           (query.registration = Absent) <=> (r.kind = "session"),
           RegistrationOf(query.registration) = RegistrationPart(r),
           SessionOf(query.session) = SessionPart(r)
    PROVE  RequestOf(query) = r
<1>1. /\ RegistrationPart(r) =
             [subscribed |-> r.subscribed, requested |-> r.requested,
              forMapping |-> r.forMapping, mapping |-> r.mapping,
              requestMapping |-> r.requestMapping, defaultConfigured |-> r.defaultConfigured]
      /\ SessionPart(r) = [snssai |-> r.snssai, roaming |-> r.roaming]
    BY DEF RegistrationPart, NoRegistration, SessionPart, NoSession
<1>2. r = [kind |-> r.kind, nfId |-> r.nfId, home |-> r.home, tai |-> r.tai,
           subscribed |-> r.subscribed, requested |-> r.requested,
           forMapping |-> r.forMapping, mapping |-> r.mapping,
           requestMapping |-> r.requestMapping, defaultConfigured |-> r.defaultConfigured,
           snssai |-> r.snssai, roaming |-> r.roaming]
    BY DEF RequestRecords
<1>3. r.kind = IF query.registration = Absent THEN "session" ELSE "registration"
    BY DEF RequestRecords
<1> QED  BY <1>1, <1>2, <1>3 DEF RequestOf

LEMMA NotRefused ==
    ASSUME NEW query, query.nfType = "AMF",
           GoodRegistration(query.registration), GoodSession(query.session),
           query.home # BadJson, query.tai # BadJson,
           query.registration # Absent \/ query.session # Absent
    PROVE  GoodQuery(query) /\ ~BadQuery(query) /\ ~UnauthorizedQuery(query)
<1>1. "AMF" # NoValue
    BY QueryAssumption DEF NfTypes
<1> QED  BY <1>1 DEF GoodQuery, BadQuery, UnauthorizedQuery, Authorized

\* A request sent as JSON is not refused, and is parsed to what was sent.
LEMMA JsonUnderstood ==
    ASSUME NEW nfs, NEW plmns, NEW tais, NEW r \in RequestRecords(nfs, plmns, tais),
           OneKind(r), r.home # BadJson, r.tai # BadJson,
           BadJson \notin RegistrationRecords \cup SessionRecords
    PROVE  /\ ~BadQuery(EncodeJson(r)) /\ ~UnauthorizedQuery(EncodeJson(r))
           /\ RequestOf(EncodeJson(r)) = r
<1> DEFINE query == EncodeJson(r)
           registration == query.registration
           session == query.session
<1>1. r.kind \in {"registration", "session"}
    BY DEF RequestRecords
<1>2. RegistrationPart(r) \in RegistrationRecords /\ SessionPart(r) \in SessionRecords
    BY DEF RegistrationPart, NoRegistration, SessionPart, NoSession, RequestRecords,
           RegistrationRecords, SessionRecords
<1>3. /\ query.nfType = "AMF" /\ query.nfId = r.nfId
      /\ query.home = r.home /\ query.tai = r.tai
    BY DEF EncodeJson, QueryFor
<1>4. CASE r.kind = "registration"
    <2>1. /\ registration = Json(RegistrationPart(r)) /\ session = Absent
          /\ SessionPart(r) = NoSession
        BY <1>4 DEF EncodeJson, QueryFor, OneKind
    <2> HIDE DEF registration, session
    <2>2. GoodRegistration(registration) /\ GoodSession(session)
        BY <1>2, <2>1 DEF GoodRegistration, GoodSession, Json, Absent
    <2>3. /\ RegistrationOf(registration) = RegistrationPart(r)
          /\ SessionOf(session) = SessionPart(r)
          /\ registration # Absent
        BY <2>1 DEF RegistrationOf, SessionOf, Json, Absent
    <2> HIDE DEF query
    <2>4. ~BadQuery(query) /\ ~UnauthorizedQuery(query)
        BY <1>3, <2>2, <2>3, NotRefused DEF registration, session
    <2>5. RequestOf(query) = r
        BY <1>3, <1>4, <2>3, RequestIs DEF registration, session
    <2> QED  BY <2>4, <2>5 DEF query
<1>5. CASE r.kind = "session"
    <2>1. /\ session = Json(SessionPart(r)) /\ registration = Absent
          /\ RegistrationPart(r) = NoRegistration
        BY <1>5 DEF EncodeJson, QueryFor, OneKind
    <2> HIDE DEF registration, session
    <2>2. GoodRegistration(registration) /\ GoodSession(session)
        BY <1>2, <2>1 DEF GoodRegistration, GoodSession, Json, Absent
    <2>3. /\ RegistrationOf(registration) = RegistrationPart(r)
          /\ SessionOf(session) = SessionPart(r)
          /\ session # Absent
        BY <2>1 DEF RegistrationOf, SessionOf, Json, Absent
    <2> HIDE DEF query
    <2>4. ~BadQuery(query) /\ ~UnauthorizedQuery(query)
        BY <1>3, <2>2, <2>3, NotRefused DEF registration, session
    <2>5. RequestOf(query) = r
        BY <1>3, <1>5, <2>1, <2>3, RequestIs DEF registration, session
    <2> QED  BY <2>4, <2>5 DEF query
<1> QED  BY <1>1, <1>4, <1>5

LEMMA PositionalParts ==
    ASSUME NEW r, Positional(r)
    PROVE  /\ GivenFirst(Part(Part(r.subscribed, "snssai"), "sd"))
           /\ GivenFirst(Part(r.requested, "sd")) /\ GivenFirst(Part(r.forMapping, "sd"))
           /\ GivenFirst(Part(Part(r.mapping, "serving"), "sd"))
           /\ GivenFirst(Part(Part(r.mapping, "home"), "sd"))
           /\ GivenFirst(Part(r.subscribed, "default"))
           /\ \A i, j \in DOMAIN Part(r.subscribed, "srgs") :
                 LET srgs == Part(r.subscribed, "srgs") IN
                 /\ Len(srgs[i]) <= 1 /\ srgs[i] # <<NoValue>>
                 /\ i < j /\ srgs[j] # <<>> => srgs[i] # <<>>
    BY DEF Positional

\* The exploded registration comes back, list by list.
LEMMA ExplodedBack ==
    ASSUME NEW nfs, NEW plmns, NEW tais, NEW r \in RequestRecords(nfs, plmns, tais),
           Positional(r)
    PROVE  /\ GoodRegistration(ExplodedRegistration(r))
           /\ RegistrationOf(ExplodedRegistration(r)) = RegistrationPart(r)
<1> DEFINE subscribed == SubscribedKeys(r.subscribed)
           requested == Keys(r.requested)
           forMapping == Keys(r.forMapping)
           serving == Keys(Part(r.mapping, "serving"))
           home == Keys(Part(r.mapping, "home"))
           p == ExplodedRegistration(r)
<1>1. /\ r.subscribed \in Seq(SubscribedRecords) /\ r.requested \in Seq(Snssais)
      /\ r.forMapping \in Seq(Snssais) /\ r.mapping \in Seq(Tuples(Snssais))
      /\ p = Exploded([subscribed |-> subscribed, requested |-> requested,
                       forMapping |-> forMapping, serving |-> serving, home |-> home,
                       requestMapping |-> r.requestMapping,
                       defaultConfigured |-> r.defaultConfigured,
                       ueSupNssrgInd |-> NoValue, suppressNssrgInd |-> NoValue,
                       nsagSupported |-> NoValue])
    BY ExplodedRegistrationType
<1>2. /\ GoodList(requested) /\ SnssaiList(requested) = r.requested
      /\ GoodList(forMapping) /\ SnssaiList(forMapping) = r.forMapping
    BY <1>1, PositionalParts, SnssaisBack
<1>3. GoodList(serving) /\ GoodList(home)
    BY <1>1, PositionalParts, MappingParts, SnssaisBack
<1>4. MappingList(serving, home) = r.mapping
    BY <1>1, PositionalParts, MappingBack
<1>5. /\ GoodList(subscribed.snssai)
      /\ \A v \in ToSet(subscribed.default) : GoodBool(v)
    <2>1. /\ Part(r.subscribed, "snssai") \in Seq(Snssais)
          /\ Part(r.subscribed, "default") \in Seq(BOOLEAN \cup {NoValue})
        BY <1>1, SubscribedParts
    <2>2. GoodList(Keys(Part(r.subscribed, "snssai")))
        BY <2>1, PositionalParts, SnssaisBack
    <2>3. ToSet(Given(Part(r.subscribed, "default"))) \subseteq (BOOLEAN \cup {NoValue}) \ {NoValue}
        BY <2>1, PositionalParts, GivenFront
    <2>4. \A v \in BOOLEAN : GoodBool(v)
        BY QueryAssumption DEF GoodBool
    <2> QED  BY <2>2, <2>3, <2>4 DEF SubscribedKeys
<1>6. SubscribedList(subscribed) = r.subscribed
    BY <1>1, PositionalParts, SubscribedBack
<1>7. /\ r.requestMapping \in BOOLEAN /\ r.defaultConfigured \in BOOLEAN
      /\ GoodBool(r.requestMapping) /\ GoodBool(r.defaultConfigured) /\ GoodBool(NoValue)
      /\ (r.requestMapping = TRUE) = r.requestMapping
      /\ (r.defaultConfigured = TRUE) = r.defaultConfigured
    BY QueryAssumption DEF RequestRecords, GoodBool
<1> HIDE DEF subscribed, requested, forMapping, serving, home, p
<1>8. GoodRegistration(p)
    BY <1>1, <1>2, <1>3, <1>5, <1>7 DEF GoodRegistration, Exploded
<1>9. RegistrationOf(p) = [subscribed |-> r.subscribed, requested |-> r.requested,
                           forMapping |-> r.forMapping, mapping |-> r.mapping,
                           requestMapping |-> r.requestMapping,
                           defaultConfigured |-> r.defaultConfigured]
    BY <1>1, <1>2, <1>4, <1>6, <1>7 DEF RegistrationOf, Exploded
<1>10. RegistrationPart(r) = RegistrationOf(p)
    BY <1>9 DEF RegistrationPart, NoRegistration
<1> QED  BY <1>8, <1>10 DEF p

LEMMA ExplodedSessionBack ==
    ASSUME NEW nfs, NEW plmns, NEW tais, NEW r \in RequestRecords(nfs, plmns, tais)
    PROVE  /\ GoodSession(ExplodedSession(r))
           /\ SessionOf(ExplodedSession(r)) = SessionPart(r)
<1>1. /\ r.snssai = [sst |-> r.snssai.sst, sd |-> r.snssai.sd] /\ r.snssai.sst \in Nat
      /\ r.roaming \in BOOLEAN
    BY QueryAssumption DEF RequestRecords, Snssais
<1>2. r.snssai.sst # NoValue /\ r.snssai.sst # NotAValue /\ NoValue # NotAValue
    BY <1>1, QueryAssumption
<1>3. (r.roaming # FALSE) = r.roaming
    BY <1>1
<1>4. SessionPart(r) = [snssai |-> r.snssai, roaming |-> r.roaming]
    BY DEF SessionPart, NoSession
<1>5. GoodSession(ExplodedSession(r))
    BY <1>1, <1>2 DEF GoodSession, GoodSnssai, ExplodedSession, Exploded
<1>6. SessionOf(ExplodedSession(r)) = [snssai |-> r.snssai, roaming |-> r.roaming]
    BY <1>1, <1>2, <1>3 DEF SessionOf, SnssaiOf, ExplodedSession, Exploded
<1> QED  BY <1>4, <1>5, <1>6

\* An exploded request is not refused, and is parsed to what was sent, where its
\* keys say everything of it.
LEMMA ExplodedUnderstood ==
    ASSUME NEW nfs, NEW plmns, NEW tais, NEW r \in RequestRecords(nfs, plmns, tais),
           OneKind(r), r.home # BadJson, r.tai # BadJson, Positional(r)
    PROVE  /\ ~BadQuery(EncodeExploded(r)) /\ ~UnauthorizedQuery(EncodeExploded(r))
           /\ RequestOf(EncodeExploded(r)) = r
<1> DEFINE query == EncodeExploded(r)
           registration == query.registration
           session == query.session
<1>1. r.kind \in {"registration", "session"}
    BY DEF RequestRecords
<1>2. /\ GoodRegistration(ExplodedRegistration(r)) /\ GoodSession(ExplodedSession(r))
      /\ RegistrationOf(ExplodedRegistration(r)) = RegistrationPart(r)
      /\ SessionOf(ExplodedSession(r)) = SessionPart(r)
      /\ ExplodedRegistration(r) # Absent /\ ExplodedSession(r) # Absent
    <2>1. ExplodedRegistration(r) # Absent /\ ExplodedSession(r) # Absent
        BY DEF ExplodedRegistration, ExplodedSession, Exploded, Absent
    <2> QED  BY <2>1, ExplodedBack, ExplodedSessionBack
<1>3. /\ query.nfType = "AMF" /\ query.nfId = r.nfId
      /\ query.home = r.home /\ query.tai = r.tai
    BY DEF EncodeExploded, QueryFor
<1>4. /\ GoodRegistration(Absent) /\ GoodSession(Absent)
      /\ RegistrationOf(Absent) = NoRegistration /\ SessionOf(Absent) = NoSession
    BY DEF GoodRegistration, GoodSession, RegistrationOf, SessionOf, Absent
<1>5. CASE r.kind = "registration"
    <2>1. /\ registration = ExplodedRegistration(r) /\ session = Absent
          /\ SessionPart(r) = NoSession
        BY <1>5 DEF EncodeExploded, QueryFor, OneKind
    <2> HIDE DEF query
    <2>2. ~BadQuery(query) /\ ~UnauthorizedQuery(query)
        BY <1>2, <1>3, <1>4, <2>1, NotRefused
    <2>3. RequestOf(query) = r
        BY <1>2, <1>3, <1>4, <1>5, <2>1, RequestIs
    <2> QED  BY <2>2, <2>3 DEF query
<1>6. CASE r.kind = "session"
    <2>1. /\ registration = Absent /\ session = ExplodedSession(r)
          /\ RegistrationPart(r) = NoRegistration
        BY <1>6 DEF EncodeExploded, QueryFor, OneKind
    <2> HIDE DEF query
    <2>2. ~BadQuery(query) /\ ~UnauthorizedQuery(query)
        BY <1>2, <1>3, <1>4, <2>1, NotRefused
    <2>3. RequestOf(query) = r
        BY <1>2, <1>3, <1>4, <1>6, <2>1, RequestIs
    <2> QED  BY <2>2, <2>3 DEF query
<1> QED  BY <1>1, <1>5, <1>6
=============================================================================
