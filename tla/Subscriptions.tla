---------------------------- MODULE Subscriptions ----------------------------
(***************************************************************************)
(* producer/nssaiavailability_subscription.go: subscriptions to changes of *)
(* the NSSAI availability, kept in NssfConfig.Subscriptions under          *)
(* factory.ConfigLock.  A subscription is reduced to its id.               *)
(*                                                                         *)
(* ConfigLock is not reentrant.  A handler that holds it and asks for it   *)
(* again waits for itself, and every other handler waits for it.           *)
(***************************************************************************)
EXTENDS Integers, SequencesExt

CONSTANTS
    Handlers,       \* request handlers; one that has answered takes the next request
    InitialLists,   \* subscription ids a configuration file may list
    MaxUint32,      \* largest id; ids are compared modulo MaxUint32 + 1
    NotANumber,     \* an id that strconv.Atoi rejects
    NamedIds,       \* ids an unsubscription may name
    NoHandler

\* What strconv.Atoi makes of an id.
Ids == Int \cup {NotANumber}

ASSUME SubscriptionsAssumption ==
    /\ MaxUint32 \in Nat \ {0}
    /\ NotANumber \notin Int
    /\ NoHandler \notin Handlers
    /\ InitialLists \subseteq Seq(Ids) /\ NamedIds \subseteq Ids

VARIABLES
    subscriptions,  \* ids in the order of NssfConfig.Subscriptions
    configLock,     \* the handler between Lock and Unlock, or NoHandler
    pc,             \* of each handler
    target,         \* the id an unsubscription names
    answer          \* created, read, refused (400, 404), deleted, missing (404)

vars == <<subscriptions, configLock, pc, target, answer>>

TypeOK ==
    /\ subscriptions \in Seq(Ids)
    /\ configLock \in {h \in Handlers : pc[h] = "authorize"} \cup {NoHandler}
    /\ pc \in [Handlers -> {"idle", "post", "authorize", "read", "unsubscribe",
                            "answered"}]
    /\ target \in [Handlers -> Ids]
    /\ answer \in [Handlers -> {"none", "created", "read", "refused", "deleted",
                                "missing"}]

Init ==
    /\ subscriptions \in InitialLists
    /\ configLock = NoHandler
    /\ pc = [h \in Handlers |-> "idle"]
    /\ target = [h \in Handlers |-> 0]
    /\ answer = [h \in Handlers |-> "none"]

-----------------------------------------------------------------------------
(* getUnusedSubscriptionIDLocked                                           *)

\* uint32(tempID): a larger number, or a negative one, wraps.
Uint32(n) == n % (MaxUint32 + 1)

HasNumber(id, k) == IF id = NotANumber THEN FALSE ELSE Uint32(id) = k

\* The loop ends at place k: at the first id that is not its own position, or
\* past the end.
ScanEndsAt(list, k) ==
    /\ k \in 1 .. Len(list) + 1
    /\ \A i \in 1 .. k - 1 : HasNumber(list[i], i)
    /\ k <= Len(list) => ~HasNumber(list[k], k)

\* It fails on an id that is no number, and when the largest id is taken.
ScanFails(list, k) == k > MaxUint32 \/ (k <= Len(list) /\ list[k] = NotANumber)

Mutant_OnePastTheEnd(list, k) == Len(list) + 1

UnusedId(list, k) == k

-----------------------------------------------------------------------------
(* NSSAIAvailabilityPostProcedure                                          *)

\* The body is decoded before anything is shared; what cannot be is refused.
PostArrives(h) ==
    /\ pc[h] = "idle"
    /\ \/ pc' = [pc EXCEPT ![h] = "post"] /\ UNCHANGED answer
       \/ /\ pc' = [pc EXCEPT ![h] = "answered"]
          /\ answer' = [answer EXCEPT ![h] = "refused"]
    /\ UNCHANGED <<subscriptions, configLock, target>>

Mutant_NoUnlockOnError(h) ==
    /\ \E k \in 1 .. Len(subscriptions) + 1 :
          ScanEndsAt(subscriptions, k) /\ ScanFails(subscriptions, k)
    /\ pc' = [pc EXCEPT ![h] = "answered"]
    /\ answer' = [answer EXCEPT ![h] = "refused"]
    /\ configLock' = h
    /\ UNCHANGED subscriptions

\* Without an unused id the deferred Unlock follows at once.
PostRefused(h) ==
    /\ \E k \in 1 .. Len(subscriptions) + 1 :
          ScanEndsAt(subscriptions, k) /\ ScanFails(subscriptions, k)
    /\ pc' = [pc EXCEPT ![h] = "answered"]
    /\ answer' = [answer EXCEPT ![h] = "refused"]
    /\ UNCHANGED <<subscriptions, configLock>>

\* The subscription is stored, then AuthorizeOfTaListFromConfig is called.
PostStores(h) ==
    /\ \E k \in 1 .. Len(subscriptions) + 1 :
          /\ ScanEndsAt(subscriptions, k) /\ ~ScanFails(subscriptions, k)
          /\ subscriptions' = Append(subscriptions, UnusedId(subscriptions, k))
    /\ configLock' = h
    /\ pc' = [pc EXCEPT ![h] = "authorize"]
    /\ UNCHANGED answer

Post(h) ==
    /\ pc[h] = "post" /\ configLock = NoHandler
    /\ PostRefused(h) \/ PostStores(h)
    /\ UNCHANGED target

-----------------------------------------------------------------------------
(* Read sections: RLock waits until no handler holds the lock, whoever      *)
(* that is.  Two kinds of handlers come here: those of other services that *)
(* only read, and the POST above, inside AuthorizeOfTaListFromConfig, which *)
(* then also gives back its own lock.                                      *)

ReadArrives(h) ==
    /\ pc[h] = "idle"
    /\ pc' = [pc EXCEPT ![h] = "read"]
    /\ UNCHANGED <<subscriptions, configLock, target, answer>>

ReadSection(h) ==
    /\ pc[h] \in {"read", "authorize"} /\ configLock = NoHandler
    /\ pc' = [pc EXCEPT ![h] = "answered"]
    /\ answer' = [answer EXCEPT ![h] = IF pc[h] = "read" THEN "read" ELSE "created"]
    /\ UNCHANGED <<subscriptions, configLock, target>>

-----------------------------------------------------------------------------
(* NSSAIAvailabilityUnsubscribeProcedure                                   *)

UnsubscribeArrives(h, id) ==
    /\ pc[h] = "idle"
    /\ pc' = [pc EXCEPT ![h] = "unsubscribe"]
    /\ target' = [target EXCEPT ![h] = id]
    /\ UNCHANGED <<subscriptions, configLock, answer>>

Mutant_TruncateAt(list, i) == SubSeq(list, 1, i - 1)

Without(list, i) == RemoveAt(list, i)

Unsubscribe(h) ==
    /\ pc[h] = "unsubscribe" /\ configLock = NoHandler
    /\ LET i == SelectInSeq(subscriptions, LAMBDA s : s = target[h]) IN
       \/ /\ i # 0
          /\ subscriptions' = Without(subscriptions, i)
          /\ answer' = [answer EXCEPT ![h] = "deleted"]
       \/ /\ i = 0
          /\ answer' = [answer EXCEPT ![h] = "missing"]
          /\ UNCHANGED subscriptions
    /\ pc' = [pc EXCEPT ![h] = "answered"]
    /\ UNCHANGED <<configLock, target>>

Return(h) ==
    /\ pc[h] = "answered"
    /\ pc' = [pc EXCEPT ![h] = "idle"]
    /\ target' = [target EXCEPT ![h] = 0]
    /\ answer' = [answer EXCEPT ![h] = "none"]
    /\ UNCHANGED <<subscriptions, configLock>>

-----------------------------------------------------------------------------
Arrives(h) ==
    \/ PostArrives(h) \/ ReadArrives(h)
    \/ \E id \in NamedIds : UnsubscribeArrives(h, id)

Serve(h) == Post(h) \/ ReadSection(h) \/ Unsubscribe(h) \/ Return(h)

Next == \E h \in Handlers : Arrives(h) \/ Serve(h)

Spec == Init /\ [][Next]_vars

\* A handler whose next step stays possible takes it; sync.RWMutex does not
\* starve one that waits while others come and go.
FairSpec == Spec /\ \A h \in Handlers : SF_vars(Serve(h))

-----------------------------------------------------------------------------
(* Properties *)

\* The numbers of the list are positive and ascend, as in the sample configuration.
Ascending(list) ==
    LET numbers == {i \in DOMAIN list : list[i] # NotANumber}
    IN  /\ \A i \in numbers : list[i] > 0
        /\ \A i, j \in numbers : i < j => list[i] < list[j]

\* The scan for an unused id stops at the first id that is not its own position.
\* In a list that ascends, holes that unsubscriptions left and ids beyond uint32
\* included, the id it gives is not taken.
NewIdUnused ==
    [][\A i \in DOMAIN subscriptions' :
         i \notin DOMAIN subscriptions /\ Ascending(subscriptions)
            => subscriptions'[i] \notin Range(subscriptions)]_vars

\* "Get available subscription ID from configuration": no two subscriptions have
\* the same id.  The code does not keep this one: a list need not ascend, neither
\* the configured one nor one whose hole a POST has filled at its end.
UniqueIds ==
    \A i, j \in DOMAIN subscriptions : subscriptions[i] = subscriptions[j] => i = j

\* A subscription ends only by an unsubscription that names it.
EndsOnlyByUnsubscribe ==
    [][\A i \in DOMAIN subscriptions :
         subscriptions[i] \notin Range(subscriptions') =>
             \E h \in Handlers :
                 pc[h] = "unsubscribe" /\ target[h] = subscriptions[i]]_vars

\* "Creates subscriptions for notification about updates to NSSAI availability
\* information": a POST is answered.  The code does not keep this one.
PostAnswered == \A h \in Handlers : pc[h] = "post" ~> pc[h] = "answered"
=============================================================================
