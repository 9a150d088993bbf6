---------------------------- MODULE PlmnPolling ----------------------------
(***************************************************************************)
(* polling/nf_configuration.go: the poller fetches the PLMN/S-NSSAI list   *)
(* from the webconsole, announces the PLMNs on plmnConfigChan when they    *)
(* changed, and stores the S-NSSAIs per PLMN that the HTTP handlers read,  *)
(* all of it under factory.ConfigLock.                                     *)
(*                                                                         *)
(* A webconsole configuration is a sequence of records                     *)
(*     [plmn |-> a PLMN id, snssais |-> a set of S-NSSAIs].                *)
(* The HTTP handlers are reduced to the time they hold ConfigLock, for     *)
(* reading or for writing, and to the writers among them that never give it *)
(* back.  The other end of the channel is the environment here; module     *)
(* NssfService puts the registration service there.                        *)
(***************************************************************************)
EXTENDS Naturals, Sequences

CONSTANTS
    PlmnIds, Snssais,
    WebuiConfigs,   \* what the webconsole may answer
    Handlers,       \* HTTP handlers that take ConfigLock
    NoHandler,      \* no handler has ConfigLock for writing
    Capacity,       \* buffer of plmnConfigChan
    InitialPollingInterval, PollingMaxBackoff   \* in seconds

ASSUME PollingAssumption ==
    /\ <<>> \in WebuiConfigs
    /\ WebuiConfigs \subseteq Seq([plmn : PlmnIds, snssais : SUBSET Snssais])
    /\ Capacity \in Nat \ {0}
    /\ InitialPollingInterval \in Nat /\ PollingMaxBackoff \in Nat
    /\ InitialPollingInterval <= PollingMaxBackoff
    /\ NoHandler \notin Handlers

VARIABLES
    ctxDone,                 \* the context of StartPollingService is cancelled
    plmnConfigChan,          \* lists announced and not yet received
    delivered,               \* history: the list the other end received last
    webui,                   \* the configuration the webconsole would answer now
    pollerPc,
    interval,                \* seconds to the next poll
    newConfig,               \* what the last fetch returned
    currentPlmnSnssaiConfig, \* the poller's copy of the configuration
    currentPlmnConfig,       \* the PLMN list it announced, or is announcing
    SupportedNssaiInPlmnList,\* what the handlers see
    reading,                 \* handlers inside RLock ... RUnlock
    writer,                  \* the handler between Lock and Unlock, or NoHandler
    lockKept                 \* that handler never unlocks

feedVars == <<ctxDone, plmnConfigChan, delivered>>
pollVars == <<pollerPc, interval, newConfig, currentPlmnSnssaiConfig,
              currentPlmnConfig, SupportedNssaiInPlmnList>>
lockVars == <<reading, writer, lockKept>>
vars == <<feedVars, webui, pollVars, lockVars>>

-----------------------------------------------------------------------------
(* convertPlmnSnssaiList: the PLMNs in order, duplicates kept; the map keeps *)
(* the S-NSSAIs of the last entry of each PLMN.                            *)

PlmnList(config) == [i \in DOMAIN config |-> config[i].plmn]

Plmns(config) == {config[i].plmn : i \in DOMAIN config}

LastEntry(config, p) ==
    CHOOSE i \in DOMAIN config :
        /\ config[i].plmn = p
        /\ \A j \in DOMAIN config : config[j].plmn = p => j <= i

SupportedNssais(config) ==
    [p \in Plmns(config) |-> config[LastEntry(config, p)].snssais]

PlmnLists == {PlmnList(c) : c \in WebuiConfigs}

(* Mutants: operators named Mutant_... are definitions with a plausible bug. *)
(* They are no part of the specification; PROJECT.json says which property  *)
(* each of them breaks.                                                    *)

Mutant_MaxDuration(a, b) == IF a < b THEN b ELSE a

MinDuration(a, b) == IF a < b THEN a ELSE b

-----------------------------------------------------------------------------
TypeOK ==
    /\ ctxDone \in BOOLEAN
    /\ plmnConfigChan \in Seq(PlmnLists) /\ Len(plmnConfigChan) <= Capacity
    /\ delivered \in PlmnLists
    /\ webui \in WebuiConfigs
    /\ pollerPc \in {"select", "fetch", "lock", "drain", "send", "store", "done"}
    /\ interval \in InitialPollingInterval .. PollingMaxBackoff
    /\ newConfig \in WebuiConfigs
    /\ currentPlmnSnssaiConfig \in WebuiConfigs
    /\ currentPlmnConfig \in PlmnLists
    /\ SupportedNssaiInPlmnList \in {SupportedNssais(c) : c \in WebuiConfigs}
    /\ reading \subseteq Handlers
    /\ writer \in Handlers \cup {NoHandler} /\ lockKept \in BOOLEAN

Init ==
    /\ ctxDone = FALSE /\ plmnConfigChan = <<>> /\ delivered = <<>>
    /\ webui \in WebuiConfigs
    /\ pollerPc = "select" /\ interval = InitialPollingInterval
    /\ newConfig = <<>> /\ currentPlmnSnssaiConfig = <<>>
    /\ currentPlmnConfig = <<>>
    /\ SupportedNssaiInPlmnList = SupportedNssais(<<>>)
    /\ reading = {} /\ writer = NoHandler /\ lockKept = FALSE

-----------------------------------------------------------------------------
(* The environment: the webconsole, the other end of the channel, shutdown. *)

WebuiChanges ==
    /\ webui' \in WebuiConfigs \ {webui}
    /\ UNCHANGED <<feedVars, pollVars, lockVars>>

Receive ==
    /\ plmnConfigChan # <<>>
    /\ delivered' = Head(plmnConfigChan)
    /\ plmnConfigChan' = Tail(plmnConfigChan)
    /\ UNCHANGED <<ctxDone, webui, pollVars, lockVars>>

CancelServices ==
    /\ ~ctxDone /\ ctxDone' = TRUE
    /\ UNCHANGED <<plmnConfigChan, delivered, webui, pollVars, lockVars>>

-----------------------------------------------------------------------------
(* StartPollingService *)

PollingStops ==
    /\ pollerPc = "select" /\ ctxDone
    /\ pollerPc' = "done"
    /\ UNCHANGED <<feedVars, webui, interval, newConfig, currentPlmnSnssaiConfig,
                   currentPlmnConfig, SupportedNssaiInPlmnList, lockVars>>


\* time.After(interval); a context that is done by then has won.
PollTimerElapses ==
    /\ pollerPc = "select" /\ ~ctxDone
    /\ pollerPc' = "fetch"
    /\ UNCHANGED <<feedVars, webui, interval, newConfig, currentPlmnSnssaiConfig,
                   currentPlmnConfig, SupportedNssaiInPlmnList, lockVars>>

\* Timeout, refused connection, wrong content type or status, bad JSON.
FetchFails ==
    /\ pollerPc = "fetch"
    /\ interval' = MinDuration(2 * interval, PollingMaxBackoff)
    /\ pollerPc' = "select"
    /\ UNCHANGED <<feedVars, webui, newConfig, currentPlmnSnssaiConfig,
                   currentPlmnConfig, SupportedNssaiInPlmnList, lockVars>>

Mutant_PlmnsChanged(config) == PlmnList(config) # currentPlmnConfig

ConfigChanged(config) == config # currentPlmnSnssaiConfig

\* The answer is handled at once: without a change the poller goes back to its
\* select, else it calls ConfigLock.Lock() ("lock").
FetchSucceeds ==
    /\ pollerPc = "fetch"
    /\ interval' = InitialPollingInterval
    /\ newConfig' = webui
    /\ pollerPc' = IF ConfigChanged(webui) THEN "lock" ELSE "select"
    /\ UNCHANGED <<feedVars, webui, currentPlmnSnssaiConfig, currentPlmnConfig,
                   SupportedNssaiInPlmnList, lockVars>>

-----------------------------------------------------------------------------
(* handlePolledPlmnSnssaiConfig, from ConfigLock.Lock() to the deferred    *)
(* Unlock.  A writer first takes the mutex among writers ("lock"); from then *)
(* on it keeps new readers out and waits for the old ones to leave ("drain"). *)

Mutant_UnlockBeforeStore == pollerPc \in {"drain", "send"}

Mutant_ReadersFirst == pollerPc \in {"send", "store"}

PollerIsWriter == pollerPc \in {"drain", "send", "store"}

NoWriter == writer = NoHandler /\ ~PollerIsWriter

TakeWriteLock ==
    /\ pollerPc = "lock" /\ NoWriter
    /\ pollerPc' = "drain"
    /\ UNCHANGED <<feedVars, webui, interval, newConfig, currentPlmnSnssaiConfig,
                   currentPlmnConfig, SupportedNssaiInPlmnList, lockVars>>

Mutant_AnnounceAlways(list) == TRUE

PlmnListChanged(list) == list # currentPlmnConfig

Mutant_StoreOnlyWithNewPlmns ==
    /\ pollerPc = "drain" /\ reading = {}
    /\ currentPlmnSnssaiConfig' = newConfig
    /\ LET list == PlmnList(newConfig) IN
       IF PlmnListChanged(list)
       THEN currentPlmnConfig' = list /\ pollerPc' = "send"
       ELSE pollerPc' = "select" /\ UNCHANGED currentPlmnConfig
    /\ UNCHANGED <<feedVars, webui, interval, newConfig, SupportedNssaiInPlmnList,
                   lockVars>>

LockAndConvert ==
    /\ pollerPc = "drain" /\ reading = {}
    /\ currentPlmnSnssaiConfig' = newConfig
    /\ LET list == PlmnList(newConfig) IN
       IF PlmnListChanged(list)
       THEN currentPlmnConfig' = list /\ pollerPc' = "send"
       ELSE pollerPc' = "store" /\ UNCHANGED currentPlmnConfig
    /\ UNCHANGED <<feedVars, webui, interval, newConfig, SupportedNssaiInPlmnList,
                   lockVars>>

\* The send blocks, with the lock held, while the channel is full.
AnnouncePlmns ==
    /\ pollerPc = "send" /\ Len(plmnConfigChan) < Capacity
    /\ plmnConfigChan' = Append(plmnConfigChan, currentPlmnConfig)
    /\ pollerPc' = "store"
    /\ UNCHANGED <<ctxDone, delivered, webui, interval, newConfig,
                   currentPlmnSnssaiConfig, currentPlmnConfig,
                   SupportedNssaiInPlmnList, lockVars>>

StoreSupported ==
    /\ pollerPc = "store"
    /\ SupportedNssaiInPlmnList' = SupportedNssais(currentPlmnSnssaiConfig)
    /\ pollerPc' = "select"
    /\ UNCHANGED <<feedVars, webui, interval, newConfig, currentPlmnSnssaiConfig,
                   currentPlmnConfig, lockVars>>

-----------------------------------------------------------------------------
(* factory.ConfigLock as the handlers meet it.                             *)

ReadLock(h) ==
    /\ h \notin reading /\ NoWriter
    /\ reading' = reading \cup {h}
    /\ UNCHANGED <<feedVars, webui, pollVars, writer, lockKept>>

ReadUnlock(h) ==
    /\ h \in reading
    /\ reading' = reading \ {h}
    /\ UNCHANGED <<feedVars, webui, pollVars, writer, lockKept>>

\* PUT, PATCH and DELETE of an AMF, POST and DELETE of a subscription.
WriteLock(h) ==
    /\ h \notin reading /\ NoWriter
    /\ writer' = h
    /\ UNCHANGED <<feedVars, webui, pollVars, reading, lockKept>>

WriteUnlock(h) ==
    /\ writer = h /\ reading = {} /\ ~lockKept
    /\ writer' = NoHandler
    /\ UNCHANGED <<feedVars, webui, pollVars, reading, lockKept>>

\* A POST takes the lock again, for reading, with the write lock held; a PATCH
\* that panics leaves without its Unlock.  Neither gives the lock back (modules
\* Subscriptions and NssaiAvailability).
KeepLock(h) ==
    /\ writer = h /\ reading = {} /\ ~lockKept
    /\ lockKept' = TRUE
    /\ UNCHANGED <<feedVars, webui, pollVars, reading, writer>>

-----------------------------------------------------------------------------
Poller ==
    \/ PollingStops \/ PollTimerElapses \/ FetchFails \/ FetchSucceeds
    \/ TakeWriteLock \/ LockAndConvert \/ AnnouncePlmns \/ StoreSupported

Handler(h) ==
    \/ ReadLock(h) \/ ReadUnlock(h)
    \/ WriteLock(h) \/ WriteUnlock(h) \/ KeepLock(h)

Next ==
    \/ WebuiChanges \/ Receive \/ CancelServices
    \/ Poller
    \/ \E h \in Handlers : Handler(h)

Spec == Init /\ [][Next]_vars

\* The poller is scheduled; the mutex inside ConfigLock hands over in order once
\* a waiter starves; a handler that does not keep the lock releases it; the
\* other end of the channel keeps receiving, which ListsReceived of NfRegistration
\* says of the registration service until the process is to stop.
Fairness ==
    /\ WF_vars(Poller) /\ SF_vars(TakeWriteLock) /\ WF_vars(Receive)
    /\ \A h \in Handlers : WF_vars(ReadUnlock(h)) /\ WF_vars(WriteUnlock(h))

FairSpec == Spec /\ Fairness

-----------------------------------------------------------------------------
(* Properties *)

\* The list announced last: the newest in the channel, else the one received.
Announced ==
    IF plmnConfigChan = <<>> THEN delivered ELSE plmnConfigChan[Len(plmnConfigChan)]

\* The four places a configuration lives in agree whenever no writer is between
\* Lock and Unlock: the poller's copy, its PLMN list, what it announced, and
\* what the handlers read.
ConfigConsistent ==
    pollerPc \notin {"send", "store"} =>
        /\ currentPlmnConfig = PlmnList(currentPlmnSnssaiConfig)
        /\ Announced = currentPlmnConfig
        /\ SupportedNssaiInPlmnList = SupportedNssais(currentPlmnSnssaiConfig)

\* A handler never decides on PLMNs other than those the NRF registration was
\* told of, although the channel is written before the supported list is.
ReadersSeeAnnounced ==
    reading # {} =>
        DOMAIN SupportedNssaiInPlmnList = {Announced[i] : i \in DOMAIN Announced}

\* The poller implements its side of PlmnFeed: it announces changes only, in
\* order, and waits when the channel is full.
Feed == INSTANCE PlmnFeed WITH PlmnConfigs <- PlmnLists, EmptyConfig <- <<>>

FeedKept == Feed!Spec

\* A webconsole configuration that stays, and can be fetched, is what the
\* handlers read in the end, even when only the S-NSSAIs of a PLMN changed and
\* however the handlers come and go; unless one of them keeps the lock.  After
\* that no configuration reaches them any more.
WebuiReachesHandlers ==
    SF_vars(FetchSucceeds) =>
        \A c \in WebuiConfigs :
            <>[](webui = c /\ ~ctxDone /\ ~lockKept)
                => <>[](SupportedNssaiInPlmnList = SupportedNssais(c))

\* A poller that waits for ConfigLock gets it, however the handlers take turns at
\* it, and gives it back, although it may block on the channel with the lock
\* held; unless the process stops (see PollerStops of NssfService), or a handler
\* keeps the lock.
LockReleased ==
    pollerPc \in {"lock", "drain", "send", "store"}
        ~> (pollerPc = "select" \/ ctxDone \/ lockKept)

\* cancelServices() ends the poller, even one that has a configuration to store,
\* as long as its announcements are received and no handler keeps the lock.
PollerStops == ctxDone ~> (pollerPc = "done" \/ lockKept)
=============================================================================
