------------------------- MODULE PlmnPollingProofs -------------------------
(***************************************************************************)
(* Theorems of PlmnPolling, for any webconsole configurations, any number  *)
(* of handlers and any capacity of the channel.                            *)
(***************************************************************************)
EXTENDS PlmnPolling, SequenceTheorems, TLAPS

-----------------------------------------------------------------------------
(* The part of the types the other proofs need.                            *)

FeedTypes ==
    /\ plmnConfigChan \in Seq(PlmnLists)
    /\ delivered \in PlmnLists
    /\ currentPlmnSnssaiConfig \in WebuiConfigs
    /\ newConfig \in WebuiConfigs
    /\ webui \in WebuiConfigs
    /\ currentPlmnConfig \in PlmnLists

LEMMA FeedTypesInit == Init => FeedTypes
<1> SUFFICES ASSUME Init PROVE FeedTypes
  OBVIOUS
<1>1. <<>> \in WebuiConfigs
  BY PollingAssumption
<1>2. PlmnList(<<>>) = <<>>
  BY DEF PlmnList
<1>3. <<>> \in PlmnLists
  BY <1>1, <1>2 DEF PlmnLists
<1>4. <<>> \in Seq(PlmnLists)
  BY EmptySeq
<1> QED BY <1>1, <1>3, <1>4 DEF Init, FeedTypes

LEMMA FeedTypesStep == ASSUME FeedTypes, [Next]_vars PROVE FeedTypes'
<1> USE DEF FeedTypes, feedVars, pollVars, lockVars
<1>1. CASE WebuiChanges
  BY <1>1 DEF WebuiChanges
<1>2. CASE Receive
  BY <1>2, HeadTailProperties DEF Receive
<1>3. CASE CancelServices
  BY <1>3 DEF CancelServices
<1>4. CASE PollingStops \/ PollTimerElapses \/ FetchFails \/ TakeWriteLock
  BY <1>4 DEF PollingStops, PollTimerElapses, FetchFails, TakeWriteLock
<1>5. CASE FetchSucceeds
  BY <1>5 DEF FetchSucceeds
<1>6. CASE LockAndConvert
  <2>1. PlmnList(newConfig) \in PlmnLists
    BY DEF PlmnLists
  <2> QED BY <1>6, <2>1 DEF LockAndConvert
<1>7. CASE AnnouncePlmns
  BY <1>7, AppendProperties DEF AnnouncePlmns
<1>8. CASE StoreSupported
  BY <1>8 DEF StoreSupported
<1>9. ASSUME NEW h \in Handlers, Handler(h) PROVE FeedTypes'
  BY <1>9 DEF Handler, ReadLock, ReadUnlock, WriteLock,
              WriteUnlock, KeepLock
<1>10. CASE UNCHANGED vars
  BY <1>10 DEF vars
<1> QED BY <1>1, <1>2, <1>3, <1>4, <1>5, <1>6, <1>7, <1>8, <1>9, <1>10
        DEF Next, Poller

-----------------------------------------------------------------------------
(* What was announced last, after a receive and after a send.              *)

LEMMA AnnouncedAfterReceive ==
    ASSUME FeedTypes, Receive PROVE Announced' = Announced
<1>1. /\ plmnConfigChan # <<>>
      /\ plmnConfigChan' = Tail(plmnConfigChan)
      /\ delivered' = Head(plmnConfigChan)
  BY DEF Receive
<1>2. /\ Len(plmnConfigChan') = Len(plmnConfigChan) - 1
      /\ \A i \in 1 .. Len(plmnConfigChan') :
            plmnConfigChan'[i] = plmnConfigChan[i + 1]
      /\ Len(plmnConfigChan) \in Nat \ {0}
      /\ plmnConfigChan' \in Seq(PlmnLists)
  BY <1>1, HeadTailProperties, EmptySeq DEF FeedTypes
<1>3. CASE plmnConfigChan' = <<>>
  <2>1. Len(plmnConfigChan) = 1
    BY <1>2, <1>3, EmptySeq
  <2> QED BY <1>1, <1>3, <2>1 DEF Announced
<1>4. CASE plmnConfigChan' # <<>>
  <2>1. Len(plmnConfigChan') \in 1 .. Len(plmnConfigChan')
    BY <1>2, <1>4, EmptySeq
  <2> QED BY <1>1, <1>2, <1>4, <2>1 DEF Announced
<1> QED BY <1>3, <1>4

LEMMA AnnouncedAfterSend ==
    ASSUME FeedTypes, AnnouncePlmns PROVE Announced' = currentPlmnConfig
<1>1. plmnConfigChan' = Append(plmnConfigChan, currentPlmnConfig)
  BY DEF AnnouncePlmns
<1>2. /\ plmnConfigChan' # <<>>
      /\ plmnConfigChan'[Len(plmnConfigChan')] = currentPlmnConfig
  BY <1>1, AppendProperties DEF FeedTypes
<1> QED BY <1>2 DEF Announced

-----------------------------------------------------------------------------
(* ConfigConsistent says nothing of the moments between Lock and Unlock.   *)
(* The inductive invariant adds them: the PLMN list is converted first,    *)
(* then announced, then the map of S-NSSAIs is stored; and no handler      *)
(* reads meanwhile.                                                        *)

Converted == currentPlmnConfig = PlmnList(currentPlmnSnssaiConfig)
AnnouncedCurrent == Announced = currentPlmnConfig
Stored == SupportedNssaiInPlmnList = SupportedNssais(currentPlmnSnssaiConfig)

LockInv ==
    /\ Converted
    /\ pollerPc # "send" => AnnouncedCurrent
    /\ pollerPc \notin {"send", "store"} => Stored
    /\ pollerPc \in {"send", "store"} => reading = {}

LEMMA LockInvInit == Init => LockInv
BY DEF Init, LockInv, Converted, AnnouncedCurrent, Stored, Announced, PlmnList

LEMMA LockInvStep ==
    ASSUME FeedTypes, LockInv, [Next]_vars PROVE LockInv'
<1> USE DEF LockInv, Converted, AnnouncedCurrent, Stored, feedVars, pollVars, lockVars
<1>1. CASE WebuiChanges
  BY <1>1 DEF WebuiChanges, Announced
<1>2. CASE Receive
  BY <1>2, AnnouncedAfterReceive DEF Receive
<1>3. CASE CancelServices
  BY <1>3 DEF CancelServices, Announced
<1>4. CASE PollingStops \/ PollTimerElapses \/ FetchFails \/ FetchSucceeds
           \/ TakeWriteLock
  BY <1>4 DEF PollingStops, PollTimerElapses, FetchFails, FetchSucceeds,
              TakeWriteLock, Announced
<1>5. CASE LockAndConvert
  <2>1. UNCHANGED Announced
    BY <1>5 DEF LockAndConvert, Announced
  <2>2. /\ pollerPc = "drain" /\ reading = {} /\ reading' = {}
        /\ currentPlmnSnssaiConfig' = newConfig
    BY <1>5 DEF LockAndConvert
  <2>3. CASE PlmnListChanged(PlmnList(newConfig))
    BY <1>5, <2>2, <2>3 DEF LockAndConvert
  <2>4. CASE ~PlmnListChanged(PlmnList(newConfig))
    <3>1. /\ pollerPc' = "store" /\ currentPlmnConfig' = currentPlmnConfig
          /\ PlmnList(newConfig) = currentPlmnConfig
      BY <1>5, <2>4 DEF LockAndConvert, PlmnListChanged
    <3> QED BY <2>1, <2>2, <3>1
  <2> QED BY <2>3, <2>4
<1>6. CASE AnnouncePlmns
  BY <1>6, AnnouncedAfterSend DEF AnnouncePlmns
<1>7. CASE StoreSupported
  BY <1>7 DEF StoreSupported, Announced
<1>8. ASSUME NEW h \in Handlers, Handler(h) PROVE LockInv'
  BY <1>8 DEF Handler, ReadLock, ReadUnlock, WriteLock,
              WriteUnlock, KeepLock, NoWriter, PollerIsWriter,
              Announced
<1>9. CASE UNCHANGED vars
  BY <1>9 DEF vars, Announced
<1> QED BY <1>1, <1>2, <1>3, <1>4, <1>5, <1>6, <1>7, <1>8, <1>9 DEF Next, Poller

LEMMA LockInvInvariant == Spec => [](FeedTypes /\ LockInv)
<1>1. Init => FeedTypes /\ LockInv
  BY FeedTypesInit, LockInvInit
<1>2. FeedTypes /\ LockInv /\ [Next]_vars => FeedTypes' /\ LockInv'
  BY FeedTypesStep, LockInvStep
<1> QED BY <1>1, <1>2, PTL DEF Spec

\* Outside the poller's critical section its own copy of the configuration, the
\* PLMN list it announced and the map the handlers read agree.
THEOREM ConfigStaysConsistent == Spec => []ConfigConsistent
<1>1. LockInv => ConfigConsistent
  BY DEF LockInv, Converted, AnnouncedCurrent, Stored, ConfigConsistent
<1> QED BY <1>1, LockInvInvariant, PTL

\* The PLMNs of the map are those of the list.
LEMMA SupportedPlmns ==
    ASSUME NEW c
    PROVE  DOMAIN SupportedNssais(c) =
               {PlmnList(c)[i] : i \in DOMAIN PlmnList(c)}
BY DEF SupportedNssais, PlmnList, Plmns

\* A handler that holds the read lock sees the S-NSSAIs of exactly the PLMNs
\* that were announced to the registration service.
THEOREM HandlersSeeAnnounced == Spec => []ReadersSeeAnnounced
<1>1. LockInv => ReadersSeeAnnounced
  <2> SUFFICES ASSUME LockInv, reading # {}
               PROVE  DOMAIN SupportedNssaiInPlmnList =
                          {Announced[i] : i \in DOMAIN Announced}
    BY DEF ReadersSeeAnnounced
  <2>1. /\ Announced = PlmnList(currentPlmnSnssaiConfig)
        /\ SupportedNssaiInPlmnList = SupportedNssais(currentPlmnSnssaiConfig)
    BY DEF LockInv, Converted, AnnouncedCurrent, Stored
  <2> QED BY <2>1, SupportedPlmns
<1> QED BY <1>1, LockInvInvariant, PTL

-----------------------------------------------------------------------------
(* The poller as a party of PlmnFeed: what waits to be sent is news.       *)

SendsNews == pollerPc = "send" => currentPlmnConfig # Announced

LEMMA SendsNewsStep ==
    ASSUME FeedTypes, LockInv, SendsNews, [Next]_vars PROVE SendsNews'
<1> USE DEF SendsNews, feedVars, pollVars, lockVars
<1>1. CASE WebuiChanges \/ CancelServices
  BY <1>1 DEF WebuiChanges, CancelServices, Announced
<1>2. CASE Receive
  BY <1>2, AnnouncedAfterReceive DEF Receive
<1>3. CASE PollingStops \/ PollTimerElapses \/ FetchFails \/ FetchSucceeds
           \/ TakeWriteLock
  BY <1>3 DEF PollingStops, PollTimerElapses, FetchFails, FetchSucceeds,
              TakeWriteLock
<1>4. CASE LockAndConvert
  BY <1>4 DEF LockAndConvert, PlmnListChanged, LockInv, AnnouncedCurrent, Announced
<1>5. CASE AnnouncePlmns \/ StoreSupported
  BY <1>5 DEF AnnouncePlmns, StoreSupported
<1>6. ASSUME NEW h \in Handlers, Handler(h) PROVE SendsNews'
  BY <1>6 DEF Handler, ReadLock, ReadUnlock, WriteLock,
              WriteUnlock, KeepLock, Announced
<1>7. CASE UNCHANGED vars
  BY <1>7 DEF vars, Announced
<1> QED BY <1>1, <1>2, <1>3, <1>4, <1>5, <1>6, <1>7 DEF Next, Poller

LEMMA FeedStep ==
    ASSUME FeedTypes, SendsNews, [Next]_vars PROVE [Feed!Next]_(Feed!vars)
<1> USE DEF feedVars, pollVars, lockVars, Feed!vars
<1>1. CASE Receive
  BY <1>1 DEF Receive, Feed!Next, Feed!Receive
<1>2. CASE CancelServices
  BY <1>2 DEF CancelServices, Feed!Next, Feed!Cancel
<1>3. CASE AnnouncePlmns
  <2>1. Feed!Announce(currentPlmnConfig)
    BY <1>3 DEF AnnouncePlmns, SendsNews, Announced, Feed!Announce, Feed!Announced
  <2> QED BY <2>1 DEF FeedTypes, Feed!Next
<1>4. CASE WebuiChanges \/ PollingStops \/ PollTimerElapses \/ FetchFails
           \/ FetchSucceeds \/ TakeWriteLock \/ LockAndConvert
           \/ StoreSupported \/ UNCHANGED vars
  BY <1>4 DEF WebuiChanges, PollingStops, PollTimerElapses, FetchFails,
              FetchSucceeds, TakeWriteLock, LockAndConvert, StoreSupported, vars
<1>5. ASSUME NEW h \in Handlers, Handler(h)
      PROVE UNCHANGED Feed!vars
  BY <1>5 DEF Handler, ReadLock, ReadUnlock, WriteLock,
              WriteUnlock, KeepLock
<1> QED BY <1>1, <1>2, <1>3, <1>4, <1>5 DEF Next, Poller

\* The poller implements PlmnFeed, whatever the webconsole answers.
THEOREM PollerRefinesFeed == Spec => FeedKept
<1>1. Init => Feed!Init /\ SendsNews
  BY DEF Init, Feed!Init, SendsNews
<1>2. FeedTypes /\ LockInv /\ SendsNews /\ [Next]_vars
        => SendsNews' /\ [Feed!Next]_(Feed!vars)
  BY SendsNewsStep, FeedStep
<1> QED BY <1>1, <1>2, LockInvInvariant, PTL DEF Spec, FeedKept, Feed!Spec

-----------------------------------------------------------------------------
(* The rest of the types: the interval stays between its bounds, the        *)
(* channel within its capacity.                                            *)

LEMMA TypingInit == Init => TypeOK
<1> SUFFICES ASSUME Init PROVE TypeOK
  OBVIOUS
<1>1. FeedTypes
  BY FeedTypesInit
<1>2. Len(plmnConfigChan) = 0 /\ 0 <= Capacity
  BY PollingAssumption DEF Init
<1>3. interval \in InitialPollingInterval .. PollingMaxBackoff
  BY PollingAssumption DEF Init
<1> QED BY <1>1, <1>2, <1>3 DEF Init, FeedTypes, TypeOK

LEMMA TypingChannel ==
    ASSUME FeedTypes, FeedTypes', Len(plmnConfigChan) <= Capacity,
           Receive \/ AnnouncePlmns \/ UNCHANGED plmnConfigChan
    PROVE  Len(plmnConfigChan') <= Capacity
<1>1. Len(plmnConfigChan) \in Nat /\ Capacity \in Nat
  BY LenProperties, PollingAssumption DEF FeedTypes
<1>2. CASE Receive
  <2>1. plmnConfigChan # <<>> /\ plmnConfigChan' = Tail(plmnConfigChan)
    BY <1>2 DEF Receive
  <2>2. Len(plmnConfigChan') = Len(plmnConfigChan) - 1
    BY <2>1, HeadTailProperties DEF FeedTypes
  <2> QED BY <1>1, <2>2
<1>3. CASE AnnouncePlmns
  <2>1. /\ Len(plmnConfigChan) < Capacity
        /\ plmnConfigChan' = Append(plmnConfigChan, currentPlmnConfig)
    BY <1>3 DEF AnnouncePlmns
  <2>2. Len(plmnConfigChan') = Len(plmnConfigChan) + 1
    BY <2>1, AppendProperties DEF FeedTypes
  <2> QED BY <1>1, <2>1, <2>2
<1>4. CASE UNCHANGED plmnConfigChan
  BY <1>4
<1> QED BY <1>2, <1>3, <1>4

LEMMA TypingStep == ASSUME TypeOK, [Next]_vars PROVE TypeOK'
<1> USE DEF feedVars, pollVars, lockVars
<1>1. FeedTypes /\ FeedTypes'
  <2>1. FeedTypes
    BY DEF TypeOK, FeedTypes
  <2> QED BY <2>1, FeedTypesStep
<1>2. Len(plmnConfigChan') <= Capacity
  <2>1. Receive \/ AnnouncePlmns \/ UNCHANGED plmnConfigChan
    BY DEF Next, Poller, WebuiChanges, CancelServices, PollingStops,
           PollTimerElapses, FetchFails, FetchSucceeds, LockAndConvert,
           TakeWriteLock, StoreSupported, Handler, ReadLock, ReadUnlock,
           WriteLock, WriteUnlock, KeepLock, vars
  <2> QED BY <1>1, <2>1, TypingChannel DEF TypeOK
<1>3. interval' \in InitialPollingInterval .. PollingMaxBackoff
  <2>1. CASE interval' = interval
    BY <2>1 DEF TypeOK
  <2>2. CASE FetchFails
    BY <2>2, PollingAssumption DEF FetchFails, MinDuration, TypeOK
  <2>3. CASE FetchSucceeds
    BY <2>3, PollingAssumption DEF FetchSucceeds
  <2> QED BY <2>1, <2>2, <2>3
          DEF Next, Poller, WebuiChanges, CancelServices, Receive, PollingStops,
              PollTimerElapses, TakeWriteLock, LockAndConvert, AnnouncePlmns,
              StoreSupported, Handler, ReadLock, ReadUnlock, WriteLock,
              WriteUnlock, KeepLock, vars
<1>4. /\ ctxDone' \in BOOLEAN /\ reading' \subseteq Handlers
      /\ pollerPc' \in {"select", "fetch", "lock", "drain", "send", "store", "done"}
      /\ writer' \in Handlers \cup {NoHandler} /\ lockKept' \in BOOLEAN
      /\ SupportedNssaiInPlmnList' \in {SupportedNssais(c) : c \in WebuiConfigs}
  <2>1. CASE WebuiChanges \/ Receive \/ CancelServices \/ UNCHANGED vars
    BY <2>1 DEF WebuiChanges, Receive, CancelServices, vars, TypeOK
  <2>2. CASE Poller
    BY <2>2 DEF Poller, PollingStops, PollTimerElapses, FetchFails, FetchSucceeds,
                TakeWriteLock, LockAndConvert, AnnouncePlmns, StoreSupported, TypeOK
  <2>3. ASSUME NEW h \in Handlers, Handler(h)
        PROVE  /\ ctxDone' \in BOOLEAN /\ reading' \subseteq Handlers
               /\ pollerPc' \in {"select", "fetch", "lock", "drain", "send", "store", "done"}
               /\ writer' \in Handlers \cup {NoHandler} /\ lockKept' \in BOOLEAN
               /\ SupportedNssaiInPlmnList' \in {SupportedNssais(c) : c \in WebuiConfigs}
    BY <2>3 DEF Handler, ReadLock, ReadUnlock, WriteLock,
              WriteUnlock, KeepLock, TypeOK
  <2> QED BY <2>1, <2>2, <2>3 DEF Next
<1> QED BY <1>1, <1>2, <1>3, <1>4 DEF FeedTypes, TypeOK

\* The back-off stays between its bounds, and the channel within its capacity.
THEOREM TypeCorrect == Spec => []TypeOK
BY TypingInit, TypingStep, PTL DEF Spec
=============================================================================
