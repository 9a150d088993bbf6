------------------------- MODULE NssfServiceProofs -------------------------
(***************************************************************************)
(* Theorems of NssfService, for any webconsole configurations, any number  *)
(* of goroutines and a lossy NRF or not.  What a registration that is      *)
(* alive tells the NRF is what the handlers serve: neither component knows *)
(* it alone, since the poller knows what it announced and stored, the      *)
(* registration service what it received, and the channel is between them. *)
(* And the process implements both components, so that what is proved of   *)
(* each by itself holds of it.                                             *)
(***************************************************************************)
EXTENDS NssfService, SequenceTheorems, TLAPS

USE ServiceAssumption

-----------------------------------------------------------------------------
(* The invariant.                                                          *)

\* The channel: at most one list, and lists of the poller only.
ChannelInv ==
    /\ plmnConfigChan \in Seq(Poll!PlmnLists) /\ Len(plmnConfigChan) <= Capacity
    /\ {webui, newConfig, currentPlmnSnssaiConfig} \subseteq WebuiConfigs

\* The poller's half: the list it announced last is that of its configuration,
\* but for the time it waits to send it, and so is the map the handlers read,
\* but for the time it holds ConfigLock.
PollerInv ==
    /\ currentPlmnConfig = Poll!PlmnList(currentPlmnSnssaiConfig)
    /\ pollerPc # "send" => Poll!Announced = currentPlmnConfig
    /\ pollerPc \notin {"send", "store"} =>
          SupportedNssaiInPlmnList = Poll!SupportedNssais(currentPlmnSnssaiConfig)

\* The registration service's half: what is alive registers the list received.
LiveInv ==
    /\ workerPc \in [Workers -> {"idle", "lock", "select", "send", "registered"}]
    /\ DOMAIN workerCfg = Workers
    /\ workerCfg = [w \in Workers |-> workerCfg[w]]
    /\ \A w \in Reg!Running \ cancelled :
          w = registerCancel /\ workerCfg[w] = delivered

ServiceInv == ChannelInv /\ PollerInv /\ LiveInv

-----------------------------------------------------------------------------
(* The channel.                                                            *)

LEMMA Received ==
    ASSUME ChannelInv, plmnConfigChan # <<>>,
           plmnConfigChan' = Tail(plmnConfigChan), delivered' = Head(plmnConfigChan)
    PROVE  /\ plmnConfigChan' = <<>>
           /\ Poll!Announced' = Poll!Announced
<1>1. /\ plmnConfigChan \in Seq(Poll!PlmnLists) /\ Len(plmnConfigChan) \in Nat
      /\ Len(plmnConfigChan) = 1
    <2>1. plmnConfigChan \in Seq(Poll!PlmnLists) /\ Len(plmnConfigChan) <= 1
        BY DEF ChannelInv, Capacity
    <2>2. Len(plmnConfigChan) \in Nat /\ Len(plmnConfigChan) # 0
        BY <2>1, EmptySeq, LenProperties
    <2>3. \A n \in Nat : n <= 1 /\ n # 0 => n = 1
        OBVIOUS
    <2> QED  BY ONLY <2>1, <2>2, <2>3, Zenon
<1>2. /\ plmnConfigChan' \in Seq(Poll!PlmnLists)
      /\ Len(plmnConfigChan') = 0
    BY <1>1, HeadTailProperties
<1>3. plmnConfigChan' = <<>>
    BY <1>2, EmptySeq
<1>4. delivered' = plmnConfigChan[1]
    OBVIOUS
<1> QED  BY <1>1, <1>3, <1>4 DEF Poll!Announced

LEMMA Sent ==
    ASSUME ChannelInv, Len(plmnConfigChan) < Capacity,
           NEW c \in Poll!PlmnLists, plmnConfigChan' = Append(plmnConfigChan, c)
    PROVE  /\ plmnConfigChan' \in Seq(Poll!PlmnLists)
           /\ Len(plmnConfigChan') <= Capacity
           /\ Poll!Announced' = c
<1>1. plmnConfigChan \in Seq(Poll!PlmnLists) /\ Len(plmnConfigChan) \in Nat
    BY LenProperties DEF ChannelInv
<1>2. /\ plmnConfigChan' \in Seq(Poll!PlmnLists)
      /\ Len(plmnConfigChan') = Len(plmnConfigChan) + 1
      /\ plmnConfigChan' # <<>>
      /\ plmnConfigChan'[Len(plmnConfigChan')] = c
    BY <1>1, AppendProperties
<1> QED  BY <1>1, <1>2 DEF Poll!Announced, Capacity

\* Poll!Announced is a matter of the channel only.
LEMMA FeedStays ==
    ASSUME UNCHANGED <<plmnConfigChan, delivered>>
    PROVE  Poll!Announced' = Poll!Announced
    BY DEF Poll!Announced

-----------------------------------------------------------------------------
(* Steps of the poller leave LiveInv alone, as they do not receive.         *)

LEMMA InitInv == Init => ServiceInv
<1> SUFFICES ASSUME Init PROVE ServiceInv
    OBVIOUS
<1>1. ChannelInv
    BY EmptySeq DEF Init, Poll!Init, ChannelInv, Capacity
<1>2. PollerInv
    BY DEF Init, Poll!Init, PollerInv, Poll!Announced, Poll!PlmnList
<1>3. LiveInv
    BY DEF Init, Reg!Init, LiveInv, Reg!Running
<1> QED  BY <1>1, <1>2, <1>3 DEF ServiceInv

LEMMA LiveStays ==
    ASSUME LiveInv, UNCHANGED regLocals, UNCHANGED delivered
    PROVE  LiveInv'
    BY DEF LiveInv, regLocals, Reg!Running

\* A handler changes nothing but the lock.
LEMMA HandlerStep ==
    ASSUME NEW h \in Handlers, Handler(h)
    PROVE  /\ UNCHANGED feedVars /\ UNCHANGED regLocals /\ UNCHANGED exited
           /\ UNCHANGED <<webui, pollerPc, interval, newConfig,
                          currentPlmnSnssaiConfig, currentPlmnConfig,
                          SupportedNssaiInPlmnList>>
    BY DEF Handler, Alive, Poll!Handler, Poll!ReadLock,
           Poll!ReadUnlock, Poll!WriteLock, Poll!WriteUnlock, Poll!KeepLock, Poll!feedVars,
           Poll!pollVars, feedVars

LEMMA PollerInvStep ==
    ASSUME ServiceInv, PollerStep \/ WebuiChanges \/ \E h \in Handlers : Handler(h)
    PROVE  ServiceInv'
<1> USE DEF ServiceInv, Poll!feedVars, Poll!pollVars, Alive
<1>1. UNCHANGED regLocals /\ UNCHANGED delivered
    BY HandlerStep DEF PollerStep, WebuiChanges, Poll!Poller, feedVars,
           Poll!PollingStops, Poll!PollTimerElapses, Poll!FetchFails,
           Poll!FetchSucceeds, Poll!TakeWriteLock, Poll!LockAndConvert,
           Poll!AnnouncePlmns, Poll!StoreSupported, Poll!WebuiChanges
<1>2. LiveInv'
    BY <1>1, LiveStays
<1>3. ASSUME UNCHANGED <<plmnConfigChan, delivered, currentPlmnSnssaiConfig,
                         currentPlmnConfig, SupportedNssaiInPlmnList>>,
             pollerPc' = pollerPc \/ (pollerPc \notin {"send", "store"}
                                        /\ pollerPc' \notin {"send", "store"})
      PROVE  PollerInv'
    BY <1>3, FeedStays DEF PollerInv
<1>4. CASE WebuiChanges \/ \E h \in Handlers : Handler(h)
    <2>1. PollerInv'
        BY <1>3, <1>4, HandlerStep DEF WebuiChanges, Poll!WebuiChanges, feedVars
    <2>2. ChannelInv'
        BY <1>4, HandlerStep DEF WebuiChanges, Poll!WebuiChanges, feedVars, ChannelInv
    <2> QED  BY <1>2, <2>1, <2>2
<1>5. CASE Poll!PollingStops \/ Poll!PollTimerElapses \/ Poll!FetchFails
           \/ Poll!FetchSucceeds \/ Poll!TakeWriteLock
    <2>1. PollerInv'
        BY <1>3, <1>5 DEF Poll!PollingStops, Poll!PollTimerElapses,
                          Poll!FetchFails, Poll!FetchSucceeds, Poll!TakeWriteLock
    <2>2. ChannelInv'
        BY <1>5 DEF Poll!PollingStops, Poll!PollTimerElapses, Poll!FetchFails,
                    Poll!FetchSucceeds, Poll!TakeWriteLock, ChannelInv
    <2> QED  BY <1>2, <2>1, <2>2
<1>6. CASE Poll!LockAndConvert
    <2>1. /\ pollerPc = "drain" /\ UNCHANGED <<plmnConfigChan, delivered, webui, newConfig>>
          /\ currentPlmnSnssaiConfig' = newConfig
          /\ currentPlmnConfig' = Poll!PlmnList(newConfig)
          /\ \/ pollerPc' = "send"
             \/ pollerPc' = "store" /\ currentPlmnConfig' = currentPlmnConfig
        BY <1>6 DEF Poll!LockAndConvert, Poll!PlmnListChanged
    <2>2. PollerInv'
        BY <2>1, FeedStays DEF PollerInv
    <2>3. ChannelInv'
        BY <2>1 DEF ChannelInv
    <2> QED  BY <1>2, <2>2, <2>3
<1>7. CASE Poll!AnnouncePlmns
    <2>1. currentPlmnConfig \in Poll!PlmnLists
        BY DEF PollerInv, ChannelInv, Poll!PlmnLists
    <2>2. /\ plmnConfigChan' \in Seq(Poll!PlmnLists)
          /\ Len(plmnConfigChan') <= Capacity
          /\ Poll!Announced' = currentPlmnConfig
        BY <1>7, <2>1, Sent DEF Poll!AnnouncePlmns
    <2>3. PollerInv'
        BY <1>7, <2>2 DEF Poll!AnnouncePlmns, PollerInv
    <2>4. ChannelInv'
        BY <1>7, <2>2 DEF Poll!AnnouncePlmns, ChannelInv
    <2> QED  BY <1>2, <2>3, <2>4
<1>8. CASE Poll!StoreSupported
    <2>1. PollerInv'
        BY <1>8, FeedStays DEF Poll!StoreSupported, PollerInv
    <2>2. ChannelInv'
        BY <1>8 DEF Poll!StoreSupported, ChannelInv
    <2> QED  BY <1>2, <2>1, <2>2
<1> QED  BY <1>4, <1>5, <1>6, <1>7, <1>8 DEF PollerStep, Poll!Poller

-----------------------------------------------------------------------------
(* Steps of the registration service leave the poller's state alone; the    *)
(* list it receives is the one announced last.                             *)

LEMMA PollerStays ==
    ASSUME ChannelInv, PollerInv, UNCHANGED pollLocals,
           UNCHANGED <<plmnConfigChan, delivered>>
    PROVE  ChannelInv' /\ PollerInv'
    BY FeedStays DEF ChannelInv, PollerInv, pollLocals

LEMMA ReceiveStep == ASSUME ServiceInv, ServiceReceive PROVE ServiceInv'
<1> DEFINE new == Head(plmnConfigChan)
<1>1. /\ plmnConfigChan # <<>> /\ plmnConfigChan' = Tail(plmnConfigChan)
      /\ delivered' = new /\ UNCHANGED pollLocals
    BY DEF ServiceReceive, Alive, Reg!ServiceReceive
<1>2. plmnConfigChan' = <<>> /\ Poll!Announced' = Poll!Announced
    BY <1>1, Received DEF ServiceInv
<1>3. ChannelInv'
    BY <1>1, <1>2, EmptySeq DEF ServiceInv, ChannelInv, pollLocals, Capacity
<1>4. PollerInv'
    BY <1>1, <1>2 DEF ServiceInv, PollerInv, pollLocals
<1>5. LiveInv'
    <2> USE DEF ServiceInv
    <2>1. \A w \in Reg!Running \ cancelled : w = registerCancel
        BY DEF LiveInv
    <2>2. CASE new = <<>>
        <3>1. /\ cancelled' = cancelled \cup ({registerCancel} \cap Reg!Running)
              /\ UNCHANGED <<registerCancel, workerPc, workerCfg>>
            BY <2>2 DEF ServiceReceive, Reg!ServiceReceive, Reg!CancelPrevious
        <3>2. Reg!Running' \ cancelled' = {}
            BY <2>1, <3>1 DEF Reg!Running
        <3> QED  BY <3>1, <3>2 DEF LiveInv
    <2>3. CASE new # <<>>
        <3>1. PICK v \in Workers \ Reg!Running :
                 /\ workerPc' = [workerPc EXCEPT ![v] = "lock"]
                 /\ workerCfg' = [workerCfg EXCEPT ![v] = new]
                 /\ registerCancel' = v
                 /\ cancelled' = cancelled \cup ({registerCancel} \cap Reg!Running)
            BY <2>3 DEF ServiceReceive, Reg!ServiceReceive, Reg!CancelPrevious
        <3>2. Reg!Running' = Reg!Running \cup {v}
            BY <3>1 DEF LiveInv, Reg!Running
        <3>3. Reg!Running' \ cancelled' \subseteq {v}
            BY <2>1, <3>1, <3>2
        <3>4. workerCfg'[v] = new /\ DOMAIN workerCfg' = Workers
              /\ workerCfg' = [w \in Workers |-> workerCfg'[w]]
            BY <3>1 DEF LiveInv
        <3>5. workerPc' \in [Workers -> {"idle", "lock", "select", "send", "registered"}]
            BY <3>1 DEF LiveInv
        <3> QED  BY <1>1, <3>1, <3>3, <3>4, <3>5 DEF LiveInv
    <2> QED  BY <2>2, <2>3
<1> QED  BY <1>3, <1>4, <1>5 DEF ServiceInv

LEMMA WorkerStep == ASSUME ServiceInv, NEW w \in Workers, Worker(w) PROVE ServiceInv'
<1> USE DEF Worker, Alive, Reg!feedVars, Reg!svcVars
<1>1. /\ UNCHANGED pollLocals /\ UNCHANGED <<plmnConfigChan, delivered, registerCancel>>
    BY DEF Reg!Worker, Reg!RegisterLock, Reg!RegisterCancelled, Reg!RegisterSend,
           Reg!RegisterAnswered, Reg!RegisterStartTimer
<1>2. ASSUME NEW pc \in {"select", "send", "registered"},
             workerPc[w] # "idle", workerPc' = [workerPc EXCEPT ![w] = pc],
             UNCHANGED <<workerCfg, cancelled>>
      PROVE  LiveInv'
    <2>1. Reg!Running' = Reg!Running
        BY <1>2 DEF ServiceInv, LiveInv, Reg!Running
    <2> QED  BY <1>1, <1>2, <2>1 DEF ServiceInv, LiveInv
<1>3. ASSUME Reg!WorkerReturns(w) PROVE LiveInv'
    <2>1. Reg!Running' = Reg!Running \ {w}
        BY <1>3 DEF ServiceInv, LiveInv, Reg!WorkerReturns, Reg!Running
    <2>2. \A v \in Workers \ {w} : workerCfg'[v] = workerCfg[v]
        BY <1>3 DEF ServiceInv, LiveInv, Reg!WorkerReturns
    <2>3. \A v \in Reg!Running' \ cancelled' : v \in Reg!Running \ cancelled /\ v # w
        BY <1>3, <2>1 DEF Reg!WorkerReturns
    <2>4. Reg!Running \subseteq Workers
        BY DEF Reg!Running
    <2>5. /\ workerPc' \in [Workers -> {"idle", "lock", "select", "send", "registered"}]
          /\ DOMAIN workerCfg' = Workers
          /\ workerCfg' = [v \in Workers |-> workerCfg'[v]]
        BY <1>3 DEF ServiceInv, LiveInv, Reg!WorkerReturns
    <2> QED  BY <1>1, <2>2, <2>3, <2>4, <2>5 DEF ServiceInv, LiveInv
<1>4. LiveInv'
    <2>1. CASE Reg!RegisterCancelled(w) \/ Reg!RegisterStartTimer(w)
        BY <1>3, <2>1 DEF Reg!RegisterCancelled, Reg!RegisterStartTimer
    <2>2. CASE Reg!RegisterLock(w)
        BY <1>2, <2>2 DEF Reg!RegisterLock
    <2>3. CASE Reg!RegisterSend(w)
        BY <1>2, <2>3 DEF Reg!RegisterSend
    <2>4. ASSUME NEW ok \in BOOLEAN, Reg!RegisterAnswered(w, ok) PROVE LiveInv'
        BY <1>2, <2>4 DEF Reg!RegisterAnswered
    <2> QED  BY <2>1, <2>2, <2>3, <2>4 DEF Reg!Worker
<1> QED  BY <1>1, <1>4, PollerStays DEF ServiceInv

LEMMA ServiceInvStep == ASSUME ServiceInv, [Next]_vars PROVE ServiceInv'
<1> USE DEF Alive, Reg!feedVars, Reg!svcVars, Reg!workerVars
<1>1. ASSUME UNCHANGED pollLocals,
             UNCHANGED <<plmnConfigChan, delivered, registerCancel, workerPc,
                         workerCfg, cancelled>>
      PROVE  ServiceInv'
    <2>1. LiveInv'
        BY <1>1 DEF ServiceInv, LiveInv, Reg!Running
    <2> QED  BY <1>1, <2>1, PollerStays DEF ServiceInv
<1>2. CASE ServiceDone
    <2>1. /\ UNCHANGED pollLocals
          /\ UNCHANGED <<plmnConfigChan, delivered, registerCancel, workerPc, workerCfg>>
          /\ cancelled \subseteq cancelled'
        BY <1>2 DEF ServiceDone, Reg!ServiceDone, Reg!CancelPrevious
    <2>2. LiveInv'
        BY <2>1 DEF ServiceInv, LiveInv, Reg!Running
    <2> QED  BY <2>1, <2>2, PollerStays DEF ServiceInv
<1>3. ASSUME NEW b \in Beats, TimerElapses(b) \/ Heartbeat(b) PROVE ServiceInv'
    BY <1>1, <1>3 DEF TimerElapses, Heartbeat, Reg!TimerElapses, Reg!Heartbeat,
                      Reg!HeartbeatCheck, Reg!HeartbeatUpdated,
                      Reg!HeartbeatRegistered, Reg!HeartbeatRestart
<1>4. ASSUME NEW d \in Reg!Deregisterers, Deregister(d) PROVE ServiceInv'
    BY <1>1, <1>4 DEF Deregister, Reg!Deregister, Reg!DeregisterStop,
                      Reg!DeregisterAnswered
<1>5. CASE NrfExpires \/ Terminate
    BY <1>1, <1>5 DEF NrfExpires, Terminate, Reg!NrfExpires, Reg!Terminate
<1>6. CASE Exit \/ Exited \/ UNCHANGED vars
    BY <1>1, <1>6 DEF Exit, Exited, vars, feedVars, regLocals
<1> QED  BY <1>2, <1>3, <1>4, <1>5, <1>6, PollerInvStep, ReceiveStep, WorkerStep
         DEF Next

-----------------------------------------------------------------------------
\* What a live registration tells the NRF is what the handlers serve: the
\* composition keeps what neither component could keep alone.
THEOREM LiveIsServed == Spec => []LiveRegistrationIsServed
<1>1. ServiceInv => LiveRegistrationIsServed
    <2> SUFFICES ASSUME ServiceInv, pollerPc \notin {"send", "store"},
                        plmnConfigChan = <<>>,
                        NEW w \in Reg!Running \ cancelled
                 PROVE  DOMAIN SupportedNssaiInPlmnList
                            = {workerCfg[w][i] : i \in DOMAIN workerCfg[w]}
        BY DEF LiveRegistrationIsServed
    <2> DEFINE config == currentPlmnSnssaiConfig
    <2>1. workerCfg[w] = Poll!PlmnList(config)
        BY DEF ServiceInv, PollerInv, LiveInv, Poll!Announced
    <2>2. SupportedNssaiInPlmnList = Poll!SupportedNssais(config)
        BY DEF ServiceInv, PollerInv
    <2>3. DOMAIN Poll!SupportedNssais(config)
              = {Poll!PlmnList(config)[i] : i \in DOMAIN Poll!PlmnList(config)}
        BY DEF Poll!SupportedNssais, Poll!PlmnList, Poll!Plmns
    <2> QED  BY <2>1, <2>2, <2>3
<1> QED  BY <1>1, InitInv, ServiceInvStep, PTL DEF Spec

-----------------------------------------------------------------------------
(* The process and the two components by themselves.  Each leaves the other *)
(* end of the channel to its environment; here the environment is the other *)
(* component, and a step of the process is a step of both, or of one while  *)
(* the other stands still.                                                  *)

\* A list the poller waits to send is news: LockAndConvert has compared it with
\* the one before, and nothing but the poller itself announces anything.
NewsInv == pollerPc = "send" => currentPlmnConfig # Poll!Announced

LEMMA NewsStep ==
    ASSUME ServiceInv, NewsInv, [Next]_vars PROVE NewsInv'
<1> USE DEF NewsInv, Alive
<1>1. CASE UNCHANGED <<plmnConfigChan, delivered, pollerPc, currentPlmnConfig>>
    BY <1>1, FeedStays
<1>2. CASE PollerStep
    <2> USE DEF Poll!feedVars
    <2>1. CASE Poll!PollingStops \/ Poll!PollTimerElapses \/ Poll!FetchFails
               \/ Poll!FetchSucceeds \/ Poll!TakeWriteLock \/ Poll!AnnouncePlmns
               \/ Poll!StoreSupported
        BY <2>1 DEF Poll!PollingStops, Poll!PollTimerElapses, Poll!FetchFails,
                    Poll!FetchSucceeds, Poll!TakeWriteLock, Poll!AnnouncePlmns,
                    Poll!StoreSupported
    <2>2. CASE Poll!LockAndConvert
        <3>1. Poll!Announced' = Poll!Announced /\ Poll!Announced = currentPlmnConfig
            BY <2>2, FeedStays DEF Poll!LockAndConvert, ServiceInv, PollerInv
        <3> QED  BY <2>2, <3>1 DEF Poll!LockAndConvert, Poll!PlmnListChanged
    <2> QED  BY <1>2, <2>1, <2>2 DEF PollerStep, Poll!Poller
<1>3. CASE ServiceReceive
    <2>1. Poll!Announced' = Poll!Announced
        BY <1>3, Received DEF ServiceInv, ServiceReceive, Reg!ServiceReceive
    <2> QED  BY <1>3, <2>1 DEF ServiceReceive, pollLocals
<1>4. CASE WebuiChanges \/ \E h \in Handlers : Handler(h)
    BY <1>1, <1>4, HandlerStep DEF WebuiChanges, Poll!WebuiChanges, feedVars,
                      Poll!feedVars, Poll!pollVars
<1> USE DEF pollLocals, Reg!feedVars
<1>5. ASSUME NEW w \in Workers, Worker(w) PROVE NewsInv'
    BY <1>1, <1>5 DEF Worker, Reg!Worker, Reg!RegisterLock, Reg!RegisterCancelled,
           Reg!RegisterSend, Reg!RegisterAnswered, Reg!RegisterStartTimer
<1>6. ASSUME NEW b \in Beats, TimerElapses(b) \/ Heartbeat(b) PROVE NewsInv'
    BY <1>1, <1>6 DEF TimerElapses, Heartbeat, Reg!TimerElapses, Reg!Heartbeat,
           Reg!HeartbeatCheck, Reg!HeartbeatUpdated, Reg!HeartbeatRegistered,
           Reg!HeartbeatRestart
<1>7. ASSUME NEW d \in Reg!Deregisterers, Deregister(d) PROVE NewsInv'
    BY <1>1, <1>7 DEF Deregister, Reg!Deregister, Reg!DeregisterStop,
                      Reg!DeregisterAnswered
<1>8. CASE ServiceDone \/ NrfExpires \/ Terminate
    BY <1>1, <1>8 DEF ServiceDone, Reg!ServiceDone, NrfExpires, Reg!NrfExpires,
                      Terminate, Reg!Terminate
<1>9. CASE Exit \/ Exited \/ UNCHANGED vars
    BY <1>1, <1>9 DEF Exit, Exited, vars, feedVars
<1> QED  BY <1>2, <1>3, <1>4, <1>5, <1>6, <1>7, <1>8, <1>9 DEF Next

\* What the registration service does not see of a step of the process.
LEMMA RegistrationStutters ==
    ASSUME UNCHANGED regLocals, UNCHANGED feedVars PROVE UNCHANGED Reg!vars
    BY DEF regLocals, feedVars, Reg!vars, Reg!feedVars, Reg!svcVars,
           Reg!workerVars, Reg!timerVars, Reg!beatVars

LEMMA PollingStutters ==
    ASSUME UNCHANGED pollLocals, UNCHANGED feedVars PROVE UNCHANGED Poll!vars
    BY DEF pollLocals, feedVars, Poll!vars, Poll!feedVars, Poll!pollVars, Poll!lockVars

LEMMA RegistrationStep ==
    ASSUME ServiceInv, NewsInv, [Next]_vars PROVE [Reg!Next]_(Reg!vars)
<1>1. CASE UNCHANGED regLocals /\ UNCHANGED feedVars
    BY <1>1, RegistrationStutters
<1>2. CASE WebuiChanges \/ \E h \in Handlers : Handler(h)
    BY <1>1, <1>2, HandlerStep DEF WebuiChanges, Poll!WebuiChanges,
                                   Poll!feedVars, feedVars
<1>3. CASE PollerStep
    <2>1. CASE Poll!AnnouncePlmns
        <3>1. currentPlmnConfig \in Poll!PlmnLists
            BY DEF ServiceInv, PollerInv, ChannelInv, Poll!PlmnLists
        <3>2. currentPlmnConfig # (IF plmnConfigChan = <<>> THEN delivered
                                   ELSE plmnConfigChan[Len(plmnConfigChan)])
            BY <2>1 DEF Poll!AnnouncePlmns, NewsInv, Poll!Announced
        <3>3. Reg!Announce(currentPlmnConfig)
            BY <1>3, <2>1, <3>2 DEF PollerStep, Poll!AnnouncePlmns, Reg!Announce,
                   Capacity, Reg!Capacity, regLocals, Reg!svcVars, Reg!workerVars,
                   Reg!timerVars, Reg!beatVars
        <3> QED  BY <3>1, <3>3 DEF Reg!Next
    <2>2. CASE ~Poll!AnnouncePlmns
        BY <1>1, <1>3, <2>2 DEF PollerStep, Poll!Poller, Poll!PollingStops,
               Poll!PollTimerElapses, Poll!FetchFails, Poll!FetchSucceeds,
               Poll!TakeWriteLock, Poll!LockAndConvert, Poll!StoreSupported, Poll!feedVars, feedVars
    <2> QED  BY <2>1, <2>2
<1>4. CASE ServiceDone \/ ServiceReceive \/ NrfExpires \/ Terminate
    BY <1>4 DEF ServiceDone, ServiceReceive, NrfExpires, Terminate, Reg!Next
<1>5. ASSUME NEW w \in Workers, Worker(w) PROVE Reg!Next
    BY <1>5 DEF Worker, Reg!Next
<1>6. ASSUME NEW b \in Beats, TimerElapses(b) \/ Heartbeat(b) PROVE Reg!Next
    BY <1>6 DEF TimerElapses, Heartbeat, Reg!Next
<1>7. ASSUME NEW d \in Reg!Deregisterers, Deregister(d) PROVE Reg!Next
    BY <1>7 DEF Deregister, Reg!Next
<1>8. CASE Exit \/ Exited \/ UNCHANGED vars
    BY <1>1, <1>8 DEF Exit, Exited, vars
<1> QED  BY <1>2, <1>3, <1>4, <1>5, <1>6, <1>7, <1>8 DEF Next

LEMMA PollingStep ==
    ASSUME [Next]_vars PROVE [Poll!Next]_(Poll!vars)
<1> USE DEF Alive
<1>1. CASE UNCHANGED pollLocals /\ UNCHANGED feedVars
    BY <1>1, PollingStutters
<1>2. CASE WebuiChanges \/ PollerStep \/ \E h \in Handlers : Handler(h)
    BY <1>2 DEF WebuiChanges, PollerStep, Handler, Poll!Next
<1> USE DEF pollLocals, Reg!feedVars, feedVars
<1>3. CASE ServiceReceive
    <2>1. Poll!Receive
        BY <1>3 DEF ServiceReceive, Reg!ServiceReceive, Poll!Receive, Poll!pollVars,
               Poll!lockVars
    <2> QED  BY <2>1 DEF Poll!Next
<1>4. CASE Terminate
    <2>1. Poll!CancelServices
        BY <1>4 DEF Terminate, Reg!Terminate, Poll!CancelServices,
               Poll!pollVars, Poll!lockVars
    <2> QED  BY <2>1 DEF Poll!Next
<1>5. CASE ServiceDone \/ NrfExpires
    BY <1>1, <1>5 DEF ServiceDone, NrfExpires, Reg!ServiceDone, Reg!NrfExpires
<1>6. ASSUME NEW w \in Workers, Worker(w) PROVE UNCHANGED Poll!vars
    BY <1>6, PollingStutters DEF Worker, Reg!Worker, Reg!RegisterLock,
           Reg!RegisterCancelled, Reg!RegisterSend, Reg!RegisterAnswered,
           Reg!RegisterStartTimer
<1>7. ASSUME NEW b \in Beats, TimerElapses(b) \/ Heartbeat(b)
      PROVE  UNCHANGED Poll!vars
    BY <1>7, PollingStutters DEF TimerElapses, Heartbeat, Reg!TimerElapses,
           Reg!Heartbeat, Reg!HeartbeatCheck, Reg!HeartbeatUpdated,
           Reg!HeartbeatRegistered, Reg!HeartbeatRestart
<1>8. ASSUME NEW d \in Reg!Deregisterers, Deregister(d) PROVE UNCHANGED Poll!vars
    BY <1>8, PollingStutters DEF Deregister, Reg!Deregister, Reg!DeregisterStop,
                                 Reg!DeregisterAnswered
<1>9. CASE Exit \/ Exited \/ UNCHANGED vars
    BY <1>1, <1>9 DEF Exit, Exited, vars
<1> QED  BY <1>2, <1>3, <1>4, <1>5, <1>6, <1>7, <1>8, <1>9 DEF Next

LEMMA ServiceInvariant == Spec => [](ServiceInv /\ NewsInv)
<1>1. Init => NewsInv
    BY DEF Init, Poll!Init, NewsInv
<1> QED  BY <1>1, InitInv, ServiceInvStep, NewsStep, PTL DEF Spec

\* In the process the registration service meets the environment NfRegistration
\* describes: every announcement finds room and differs from the one before.
THEOREM ImplementsRegistration == Spec => RegistrationKept
<1>1. Init => Reg!Init
    BY DEF Init
<1>2. ServiceInv /\ NewsInv /\ [Next]_vars => [Reg!Next]_(Reg!vars)
    BY RegistrationStep
<1> QED  BY <1>1, <1>2, ServiceInvariant, PTL DEF Spec, RegistrationKept, Reg!Spec

\* In the process the poller meets the environment PlmnPolling describes.
THEOREM ImplementsPolling == Spec => PollingKept
<1>1. Init => Poll!Init
    BY DEF Init
<1>2. [Next]_vars => [Poll!Next]_(Poll!vars)
    BY PollingStep
<1> QED  BY <1>1, <1>2, PTL DEF Spec, PollingKept, Poll!Spec

-----------------------------------------------------------------------------
(* So what is proved of the components by themselves holds in the process.  *)
(* An instance of a module of proofs has an instance of the module it       *)
(* extends in it, so each component has two; they say the same.             *)

PollProofs == INSTANCE PlmnPollingProofs
RegProofs == INSTANCE NfRegistrationProofs
               WITH PlmnConfigs <- Poll!PlmnLists, EmptyConfig <- <<>>

LEMMA SamePolling ==
    /\ Poll!Init => PollProofs!Init
    /\ [Poll!Next]_(Poll!vars) => [PollProofs!Next]_(PollProofs!vars)
    /\ PollProofs!TypeOK => Poll!TypeOK
    /\ PollProofs!ConfigConsistent => Poll!ConfigConsistent
    /\ PollProofs!ReadersSeeAnnounced => Poll!ReadersSeeAnnounced
<1> USE DEF Poll!feedVars, PollProofs!feedVars, Poll!pollVars,
            PollProofs!pollVars, Poll!lockVars, PollProofs!lockVars, Poll!vars, PollProofs!vars, Poll!PlmnList,
            PollProofs!PlmnList, Poll!Plmns, PollProofs!Plmns, Poll!LastEntry,
            PollProofs!LastEntry, Poll!SupportedNssais,
            PollProofs!SupportedNssais, Poll!PlmnLists, PollProofs!PlmnLists,
            Poll!MinDuration, PollProofs!MinDuration, Poll!WebuiChanges,
            PollProofs!WebuiChanges, Poll!Receive, PollProofs!Receive,
            Poll!CancelServices, PollProofs!CancelServices, Poll!PollingStops,
            PollProofs!PollingStops, Poll!PollTimerElapses,
            PollProofs!PollTimerElapses, Poll!FetchFails,
            PollProofs!FetchFails, Poll!ConfigChanged,
            PollProofs!ConfigChanged, Poll!FetchSucceeds,
            PollProofs!FetchSucceeds, Poll!PlmnListChanged,
            PollProofs!PlmnListChanged, Poll!LockAndConvert,
            PollProofs!LockAndConvert, Poll!AnnouncePlmns,
            PollProofs!AnnouncePlmns, Poll!StoreSupported,
            PollProofs!StoreSupported, Poll!PollerIsWriter,
            PollProofs!PollerIsWriter, Poll!NoWriter, PollProofs!NoWriter,
            Poll!TakeWriteLock, PollProofs!TakeWriteLock, Poll!ReadLock,
            PollProofs!ReadLock, Poll!ReadUnlock, PollProofs!ReadUnlock,
            Poll!WriteLock, PollProofs!WriteLock, Poll!WriteUnlock,
            PollProofs!WriteUnlock, Poll!KeepLock, PollProofs!KeepLock,
            Poll!Handler, PollProofs!Handler, Poll!Poller,
            PollProofs!Poller, Poll!Next, PollProofs!Next
<1> QED  BY DEF Poll!Init, PollProofs!Init, Poll!TypeOK, PollProofs!TypeOK,
         Poll!ConfigConsistent, PollProofs!ConfigConsistent,
         Poll!ReadersSeeAnnounced, PollProofs!ReadersSeeAnnounced,
         Poll!Announced, PollProofs!Announced

LEMMA SameRegistration ==
    /\ Reg!Init => RegProofs!Init
    /\ [Reg!Next]_(Reg!vars) => [RegProofs!Next]_(RegProofs!vars)
    /\ RegProofs!TypeOK => Reg!TypeOK
    /\ RegProofs!OnlyLatestLive => Reg!OnlyLatestLive
    /\ RegProofs!OneWorkerRegisters => Reg!OneWorkerRegisters
    /\ RegProofs!KeepAliveLives => Reg!KeepAliveLives
<1> USE DEF Reg!feedVars, RegProofs!feedVars, Reg!svcVars, RegProofs!svcVars,
            Reg!workerVars, RegProofs!workerVars, Reg!timerVars,
            RegProofs!timerVars, Reg!beatVars, RegProofs!beatVars, Reg!vars,
            RegProofs!vars, Reg!Capacity, RegProofs!Capacity,
            Reg!Deregisterers, RegProofs!Deregisterers, Reg!Running,
            RegProofs!Running, Reg!Announce, RegProofs!Announce,
            Reg!Terminate, RegProofs!Terminate, Reg!InSelect,
            RegProofs!InSelect, Reg!CancelPrevious, RegProofs!CancelPrevious,
            Reg!ServiceDone, RegProofs!ServiceDone, Reg!ServiceReceive,
            RegProofs!ServiceReceive, Reg!NrfRegisters,
            RegProofs!NrfRegisters, Reg!NrfUpdates, RegProofs!NrfUpdates,
            Reg!NrfDeregisters, RegProofs!NrfDeregisters, Reg!NrfExpires,
            RegProofs!NrfExpires, Reg!startKeepAliveTimer,
            RegProofs!startKeepAliveTimer, Reg!WorkerReturns,
            RegProofs!WorkerReturns, Reg!RegisterLock, RegProofs!RegisterLock,
            Reg!RegisterCancelled, RegProofs!RegisterCancelled, Reg!MaySend,
            RegProofs!MaySend, Reg!RegisterSend, RegProofs!RegisterSend,
            Reg!RegisterAnswered, RegProofs!RegisterAnswered,
            Reg!RegisterStartTimer, RegProofs!RegisterStartTimer,
            Reg!TimerElapses, RegProofs!TimerElapses, Reg!BeatReturns,
            RegProofs!BeatReturns, Reg!TimerStopped, RegProofs!TimerStopped,
            Reg!HeartbeatCheck, RegProofs!HeartbeatCheck, Reg!AfterUpdate,
            RegProofs!AfterUpdate, Reg!HeartbeatUpdated,
            RegProofs!HeartbeatUpdated, Reg!HeartbeatRegistered,
            RegProofs!HeartbeatRegistered, Reg!HeartbeatRestart,
            RegProofs!HeartbeatRestart, Reg!stopKeepAliveTimer,
            RegProofs!stopKeepAliveTimer, Reg!DeregisterStop,
            RegProofs!DeregisterStop, Reg!DeregisterAnswered,
            RegProofs!DeregisterAnswered, Reg!Worker, RegProofs!Worker,
            Reg!Heartbeat, RegProofs!Heartbeat, Reg!Deregister,
            RegProofs!Deregister, Reg!Terminated, RegProofs!Terminated,
            Reg!Next, RegProofs!Next
<1> QED  BY DEF Reg!Init, RegProofs!Init, Reg!TypeOK, RegProofs!TypeOK,
         Reg!OnlyLatestLive, RegProofs!OnlyLatestLive,
         Reg!OneWorkerRegisters, RegProofs!OneWorkerRegisters,
         Reg!KeepAliveLives, RegProofs!KeepAliveLives, Reg!Beating, RegProofs!Beating

\* ServiceAssumption gives each component what it assumes of its constants.
LEMMA ComponentAssumptions ==
    PollProofs!PollingAssumption /\ RegProofs!RegistrationAssumption
<1>1. PollProofs!PollingAssumption
    <2>1. Capacity \in Nat \ {0}
        BY DEF Capacity
    <2>2. WebuiConfigs \subseteq Seq([plmn : PlmnIds, snssais : SUBSET Snssais])
        BY DEF ServiceAssumption
    <2>3. <<>> \in WebuiConfigs /\ InitialPollingInterval \in Nat /\ PollingMaxBackoff \in Nat
        BY DEF ServiceAssumption
    <2>4. InitialPollingInterval <= PollingMaxBackoff
        BY DEF ServiceAssumption
    <2>5. NoHandler \notin Handlers
        BY DEF ServiceAssumption
    <2> QED  BY <2>1, <2>2, <2>3, <2>4, <2>5 DEF PollProofs!PollingAssumption
<1>2. <<>> \in Poll!PlmnLists
    <2>1. Poll!PlmnList(<<>>) = <<>>
        BY DEF Poll!PlmnList
    <2> QED  BY <2>1 DEF Poll!PlmnLists
<1>3. NoProfile \notin Poll!PlmnLists
    BY DEF Poll!PlmnLists, Poll!PlmnList
<1> QED  BY <1>1, <1>2, <1>3 DEF RegProofs!RegistrationAssumption

LEMMA PollerInProcess ==
    Spec => [](Poll!TypeOK /\ Poll!ConfigConsistent /\ Poll!ReadersSeeAnnounced)
<1>1. Poll!Spec => PollProofs!Spec
    BY SamePolling, PTL DEF Poll!Spec, PollProofs!Spec
<1>2. PollProofs!Spec => []PollProofs!TypeOK
    BY ComponentAssumptions, PollProofs!TypeCorrect DEF PollProofs!TypeCorrect
<1>3. PollProofs!Spec => []PollProofs!ConfigConsistent
    BY ComponentAssumptions, PollProofs!ConfigStaysConsistent
       DEF PollProofs!ConfigStaysConsistent
<1>4. PollProofs!Spec => []PollProofs!ReadersSeeAnnounced
    BY ComponentAssumptions, PollProofs!HandlersSeeAnnounced
       DEF PollProofs!HandlersSeeAnnounced
<1> QED  BY <1>1, <1>2, <1>3, <1>4, SamePolling, ImplementsPolling, PTL DEF PollingKept

LEMMA RegistrationInProcess ==
    Spec => [](/\ Reg!TypeOK /\ Reg!OnlyLatestLive
               /\ Reg!OneWorkerRegisters /\ Reg!KeepAliveLives)
<1>1. Reg!Spec => RegProofs!Spec
    BY SameRegistration, PTL DEF Reg!Spec, RegProofs!Spec
<1>2. RegProofs!Spec => []RegProofs!TypeOK
    BY ComponentAssumptions, RegProofs!TypeCorrect DEF RegProofs!TypeCorrect
<1>3. RegProofs!Spec => []RegProofs!OnlyLatestLive
    BY ComponentAssumptions, RegProofs!LatestIsOnlyLive DEF RegProofs!LatestIsOnlyLive
<1>4. RegProofs!Spec => []RegProofs!OneWorkerRegisters
    BY ComponentAssumptions, RegProofs!MutualExclusion DEF RegProofs!MutualExclusion
<1>5. RegProofs!Spec => []RegProofs!KeepAliveLives
    BY ComponentAssumptions, RegProofs!HeartbeatChainLives
       DEF RegProofs!HeartbeatChainLives
<1> QED  BY <1>1, <1>2, <1>3, <1>4, <1>5, SameRegistration, ImplementsRegistration, PTL
         DEF RegistrationKept

\* The safety of the components holds in the process: types, the bounds of the
\* back-off and of the channel, the copies of the
\* configuration agree outside the lock, handlers read what was announced, only
\* the newest list is registered, by one goroutine, and the keep-alive chain
\* does not break.
THEOREM ComponentsStaySafe ==
    Spec => [](/\ Poll!TypeOK /\ Poll!ConfigConsistent /\ Poll!ReadersSeeAnnounced
               /\ Reg!TypeOK /\ Reg!OnlyLatestLive /\ Reg!OneWorkerRegisters /\ Reg!KeepAliveLives)
BY PollerInProcess, RegistrationInProcess, PTL

\* In the process, too, only a new list makes the NF register again once the
\* timer is stopped and nothing is left that could call the NRF.
THEOREM StoppedStaysInProcess == Spec => Reg!StoppedStaysStopped
<1>1. Reg!Spec => RegProofs!Spec
    BY SameRegistration, PTL DEF Reg!Spec, RegProofs!Spec
<1>2. RegProofs!Spec => RegProofs!StoppedStaysStopped
    BY ComponentAssumptions, RegProofs!StoppedIsFinal DEF RegProofs!StoppedIsFinal
<1>3. [RegProofs!Quiet => RegProofs!Quiet' \/ RegProofs!Running' # {}]_(RegProofs!vars)
        => [Reg!Quiet => Reg!Quiet' \/ Reg!Running' # {}]_(Reg!vars)
    BY DEF Reg!Quiet, RegProofs!Quiet, Reg!Running, RegProofs!Running,
           Reg!vars, RegProofs!vars, Reg!feedVars, RegProofs!feedVars,
           Reg!svcVars, RegProofs!svcVars, Reg!workerVars, RegProofs!workerVars,
           Reg!timerVars, RegProofs!timerVars, Reg!beatVars, RegProofs!beatVars
<1>4. RegProofs!StoppedStaysStopped => Reg!StoppedStaysStopped
    BY <1>3, PTL DEF Reg!StoppedStaysStopped, RegProofs!StoppedStaysStopped
<1> QED  BY <1>1, <1>2, <1>4, ImplementsRegistration, PTL DEF RegistrationKept
=============================================================================
