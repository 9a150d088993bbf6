------------------------ MODULE NfRegistrationProofs ------------------------
(***************************************************************************)
(* Theorems of NfRegistration, for any number of registerNF and heartbeatNF *)
(* goroutines, any PLMN lists, and an NRF that may lose requests or not.   *)
(***************************************************************************)
EXTENDS NfRegistration, SequenceTheorems, TLAPS

USE DEF Capacity, Deregisterers

-----------------------------------------------------------------------------
(* Types.                                                                  *)

LEMMA TypingInit == ASSUME RegistrationAssumption, Init PROVE TypeOK
<1>1. plmnConfigChan \in Seq(PlmnConfigs) /\ Len(plmnConfigChan) <= Capacity
  BY EmptySeq DEF Init
<1>2. delivered \in PlmnConfigs /\ timerCfg \in PlmnConfigs
  BY DEF RegistrationAssumption, Init
<1>3. /\ workerCfg \in [Workers -> PlmnConfigs]
      /\ beatCfg \in [Beats -> PlmnConfigs]
  BY DEF RegistrationAssumption, Init
<1> QED BY <1>1, <1>2, <1>3 DEF Init, TypeOK

LEMMA TypingService ==
    ASSUME RegistrationAssumption, TypeOK,
           \/ \E c \in PlmnConfigs : Announce(c)
           \/ Terminate \/ ServiceDone \/ ServiceReceive
           \/ \E d \in Deregisterers : Deregister(d)
           \/ NrfExpires \/ Terminated
    PROVE TypeOK'
<1>1. ASSUME NEW c \in PlmnConfigs, Announce(c) PROVE TypeOK'
  BY <1>1 DEF Announce, TypeOK, svcVars, workerVars, timerVars, beatVars
<1>2. ASSUME Terminate PROVE TypeOK'
  BY <1>2 DEF Terminate, TypeOK, svcVars, workerVars, timerVars, beatVars
<1>3. ASSUME ServiceDone PROVE TypeOK'
  BY <1>3 DEF ServiceDone, CancelPrevious, Running, TypeOK, feedVars, timerVars,
              beatVars
<1>4. ASSUME ServiceReceive PROVE TypeOK'
  BY <1>4 DEF ServiceReceive, CancelPrevious, Running, TypeOK, timerVars, beatVars
<1>5. ASSUME NEW d \in Deregisterers, DeregisterStop(d) PROVE TypeOK'
  BY <1>5 DEF DeregisterStop, stopKeepAliveTimer, TypeOK, RegistrationAssumption,
              feedVars, svcVars, workerVars, beatVars
<1>6. ASSUME NEW d \in Deregisterers, DeregisterAnswered(d) PROVE TypeOK'
  BY <1>6 DEF DeregisterAnswered, NrfDeregisters, TypeOK, feedVars, svcVars,
              workerVars, timerVars, beatVars
<1>7. ASSUME NrfExpires PROVE TypeOK'
  BY <1>7 DEF NrfExpires, TypeOK, feedVars, svcVars, workerVars, timerVars,
              beatVars
<1>8. ASSUME Terminated PROVE TypeOK'
  BY <1>8 DEF Terminated, TypeOK, vars, feedVars, svcVars, workerVars, timerVars,
              beatVars
<1> QED BY <1>1, <1>2, <1>3, <1>4, <1>5, <1>6, <1>7, <1>8 DEF Deregister

LEMMA TypingWorker ==
    ASSUME RegistrationAssumption, TypeOK, NEW w \in Workers, Worker(w)
    PROVE TypeOK'
<1> USE DEF feedVars, svcVars, timerVars, beatVars
<1>1. CASE RegisterLock(w)
  BY <1>1 DEF RegisterLock, TypeOK
<1>2. CASE RegisterCancelled(w)
  BY <1>2 DEF RegisterCancelled, WorkerReturns, TypeOK, RegistrationAssumption
<1>3. CASE RegisterSend(w)
  BY <1>3 DEF RegisterSend, TypeOK
<1>4. ASSUME NEW ok \in BOOLEAN, RegisterAnswered(w, ok) PROVE TypeOK'
  BY <1>4 DEF RegisterAnswered, NrfRegisters, TypeOK
<1>5. CASE RegisterStartTimer(w)
  BY <1>5 DEF RegisterStartTimer, startKeepAliveTimer, WorkerReturns, TypeOK,
              RegistrationAssumption
<1> QED BY <1>1, <1>2, <1>3, <1>4, <1>5 DEF Worker

LEMMA TypingHeartbeat ==
    ASSUME RegistrationAssumption, TypeOK, NEW b \in Beats,
           TimerElapses(b) \/ Heartbeat(b)
    PROVE TypeOK'
<1> USE DEF feedVars, svcVars, workerVars, timerVars
<1>1. CASE TimerElapses(b)
  BY <1>1 DEF TimerElapses, TypeOK
<1>2. CASE HeartbeatCheck(b)
  BY <1>2 DEF HeartbeatCheck, BeatReturns, TypeOK, RegistrationAssumption
<1>3. ASSUME NEW ok \in BOOLEAN, HeartbeatUpdated(b, ok) PROVE TypeOK'
  BY <1>3 DEF HeartbeatUpdated, NrfUpdates, AfterUpdate, TypeOK
<1>4. ASSUME NEW ok \in BOOLEAN, HeartbeatRegistered(b, ok) PROVE TypeOK'
  BY <1>4 DEF HeartbeatRegistered, NrfRegisters, TypeOK
<1>5. CASE HeartbeatRestart(b)
  BY <1>5 DEF HeartbeatRestart, startKeepAliveTimer, BeatReturns, TypeOK,
              RegistrationAssumption
<1> QED BY <1>1, <1>2, <1>3, <1>4, <1>5 DEF Heartbeat

\* Every variable keeps its type: among others the channel never holds more
\* lists than its buffer.
THEOREM TypeCorrect == Spec => []TypeOK
<1>1. Init => TypeOK
  BY TypingInit, RegistrationAssumption
<1>2. TypeOK /\ [Next]_vars => TypeOK'
  <2> SUFFICES ASSUME TypeOK, [Next]_vars PROVE TypeOK'
    OBVIOUS
  <2>1. CASE UNCHANGED vars
    BY <2>1 DEF TypeOK, vars, feedVars, svcVars, workerVars, timerVars, beatVars
  <2>2. CASE Next
    BY <2>2, TypingService, TypingWorker, TypingHeartbeat, RegistrationAssumption
       DEF Next
  <2> QED BY <2>1, <2>2
<1> QED BY <1>1, <1>2, PTL DEF Spec

-----------------------------------------------------------------------------
(* One live registration.  The invariant is inductive as it stands: only   *)
(* ServiceReceive changes delivered and registerCancel, and it cancels the *)
(* goroutine registerCancel named before it starts another.                *)

LEMMA OnlyLatestLiveService ==
    ASSUME RegistrationAssumption, TypeOK, OnlyLatestLive, ServiceReceive
    PROVE OnlyLatestLive'
<1> DEFINE new == Head(plmnConfigChan)
<1>1. CASE new = EmptyConfig
  <2>1. cancelled' = CancelPrevious /\ UNCHANGED <<workerPc, workerCfg>>
    BY <1>1 DEF ServiceReceive
  <2>2. Running' \ cancelled' = {}
    BY <2>1 DEF OnlyLatestLive, CancelPrevious, Running
  <2> QED BY <2>2 DEF OnlyLatestLive
<1>2. CASE new # EmptyConfig
  <2>1. PICK v \in Workers \ Running :
          /\ workerPc' = [workerPc EXCEPT ![v] = "lock"]
          /\ workerCfg' = [workerCfg EXCEPT ![v] = new]
          /\ registerCancel' = v
          /\ cancelled' = CancelPrevious
    BY <1>2 DEF ServiceReceive
  <2>2. delivered' = new
    BY DEF ServiceReceive
  <2>3. Running' = Running \cup {v}
    BY <2>1 DEF Running, TypeOK
  <2>4. Running' \ cancelled' \subseteq {v}
    BY <2>1, <2>3 DEF OnlyLatestLive, CancelPrevious
  <2>5. workerCfg'[v] = new
    BY <2>1 DEF TypeOK
  <2> QED BY <1>2, <2>1, <2>2, <2>4, <2>5 DEF OnlyLatestLive
<1> QED BY <1>1, <1>2

LEMMA OnlyLatestLiveWorker ==
    ASSUME TypeOK, OnlyLatestLive, NEW w \in Workers, Worker(w)
    PROVE OnlyLatestLive'
<1> USE DEF OnlyLatestLive, Running, TypeOK
<1>1. CASE RegisterLock(w)
  BY <1>1 DEF RegisterLock, feedVars, svcVars
<1>2. CASE RegisterCancelled(w)
  BY <1>2 DEF RegisterCancelled, WorkerReturns, feedVars, svcVars
<1>3. CASE RegisterSend(w)
  BY <1>3 DEF RegisterSend, feedVars, svcVars
<1>4. ASSUME NEW ok \in BOOLEAN, RegisterAnswered(w, ok) PROVE OnlyLatestLive'
  BY <1>4 DEF RegisterAnswered, feedVars, svcVars
<1>5. CASE RegisterStartTimer(w)
  BY <1>5 DEF RegisterStartTimer, WorkerReturns, feedVars, svcVars
<1> QED BY <1>1, <1>2, <1>3, <1>4, <1>5 DEF Worker

\* A registerNF goroutine whose context is not done registers the list received
\* last; every older one has been cancelled.
THEOREM LatestIsOnlyLive == Spec => []OnlyLatestLive
<1>1. Init => OnlyLatestLive
  BY DEF Init, OnlyLatestLive, Running
<1>2. TypeOK /\ OnlyLatestLive /\ [Next]_vars => OnlyLatestLive'
  <2> SUFFICES ASSUME TypeOK, OnlyLatestLive, [Next]_vars PROVE OnlyLatestLive'
    OBVIOUS
  <2> USE DEF OnlyLatestLive, Running, feedVars, svcVars, workerVars
  <2>1. ASSUME NEW c \in PlmnConfigs, Announce(c) PROVE OnlyLatestLive'
    BY <2>1 DEF Announce
  <2>2. CASE Terminate
    BY <2>2 DEF Terminate
  <2>3. CASE ServiceDone
    BY <2>3 DEF ServiceDone, CancelPrevious
  <2>4. CASE ServiceReceive
    BY <2>4, OnlyLatestLiveService, RegistrationAssumption
  <2>5. ASSUME NEW w \in Workers, Worker(w) PROVE OnlyLatestLive'
    BY <2>5, OnlyLatestLiveWorker
  <2>6. ASSUME NEW b \in Beats, TimerElapses(b) PROVE OnlyLatestLive'
    BY <2>6 DEF TimerElapses
  <2>7. ASSUME NEW b \in Beats, Heartbeat(b) PROVE OnlyLatestLive'
    BY <2>7 DEF Heartbeat, HeartbeatCheck, HeartbeatUpdated, HeartbeatRegistered,
                HeartbeatRestart
  <2>8. ASSUME NEW d \in Deregisterers, Deregister(d) PROVE OnlyLatestLive'
    BY <2>8 DEF Deregister, DeregisterStop, DeregisterAnswered
  <2>9. CASE NrfExpires
    BY <2>9 DEF NrfExpires
  <2>10. CASE Terminated \/ UNCHANGED vars
    BY <2>10 DEF Terminated, vars
  <2> QED BY <2>1, <2>2, <2>3, <2>4, <2>5, <2>6, <2>7, <2>8, <2>9, <2>10 DEF Next
<1> QED BY <1>1, <1>2, TypeCorrect, PTL DEF Spec

-----------------------------------------------------------------------------
(* Mutual exclusion.  OneWorkerRegisters is not inductive: it does not say *)
(* who holds registerCtxMutex.                                             *)

HolderRegisters ==
    \A w \in Workers :
        workerPc[w] \notin {"idle", "lock"} => registerCtxMutex = w

LEMMA HolderRegistersInductive ==
    ASSUME RegistrationAssumption, TypeOK, HolderRegisters, [Next]_vars
    PROVE HolderRegisters'
<1> USE DEF HolderRegisters, TypeOK, feedVars, svcVars, workerVars, timerVars,
            beatVars
<1>1. ASSUME NEW c \in PlmnConfigs, Announce(c) PROVE HolderRegisters'
  BY <1>1 DEF Announce
<1>2. CASE Terminate \/ ServiceDone
  BY <1>2 DEF Terminate, ServiceDone
<1>3. CASE ServiceReceive
  BY <1>3 DEF ServiceReceive, Running
<1>4. ASSUME NEW w \in Workers, Worker(w) PROVE HolderRegisters'
  <2>1. CASE RegisterLock(w)
    BY <2>1 DEF RegisterLock, RegistrationAssumption
  <2>2. CASE RegisterCancelled(w)
    BY <2>2 DEF RegisterCancelled, WorkerReturns
  <2>3. CASE RegisterSend(w)
    BY <2>3 DEF RegisterSend
  <2>4. ASSUME NEW ok \in BOOLEAN, RegisterAnswered(w, ok) PROVE HolderRegisters'
    BY <2>4 DEF RegisterAnswered
  <2>5. CASE RegisterStartTimer(w)
    BY <2>5 DEF RegisterStartTimer, WorkerReturns
  <2> QED BY <1>4, <2>1, <2>2, <2>3, <2>4, <2>5 DEF Worker
<1>5. ASSUME NEW b \in Beats, TimerElapses(b) \/ Heartbeat(b) PROVE HolderRegisters'
  BY <1>5 DEF TimerElapses, Heartbeat, HeartbeatCheck, HeartbeatUpdated,
              HeartbeatRegistered, HeartbeatRestart
<1>6. ASSUME NEW d \in Deregisterers, Deregister(d) PROVE HolderRegisters'
  BY <1>6 DEF Deregister, DeregisterStop, DeregisterAnswered
<1>7. CASE NrfExpires \/ Terminated \/ UNCHANGED vars
  BY <1>7 DEF NrfExpires, Terminated, vars
<1> QED BY <1>1, <1>2, <1>3, <1>4, <1>5, <1>6, <1>7 DEF Next

\* At most one registerNF goroutine is between Lock and Unlock.
THEOREM MutualExclusion == Spec => []OneWorkerRegisters
<1>1. Init => HolderRegisters
  BY DEF Init, HolderRegisters
<1>2. TypeOK /\ HolderRegisters /\ [Next]_vars => HolderRegisters'
  BY HolderRegistersInductive, RegistrationAssumption
<1>3. HolderRegisters => OneWorkerRegisters
  BY DEF HolderRegisters, OneWorkerRegisters
<1> QED BY <1>1, <1>2, <1>3, TypeCorrect, PTL DEF Spec

-----------------------------------------------------------------------------
(* The keep-alive chain.                                                   *)

LEMMA KeepAliveHeartbeat ==
    ASSUME TypeOK, KeepAliveLives, NEW b \in Beats, TimerElapses(b) \/ Heartbeat(b)
    PROVE KeepAliveLives'
<1> USE DEF KeepAliveLives, Beating, TypeOK, timerVars
<1>1. CASE TimerElapses(b)
  BY <1>1 DEF TimerElapses
<1>2. CASE HeartbeatCheck(b)
  BY <1>2 DEF HeartbeatCheck, TimerStopped, BeatReturns
<1>3. ASSUME NEW ok \in BOOLEAN, HeartbeatUpdated(b, ok) PROVE KeepAliveLives'
  BY <1>3 DEF HeartbeatUpdated, AfterUpdate
<1>4. ASSUME NEW ok \in BOOLEAN, HeartbeatRegistered(b, ok) PROVE KeepAliveLives'
  BY <1>4 DEF HeartbeatRegistered
<1>5. CASE HeartbeatRestart(b)
  BY <1>5 DEF HeartbeatRestart, startKeepAliveTimer
<1> QED BY <1>1, <1>2, <1>3, <1>4, <1>5 DEF Heartbeat

\* Whenever the timer has elapsed and nobody stopped it, a heartbeatNF goroutine
\* is alive that will start it again.
THEOREM HeartbeatChainLives == Spec => []KeepAliveLives
<1>1. Init => KeepAliveLives
  BY DEF Init, KeepAliveLives
<1>2. TypeOK /\ KeepAliveLives /\ [Next]_vars => KeepAliveLives'
  <2> SUFFICES ASSUME TypeOK, KeepAliveLives, [Next]_vars PROVE KeepAliveLives'
    OBVIOUS
  <2> USE DEF KeepAliveLives, Beating, timerVars, beatVars
  <2>1. ASSUME NEW c \in PlmnConfigs, Announce(c) PROVE KeepAliveLives'
    BY <2>1 DEF Announce
  <2>2. CASE Terminate \/ ServiceDone \/ ServiceReceive
    BY <2>2 DEF Terminate, ServiceDone, ServiceReceive
  <2>3. ASSUME NEW w \in Workers, Worker(w) PROVE KeepAliveLives'
    BY <2>3 DEF Worker, RegisterLock, RegisterCancelled, RegisterSend,
                RegisterAnswered, RegisterStartTimer, startKeepAliveTimer
  <2>4. ASSUME NEW b \in Beats, TimerElapses(b) \/ Heartbeat(b)
        PROVE KeepAliveLives'
    BY <2>4, KeepAliveHeartbeat
  <2>5. ASSUME NEW d \in Deregisterers, Deregister(d) PROVE KeepAliveLives'
    BY <2>5 DEF Deregister, DeregisterStop, stopKeepAliveTimer, DeregisterAnswered
  <2>6. CASE NrfExpires \/ Terminated \/ UNCHANGED vars
    BY <2>6 DEF NrfExpires, Terminated, vars
  <2> QED BY <2>1, <2>2, <2>3, <2>4, <2>5, <2>6 DEF Next
<1> QED BY <1>1, <1>2, TypeCorrect, PTL DEF Spec

-----------------------------------------------------------------------------
(* A stopped timer stays stopped.                                          *)

StaysStopped == Quiet => Quiet' \/ Running' # {}

LEMMA StaysStoppedStep ==
    ASSUME TypeOK, Next PROVE StaysStopped
<1> SUFFICES ASSUME Quiet PROVE Quiet' \/ Running' # {}
  BY DEF StaysStopped
<1> USE DEF Quiet, Running, TypeOK, feedVars, svcVars, workerVars, timerVars,
            beatVars
<1>1. ASSUME NEW c \in PlmnConfigs, Announce(c) PROVE Quiet'
  BY <1>1 DEF Announce
<1>2. CASE Terminate \/ ServiceDone
  BY <1>2 DEF Terminate, ServiceDone
<1>3. CASE ServiceReceive
  BY <1>3 DEF ServiceReceive
<1>4. ASSUME NEW w \in Workers, Worker(w) PROVE FALSE
  BY <1>4 DEF Worker, RegisterLock, RegisterCancelled, RegisterSend,
              RegisterAnswered, RegisterStartTimer
<1>5. ASSUME NEW b \in Beats, TimerElapses(b) \/ Heartbeat(b) PROVE Quiet'
  <2>1. HeartbeatCheck(b)
    BY <1>5 DEF TimerElapses, Heartbeat, HeartbeatUpdated, HeartbeatRegistered,
                HeartbeatRestart
  <2> QED BY <2>1 DEF HeartbeatCheck, TimerStopped, BeatReturns
<1>6. ASSUME NEW d \in Deregisterers, Deregister(d) PROVE Quiet'
  BY <1>6 DEF Deregister, DeregisterStop, stopKeepAliveTimer, DeregisterAnswered
<1>7. CASE NrfExpires \/ Terminated
  BY <1>7 DEF NrfExpires, Terminated, vars
<1> QED BY <1>1, <1>2, <1>3, <1>4, <1>5, <1>6, <1>7 DEF Next

\* Once the timer is stopped and no registration runs, a heartbeat that had
\* already fired cannot make the NF call the NRF: only a new list can.
THEOREM StoppedIsFinal == Spec => StoppedStaysStopped
<1>1. TypeOK /\ [Next]_vars => [StaysStopped]_vars
  BY StaysStoppedStep
<1> QED BY <1>1, TypeCorrect, PTL DEF Spec, StoppedStaysStopped, StaysStopped

=============================================================================
