--------------------------- MODULE NfRegistration ---------------------------
(***************************************************************************)
(* nfregistration/nf_registration.go with the NRF client of                *)
(* consumer/nf_management.go: one service goroutine that reads PLMN lists  *)
(* from plmnConfigChan, one registerNF goroutine per non-empty list,       *)
(* heartbeatNF goroutines started by the keep-alive timer, and DeregisterNF,*)
(* called by the service and by the goroutine that terminates the process. *)
(*                                                                         *)
(* A request to the NRF takes time: the caller stays in its "send" state   *)
(* and every other goroutine may move before the NRF answers.              *)
(* Workers and Beats bound how many registerNF and heartbeatNF goroutines  *)
(* are alive at once; a slot is reused when its goroutine returns.         *)
(***************************************************************************)
EXTENDS Naturals, Sequences

CONSTANTS
    PlmnConfigs,    \* PLMN lists the poller may announce
    EmptyConfig,    \* the list of length 0
    Workers,        \* slots for registerNF goroutines
    Beats,          \* slots for heartbeatNF goroutines
    NoWorker,       \* registerCancel / registerCtxMutex: nil / free
    NoProfile,      \* the NRF holds no profile of this NF
    LossyNrf        \* TRUE: NRF calls may fail, and profiles may expire

ASSUME RegistrationAssumption ==
    /\ EmptyConfig \in PlmnConfigs
    /\ NoWorker \notin Workers
    /\ NoProfile \notin PlmnConfigs
    /\ LossyNrf \in BOOLEAN

\* The capacity given to make(chan []models.PlmnId, 1) in service/init.go.
Capacity == 1

Deregisterers == {"service", "terminate"}

VARIABLES
    ctxDone,           \* the context of StartNfRegistrationService is cancelled
    plmnConfigChan,    \* lists waiting in the channel
    delivered,         \* history: the list received last
    serviceDone,       \* StartNfRegistrationService has returned
    registerCancel,    \* the registerNF goroutine that registerCancel cancels
    workerPc, workerCfg,
    cancelled,         \* running registerNF goroutines whose context is done
    retrying,          \* those whose interval is retryTime
    registerCtxMutex,  \* holder of the mutex, or NoWorker
    keepAliveTimer,    \* nil, armed, or fired (elapsed and not replaced)
    timerCfg,          \* plmnConfig captured by the timer's function
    beatPc, beatCfg,
    deregPc,           \* where each caller is inside DeregisterNF
    nrf                \* PLMN list of the profile the NRF holds, or NoProfile

feedVars   == <<ctxDone, plmnConfigChan, delivered>>
svcVars    == <<serviceDone, registerCancel>>
workerVars == <<workerPc, workerCfg, cancelled, retrying, registerCtxMutex>>
timerVars  == <<keepAliveTimer, timerCfg>>
beatVars   == <<beatPc, beatCfg>>
vars == <<feedVars, svcVars, workerVars, timerVars, beatVars, deregPc, nrf>>

Running == {w \in Workers : workerPc[w] # "idle"}
Beating == {b \in Beats : beatPc[b] # "idle"}

TypeOK ==
    /\ ctxDone \in BOOLEAN /\ serviceDone \in BOOLEAN
    /\ plmnConfigChan \in Seq(PlmnConfigs)
    /\ Len(plmnConfigChan) <= Capacity
    /\ delivered \in PlmnConfigs
    /\ registerCancel \in Workers \cup {NoWorker}
    /\ workerPc \in [Workers ->
           {"idle", "lock", "select", "send", "registered"}]
    /\ workerCfg \in [Workers -> PlmnConfigs]
    /\ cancelled \subseteq Workers /\ retrying \subseteq Workers
    /\ registerCtxMutex \in Workers \cup {NoWorker}
    /\ keepAliveTimer \in {"nil", "armed", "fired"}
    /\ timerCfg \in PlmnConfigs
    /\ beatPc \in [Beats -> {"idle", "check", "update", "register", "restart"}]
    /\ beatCfg \in [Beats -> PlmnConfigs]
    /\ deregPc \in [Deregisterers -> {"idle", "stop", "send", "returned"}]
    /\ nrf \in PlmnConfigs \cup {NoProfile}

Init ==
    /\ ctxDone = FALSE /\ plmnConfigChan = <<>> /\ delivered = EmptyConfig
    /\ serviceDone = FALSE /\ registerCancel = NoWorker
    /\ workerPc = [w \in Workers |-> "idle"]
    /\ workerCfg = [w \in Workers |-> EmptyConfig]
    /\ cancelled = {} /\ retrying = {} /\ registerCtxMutex = NoWorker
    /\ keepAliveTimer = "nil" /\ timerCfg = EmptyConfig
    /\ beatPc = [b \in Beats |-> "idle"]
    /\ beatCfg = [b \in Beats |-> EmptyConfig]
    /\ deregPc = [d \in Deregisterers |-> "idle"]
    /\ nrf = NoProfile

-----------------------------------------------------------------------------
(* The producers: the polling service, and the signal goroutine.           *)

(* Mutants: operators named Mutant_... are definitions with a plausible bug. *)
(* They are no part of the specification; PROJECT.json says which property  *)
(* each of them breaks.                                                    *)

Mutant_AnnounceIntoFullChannel(c) ==
    /\ plmnConfigChan' = Append(plmnConfigChan, c)
    /\ UNCHANGED <<ctxDone, delivered, svcVars, workerVars, timerVars,
                   beatVars, deregPc, nrf>>

\* The poller announces a list that differs from the one it announced last.
Announce(c) ==
    /\ Len(plmnConfigChan) < Capacity
    /\ c # (IF plmnConfigChan = <<>> THEN delivered
            ELSE plmnConfigChan[Len(plmnConfigChan)])
    /\ plmnConfigChan' = Append(plmnConfigChan, c)
    /\ UNCHANGED <<ctxDone, delivered, svcVars, workerVars, timerVars,
                   beatVars, deregPc, nrf>>

\* NSSF.Terminate: cancelServices(), then DeregisterNF().
Terminate ==
    /\ ~ctxDone
    /\ ctxDone' = TRUE
    /\ deregPc' = [deregPc EXCEPT !["terminate"] = "stop"]
    /\ UNCHANGED <<plmnConfigChan, delivered, svcVars, workerVars, timerVars,
                   beatVars, nrf>>

-----------------------------------------------------------------------------
(* StartNfRegistrationService                                              *)

InSelect == ~serviceDone /\ deregPc["service"] = "idle"

Mutant_CancelNothing == cancelled

\* registerCancel(): no effect on a goroutine that has already returned.
CancelPrevious == cancelled \cup ({registerCancel} \cap Running)

\* <-ctx.Done(): cancel the registration in progress and return.
ServiceDone ==
    /\ InSelect /\ ctxDone
    /\ serviceDone' = TRUE
    /\ cancelled' = CancelPrevious
    /\ UNCHANGED <<feedVars, registerCancel, workerPc, workerCfg, retrying,
                   registerCtxMutex, timerVars, beatVars, deregPc, nrf>>

\* A list arrives.  The previous registration is cancelled; an empty list
\* makes the service call DeregisterNF itself, any other list starts
\* registerNF in a goroutine of its own.  The branch for a channel that is closed
\* is never taken: nothing in the program closes it.
ServiceReceive ==
    /\ InSelect /\ plmnConfigChan # <<>>
    /\ LET new == Head(plmnConfigChan) IN
       /\ delivered' = new
       /\ \/ /\ new = EmptyConfig
             /\ cancelled' = CancelPrevious
             /\ deregPc' = [deregPc EXCEPT !["service"] = "stop"]
             /\ UNCHANGED <<registerCancel, workerPc, workerCfg>>
          \/ /\ new # EmptyConfig
             /\ \E w \in Workers \ Running :
                   /\ workerPc' = [workerPc EXCEPT ![w] = "lock"]
                   /\ workerCfg' = [workerCfg EXCEPT ![w] = new]
                   /\ registerCancel' = w
                   /\ cancelled' = CancelPrevious
             /\ UNCHANGED deregPc
    /\ plmnConfigChan' = Tail(plmnConfigChan)
    /\ UNCHANGED <<ctxDone, serviceDone, retrying, registerCtxMutex,
                   timerVars, beatVars, nrf>>

-----------------------------------------------------------------------------
(* The NRF, as far as its client can tell: a registration replaces the     *)
(* profile; a failed call may or may not have taken effect; an update needs *)
(* a profile; a profile that is not refreshed may expire.                  *)

NrfRegisters(cfg, ok) ==
    \/ ok /\ nrf' = cfg
    \/ ~ok /\ LossyNrf /\ nrf' \in {nrf, cfg}

NrfUpdates(ok) ==
    /\ IF ok THEN nrf # NoProfile ELSE (nrf = NoProfile \/ LossyNrf)
    /\ UNCHANGED nrf

NrfDeregisters == nrf' = NoProfile \/ (LossyNrf /\ UNCHANGED nrf)

NrfExpires ==
    /\ LossyNrf /\ nrf # NoProfile
    /\ nrf' = NoProfile
    /\ UNCHANGED <<feedVars, svcVars, workerVars, timerVars, beatVars, deregPc>>

-----------------------------------------------------------------------------
(* registerNF.  "lock": about to take registerCtxMutex; "select": at the   *)
(* select; "send": inside SendRegisterNFInstance; "registered": it          *)
(* succeeded, startKeepAliveTimer is next.                                 *)

startKeepAliveTimer(cfg) ==
    /\ keepAliveTimer' = "armed"
    /\ timerCfg' = cfg

WorkerReturns(w) ==
    /\ workerPc' = [workerPc EXCEPT ![w] = "idle"]
    /\ workerCfg' = [workerCfg EXCEPT ![w] = EmptyConfig]
    /\ cancelled' = cancelled \ {w}
    /\ retrying' = retrying \ {w}
    /\ registerCtxMutex' = NoWorker

Mutant_LockIgnoresHolder(w) ==
    /\ workerPc[w] = "lock"
    /\ registerCtxMutex' = w
    /\ workerPc' = [workerPc EXCEPT ![w] = "select"]
    /\ UNCHANGED <<feedVars, svcVars, workerCfg, cancelled, retrying,
                   timerVars, beatVars, deregPc, nrf>>

RegisterLock(w) ==
    /\ workerPc[w] = "lock" /\ registerCtxMutex = NoWorker
    /\ registerCtxMutex' = w
    /\ workerPc' = [workerPc EXCEPT ![w] = "select"]
    /\ UNCHANGED <<feedVars, svcVars, workerCfg, cancelled, retrying,
                   timerVars, beatVars, deregPc, nrf>>

RegisterCancelled(w) ==
    /\ workerPc[w] = "select" /\ w \in cancelled
    /\ WorkerReturns(w)
    /\ UNCHANGED <<feedVars, svcVars, timerVars, beatVars, deregPc, nrf>>

\* With interval 0 both branches of the select can be ready, and Go picks
\* either; with interval retryTime a done context wins.
MaySend(w) == w \notin cancelled \/ w \notin retrying

RegisterSend(w) ==
    /\ workerPc[w] = "select" /\ MaySend(w)
    /\ workerPc' = [workerPc EXCEPT ![w] = "send"]
    /\ UNCHANGED <<feedVars, svcVars, workerCfg, cancelled, retrying,
                   registerCtxMutex, timerVars, beatVars, deregPc, nrf>>

RegisterAnswered(w, ok) ==
    /\ workerPc[w] = "send"
    /\ NrfRegisters(workerCfg[w], ok)
    /\ workerPc' = [workerPc EXCEPT ![w] = IF ok THEN "registered" ELSE "select"]
    /\ retrying' = IF ok THEN retrying ELSE retrying \cup {w}
    /\ UNCHANGED <<feedVars, svcVars, workerCfg, cancelled, registerCtxMutex,
                   timerVars, beatVars, deregPc>>

RegisterStartTimer(w) ==
    /\ workerPc[w] = "registered"
    /\ startKeepAliveTimer(workerCfg[w])
    /\ WorkerReturns(w)
    /\ UNCHANGED <<feedVars, svcVars, beatVars, deregPc, nrf>>

-----------------------------------------------------------------------------
(* The keep-alive timer and heartbeatNF.  Stop does not stop a function     *)
(* that already runs, so a heartbeat may outlive its timer.                *)

TimerElapses(b) ==
    /\ keepAliveTimer = "armed" /\ beatPc[b] = "idle"
    /\ keepAliveTimer' = "fired" /\ timerCfg' = EmptyConfig
    /\ beatPc' = [beatPc EXCEPT ![b] = "check"]
    /\ beatCfg' = [beatCfg EXCEPT ![b] = timerCfg]
    /\ UNCHANGED <<feedVars, svcVars, workerVars, deregPc, nrf>>

BeatReturns(b) ==
    /\ beatPc' = [beatPc EXCEPT ![b] = "idle"]
    /\ beatCfg' = [beatCfg EXCEPT ![b] = EmptyConfig]

Mutant_TimerNeverStopped == FALSE

TimerStopped == keepAliveTimer = "nil"

HeartbeatCheck(b) ==
    /\ beatPc[b] = "check"
    /\ \/ TimerStopped /\ BeatReturns(b)
       \/ /\ ~TimerStopped
          /\ beatPc' = [beatPc EXCEPT ![b] = "update"]
          /\ UNCHANGED beatCfg
    /\ UNCHANGED <<feedVars, svcVars, workerVars, timerVars, deregPc, nrf>>

Mutant_UpdateErrorIgnored(ok) == IF ok THEN "restart" ELSE "restart"

\* shouldRegister: any problem or error of the update makes it register.
AfterUpdate(ok) == IF ok THEN "restart" ELSE "register"

HeartbeatUpdated(b, ok) ==
    /\ beatPc[b] = "update"
    /\ NrfUpdates(ok)
    /\ beatPc' = [beatPc EXCEPT ![b] = AfterUpdate(ok)]
    /\ UNCHANGED <<feedVars, svcVars, workerVars, timerVars, beatCfg, deregPc>>

Mutant_FailedHeartbeatReturns(b, ok) ==
    /\ beatPc[b] = "register"
    /\ NrfRegisters(beatCfg[b], ok)
    /\ IF ok THEN beatPc' = [beatPc EXCEPT ![b] = "restart"] /\ UNCHANGED beatCfg
       ELSE BeatReturns(b)
    /\ UNCHANGED <<feedVars, svcVars, workerVars, timerVars, deregPc>>

Mutant_HeartbeatRetries(b, ok) ==
    /\ beatPc[b] = "register"
    /\ NrfRegisters(beatCfg[b], ok)
    /\ beatPc' = [beatPc EXCEPT ![b] = IF ok THEN "restart" ELSE "register"]
    /\ UNCHANGED <<feedVars, svcVars, workerVars, timerVars, beatCfg, deregPc>>

HeartbeatRegistered(b, ok) ==
    /\ beatPc[b] = "register"
    /\ NrfRegisters(beatCfg[b], ok)
    /\ beatPc' = [beatPc EXCEPT ![b] = "restart"]
    /\ UNCHANGED <<feedVars, svcVars, workerVars, timerVars, beatCfg, deregPc>>

HeartbeatRestart(b) ==
    /\ beatPc[b] = "restart"
    /\ startKeepAliveTimer(beatCfg[b])
    /\ BeatReturns(b)
    /\ UNCHANGED <<feedVars, svcVars, workerVars, deregPc, nrf>>

-----------------------------------------------------------------------------
(* DeregisterNF, run by the service or by Terminate.                       *)

stopKeepAliveTimer == keepAliveTimer' = "nil" /\ timerCfg' = EmptyConfig

DeregisterStop(d) ==
    /\ deregPc[d] = "stop"
    /\ stopKeepAliveTimer
    /\ deregPc' = [deregPc EXCEPT ![d] = "send"]
    /\ UNCHANGED <<feedVars, svcVars, workerVars, beatVars, nrf>>

Mutant_DeregisterRetries(d) ==
    /\ deregPc[d] = "send"
    /\ NrfDeregisters
    /\ deregPc' = [deregPc EXCEPT ![d] =
          IF nrf' # NoProfile THEN "stop"
          ELSE IF d = "service" THEN "idle" ELSE "returned"]
    /\ UNCHANGED <<feedVars, svcVars, workerVars, timerVars, beatVars>>

\* The error of SendDeregisterNFInstance is only logged.
DeregisterAnswered(d) ==
    /\ deregPc[d] = "send"
    /\ NrfDeregisters
    /\ deregPc' = [deregPc EXCEPT ![d] = IF d = "service" THEN "idle" ELSE "returned"]
    /\ UNCHANGED <<feedVars, svcVars, workerVars, timerVars, beatVars>>

-----------------------------------------------------------------------------
Worker(w) ==
    \/ RegisterLock(w) \/ RegisterCancelled(w) \/ RegisterSend(w)
    \/ \E ok \in BOOLEAN : RegisterAnswered(w, ok)
    \/ RegisterStartTimer(w)

Heartbeat(b) ==
    \/ HeartbeatCheck(b)
    \/ \E ok \in BOOLEAN : HeartbeatUpdated(b, ok)
    \/ \E ok \in BOOLEAN : HeartbeatRegistered(b, ok)
    \/ HeartbeatRestart(b)

Deregister(d) == DeregisterStop(d) \/ DeregisterAnswered(d)

\* Terminate has deregistered and waited for the service: os.Exit follows.
Terminated ==
    /\ serviceDone /\ deregPc["terminate"] = "returned"
    /\ UNCHANGED vars

Next ==
    \/ \E c \in PlmnConfigs : Announce(c)
    \/ Terminate
    \/ ServiceDone
    \/ ServiceReceive
    \/ \E w \in Workers : Worker(w)
    \/ \E b \in Beats : TimerElapses(b)
    \/ \E b \in Beats : Heartbeat(b)
    \/ \E d \in Deregisterers : Deregister(d)
    \/ NrfExpires
    \/ Terminated

Spec == Init /\ [][Next]_vars

\* Goroutines are scheduled, the runtime's select is a fair choice, sync.Mutex
\* hands over in order once a waiter starves, timers elapse, the NRF answers.
Fairness ==
    /\ SF_vars(ServiceDone) /\ WF_vars(ServiceReceive)
    /\ \A w \in Workers :
          /\ SF_vars(RegisterLock(w))
          /\ WF_vars(Worker(w))
    /\ WF_vars(\E b \in Beats : TimerElapses(b))
    /\ \A b \in Beats : WF_vars(Heartbeat(b))
    /\ \A d \in Deregisterers : WF_vars(Deregister(d))

FairSpec == Spec /\ Fairness

\* An NRF that is asked over and over accepts in the end.
NrfRecovers ==
    /\ \A w \in Workers : SF_vars(RegisterAnswered(w, TRUE))
    /\ \A b \in Beats : SF_vars(HeartbeatRegistered(b, TRUE))

-----------------------------------------------------------------------------
(* Properties *)

\* Cancelling before spawning leaves one live registration: a registerNF
\* goroutine whose context is not done is the newest one and registers the
\* list received last, which is not empty.
OnlyLatestLive ==
    \A w \in Running \ cancelled :
        /\ w = registerCancel
        /\ workerCfg[w] = delivered
        /\ delivered # EmptyConfig

\* registerCtxMutex: at most one registerNF goroutine talks to the NRF.
OneWorkerRegisters ==
    \A v, w \in Workers :
        (workerPc[v] \notin {"idle", "lock"} /\ workerPc[w] \notin {"idle", "lock"})
            => v = w

\* The heartbeat chain never breaks: when the timer has elapsed and was not
\* stopped, some heartbeatNF is still running and will start it again.
KeepAliveLives == keepAliveTimer = "fired" => Beating # {}

\* No goroutine is left that could call the NRF: the timer is stopped, no
\* registerNF runs, and every heartbeat has yet to look at the timer.
Quiet ==
    /\ keepAliveTimer = "nil"
    /\ Running = {}
    /\ \A b \in Beats : beatPc[b] \in {"idle", "check"}

\* Once quiet, only a new PLMN list makes the NF register again: a heartbeat
\* that had fired before the timer was stopped does not.
StoppedStaysStopped == [][Quiet => Quiet' \/ Running' # {}]_vars

\* The newest list is never kept waiting for ever behind the registration of an
\* older one that is retried against an NRF that keeps failing.  (An older one
\* may wait for ever behind the newest: it has nothing left to do.)
LatestGetsItsTurn ==
    \A w \in Workers :
        (workerPc[w] = "lock" /\ w \notin cancelled)
            ~> (workerPc[w] # "lock" \/ w \in cancelled)

\* The service comes back to the channel, even from inside DeregisterNF and with
\* an NRF that fails: a list that waits is received.  The poller depends on it,
\* which may wait for room in the channel with ConfigLock held.
ListsReceived == plmnConfigChan # <<>> ~> (plmnConfigChan = <<>> \/ ctxDone)

\* After cancelServices() the registration service returns.
ServiceStops == ctxDone ~> serviceDone

\* A timer that has elapsed is started again or stopped.
KeepAliveRestarts == keepAliveTimer = "fired" ~> keepAliveTimer # "fired"

\* If the NRF recovers, then as long as the configuration is not empty and the
\* process is not shutting down, the NRF holds a profile of this NF again and
\* again, whatever it drops or refuses.  Lists that keep coming, each before the
\* registration of the last one has succeeded, may prevent it.
RegisteredAgain ==
    NrfRecovers => []<>(\/ nrf # NoProfile \/ delivered = EmptyConfig \/ ctxDone
                        \/ plmnConfigChan # <<>>)

-----------------------------------------------------------------------------
(* What the comment on StartNfRegistrationService says of the outcome.  The  *)
(* code does not keep it: see the run that refutes it.                     *)

\* Everything the last list started has ended, and no other list waits.
Settled ==
    /\ plmnConfigChan = <<>> /\ InSelect /\ ~ctxDone
    /\ Running = {} /\ Beating = {}

\* "If the new config is empty, the NF deregisters from the NRF. Else, it
\* registers to the NRF": once all has settled, the NRF holds no profile after
\* an empty list, and else the profile with the list received last.
OutcomeOfLatest ==
    Settled => nrf = IF delivered = EmptyConfig THEN NoProfile ELSE delivered
=============================================================================
