---------------------------- MODULE NssfService ----------------------------
(***************************************************************************)
(* service/init.go: Start joins the polling service and the registration   *)
(* service by a context and a channel of capacity 1, and Terminate cancels *)
(* the context, deregisters, waits for both services and exits.            *)
(* PlmnPolling and NfRegistration share ctxDone, plmnConfigChan and        *)
(* delivered; every other variable belongs to one of them.                 *)
(***************************************************************************)
EXTENDS Naturals, Sequences

CONSTANTS
    PlmnIds, Snssais, WebuiConfigs,                 \* PlmnPolling
    Handlers, NoHandler,
    InitialPollingInterval, PollingMaxBackoff,
    Workers, Beats, NoWorker, NoProfile, LossyNrf   \* NfRegistration

ASSUME ServiceAssumption ==
    /\ <<>> \in WebuiConfigs
    /\ WebuiConfigs \subseteq Seq([plmn : PlmnIds, snssais : SUBSET Snssais])
    /\ InitialPollingInterval \in Nat /\ PollingMaxBackoff \in Nat
    /\ InitialPollingInterval <= PollingMaxBackoff
    /\ NoHandler \notin Handlers
    /\ NoWorker \notin Workers
    /\ NoProfile \notin {[i \in DOMAIN c |-> c[i].plmn] : c \in WebuiConfigs}
    /\ LossyNrf \in BOOLEAN

Mutant_LargerBuffer == 2

\* plmnConfigChan := make(chan []models.PlmnId, 1)
Capacity == 1

VARIABLES
    ctxDone, plmnConfigChan, delivered,             \* shared
    webui, pollerPc, interval, newConfig, currentPlmnSnssaiConfig,
    currentPlmnConfig, SupportedNssaiInPlmnList, reading, writer, lockKept,
    serviceDone, registerCancel, workerPc, workerCfg, cancelled, retrying,
    registerCtxMutex, keepAliveTimer, timerCfg, beatPc, beatCfg, deregPc, nrf,
    exited                                          \* os.Exit has been called

Poll == INSTANCE PlmnPolling
Reg == INSTANCE NfRegistration
         WITH PlmnConfigs <- Poll!PlmnLists, EmptyConfig <- <<>>

feedVars == <<ctxDone, plmnConfigChan, delivered>>
pollLocals == <<webui, pollerPc, interval, newConfig, currentPlmnSnssaiConfig,
                currentPlmnConfig, SupportedNssaiInPlmnList, reading,
                writer, lockKept>>
regLocals == <<serviceDone, registerCancel, workerPc, workerCfg, cancelled,
               retrying, registerCtxMutex, keepAliveTimer, timerCfg, beatPc,
               beatCfg, deregPc, nrf>>
vars == <<feedVars, pollLocals, regLocals, exited>>

Init == Poll!Init /\ Reg!Init /\ exited = FALSE

-----------------------------------------------------------------------------
(* The steps of the components, each leaving the other's variables alone.  *)

Alive == ~exited /\ UNCHANGED exited

WebuiChanges == Alive /\ Poll!WebuiChanges /\ UNCHANGED regLocals
PollerStep == Alive /\ Poll!Poller /\ UNCHANGED regLocals
PollerLock == Alive /\ Poll!TakeWriteLock /\ UNCHANGED regLocals
Handler(h) == Alive /\ Poll!Handler(h) /\ UNCHANGED regLocals
HandlerUnlocks(h) ==
    Alive /\ (Poll!ReadUnlock(h) \/ Poll!WriteUnlock(h)) /\ UNCHANGED regLocals

ServiceDone == Alive /\ Reg!ServiceDone /\ UNCHANGED pollLocals
ServiceReceive == Alive /\ Reg!ServiceReceive /\ UNCHANGED pollLocals
Worker(w) == Alive /\ Reg!Worker(w) /\ UNCHANGED pollLocals
WorkerLock(w) == Alive /\ Reg!RegisterLock(w) /\ UNCHANGED pollLocals
TimerElapses(b) == Alive /\ Reg!TimerElapses(b) /\ UNCHANGED pollLocals
Heartbeat(b) == Alive /\ Reg!Heartbeat(b) /\ UNCHANGED pollLocals
Deregister(d) == Alive /\ Reg!Deregister(d) /\ UNCHANGED pollLocals
NrfExpires == Alive /\ Reg!NrfExpires /\ UNCHANGED pollLocals

-----------------------------------------------------------------------------
(* Terminate: cancelServices() and DeregisterNF() begin with this step, and *)
(* after wg.Wait() the process exits.                                      *)

Terminate == Alive /\ Reg!Terminate /\ UNCHANGED pollLocals

Exit ==
    /\ ~exited
    /\ pollerPc = "done" /\ serviceDone
    /\ deregPc["terminate"] = "returned"
    /\ exited' = TRUE
    /\ UNCHANGED <<feedVars, pollLocals, regLocals>>

\* Nothing runs after os.Exit.
Exited == exited /\ UNCHANGED vars

-----------------------------------------------------------------------------
Next ==
    \/ WebuiChanges \/ PollerStep
    \/ \E h \in Handlers : Handler(h)
    \/ ServiceDone \/ ServiceReceive
    \/ \E w \in Workers : Worker(w)
    \/ \E b \in Beats : TimerElapses(b) \/ Heartbeat(b)
    \/ \E d \in Reg!Deregisterers : Deregister(d)
    \/ NrfExpires
    \/ Terminate \/ Exit \/ Exited

Spec == Init /\ [][Next]_vars

\* The fairness of the two components, without the environment's share in it:
\* nothing is assumed of the channel.
Fairness ==
    /\ WF_vars(PollerStep) /\ SF_vars(PollerLock)
    /\ \A h \in Handlers : WF_vars(HandlerUnlocks(h))
    /\ SF_vars(ServiceDone) /\ WF_vars(ServiceReceive)
    /\ \A w \in Workers : SF_vars(WorkerLock(w)) /\ WF_vars(Worker(w))
    /\ WF_vars(\E b \in Beats : TimerElapses(b))
    /\ \A b \in Beats : WF_vars(Heartbeat(b))
    /\ \A d \in Reg!Deregisterers : WF_vars(Deregister(d))
    /\ WF_vars(Exit)

FairSpec == Spec /\ Fairness

-----------------------------------------------------------------------------
(* Properties *)

\* A registration that is not cancelled announces to the NRF the PLMNs the
\* handlers serve, once the poller is outside its critical section and no
\* newer list waits in the channel.  (One that is cancelled may succeed late.)
LiveRegistrationIsServed ==
    (pollerPc \notin {"send", "store"} /\ plmnConfigChan = <<>>) =>
        \A w \in Reg!Running \ cancelled :
            DOMAIN SupportedNssaiInPlmnList
                = {workerCfg[w][i] : i \in DOMAIN workerCfg[w]}

\* NfRegistration leaves the other end of the channel and the context to its
\* environment: a list may come only when there is room, and only if it differs
\* from the one before.  In the process, what the poller announces and Terminate
\* cancels is no more than that, so what is shown of NfRegistration alone holds.
RegistrationKept == Reg!Spec

\* The same for PlmnPolling: the registration service takes the lists one by one
\* and in order, and no step of it touches what ConfigLock protects.
PollingKept == Poll!Spec

\* What the test of the polling service expects of it, in the program: it stops
\* once its context is done, here even if no handler keeps the lock it may need.
\* The code does not keep this one.
PollerStops == ctxDone ~> (pollerPc = "done" \/ lockKept)
=============================================================================
