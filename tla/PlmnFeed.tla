------------------------------ MODULE PlmnFeed ------------------------------
(***************************************************************************)
(* The contract of plmnConfigChan (service/init.go): what the polling      *)
(* service and the NF registration service promise each other about the    *)
(* stream of PLMN lists.  The poller announces a list only when it differs *)
(* from the list it announced last; nothing is lost, reordered or repeated *)
(* between it and the registration service; at most Capacity lists wait.   *)
(* The context both services share is cancelled once and stays cancelled.  *)
(***************************************************************************)
EXTENDS Naturals, Sequences

CONSTANTS
    PlmnConfigs,    \* the PLMN lists that may be announced
    EmptyConfig,    \* the list both sides start from: []
    Capacity        \* buffer of the channel

VARIABLES
    plmnConfigChan, \* lists announced and not yet received, oldest first
    delivered,      \* the list received last
    ctxDone         \* the context of both services has been cancelled

vars == <<plmnConfigChan, delivered, ctxDone>>

\* The list announced last: the newest waiting one, else the one received last.
Announced ==
    IF plmnConfigChan = <<>> THEN delivered ELSE plmnConfigChan[Len(plmnConfigChan)]

Init ==
    /\ plmnConfigChan = <<>>
    /\ delivered = EmptyConfig
    /\ ctxDone = FALSE

Announce(c) ==
    /\ c # Announced
    /\ Len(plmnConfigChan) < Capacity
    /\ plmnConfigChan' = Append(plmnConfigChan, c)
    /\ UNCHANGED <<delivered, ctxDone>>

Receive ==
    /\ plmnConfigChan # <<>>
    /\ delivered' = Head(plmnConfigChan)
    /\ plmnConfigChan' = Tail(plmnConfigChan)
    /\ UNCHANGED ctxDone

Cancel ==
    /\ ctxDone' = TRUE
    /\ UNCHANGED <<plmnConfigChan, delivered>>

Next == (\E c \in PlmnConfigs : Announce(c)) \/ Receive \/ Cancel

Spec == Init /\ [][Next]_vars
=============================================================================
