---------------------------- MODULE AmfDirectory ----------------------------
(***************************************************************************)
(* What the NSSAI availability service promises the AMFs: a set of AMFs    *)
(* whose availability data it holds, changed by requests each of which     *)
(* takes effect at one moment between its arrival and its answer.  A PUT   *)
(* registers the AMF, a DELETE removes it, a PATCH needs it; the answer    *)
(* "missing" (404) is given only for an AMF that is not registered.  One   *)
(* exception: an AMF not registered yet whose PUTs overlap is registered   *)
(* doubly, and a DELETE of it may then be answered "ok" and remove nothing *)
(* that shows.                                                             *)
(***************************************************************************)
CONSTANTS Clients, NfIds

VARIABLES
    registered,     \* the AMFs whose data is held
    doubled,        \* those that may be registered more than once
    request,        \* [kind, nfId] of each client's request
    status          \* none, pending, found (a PATCH), ok, refused, missing

vars == <<registered, doubled, request, status>>

Kinds == {"put", "patch", "delete"}
NoRequest == [kind |-> "none", nfId |-> "none"]

Invoke(c, k, n) ==
    /\ status[c] = "none"
    /\ request' = [request EXCEPT ![c] = [kind |-> k, nfId |-> n]]
    /\ status' = [status EXCEPT ![c] = "pending"]
    /\ UNCHANGED <<registered, doubled>>

Decide(c, from, k, s) ==
    /\ status[c] = from /\ request[c].kind = k
    /\ status' = [status EXCEPT ![c] = s]
    /\ UNCHANGED <<doubled, request>>

PendingPutsOf(n) ==
    {c \in Clients : status[c] = "pending" /\ request[c] = [kind |-> "put", nfId |-> n]}

\* Two PUTs at once of an AMF that is not registered.
Overlap(n) ==
    /\ n \notin registered
    /\ \E c, d \in PendingPutsOf(n) : c # d
    /\ doubled' = doubled \cup {n}
    /\ UNCHANGED <<registered, request, status>>

Put(c) ==
    \/ Decide(c, "pending", "put", "refused") /\ UNCHANGED registered
    \/ /\ Decide(c, "pending", "put", "ok")
       /\ registered' = registered \cup {request[c].nfId}

Delete(c) ==
    \/ /\ Decide(c, "pending", "delete", "ok")
       /\ request[c].nfId \in registered
       /\ \/ registered' = registered \ {request[c].nfId}
          \/ request[c].nfId \in doubled /\ UNCHANGED registered
    \/ /\ Decide(c, "pending", "delete", "missing")
       /\ request[c].nfId \notin registered /\ UNCHANGED registered

Patch(c) ==
    \/ Decide(c, "pending", "patch", "refused") /\ UNCHANGED registered
    \/ /\ Decide(c, "pending", "patch", "found")
       /\ request[c].nfId \in registered /\ UNCHANGED registered
    \/ /\ Decide(c, "pending", "patch", "missing")
       /\ request[c].nfId \notin registered /\ UNCHANGED registered
    \/ /\ \E s \in {"ok", "refused"} : Decide(c, "found", "patch", s)
       /\ UNCHANGED registered

Return(c) ==
    /\ status[c] \in {"ok", "refused", "missing"}
    /\ status' = [status EXCEPT ![c] = "none"]
    /\ request' = [request EXCEPT ![c] = NoRequest]
    /\ UNCHANGED <<registered, doubled>>

Init ==
    /\ registered \subseteq NfIds
    /\ doubled \subseteq NfIds
    /\ request = [c \in Clients |-> NoRequest]
    /\ status = [c \in Clients |-> "none"]

Next ==
    \/ \E n \in NfIds : Overlap(n)
    \/ \E c \in Clients :
          \/ \E k \in Kinds, n \in NfIds : Invoke(c, k, n)
          \/ Put(c) \/ Delete(c) \/ Patch(c) \/ Return(c)

Spec == Init /\ [][Next]_vars
=============================================================================
