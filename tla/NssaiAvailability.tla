-------------------------- MODULE NssaiAvailability --------------------------
(***************************************************************************)
(* producer/nssaiavailability_store.go: the PUT, PATCH and DELETE          *)
(* procedures on Configuration.AmfList, run by concurrent HTTP handlers,   *)
(* from the decoding of the body to the response.  Each action is one      *)
(* critical section of factory.ConfigLock or the code between two of them. *)
(*                                                                         *)
(* The availability data of an AMF is a set of Items; an item stands for   *)
(* one entry of the list: a TA with its S-NSSAIs, by which it is looked up.*)
(* A data set lists a TA once.  Handlers are the request handlers; one     *)
(* that has answered takes the next request.  Nothing in the code orders   *)
(* the requests of one AMF, and nothing does here: doubled, orphaned and   *)
(* overwritten record which of them met in a window between two sections.  *)
(***************************************************************************)
EXTENDS Naturals, SequencesExt

CONSTANTS
    Handlers, NfIds, Items,
    InitialAmfList      \* AmfList of the configuration file

AmfRecords == [nfId : NfIds, data : SUBSET Items]

ASSUME AvailabilityAssumption == InitialAmfList \in Seq(AmfRecords)

VARIABLES
    amfList,        \* factory.NssfConfig.Configuration.AmfList
    lockLeaked,     \* a handler panicked between Lock and Unlock
    pc,             \* of each handler
    request,        \* [kind, nfId] of its request
    body,           \* data of a PUT, items a PATCH adds and removes
    unvisited,      \* entries a PUT has still to check, or to answer
    modified,       \* result of a PATCH on the data it looked up
    answer,         \* ok, refused (400, 403, 409), missing (404), none
    response,       \* entries of the response
    doubled,        \* history: AMFs the file lists twice or two PUTs appended
    orphaned,       \* history: PATCHes whose AMF a DELETE removed meanwhile
    overwritten     \* history: PUTs whose data was replaced while they respond

store == <<amfList, lockLeaked>>
outcome == <<answer, response>>
history == <<doubled, orphaned, overwritten>>
vars == <<store, pc, request, body, unvisited, modified, outcome, history>>

NoRequest == [kind |-> "none", nfId |-> "none"]
NoBody == [add |-> {}, remove |-> {}]
Requests == [kind : {"put", "patch", "delete"}, nfId : NfIds] \cup {NoRequest}

TypeOK ==
    /\ amfList \in Seq(AmfRecords)
    /\ lockLeaked \in BOOLEAN
    /\ pc \in [Handlers -> {"idle", "decode", "check", "update", "append",
                            "lookup", "apply", "write", "delete", "respond",
                            "answered", "panicked"}]
    /\ request \in [Handlers -> Requests]
    /\ body \in [Handlers -> [add : SUBSET Items, remove : SUBSET Items]]
    /\ unvisited \in [Handlers -> SUBSET Items]
    /\ modified \in [Handlers -> SUBSET Items]
    /\ answer \in [Handlers -> {"none", "ok", "refused", "missing"}]
    /\ response \in [Handlers -> SUBSET Items]
    /\ doubled \subseteq NfIds
    /\ orphaned \subseteq Handlers
    /\ overwritten \subseteq Handlers

Init ==
    /\ amfList = InitialAmfList
    /\ lockLeaked = FALSE
    /\ pc = [h \in Handlers |-> "idle"]
    /\ request = [h \in Handlers |-> NoRequest]
    /\ body = [h \in Handlers |-> NoBody]
    /\ unvisited = [h \in Handlers |-> {}]
    /\ modified = [h \in Handlers |-> {}]
    /\ answer = [h \in Handlers |-> "none"]
    /\ response = [h \in Handlers |-> {}]
    /\ doubled = {n \in NfIds : \E i, j \in DOMAIN amfList :
                                  i # j /\ amfList[i].nfId = n /\ amfList[j].nfId = n}
    /\ orphaned = {}
    /\ overwritten = {}

-----------------------------------------------------------------------------
(* Helpers                                                                 *)

\* The first record of the AMF, 0 if there is none: each procedure scans the
\* list from its head and breaks at the first match.
FirstRecord(n) == SelectInSeq(amfList, LAMBDA r : r.nfId = n)

\* Every section that takes ConfigLock waits for ever once it has leaked.
LockFree == ~lockLeaked

Goto(h, label) == pc' = [pc EXCEPT ![h] = label]

Answer(h, a) ==
    /\ Goto(h, "answered")
    /\ answer' = [answer EXCEPT ![h] = a]

\* The change is made; what is left is the response.
Respond(h) ==
    /\ Goto(h, "respond")
    /\ answer' = [answer EXCEPT ![h] = "ok"]

-----------------------------------------------------------------------------
(* A request arrives, its body is decoded and, in the end, it is answered. *)

Arrive(h, kind, n) ==
    /\ pc[h] = "idle"
    /\ Goto(h, IF kind = "delete" THEN "delete" ELSE "decode")
    /\ request' = [request EXCEPT ![h] = [kind |-> kind, nfId |-> n]]
    /\ UNCHANGED <<store, body, unvisited, modified, outcome, history>>

DecodePut(h, data) ==
    /\ pc[h] = "decode" /\ request[h].kind = "put"
    /\ Goto(h, "check")
    /\ body' = [body EXCEPT ![h] = [add |-> data, remove |-> {}]]
    /\ unvisited' = [unvisited EXCEPT ![h] = data]
    /\ UNCHANGED <<store, request, modified, outcome, history>>

DecodePatch(h, add, remove) ==
    /\ pc[h] = "decode" /\ request[h].kind = "patch"
    /\ Goto(h, "lookup")
    /\ body' = [body EXCEPT ![h] = [add |-> add, remove |-> remove]]
    /\ UNCHANGED <<store, request, unvisited, modified, outcome, history>>

\* A body that cannot be read or decoded never reaches a procedure.
DecodeFails(h) ==
    /\ pc[h] = "decode"
    /\ Answer(h, "refused")
    /\ UNCHANGED <<store, request, body, unvisited, modified, response, history>>

Return(h) ==
    /\ pc[h] = "answered"
    /\ Goto(h, "idle")
    /\ request' = [request EXCEPT ![h] = NoRequest]
    /\ body' = [body EXCEPT ![h] = NoBody]
    /\ unvisited' = [unvisited EXCEPT ![h] = {}]
    /\ modified' = [modified EXCEPT ![h] = {}]
    /\ answer' = [answer EXCEPT ![h] = "none"]
    /\ response' = [response EXCEPT ![h] = {}]
    /\ orphaned' = orphaned \ {h}
    /\ overwritten' = overwritten \ {h}
    /\ UNCHANGED <<store, doubled>>

-----------------------------------------------------------------------------
(* NSSAIAvailabilityPutProcedure                                           *)

\* CheckSupportedNssaiInPlmn, once per entry, each under a read lock of its own:
\* PlmnPolling!StoreSupported may replace the list it reads before each of them,
\* so each may pass or fail whatever the ones before it did.
PutCheck(h) ==
    /\ pc[h] = "check" /\ LockFree
    /\ \/ /\ unvisited[h] = {}
          /\ Goto(h, "update") /\ UNCHANGED <<unvisited, answer>>
       \/ \E i \in unvisited[h] :
             \/ /\ unvisited' = [unvisited EXCEPT ![h] = @ \ {i}]
                /\ UNCHANGED <<pc, answer>>
             \/ Answer(h, "refused") /\ UNCHANGED unvisited
    /\ UNCHANGED <<store, request, body, modified, response, history>>

\* The response is to have an entry for each entry of the body.
RespondToPut(h) == Respond(h) /\ unvisited' = [unvisited EXCEPT ![h] = body[h].add]

HandlersAt(label, kind, n) ==
    {h \in Handlers : pc[h] = label /\ request[h] = [kind |-> kind, nfId |-> n]}

PutsRespondingOf(n) == HandlersAt("respond", "put", n)

Mutant_AlwaysAppend(h) ==
    /\ pc[h] = "update" /\ LockFree
    /\ Goto(h, "append")
    /\ UNCHANGED <<store, request, body, unvisited, modified, outcome, history>>

PutUpdate(h) ==
    /\ pc[h] = "update" /\ LockFree
    /\ LET n == request[h].nfId
           i == FirstRecord(n)
       IN \/ /\ i # 0
             /\ amfList' = [amfList EXCEPT ![i].data = body[h].add]
             /\ RespondToPut(h)
             /\ overwritten' = overwritten \cup PutsRespondingOf(n)
             /\ UNCHANGED doubled
          \/ /\ i = 0
             /\ Goto(h, "append") /\ UNCHANGED <<amfList, unvisited, answer, overwritten>>
             /\ doubled' = doubled \cup {m \in {n} : HandlersAt("append", "put", m) # {}}
    /\ UNCHANGED <<lockLeaked, request, body, modified, response, orphaned>>

\* "If no AMF record is found, create a new one", in a second critical section:
\* another PUT of the AMF may have created one since.
PutAppend(h) ==
    /\ pc[h] = "append" /\ LockFree
    /\ amfList' = Append(amfList, [nfId |-> request[h].nfId, data |-> body[h].add])
    /\ RespondToPut(h)
    /\ overwritten' = overwritten \cup {g \in {h} : FirstRecord(request[h].nfId) # 0}
    /\ UNCHANGED <<lockLeaked, request, body, modified, response,
                   doubled, orphaned>>

\* What the list says of the AMF now; nothing when it has no record.
DataNow(n) == IF FirstRecord(n) = 0 THEN {} ELSE amfList[FirstRecord(n)].data

\* AuthorizeOfAmfTaFromConfig, once per entry, each under a read lock of its own;
\* an entry that is not found is left out.
PutRespond(h) ==
    /\ pc[h] = "respond" /\ request[h].kind = "put" /\ LockFree
    /\ \/ /\ unvisited[h] = {}
          /\ Goto(h, "answered") /\ UNCHANGED <<unvisited, response>>
       \/ \E i \in unvisited[h] :
             /\ unvisited' = [unvisited EXCEPT ![h] = @ \ {i}]
             /\ response' = [response EXCEPT ![h] = @ \cup ({i} \cap DataNow(request[h].nfId))]
             /\ UNCHANGED pc
    /\ UNCHANGED <<store, request, body, modified, answer, history>>

-----------------------------------------------------------------------------
(* NSSAIAvailabilityPatchProcedure                                         *)

Mutant_LookupMissIgnored(h) ==
    /\ pc[h] = "lookup" /\ LockFree
    /\ Goto(h, "apply")
    /\ modified' = [modified EXCEPT ![h] = DataNow(request[h].nfId)]
    /\ UNCHANGED <<store, request, body, unvisited, outcome, history>>

\* A copy of the data is taken under the read lock.
PatchLookup(h) ==
    /\ pc[h] = "lookup" /\ LockFree
    /\ LET i == FirstRecord(request[h].nfId) IN
       \/ /\ i # 0
          /\ modified' = [modified EXCEPT ![h] = amfList[i].data]
          /\ Goto(h, "apply") /\ UNCHANGED answer
       \/ /\ i = 0
          /\ Answer(h, "missing") /\ UNCHANGED modified
    /\ UNCHANGED <<store, request, body, unvisited, response, history>>

\* The patch is applied to the copy, without a lock: 409 when it removes what
\* is not there.  The 400 of a patch that cannot be decoded and the 500 of data
\* that cannot be marshalled are answered before anything is written: like 409,
\* they are "refused".
PatchApply(h) ==
    /\ pc[h] = "apply"
    /\ \/ /\ body[h].remove \subseteq modified[h]
          /\ modified' = [modified EXCEPT ![h] = (@ \ body[h].remove) \cup body[h].add]
          /\ Goto(h, "write") /\ UNCHANGED answer
       \/ /\ ~(body[h].remove \subseteq modified[h])
          /\ Answer(h, "refused") /\ UNCHANGED modified
    /\ UNCHANGED <<store, request, body, unvisited, response, history>>

\* The index written to is the amfIdx of line 56, which the loop variable of
\* line 60 shadows: it is always 0, the first record.  Decoding fails when the
\* patch put a value of another type: 400, with a part of the data written.
\* On an empty list the index panics, with the lock held.
WrittenRecord == 1

\* The array a PUT has stored is the one it goes through while it responds: the
\* PATCH decodes into it.
PatchWrite(h) ==
    /\ pc[h] = "write" /\ LockFree
    /\ \/ /\ amfList = <<>>
          /\ lockLeaked' = TRUE /\ Goto(h, "panicked")
          /\ UNCHANGED <<amfList, answer, overwritten>>
       \/ /\ amfList # <<>>
          /\ \/ /\ amfList' = [amfList EXCEPT ![WrittenRecord].data = modified[h]]
                /\ Respond(h)
             \/ /\ \E part \in SUBSET (modified[h] \cup amfList[WrittenRecord].data) :
                       amfList' = [amfList EXCEPT ![WrittenRecord].data = part]
                /\ Answer(h, "refused")
          /\ overwritten' =
                overwritten \cup PutsRespondingOf(amfList[WrittenRecord].nfId)
          /\ UNCHANGED lockLeaked
    /\ modified' = [modified EXCEPT ![h] = {}]      \* not read any more
    /\ UNCHANGED <<request, body, unvisited, response, doubled, orphaned>>

\* AuthorizeOfAmfFromConfig: all the AMF has, or nothing.
PatchRespond(h) ==
    /\ pc[h] = "respond" /\ request[h].kind = "patch" /\ LockFree
    /\ Goto(h, "answered")
    /\ response' = [response EXCEPT ![h] = DataNow(request[h].nfId)]
    /\ UNCHANGED <<store, request, body, unvisited, modified, answer, history>>

-----------------------------------------------------------------------------
(* NSSAIAvailabilityDeleteProcedure                                        *)

Mutant_TruncateFrom(list, i) == SubSeq(list, 1, i - 1)

Mutant_LeaveZeroValue(list, i) == Append(RemoveAt(list, i), NoRequest)

Without(list, i) == RemoveAt(list, i)

\* PATCHes that have looked the AMF up and have not written yet.
PatchesOf(n) == HandlersAt("apply", "patch", n) \cup HandlersAt("write", "patch", n)

DeleteRecord(h) ==
    /\ pc[h] = "delete" /\ LockFree
    /\ LET n == request[h].nfId
           i == FirstRecord(n)
       IN \/ /\ i # 0
             /\ amfList' = Without(amfList, i)
             /\ Answer(h, "ok")
             /\ orphaned' = orphaned \cup PatchesOf(n)
             /\ overwritten' = overwritten \cup PutsRespondingOf(n)
          \/ /\ i = 0
             /\ Answer(h, "missing") /\ UNCHANGED <<amfList, orphaned, overwritten>>
    /\ UNCHANGED <<lockLeaked, request, body, unvisited, modified,
                   response, doubled>>

-----------------------------------------------------------------------------
Arrives(h) == \E n \in NfIds, kind \in {"put", "patch", "delete"} : Arrive(h, kind, n)

Decode(h) ==
    \/ \E data \in SUBSET Items : DecodePut(h, data)
    \/ \E i \in Items : DecodePatch(h, {i}, {}) \/ DecodePatch(h, {}, {i})
    \/ DecodeFails(h)

Put(h) == PutCheck(h) \/ PutUpdate(h) \/ PutAppend(h) \/ PutRespond(h)
Patch(h) == PatchLookup(h) \/ PatchApply(h) \/ PatchWrite(h) \/ PatchRespond(h)

Next ==
    \E h \in Handlers :
        Arrives(h) \/ Decode(h) \/ Put(h) \/ Patch(h) \/ DeleteRecord(h) \/ Return(h)

Spec == Init /\ [][Next]_vars

-----------------------------------------------------------------------------
(* Properties *)

\* PUT looks for a record in one critical section and appends in another.  Of all
\* the ways requests can interleave, only one gives an AMF a second record: two
\* PUTs of it that are both between the two sections at once.
UniqueNfIds ==
    \A i, j \in DOMAIN amfList :
        amfList[i].nfId = amfList[j].nfId => i = j \/ amfList[i].nfId \in doubled

\* "If found, then update the SupportedNssaiAvailabilityData", "If no AMF record is
\* found, create a new one": a list in which every AMF has one record stays so.
\* The code does not keep this one: see doubled.
OneRecordPerAmf ==
    [][(\A i, j \in DOMAIN InitialAmfList :
            InitialAmfList[i].nfId = InitialAmfList[j].nfId => i = j)
        => \A i, j \in DOMAIN amfList' : amfList'[i].nfId = amfList'[j].nfId => i = j]_vars

\* A handler dies between Lock and Unlock, and leaves ConfigLock taken for ever,
\* only in a PATCH whose AMF a DELETE removed after the PATCH had looked it up.
LockNeverLeaks ==
    lockLeaked => \E h \in orphaned : pc[h] = "panicked"

\* The set of AMFs with a record changes, and requests are answered, as if each
\* request took effect at once; an AMF whose first PUTs overlapped may survive a
\* DELETE that was answered with success.
Directory ==
    INSTANCE AmfDirectory WITH
        Clients <- Handlers,
        registered <- {amfList[i].nfId : i \in DOMAIN amfList},
        status <- [h \in Handlers |->
                      CASE pc[h] = "idle" -> "none"
                        [] pc[h] \in {"respond", "answered"} -> answer[h]
                        [] pc[h] \in {"apply", "write", "panicked"} -> "found"
                        [] OTHER -> "pending"]

DirectoryKept == Directory!Spec

\* The response of a PUT, looked up entry by entry after the lock was given back,
\* is what was put, although other handlers move and remove records in between:
\* unless one of them has put, written or deleted the record of this very AMF
\* meanwhile, or the AMF had got another record before this one was appended.
PutAnsweredWithItsData ==
    \A h \in Handlers \ overwritten :
        pc[h] = "answered" /\ request[h].kind = "put" /\ answer[h] = "ok"
            => response[h] = body[h].add

\* "Updates an already existing S-NSSAIs per TA provided by the NF service
\* consumer": the data of an AMF changes only in a step of a request that names
\* this AMF.  The code does not keep this one.
DataOf(n) == {amfList[i].data : i \in {j \in DOMAIN amfList : amfList[j].nfId = n}}

OwnDataOnly ==
    [][\A n \in NfIds :
         DataOf(n)' # DataOf(n) =>
             \E h \in Handlers : request[h].nfId = n /\ pc'[h] # pc[h]]_vars
=============================================================================
