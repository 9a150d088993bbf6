# TLA+ models of the NSSF

The NSSF (Network Slice Selection Function) is a Go program that tells AMFs
which slices of a 5G network a UE may use. This directory holds TLA+ models of
it, TLC configurations that check them on small instances, and proofs that the
TLA+ proof system (TLAPS) checks for every value of the constants.

`PROJECT.json` lists the components, the runs, the source lines of each
definition, the hazards and the theorems; this file explains them.

## 1. The system

| component | source | state | operations |
|---|---|---|---|
| polling service | `polling/nf_configuration.go` | its copy of the webconsole configuration, the PLMN list it announced, its interval | poll with back-off; on a change: announce the PLMNs on `plmnConfigChan`, store the supported S-NSSAIs |
| NF registration service | `nfregistration/nf_registration.go` | `registerCancel`, `registerCtxMutex`, `keepAliveTimer` | receive a list and start `registerNF` or `DeregisterNF`; heartbeats; stop |
| NRF client | `consumer/nf_management.go` | none (`NfId` of the context) | register, update, deregister |
| start and termination | `service/init.go` | context, channel, wait group | `Start`, `Terminate` |
| NSSAI availability store | `producer/nssaiavailability_store.go`, `nf_instance_id_document.go` | `Configuration.AmfList` | PUT, PATCH, DELETE of the S-NSSAIs an AMF supports |
| subscriptions | `producer/nssaiavailability_subscription.go` | `NssfConfig.Subscriptions` | POST, unsubscribe |
| slice selection | `producer/network_slice_information_document.go`, `nsselection_for_*.go` | none: reads the configuration | GET for registration, GET for a PDU session |
| configuration queries | `util/util.go` | none | lookups in the configuration, most of them under `ConfigLock.RLock` |
| routes, logging, metrics, configuration file | the other packages | none of their own at run time | |

How they interact:

- The poller and the registration service share the channel `plmnConfigChan`
  (one place) and a context that `Terminate` cancels.
- The poller writes and the HTTP handlers read `SupportedNssaiInPlmnList`; the
  handlers also change `AmfList` and `Subscriptions`. One lock,
  `factory.ConfigLock`, a `sync.RWMutex`, protects all three.
- The registration service starts a goroutine `registerNF` per PLMN list. They
  take turns by `registerCtxMutex`; each retries until its context is cancelled.
  The keep-alive timer starts `heartbeatNF` in a goroutine of its own, which
  starts the timer again. `DeregisterNF` is called by the registration service
  and, at shutdown, by the goroutine that handles signals.

What is hard in this code is what those goroutines do to one another: a
registration that is answered after it was cancelled, a heartbeat that has fired
when the timer is stopped, a send on a full channel with the lock held, PUT and
PATCH that look at a list in one critical section and change it in another, and
shutdown in the middle of any of it. `PROJECT.json` lists these hazards with
their lines and the properties that watch them.

What makes each component correct:

- registration: only the newest list is being registered, one caller at a time;
  the keep-alive chain neither breaks nor comes back once stopped; a profile the
  NRF lost is registered again; the service stops; in the end the NRF holds what
  the newest list asks for.
- polling: the copies of the configuration agree outside the lock; only changes
  are announced, in order; the last configuration reaches the handlers; it stops.
- store: one record per AMF; a request changes the record of its AMF only; each
  request takes effect at one moment, and its answer tells what it did; no handler
  keeps the lock. (The first two and the last the code does not keep; see below.)
- subscriptions: ids are unique; only an unsubscription ends a subscription;
  requests are answered.
- slice selection: a query is understood as it was meant; what is allowed is
  subscribed and supported in the TA; every
  requested S-NSSAI is allowed or rejected, not both; what is allowed is configured;
  the AMF is asked to hand the UE over only if it lacked something.

## 2. The modules

| module | what it models |
|---|---|
| `PlmnFeed` | abstract: the contract of `plmnConfigChan` |
| `NfRegistration` | the registration service, its goroutines, the NRF |
| `PlmnPolling` | the polling service, and `ConfigLock` as the handlers meet it |
| `NssfService` | both joined by the channel, with `Terminate` and `os.Exit` |
| `AmfDirectory` | abstract: the set of AMFs with a record, and atomic requests on it |
| `NssaiAvailability` | PUT, PATCH and DELETE by concurrent handlers, from the body to the answer |
| `Subscriptions` | POST and unsubscribe, the search for an id, the lock |
| `NsQuery` | the query of a GET: two encodings, the parser, the checks; operators only |
| `NsSelection` | one GET request, from its query to its answer, and what changes under it |
| `NfRegistrationProofs`, `PlmnPollingProofs`, `NssfServiceProofs`, `NssaiAvailabilityProofs`, `SubscriptionsProofs`, `NsQueryProofs`, `NsSelectionProofs` | theorems |
| `ListLemmas` | lemmas about sequences the proofs share |
| `MC...` | instances for TLC |

Operators named `Mutant_...` are definitions with a plausible bug. They are no
part of a specification; `PROJECT.json` says which property fails when one of
them stands for the definition below it, so that each property is known to
depend on the code.

### NfRegistration

A goroutine is a slot with a program counter: `workerPc` for `registerNF`
("lock" before the mutex, "select", "send" while the NRF has the request,
"registered" before the timer is started), `beatPc` for `heartbeatNF`, `deregPc`
for the two callers of `DeregisterNF`. An action is the code between two points
where another goroutine can interfere. `cancelled` is the set of `registerNF`
goroutines whose context is done; cancelling one does not stop it, it only makes
its next select return.

`MaySend` is the one place where Go's choice among ready cases matters: on its
first pass the interval is 0, `time.After(0)` and the context can be ready
together, and the select takes either. After a failure the interval is ten
seconds and a context that is done wins.

The branch of the service for a closed channel is not modelled: nothing closes it.

`keepAliveTimer` is "nil", "armed", or "fired": a variable that still points to a
timer that has elapsed. `keepAliveTimerMutex` is not modelled: each section under
it is one action.

The NRF (`NrfRegisters`, `NrfUpdates`, `NrfDeregisters`) answers success or
failure; with `LossyNrf` a failed call may have taken effect and a profile may
expire. `delivered` is a history variable: the list received last.

### PlmnPolling

A configuration is a sequence of PLMN and S-NSSAI set; the same PLMN may be
listed twice, and the conversion keeps the last entry in the map and both in the
list. The critical section has three steps, because the send in its middle
blocks.

A handler is reduced to what it does to `ConfigLock`. It may hold it for reading or
for writing, and a writer may keep it for ever (`KeepLock`): that is what a POST does
(see `PostAnswered`), and a PATCH that panics (see `LockNeverLeaks`). The lock is a
`sync.RWMutex`: a writer first excludes the other writers (`TakeWriteLock`), then keeps
new readers out and waits for those inside ("drain"). `lockKept` is true once a
handler will never unlock; the three liveness properties end there, since from then on
neither the poller nor any other handler moves, as the properties say and the code
does.

### NssfService

Instances of the two modules above share `ctxDone`, `plmnConfigChan` and
`delivered`. A step of one leaves the variables of the other unchanged. The
environment actions of the components (`Announce`, `Receive`, `CancelServices`)
disappear: the other component does them. Nothing is assumed of the channel. The
handlers are those of `PlmnPolling`.
That this does not let the process do more than the components were checked for is
`RegistrationKept` and `PollingKept`: the whole implements each of them.
`ServiceAssumption` is what the two modules assume of their constants, in terms of
the constants of the whole; that the lists `NfRegistration` receives are PLMN lists
is not assumed, it is what the poller sends.

That the HTTP server fails or returns is no action: the process then ends, which is
a behaviour cut short. Liveness is about a process that goes on.

### NssaiAvailability

The data of an AMF is a set of entries; a request is in flight from its arrival
to its answer. A body that cannot be decoded is refused before the procedure runs.
Each critical section is an action. Before PATCH writes, it has copied the data
(`modified`); the record it writes is always the first (`WrittenRecord`), as in the
code, and a patch with a value of another type leaves a part of the data written.

The answer is computed after the change, from the list as it is by then:
`PutRespond` takes one read section per entry of the body (unlike `PutCheck` it
skips what it does not find), `PatchRespond` one for the whole. The slice a PUT
stored is the one it goes through while it responds, so a PATCH in place can change
what it looks for; the history variable `overwritten` marks those PUTs, and
`PutAnsweredWithItsData` is about the others.

Nothing in the code orders the requests of one AMF, and nothing does in the model.
What goes wrong when they meet is recorded by history variables, so that the
properties can say that nothing else goes wrong: `doubled` are the AMFs that the
configuration file lists twice, or of which two PUTs were both between the search and
the append; `orphaned` are the PATCHes whose AMF a DELETE removed after they had
looked it up. The initial list is any list, one with two records of an AMF included.
`PutCheck` leaves the outcome of each check open: the poller may replace the supported
S-NSSAIs before each of them.

### Subscriptions

A subscription is its id, a number of any size and sign or something that is no number.
The body of a POST may be refused when it is decoded.
`ScanEndsAt` says where the loop of `getUnusedSubscriptionIDLocked` ends, without
recursion: at the first place whose id is not the place itself. Ids are compared
modulo `MaxUint32 + 1`. Neither the code nor the loading of the configuration looks at
the order of the ids, so the initial lists are any lists. In one that ascends, as the
sample configuration's does, the id that is found is unused (`NewIdUnused`); in one that
does not, it may be taken (`UniqueIds` is violated). A POST that fills a hole makes such
a list itself, since it appends.

### NsQuery

Consumers send the two large parameters of a GET as JSON, or exploded: one key per
leaf, with one value for each element that has the leaf, and no index. `EncodeJson`
and `EncodeExploded` are the consumer (external: the OpenAPI client as
`network_slice_information_document_test.go` uses it); the rest is the parser.
An S-NSSAI is its SST and SD here, because the parser tells them apart; SRGs are
numbers nobody reads afterwards. Queries and requests are records of a type each
(`Query`, `RegistrationRequest`, ...), so that what an encoding or the parser
returns has a type to be proved.

The elements of a list that pass a test are those at the places that pass it
(`Filter`, by `AtPlaces`: place `k` of the result is the `k`-th of these places).
`SelectSeq` would say the same, but is recursive, and nothing can be proved of it;
`MCNsSelection` assumes that the two agree on all lists of up to five elements,
and TLC evaluates that on every run.

The three indications nobody reads afterwards (`ueSupNssrgInd`, `suppressNssrgInd`,
`nsagSupported`) are keys of the exploded form, because a query in which one of them is
no Boolean is refused.

The exploded form loses information, and what the parser makes of it is modelled as
it is, not as the identity: an SD moves to an earlier element that was sent without
one; a default indication or SRG is taken by its position, after the S-NSSAIs
without SST were dropped and the others moved up; a single S-NSSAI with several
SRGs gives further elements whose S-NSSAI is the zero value, because each further
index takes all SRGs too. `Positional` names the requests to which none of this
happens, and `UnderstoodWhenPositional` says that these, and all requests sent as
JSON, are understood as they were sent.

### NsSelection

The first step of a request is `ParseQuery`: 400, 403, or the request the
procedures work with. Nothing the configuration holds is read before it.

One request per behaviour; requests only read, so others make no difference. What
the code computes from the configuration file and the request alone is one action
(`Select`, `ReturnMapping`); each read of the supported list or of `AmfList` is an
action of its own, because the read locks are taken and given back query by query.

`CheckSupportedSnssaiInAmfTa` reads `AmfList` with no lock. The model keeps the
array behind the slice (`amfArray`, `amfLen`): PUT replaces a field of a record,
an append goes into spare room or into a new array (the scan stays in `oldArray`),
DELETE moves records in place. The scan reads the length once, then the `nfId` and
the data of each record in two steps. `ScanSound` says when its result can be
trusted; its hypothesis `~disturbed` is needed: without it TLC shows a DELETE of an
earlier record making the scan miss the asking AMF, and a DELETE of its own making
it read the data of the next one. Races inside one field (a string or slice header
of which a reader sees one word old and one new) are memory errors with no defined
outcome and are left out.

Oddities of the code that the model keeps, and that no document contradicts:

- A home PLMN without `mappingOfSnssai` (`NoMapping`, nil in the code) ends the search
  for defaults and for the Configured NSSAI at once; one with an empty list does not,
  and standard S-NSSAIs are still found.
- `CheckSupportedNssaiInPlmn` (registration) refuses a PLMN that is not listed even
  for standard S-NSSAIs, `CheckSupportedSnssaiInPlmn` (PDU session) does not.
- Default subscribed S-NSSAIs are compared with the TA but not with the PLMN.
- A roamer's S-NSSAI may be both rejected in the PLMN, because the UE sent no
  mapping, and allowed as a default by the configured mapping: hence `~Roaming` in
  `NotAllowedAndRejected`.
- An Allowed S-NSSAI beyond the eighth is dropped without being rejected.
- A configured but empty list of slice instances makes the request panic.

## 3. What the runs check

| run | bounds | shows |
|---|---|---|
| `registration` | 2 `registerNF`, 1 heartbeat, 2 lists, lossy NRF | safety and liveness of the registration service |
| `reg_settled` | 2 `registerNF`, 1 heartbeat, 3 lists, perfect NRF | refutes `OutcomeOfLatest` |
| `polling` | 5 configurations over 2 PLMNs and 2 S-NSSAIs, 2 handlers | safety and liveness of the poller, and its side of `PlmnFeed` |
| `service` | 2 configurations (none, 2 PLMNs), 1 handler, 1 `registerNF`, 1 heartbeat, lossy NRF | `LiveRegistrationIsServed`; the process as an implementation of `NfRegistration` |
| `service_stop` | 2 configurations (none, 1 PLMN), 1 handler, 2 `registerNF`, perfect NRF | refutes `PollerStops` |
| `availability` | 2 handlers, 2 AMFs, 1 entry, one AMF in the configuration, symmetry | the store, its answers and `AmfDirectory` |
| `availability_patch` | as above, without symmetry | refutes `OwnDataOnly` |
| `availability_put` | as above, without symmetry | refutes `OneRecordPerAmf` |
| `subscriptions` | 2 handlers, ids to 4 and beyond, eleven initial lists | ids, the lock, and what ends a subscription |
| `subscriptions_post` | as above | refutes `PostAnswered` |
| `subscriptions_ids` | as above | refutes `UniqueIds` |
| `nsselection` | 31 requests in both encodings, 18 further queries, 3 S-NSSAIs configured (one standard), 3 AMFs, 3 changes of the configuration | how a query is understood, and its answer, whatever changes under it |

Why these bounds are enough to be of interest: two `registerNF` slots are the
cancelled and the newest one; a slot is reused when its goroutine returns, so
the number of registrations in a behaviour is not bounded. With all slots in use
the model's service waits, which the program does not; with one list that is not
empty, an empty one comes before each registration but the first and cancels the one
before, so two slots are enough for the service not to wait for good. A
heartbeat slot is reused as well, and so are handlers. Every safety property
of `registration`, `polling`, `service`, `availability` and `subscriptions` is proved
for any bounds (section 4): the runs are there to show that the properties can fail, by
the mutants, and that the actions happen. Liveness is checked only here, which is why
`registration` has the bounds at which TLC can do both.

One entry is enough for `availability`: the data of an AMF is then there or not, and
an answer complete or not. Two handlers are enough for every race of
two requests, and each is followed by further requests.

The requests of `nsselection` are chosen so that each path of the two procedures is
taken: unknown home PLMN or TA, no TAI, more S-NSSAIs than fit, none, unsubscribed
ones, mapped and unmapped roamers, no list of mappings, an empty one, a mapping request, sessions
that contradict their roaming indication, elements without SD, indication or SRG in
the middle of a list, several SRGs. The further queries are those no request is
encoded to: refused ones, lists with gaps, both parts at once. Asking AMFs are the first of the list, a
later one, and one that is not in it. `AllowedNssaiNum = 2` stands for 8. Three
changes are enough for a PUT, a DELETE and an append between two reads; the
behaviour ends with the answer, so deadlock is not checked in this run.

The intervals: `InitialPollingInterval = 5` and `PollingMaxBackoff = 40` are the
code's, in seconds. `NssfService` uses 5 and 5, since nothing but the back-off
depends on them. `MaxUint32 = 4` stands for 2^32 - 1: the runs contain the list
in which every id is taken, and lists whose ids wrap to 1 and to 3. Two configurations
are enough for `service`: what it is about is a goroutine or a heartbeat with the list
before the last, and the theorem `LiveIsServed` covers any configurations.

### Fairness

- Goroutines are scheduled: weak fairness of each goroutine's steps.
- The registration service's select between its context and its channel, and a
  goroutine's turn at `registerCtxMutex`, need strong fairness: Go's select
  chooses at random among ready cases, and `sync.Mutex` hands over in order once a
  waiter has starved for a millisecond. The poller's turn at `ConfigLock` needs it
  too: a `sync.RWMutex` lets its writers in by such a mutex. Once it is the
  writer, weak fairness is enough, since new readers wait (`PollerIsWriter`; the mutant
  `Mutant_ReadersFirst` shows the starvation this prevents).
- A handler that holds the lock releases it, unless it keeps it for ever.
- The NRF answers each request in the end, with success or failure. The code sets
  no timeout, so this is an assumption about the NRF and the network.
- `RegisteredAgain` assumes further that an NRF asked over and over accepts in the
  end, and `WebuiReachesHandlers` that polls succeed again and again; both are
  hypotheses of the properties themselves.
- `PlmnPolling` assumes that the lists it announces are received (`WF(Receive)`).
  Where the poller is not alone, this is `ListsReceived` of `NfRegistration`: as long as
  the context is not done, a list that waits is received, however the NRF fails. By
  `RegistrationKept` and `PollingKept`, both proved, what holds of the components alone
  holds of the process, so a configuration that stays reaches the handlers of the process
  as long as none of them keeps the lock. It is not assumed after the context is done,
  and does not hold then: `service_stop`. The step from the components to the process
  is this argument; no run checks the liveness of the whole.
- `Announce`, `WebuiChanges`, `Terminate`, `WriteLock`, `KeepLock` and failures have no
  fairness.

### The six properties the code does not keep

- `OutcomeOfLatest` (comment, `nf_registration.go:33-35`). A registration in
  flight when the empty list arrives is answered after the deregistration and is
  then kept alive. Other behaviours violate it as well: a cancelled goroutine that
  gets the mutex after the newest, and a heartbeat with an older list.
- `PollerStops` in the whole program (`nf_configuration_test.go:46`). At shutdown
  the receiver returns first and the poller may be left in its send.
- `OwnDataOnly` (`nf_instance_id_document.go:41-42`). PATCH writes record 0.
- `OneRecordPerAmf` (`nssaiavailability_store.go:178-179, 191`). Two PUTs of an AMF
  both find no record and both append one. `UniqueNfIds` says that nothing else can
  make a second record.
- `PostAnswered` (`subscriptions_collection.go:26`). POST locks itself out.
- `UniqueIds` (`nssaiavailability_subscription.go:27`). From the list 2, 1 a POST is
  given the id 1. `NewIdUnused` says that an ascending list is enough to exclude this.

One more thing the code does that no document speaks of: a PATCH whose AMF is deleted
between its two sections may find the list empty and panic with `ConfigLock` held, for
ever. `LockNeverLeaks` says that this is the only way.

## 4. What is proved

For all values of the constants that satisfy the named assumptions:

`NfRegistrationProofs` (from `RegistrationAssumption`):

- `TypeCorrect`: `TypeOK`.
- `LatestIsOnlyLive`: `OnlyLatestLive` is inductive together with `TypeOK`.
- `MutualExclusion`: the invariant is that every goroutine past the mutex is its
  holder; `OneWorkerRegisters` follows.
- `HeartbeatChainLives`: `KeepAliveLives` is inductive, since only `TimerElapses`
  makes the timer "fired", and a heartbeat leaves "restart" only by arming it.
- `StoppedIsFinal`: from `TypeOK` alone, by looking at each action in a quiet state.

`PlmnPollingProofs` (from `PollingAssumption`):

- `ConfigStaysConsistent`, `HandlersSeeAnnounced`: the strengthening says, for each
  place inside the critical section, which copies are already new, and that no
  reader is inside while the poller is past "drain". `ConfigConsistent` alone is not
  inductive: it says nothing of the states between Lock and Unlock.
- `TypeCorrect`: `TypeOK`.
- `PollerRefinesFeed`: in addition, in "send" the list to be sent differs from the
  one announced last.

`NssfServiceProofs` (from `ServiceAssumption`):

- `LiveIsServed`: the invariant joins three parts. `ChannelInv`: one list at most is
  in the channel. `PollerInv`: the poller's copy, the list announced last and, outside
  the lock, the map of the handlers agree. `LiveInv`: a registration that is not
  cancelled is the latest and has the list delivered last. No component knows more
  than its own part; the announced list, the last of the channel or else the
  delivered one, connects them.
- `ImplementsRegistration`, `ImplementsPolling`: each step of the process is a step of
  the component or leaves its variables alone. For the registration service the
  announcements are the matter: its own module allows only a list that differs from
  the one before, and `NewsInv` says that this is what the poller has to send when it
  is in "send". `Terminate` is the poller's `CancelServices`, and a receive its
  `Receive`. The assumption that no PLMN list is `NoProfile` says that a profile is
  told from none.
- `ComponentsStaySafe`, `StoppedStaysInProcess`: what is proved of each component by itself
  therefore holds in the process. The module takes the theorems of
  `PlmnPollingProofs` and `NfRegistrationProofs` by INSTANCE, proves that their
  assumptions follow (`ComponentAssumptions`), and that the two instances each
  component then has are the same (`SamePolling`, `SameRegistration`).

`NssaiAvailabilityProofs` (from `AvailabilityAssumption`, which says no more than that
the initial list is a list of records):

- `TypesKept`: `Base` is `TypeOK` and, for each place in the code, the kind of request
  that can be there.
- `SecondRecordNeedsOverlap`, `PanicNeedsDelete`, `PutGetsItsData`: from `StoreInv`, which
  says what each handler relies on between two of its sections, or counts it as
  disturbed. A handler about to append finds no record of its AMF still, or has been
  overtaken by another PUT, which then is one of two in that window (`AppendAlone`); a
  PATCH that has found its AMF still has it, so the list is not empty, or is
  orphaned; while a PUT responds, a lookup of its AMF finds its body, or it is
  overwritten, and what it has answered so far is the part of the body it has visited.
  `Undisturbed` is what a step of one handler must leave to the others; `OthersKept`
  lifts it to `StoreInv`. The lemmas `AfterWrite`, `AfterAppend` and `AfterRemove` say
  what a lookup finds after each change of the list, two records of an AMF not excluded.
- `RefinesDirectory`: by the same lemmas each action is a step of `AmfDirectory` or a
  stutter.

`SubscriptionsProofs` (from `SubscriptionsAssumption`):

- `TypesKept`, `OnlyUnsubscribeEnds`.
- `AscendingGivesUnused`: in an ascending list of positive numbers, with ids that are no
  numbers anywhere, the number at a place is at least that place as long as all before
  it are numbers (`AscendingGrows`), and the place where the scan ends is no id of the list
  (`ScanFindsUnused`), also when ids beyond `MaxUint32` wrap.

`NsQueryProofs` (from `QueryAssumption`: the SST and SD that stand for "none" are
none of the given ones, and the like) is about the operators of `NsQuery`:

- `AtPlaces...`, `Filter...`: the type, the length and the elements of a filtered
  list, for a list of any length; if the places that pass come first, the result is
  the front of the list. `Flatten...`: a list of lists of one element each is
  flattened to these. They take the place of an induction over the list: the
  smallest place where two lists differ (`MinInSet`) leads to a contradiction.
- `RequestOfType`: what the parser accepts is a request of its type, whatever the query.
- `EncodeType`, `JsonUnderstood`, `ExplodedUnderstood`: what a consumer sends is a
  query; sent as JSON, or exploded by a `Positional` request, it is accepted, and
  parsed to the request itself.

`NsSelectionProofs` (from `SelectionAssumption`: sets and lists of the configuration
have their types, the initial AMF list has one record per AMF, the limits are numbers,
and a request says nothing of the kind it is not of):

- `SelectionIsTyped`: `TypeOK`. Each list of the answer comes out of `Filter`, so its
  type is a lemma of `NsQueryProofs`; what `ParseQuery` accepts has the type the
  procedures read, by `RequestOfType`.
- `AllowedAreEntitled`, `AnswerIsConsistent`, `AllRequestsAreDecided`: from
  `DecisionInv`, the outcome `Select` leaves and nothing changes afterwards: the two
  rejected lists hold exactly the requested S-NSSAIs the TA, or the PLMN, is not for;
  each allowed one, whether requested or a default, is entitled (`EntitledRequested`,
  `EntitledDefault`); and a requested one that may be allowed is, unless the list is
  full.
- `AllowedGetsConfigured`: from `ConfigureInv`: the subscribed S-NSSAIs before the
  one to configure next are in the Configured NSSAI, or the PLMN lacked them at some
  moment, which the history variable `lackedOnce` records whatever the poller stores.
- `ScanIsSound`. `ScanInv` relates the scan to the place of the record of the asking
  AMF: the record is once in the array, even behind the end of the slice (`OwnOnce`);
  an old array holds the data the AMF had when append left it (`OldSeen`); the record
  is not behind the scan, unless the AMF had none at some moment (`Ahead`); the
  S-NSSAIs scanned before were the AMF's at some moment. `ListChange` shows what a
  change of the list must respect for this, and PUT, append, PATCH and DELETE are
  shown to respect it, or to set `disturbed`.
- `QueriesAreUnderstood`: from the lemmas about the encodings.

The inductive invariant is the conjunction, `SelectionInv`, of `TypeOK`, `RequestInv`
(the request in the procedures is the one parsed), `ScanInv`, `DecisionInv` and
`ConfigureInv`; the parts are proved together because the last three speak of lists
that the first two give a type.

Every invariant, action property and refinement that a passing run checks is thus
proved, too. Out of the provers' reach, and only model-checked, are the liveness
properties (`LatestGetsItsTurn`, `ServiceStops`, `KeepAliveRestarts`,
`ListsReceived`, `RegisteredAgain`, `LockReleased`, `WebuiReachesHandlers`,
`PollerStops` of the poller): the provers know nothing of fairness. Not proved either is that `Filter` is `SelectSeq` for lists of any length,
which is an induction over the list.

## 5. Not modelled

- Which slice instance is chosen, the access type of an answer (that of the TA for
  every entry) and the restricted S-NSSAIs of a TA: copied from the configuration
  file, nothing depends on them.
- The content of the answer to a POST (`AuthorizeOfTaListFromConfig`): it is never
  given, see `PostAnswered`.
- The route tables, routes that are not implemented, parameter aliases, encoding of
  answers, headers, logging, metrics: no state.
- Loading the configuration file: once, before the services start.
- `NfId`: the NRF returns the id it was sent. A 201 without a proper Location
  panics (`nf_management.go:89`); the NRF here answers as its API prescribes.
- That the HTTP server fails (above).
- JSON `null` in place of an empty webconsole list, which Go's `DeepEqual` tells
  apart from `[]`: the PLMN lists are equal and nothing else depends on it.

## 6. Plan

The components that keep or change state are modelled, and the safety of each is
proved. What is left: the case of `PutAnsweredWithItsData` that `overwritten` leaves
out, that is what a PUT can still promise when a PATCH has written into its record; and
what the data of an AMF may be, once `OwnDataOnly` is repaired.
