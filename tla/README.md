# A TLA+ model of CLIProxyAPI

CLIProxyAPI accepts OpenAI-, Claude- and Gemini-style requests and answers them
with a pool of upstream credentials. What is hard about it is not the HTTP: it
is that many requests run at once, each changes what is known about a
credential, and that knowledge is kept in **four places that are never locked
together** — the manager, the scheduler, the model registry and a file — while
background goroutines renew, reload, drain and relay beside them. This directory
models those four places and the five protocols around them (retries, token
renewal, file updates, the execution registry, the websocket relay), checks them
with TLC on small instances, and proves with TLAPS, for every value of the
constants, every safety invariant and every action property that the passing
runs check, and both refinements.

Paths below are relative to `src/CLIProxyAPI/CLIProxyAPI/` unless they begin
with `src/`. `PROJECT.json` maps every definition to its lines of source, lists
every hazard at its line, every run, every seeded fault and every theorem.

## 1. Inventory

```
 client ──> access gateway :8317 ──> core :8318 ──> providers
                                        │   └────> media proxy :8320
     handlers ──> Manager (execution, retry, selection) ──> executors
                     │ MarkResult / ResetQuota / Update / Register / Remove   (Manager.mu)
                     ├── clone + version ──────────> authScheduler            (its own mutex)
                     ├── projection + version ─────> ModelRegistry            (its own mutex)
                     ├── records ──────────────────> cooldown store file      (after the unlock)
                     └── credential ───────────────> auth file store          (per-credential lock)
     watcher ──> update queue ──> Service ──> Register / Update / Remove, RegisterClient
     auto-refresh loop ──> refresh workers ──> UpdateRefreshedAuth
     Home (cluster) ──> execution registry ──> flusher ──> Home
     websocket clients <──> relay sessions ──> requests of the executors
```

| Component | State | Operations | What is hard | What makes it correct |
|---|---|---|---|---|
| **Cooldown state** `sdk/cliproxy/auth/conductor_cooldown.go` | per model: unavailable, deadline, quota window, backoff level, error; the same fields aggregated per credential | `MarkResult` (success, 401, 402/403, 404, 429, Cloudflare, transient), `ResetQuota`, clearing | quotas of one model, of the credential and plain failures overlap; aggregation rewrites shared fields; late successes | a failure never frees, a failure blocks its own model only, no block without an end, one rung of the ladder per window |
| **Cooldown store** `cooldown_state.go`, `service_lifecycle.go` | the file's records | save after the unlock, load, merge, reload, crash and restart | failed or interleaved writes, merging record by record with re-aggregation in between | what was written blocks the same after a restart; a reload changes nothing |
| **Scheduler** `scheduler.go` | versions and tombstones, credentials with the models they support, lazily built shards and their entries | upsert on a lifecycle event, upsert on a result, removal, rebuild, promotion at selection | clones arrive reordered; targeted and full updates mix; a rebuild spans two locks | agreement with the manager once everything has arrived; no return to an older version; a removed credential stays out |
| **Credential registration** `conductor_lifecycle.go` | `auths`, `authEpochs` | `Load`, `Register`, `Update`, `Remove` | removal and re-registration under requests in flight | epochs separate the incarnations |
| **Model registry** `internal/registry/model_registry.go` | clients' models, epochs, generations; suspensions and quota marks; reference counts | `RegisterClient`, `UnregisterClient`, `ApplyClientModelProjections`, listing | projections arrive reordered and after removals | marks follow the manager; none outlives its registration; a served model is listed |
| **Execution and retry** `conductor_execution.go`, `conductor_stream.go`, `sdk/api/handlers/handlers_stream.go` | tried and attempted credentials, attempt, pool of models, wait; the handler's retries | rounds over credentials, preparation, refresh on 401, wait for the nearest cooldown, stream bootstrap | two layers retry; others cool the same credentials; cancellation at every point; three kinds of late failure of a stream | it ends; no second answer once the client has a part; every call reported once; limits kept |
| **Token refresh** `auto_refresh_loop.go`, `conductor_refresh.go` | heap, dirty set, timer, jobs, pending marks, a lock per credential | schedule, run, finish, refresh on 401, force all | full job channel; the loop, requests and replacements race | a credential that needs it is always tracked; no refresh token used twice; no token of another incarnation |
| **Selectors, session affinity** `selector.go`, `session_cache.go` | cursors, session cache with alias groups | pick, bind, evict | eviction in the middle of a group | bindings of a group agree |
| **Home dispatch, execution registry** `sdk/cliproxy/executionregistry`, `internal/home` | pending dispatches, scopes, drain and close, release sequences and sink, barriers, the flusher | begin, install, bind, end, drain, close, observe, flush | install against drain; sequences reported outside the lock; a replaced sink | no slot freed early, no release lost; a drain ends; a barrier covers what it claims |
| **Watcher, update queue** `internal/watcher`, `service_auth.go` | hashes, revisions, files and channels known, bounded queue | event, scan, save by the management API, connect, enqueue, coalesce, apply inline when full | a scan reads files without a lock; inline updates overtake queued ones; debounced removals | the service follows the newest version and ends at what the file says |
| **Auth persistence** `conductor_lifecycle.go`, `internal/store` | per-credential lock with last version | save, delete | a save after a removal | the file never goes back |
| **Websocket relay** `internal/wsrelay` | sessions, pending requests with bounded channels and locks | send, deliver, cancel, replace, close | the reader blocks on a slow consumer; four goroutines may end one request | one ending, no frame lost, nobody waits for ever |
| **Usage queue** `internal/redisqueue` | subscribers with bounded buffers, retention | publish, subscribe, disable | dropping a subscriber in the middle of a publication | no delivery to a dropped one |
| **Upstream websocket sessions** `internal/runtime/executor` | session per credential | reuse, close | a credential removed under a session | none reused after removal |
| **Executors, translators, HTTP and management handlers, plugins, service start** | none of their own that is shared | conversions, routing, wiring | – | – |
| **Access gateway, Claude adapter, media proxy, dashboard, GUI, scripts** `src/CLIProxyAPI-*`, `src/apps` | small tables | proxying, display | – | – |

The status of each is in `PROJECT.json`. Nine of them are modelled, each in part:
section 7 says what is left out, and why the others are not modelled.

## 2. Modules

| Module | Models | Proofs |
|---|---|---|
| `CredentialCooldown` | one credential's cooldown state, the store file, reload, crash | `CredentialCooldown_proofs` |
| `SchedulerPublication` | manager → scheduler: versions, tombstones, clones in any order, rebuild, shards; the service that registers models | `SchedulerPublication_proofs` |
| `RegistryProjection` | manager → model registry: projections in any order, registrations | `RegistryProjection_proofs` |
| `ExecutionRetry` | one request: rounds, pools, preparation, refresh, waits, streams, the handler's retries; others beside it | `ExecutionRetry_proofs` |
| `AutoRefresh` | token renewal by the loop and by requests | `AutoRefresh_proofs` |
| `ExecutionRegistry` | dispatches of Home, drain and close, release sequences, barriers, the flusher | `ExecutionRegistry_proofs` |
| `DispatchLedger` | what the execution registry promises to Home (abstract) | implemented: `ExecutionRegistry_proofs` |
| `AuthUpdates` | files, watcher, scans, saves, channels, dispatch queue, consumer | `AuthUpdates_proofs` |
| `AuthFeed` | what the delivery of credentials promises (abstract) | implemented: `AuthUpdates_proofs` |
| `WsRelay` | one relay session and the requests on it | `WsRelay_proofs` |
| `MC…` | the instances TLC checks | |

The modules are views of one system that meet at the manager, and each reduces
the data to what its properties tell apart. `CredentialCooldown` keeps every
deadline, quota window, reason and level of one credential;
`SchedulerPublication` a deadline per model, one for the credential's quota, and
when the access token expires;
`RegistryProjection` only whether a deadline is ahead, has lapsed unseen, or was
cleared; `ExecutionRetry` the time that is left of each cooldown, because it
waits for it.

**Atomicity.** A step is what the code does under one lock, or between two
points where another goroutine can interfere. `MarkResult` up to the unlock is
one step; handing its clone to the scheduler is another (`Deliver`); reading the
registration epoch for its projection and applying it are two more
(`GetModelsAndEpochForClient`, `ApplyClientModelProjections`); the write of the
store file is one. A clone or projection on its way is a member of a set
(`inflight`, `projecting`): it arrives in any order with the others, at any
later time, but exactly once. These are calls of goroutines, not packets.

### CredentialCooldown
`auth.cell` is the credential's own `Unavailable`, `Status`, `LastError`,
`NextRetryAfter` and `Quota`; `auth.states` is `ModelStates`. `Failure(m, f)` is
the whole failure branch in the order of the code: the status switch
(`Penalised`), spreading of a credential-wide quota (`Spread`), then `Relaxed`,
`Forced` and `Extended`, then `updateAggregatedAvailability`. The model-less
path `FailureWithoutModel` applies them in its own order, as
`applyAuthFailureState` does. `isAuthBlockedForModel` is the selector's reading
of the state. It reads two things besides, the expiry of the access token and
whether `NextRefreshAfter` is set; the refresh of tokens writes them
(`AutoRefresh`), so here they are an argument, a member of `Tokens`. `NoWedge`
quantifies over all of them. The other properties are stated about
`BlockedTimes(m)`: *the set of instants at which a model would not be selectable
if nothing more happened*, with a token that lasts (`LastingToken`), since an
outcome cannot change what an expired one blocks. It is compared before and
after a step, so a property catches a block that is lost in a field nobody reads
until later. A reload has its five separate steps
(`StoreConfig`, `clearDisabledCooldownStates`, the save, `LoadRecords`,
`MergeRecords`), with results and writes between any two.

### SchedulerPublication
`manager` and `authEpochs` are under `Manager.mu`; `authGenerations`, `meta`,
`shards` and `entries` under the scheduler's mutex. A version is the pair of
`RegistrationEpoch` and `Generation`, generation 0 the tombstone that
`RecordRemovalTombstone` leaves. `upsertAuthResultLocked` keeps its four cases:
stale (the newest known clone is written to the result's own shards), model set
changed, block state changed, and targeted. `Updated` is what `updateInternal`
makes of a credential read anew from its file, maybe with another token, which
frees the models that were refused with a 401. A token is known by its expiry
(`expires`): an expired one blocks every shard without a time of return
(`BlockedUntil`), and `Promoted` is both halves of `promoteExpiredLocked`, a
blocked entry whose time has come and a ready one whose token has expired.
`rebuild` is two steps, as in
`syncScheduler`. The service (`RegisterClient`, `ReconcileRegistryModelStates`,
`RefreshSchedulerEntry`) takes one registration of a credential at a time; every
other operation is free to interleave.

### RegistryProjection
`clientModels`, `clientEpochs`, `clientGenerations`, `suspended`, `exceeded` are
the registry's maps. A projection carries the credential's generation and,
once read, the registration epoch; `Accepted` is the registry's test.

### ExecutionRetry
`r.at` says where the goroutine of the request is in `Execute` or
`ExecuteStream`; the rest of `r` are the locals of the loops it is in.
`excluded` and `picked` are together the code's `tried`; `attempted` is what
`max-retry-credentials` counts. `pickNextMixed`, `RoundEnds`,
`shouldRetryAfterError` and `NextRound` are the rounds; the `Prepare…` actions
are `prepareRequestAuth`; `CallUpstream` to `RefreshFails` the calls over the
pool of a credential, where an OAuth credential of Claude turns a cancellation
into the end of the request; `Deliver` to `StreamRefused` are `wrapStreamResult`
together with the handler that reads from it; `BootstrapRetry` is the handler's
request for a new stream. A `call` stands for `Execute` and `ExecuteCount`.
Failures are kept by what the code does about them: one representative of each
branch. `retryAllowed` and `closestCooldownWait` read the credentials in two
critical sections, so they are two steps. What others do to the same
credentials — outcomes, removal, registration — comes between any two steps.

### AutoRefresh
The loop's select, its draining of the dirty set and its popping of due
credentials are steps of their own (`loop.at`), as `queueReschedule` and the
workers reach the same heap in between. `refreshAuthForRequest` is followed
through its lock, the second reading of the credential, the call upstream
(between two steps), and the update that is refused if the registration epoch
has changed. `Update` and `Register` store what they are given: a caller reads
the credential first (`GetByID`, into `edits`), and then stores either that
clone with a field changed (`UpdateEdited`, the management API) or what a file
holds (`UpdateFromFile`, the service), a new token or one it has held before.
`minted` and `spent` number the tokens, so that a refresh token that is presented
a second time can be seen, and `restored` notes the exchanged ones that such a
caller has put back.

### ExecutionRegistry and DispatchLedger
Every dispatch has an owner, the goroutine that serves it. The state word is
changed by compare and swap outside the mutex, the sink is called after the
unlock, a resource is closed by a goroutine of its own, and drain and close
take their list of scopes under the mutex and wait outside it: each is a step
(`closer.scope` is the one scope a close waits for at a time).
The flusher keeps the latest sequence of a group, sends one at a time, and a
send may fail or its answer be lost after Home has taken it. `DispatchLedger` is
the promise: a dispatch is resolved once, an accounted one is counted once, and
Home is told only of what was counted. `KeepsLedger` maps `begun` to the
numbers handed out so far (`1..next`), `open` to the pending dispatches and the
scopes whose owner has not yet counted its release, `counted` to
`releaseSequences` and `told` to `home`.

### AuthUpdates and AuthFeed
`disk` changes at any moment, `events` is what fsnotify delivers, possibly
several for one change. The handler reads the file, then takes `clientsMutex`; a
scan takes a snapshot of hashes, reads all files without a lock, and publishes
what has not changed meanwhile (`changedDuringScan`, `authRevisions`); the hook
is the management API's save, applied inline when the queue is full; channels
connect and disconnect. `log` records every revision that was published.
`AuthFeed` is the promise: what the service holds is always an entry of the log,
and never an older one than before.

### WsRelay
The read loop, the caller of `session.request`, the function that
`context.AfterFunc` runs, and `cleanup` are four goroutines. `pending` is a
`sync.Map`: each operation on it is a step, and `Range` visits a request at a
time. A send into a full channel waits for room, the end of the request's
context or the session, holding the request's lock.

## 3. Runs

| Run | Question | Bounds | Distinct states |
|---|---|---|---|
| `CooldownOutcomes` | what an outcome may block or free | 2 models, any 3 outcomes and resets, instants 1–3 | 109 000 |
| `CooldownReload` | reload, failed writes, crash, restart, with model-less outcomes | 2 outcomes, 2 reloads, 1 crash, instants 1–4 | 1.6 million |
| `PublicationAgreement` | does every order of arrival end in agreement | 1 credential, 2 models + the shard without a model, 3 operations of results, updates, model registrations, tokens that expire at 2 and never, instants 1–3 | 1.8 million |
| `PublicationIncarnations` | versions over register, remove, register again, with rebuilds and resets | 1 credential, 2 models, 6 operations | 1.8 million |
| `RegistryMarks` | marks after any order of projections, registrations, removals | 1 client, 2 models, 4 operations | 2.6 million |
| `RetryRounds` | does a request end, report every call, keep its limits, answer once | 2 credentials (a pool of two models with no further round; one model, prepared, with one more round), caps 0 and 1, 1 bootstrap retry, 1 interference | 804 000 |
| `RetryPrepared` | finding 1 | the same | 1 100 before the violation |
| `TokenRefresh` | is a credential ever lost to the loop, a token used twice or misplaced | 1 credential, 1 worker, 1 request, a job channel of 1, instants 1–2, 2 events | 1.6 million |
| `RegistryDrain` | slots, releases, barriers, end of drain and close | 2 dispatches, 1 group and an unaccounted one, 1 barrier, 1 event | 392 000 |
| `AuthDelivery` | do service, feed and file agree in the end | 1 file, 1 channel, 2 changes, 1 reload | 494 000 |
| `AuthGhost` | finding 2 | 1 file, 2 changes, no reload | about 12,500 before the violation |
| `RelayAnswers` | one ending, no frame lost, nobody left waiting | 2 requests, channels of 1, up to 2 frames before the last | 504 000 |

**Why the bounds are enough.** A cooldown property relates at most one earlier
outcome of the model, one of its sibling or of the credential, and the outcome
under test: three. The durations are small and of the order of the real ones
(ladder 1, 2, 4 = the cap with a floor of 2; transient 2; 30 minutes → 3; 12
hours → 5; Retry-After 3), so that a deadline can lie before, at and after
another, the ladder reaches its last rung, and the clock passes the short ones.
Blocks are compared up to `Horizon`, beyond the longest deadline that can arise.
In the scheduler, credentials share nothing but the set of shards, so one is
enough; staleness needs two clones in flight plus one delivered before them:
three operations. Of two tokens, one expires while the clock runs and one does
not, so that an entry is withdrawn, an update renews its token and a result
overtakes that update. An incarnation needs
register, result, remove, register, and two more for a late clone or a rebuild:
six. In the registry one client is enough for arrival orders, since a projection
touches its own client's marks only.

A request's rounds differ by who may take part: one credential whose limit
excludes it from the second round, one that is allowed in it; a pool of two has
a first, a next and a last model; waits of 1 are within and of 2 beyond
`MaxRetryInterval`; one interference is enough for each race, since the request
looks at a credential once between two of its own steps. A refresh races with at
most one worker, one request and one replacement, which take two events: an
edit reads the credential (the first event) before a refresh ends, stores the
exchanged token after it, and the loop or a request (the second) presents that
token again, which the run reaches. A token is due at once or an instant later,
so two instants have due, marked and waiting credentials. Two
dispatches are the least at which one can be installed behind the back of a
drain's list, a sequence be overtaken and a barrier fall between. One file with
two changes has an older and a newer content on their way; the feed's order is
per credential. Two requests are the least at which one blocks the other, and a
channel of one is full after one frame. Models are interchangeable, and are
declared symmetric, in the runs of safety properties that do not order them; no
run with a liveness property uses symmetry. `CHECK_DEADLOCK FALSE` is set where
the bounded operations, the request or the session come to their end.

**Fairness and liveness.** Fairness is assumed only of goroutines past the
start of what they do, and never of a client, a user or a failure.

| Run | Property | Assumed, and why the code justifies it |
|---|---|---|
| `RetryRounds` | `RequestEnds` | WF of the request's own steps: its goroutine goes on, and an upstream call returns (external; a cancelled context makes it). WF of `Tick`: time passes. Nothing says the client cancels |
| `RegistryDrain` | `DrainEnds`, `TicketsComplete` | WF per owner: Home answers or the call times out, a close function returns, an owner that was cancelled stops, and goes on from there; WF of drain and close once begun. SF of `SendAcknowledged` per group: a send is repeated and does not fail for ever. Nothing says that a drain begins; an execution that is not cancelled may run for ever |
| `AuthDelivery` | `Delivered` | WF of handler, scan, hook, dispatchers and consumer. SF of `RescanRead`: it needs a mutex the event handler takes again and again, and Go's mutex does not starve a waiter |
| `RelayAnswers` | `ClosedLetsGo`, `CancelledLetsGo` | WF of the relay's goroutines (a write ends by its deadline) and of a select that has one ready case. The client need not send, the consumer need not read |

"Eventually agrees" is stated as safety elsewhere: *whenever* nothing is on its
way, scheduler (`QuiescentAgreement`), registry (`RegistryAgreement`) or service
(`NothingMissed`) and their source agree, whatever the order was. `AutoRefresh`
has no fairness either: that a credential which needs it is refreshed is
`NeverForgotten` (somebody has it) and `NeverAsleep` (the loop's timer or wake-up
is set for it), at every moment.

## 4. Properties

*Cooldown.* `FailureNeverFrees`: no mix of deadlines, windows and
credential-wide quotas lets a further failure free any model at any instant.
`FailureIsolated`: a failure that is neither credential-wide nor a 401 blocks
its own model only. `SuccessFreesItsModelOnly`: and nothing at all under an open
credential quota. `NoWedge`: whatever token the
credential holds, no block is without an end, save by a token that runs out or a
401 with no refresh set for later; a renewed token finds nothing else blocked for
good.
`LadderRisesOncePerWindow`: a burst of 429s is one window.
`DisabledCoolingBlocksNothing`: with cooling disabled an outcome that is neither
forced nor a 401 blocks no model any longer than it was, whatever deadlines
earlier failures have left. `RestartKeepsBlocks`: after a crash that finds the
file up to date, the restart gives back the blocks there were, and no others if
every outcome named its model. `ReloadChangesNothing`: nor does a reload that
nothing has overtaken change one.

*Publication.* `QuiescentAgreement`: a shard offers the credential **if and only
if** the manager's state allows it, cooldowns and access token alike; only a
shard that was served by a result which overtook the update with a new token may
still go by the token it had (section 6). `VersionsNeverRegress`, `RemovedStaysOut`,
and `PublicationInv`, the inductive invariant. *Registry.* `RegistryAgreement`,
`UnregisteredHoldsNothing`.

*Requests.* `NothingAfterDelivery`: after the client's first payload the request
never selects, calls or waits again, though the manager and the handler both
retry. `OutcomesReported`: every upstream call is reported exactly once before
the request turns to anything else, wherever its failure is seen. `AttemptsBounded`:
a credential takes part in no more rounds than its own limit, a round uses no
more than the cap. `RequestEnds`.

*Token renewal.* `NeverForgotten`, `NeverAsleep`; `RefreshTokenUsedOnce`: providers
revoke a credential whose refresh token is presented twice
(`internal/auth/codex/openai_auth.go:336` knows the error); a call that was
cancelled counts as one that did not reach the provider, and a caller of `Update`
or `Register` that stores an exchanged token again (section 6) grants it one more
exchange until the next refresh of the credential succeeds.
`TokenOfThisIncarnation`: the result of a refresh never reaches a later
registration of the same id.

*Execution registry.* `SlotsNotFreedEarly`: neither the sequences nor Home run
ahead of the resources that are closed. `EveryReleaseReported`: a counted release
is known to the flusher, even if the sink was replaced meanwhile. `BarrierCovers`,
`NothingLeftOpen`, `DrainEnds`, `TicketsComplete`, and the refinement `KeepsLedger`.

*Credential updates.* `NothingMissed`: when all is quiet, every file and channel is
served as it is. `Delivered`, and the refinement `FollowsFeed`. *Relay.* `NoPanic`
(no send on a closed channel), `OneEnding`, `NoFrameLost`, `NoOrphan`,
`ClosedLetsGo`, `CancelledLetsGo`.

Every property of a passing run has a seeded fault — a definition in its module,
marked as such — that stands for a plausible slip in the mapped code (a stale
result dropped, a removal that reuses an epoch, a wake-up only if somebody
listens, a lock not taken, a release marked after its report, a round too many)
and under which its run finds it violated.

## 5. Proofs

`tlapm` checks these for every set of credentials, clients, models, files,
dispatches, requests, every choice of operations, and every bound.

| Theorem | States |
|---|---|
| `CredentialCooldown_proofs!TypeCorrect` | `Spec => []TypeOK` |
| `CredentialCooldown_proofs!BlocksEnd` | `Spec => []NoWedge`, for every token |
| `CredentialCooldown_proofs!FailuresAreIsolated`, `NoCooldownWhenDisabled`, `LadderClimbsByWindow` | `FailureIsolated`, `DisabledCoolingBlocksNothing`, `LadderRisesOncePerWindow` |
| `CredentialCooldown_proofs!SuccessFreesOnlyItsModel` | `SuccessFreesItsModelOnly`, if every outcome names its model |
| `CredentialCooldown_proofs!FailuresNeverFree` | `Spec /\ []~coolingOff => FailureNeverFrees`, if every outcome names its model and transient failures have a cooldown |
| `CredentialCooldown_proofs!ReloadKeepsBlocks`, `RestartKeepsEveryBlock` | `ReloadChangesNothing`, `RestartKeepsBlocks` |
| `SchedulerPublication_proofs!TypeCorrect`, `PublicationInvariant` | `Spec => [](TypeOK /\ PublicationInv)` |
| `SchedulerPublication_proofs!RemovedCredentialsStayOut` | `Spec => []RemovedStaysOut` |
| `SchedulerPublication_proofs!VersionsAdvance` | `Spec => VersionsNeverRegress` |
| `SchedulerPublication_proofs!SchedulerFollowsManager` | `Spec => []QuiescentAgreement`, for `Ops \subseteq Publishing` |
| `RegistryProjection_proofs!TypeCorrect`, `UnregisteredModelsHoldNothing`, `ProjectionsAgree` | types, `UnregisteredHoldsNothing`, `RegistryAgreement` |
| `ExecutionRetry_proofs!RetryTypes` | `Spec => []TypeOK` |
| `ExecutionRetry_proofs!NoSecondAnswer`, `EveryCallReported`, `LimitsRespected` | `NothingAfterDelivery`, `OutcomesReported`, `AttemptsBounded` |
| `ExecutionRegistry_proofs!RegistryInvariant` | `Spec => [](TypeOK /\ RegistryInv)` |
| `ExecutionRegistry_proofs!BarriersCover`, `DrainLeavesNothing`, `SlotsFreedInTime`, `ReleasesReported` | the registry's four invariants |
| `ExecutionRegistry_proofs!RegistryKeepsLedger` | `Spec => KeepsLedger`: initial states map to initial states, every step to a step of `DispatchLedger` or a stutter |
| `AutoRefresh_proofs!RefreshTypes`, `RefreshTokensUsedOnce`, `TokensStayInTheirIncarnation`, `LoopNeverAsleep` | types, `RefreshTokenUsedOnce`, `TokenOfThisIncarnation`, `NeverAsleep` |
| `AutoRefresh_proofs!CredentialsNeverForgotten` | `Spec => []NeverForgotten`, without `Overlap` and `Recoveries` |
| `AuthUpdates_proofs!TypeCorrect`, `ServiceFollowsFeed` | `TypeOK`, and `Spec => FollowsFeed`: every step is one of `AuthFeed` or a stutter |
| `AuthUpdates_proofs!NothingIsMissed` | `Spec => []NothingMissed`, without `Overlap` |
| `WsRelay_proofs!TypeCorrect`, `RelayNeverPanics`, `AnswersEndOnce`, `CleanupLeavesNone`, `NoFrameIsLost` | types, `NoPanic`, `OneEnding`, `NoOrphan`, `NoFrameLost` |

**The hypotheses of five of them** are the settings of the run that checks the
property, or weaker, and leave out behaviour of the code that breaks the
property, which section 6 names. `Overlap`: a removal or a save overlaps another
change of the same id. `Recoveries`: a late success clears a 401. `Publishing`:
every operation but 401s, resets and rebuilds, which may leave a shard behind,
and but removal and re-registration, which are the matter of `PublicationInv`.
`TransientDisabled`, and cooling that was disabled: a failure clears a deadline
and keeps the quota window, so a forced Cloudflare challenge that follows starts
a shorter one. `ModelLess`: the first outcome that names a model supersedes a
block that names none.

**Cooldowns.** `CooldownInv` says that every cell of the credential and every
record of a file is *sound*: deadlines and windows lie within the horizon, a
level is a rung of the ladder, a quota is exceeded exactly while it has a
window, and what is unavailable has a deadline or a window. One lemma per
operator of the model (`PenalisedAs`, `AdjustedAs`, `FailedAs`, `AggregatedAs`)
says what it returns, and the proofs of the steps use only these. `NoWedge`,
`FailureIsolated`, `DisabledCoolingBlocksNothing` and `LadderRisesOncePerWindow`
follow from it. The others need more. `BackedInv`: a deadline of the
credential's own cell is backed by its quota or by a model with one as late, in
memory and in the file, which is why a success of one model leaves the others
alone. `WithinInv`: an open quota window lies within the deadline of its model,
in memory, in the file, and in what a reload has read. `CauseInv`: a credential
with an error has failed, and one that is unauthorized is unavailable whenever
its models or its quota make it so. `FlagInv`: a cell with a deadline is
unavailable, so every deadline ahead is in a record. `CrashInv` compares what
was blocked at the crash with `FileHolds`, the instants at which the records of
the file block a model. A restore folds over the records in an order the model
leaves open; `RestoreKeeps` shows, by a least counterexample among the sets
already merged, that each is merged once and none is lost.

**Publication.** `RemovedStaysOut` is not inductive: it says
nothing of the clones on their way. `EpochsDistinct`: every epoch held by the
manager, a clone, the snapshot of a rebuild or the scheduler is at most the
manager's counter, strictly below it while the credential is removed, and no
tombstone shares an epoch with a live incarnation. `ManagerCurrent`: a
registered credential holds the counter's value. `TombstoneClears`: where the
scheduler records a tombstone or nothing, it holds no entry. `RemovalRecorded`:
a removed credential's last tombstone is on its way or recorded. The last two
give `RemovedStaysOut`; the first two are why a clone or a rebuild that arrives
later is stale. There is one lemma per kind of step. `VersionsNeverRegress` is an
action property: a tombstone that is accepted at an equal epoch meets no live
generation of that epoch.

`QuiescentAgreement` needs to know what every undelivered clone will still
repair (`SchedulerInv`). `Ordered`: no clone is newer than the manager's
version, and without a 401 every cooldown has an end (`Ending`). `ModelsKnown`:
the scheduler knows the registered models, or will be told. `LiveAccounted`:
between any two versions that are still about — the scheduler's, a clone's, the
manager's — the difference in the cooldowns of a shard (`AgreeFrom`) is
accounted for by a clone on its way that will reach the shard. `EntryAgrees`: an
entry is blocked with no end only once its token has expired (`Stands`), and
until then offers what the scheduler's version of its credential does, or such a
clone is on its way (`Follows`). Tokens are followed apart from cooldowns, since
only updates change them. `TokensKnown`: a version with another token than the
manager's comes with an update on its way that is newer. `EntryToken`: so does
an entry, unless the update arrived and was overtaken (`overtaken`). When no
clone is left, only the manager's version and the scheduler's are, and they
agree, but for the token of an entry whose update was overtaken.

**The registry's marks (`AgreeInv`).** For the first registration of a
credential, no projection is ahead of the manager, one of the manager's own
generation says what the manager says, and the newest projection has arrived or
is on its way.

**Calls and rounds (`ReportInv`, `RoundsInv`).** `ReportInv` says by place
whether a call is owed, that a request has its answer only at its end, and that
a delivered payload leaves only the places `streaming` and `ended`. `RoundsInv`
bounds `visits` of a credential by the rounds begun so far, plus one if the round
has it in `picked`, and says that a credential whose limit is below the current
round is excluded from it; epochs are at least 1, so that a credential of epoch 1
was there when the round took its exclusions.

**The ledger (`RegistryInv`).** `Located`: the owner's place says whether a
dispatch is pending, in a scope, or neither. `Staged`: what can have happened to
its resource and to its call of the sink. `Numbered`: the sequence of a group is
the number of its released dispatches (a cardinality, hence
`FiniteSetTheorems`). `Known`: flusher and Home know of no release that was not
counted, and the last one is known, or will be by a replay or by its owner's
call. `Stopped`: drain and close come after accepting ended and watch everything
that was open. `Covered`: what a barrier has yet to wait for. The refinement
then takes one step per action.

**Tokens and the loop.** `TokenInv`: tokens are issued in order, so
what is spent was issued; the token a present credential holds is unused, unless
somebody has stored it again (`Once`); what an edit has read was issued, and
belongs to the registration it was read from (`Edited`); calls for one
credential exclude each other, with a token that is unused or was stored again;
and a call whose token the credential still holds is of the same registration,
or that token was stored again. `TrackInv`:
a credential that needs the loop is on the heap in time, or the loop or a worker
has it in hand, or whoever changed it has told the loop or is about to; what the
loop is about to put on the heap was in time when it read the credential.
`TimerInv`: changes the loop has not seen leave a wake-up behind, and while it
waits its timer is no later than any entry of the heap.

**Credential updates (`FeedInv`, `MissInv`).** `FeedInv` is for the refinement:
every update in a batch, the queue or a hand is a genuine entry of the log, the
service holds the entry of the revision it has processed, and the newest entry
is processed or still on its way. `MissInv` adds the watcher: what it believes
is what it published last, or nothing; a file that changed after it was read has
an event or a scan ahead of it that will see it.

**The relay (`RelayInv`, `FramesInv`).** Who holds a request's lock has a
request that is not over; frames after which nothing may come are last, in the
channel and outside; and what cleanup has still to visit includes every request
whose write it did not stop. `FramesInv`: the frames a caller has, those in its
channel, and the one in the reader's hand are together what the reader took,
in order, as long as the request is wanted and the session open.

**Assumptions on constants.** Special values differ from those they are compared
with (`None`, `Absent`, `AnyModel`, `Unaccounted`), durations and bounds are
numbers, tokens expire at positive instants (`Expiries`), the clock may start
(`MaxTime` is not 0), `Longest` bounds the
durations, limits are functions of the credentials, sets of special credentials
or requests are subsets, models, files and channels are finite. TLC evaluates
them in every run of the modules.

**What the proofs corrected.** An attempt that failed was a counterexample of a
larger instance, and the statement was mended: with a second credential the loop
may wait at a full job channel with one in hand (`NeverForgotten`); a quota
window that outlived its deadline is in no record, and a second reload can bring
back a 401 that disabled cooling had kept from blocking (`RestartKeepsBlocks`,
`ReloadChangesNothing`, now checked with two reloads);
`DisabledCoolingBlocksNothing` said less than it meant, and is now about every
model's blocked instants.

**Only model-checked.** The liveness properties (`RequestEnds`, `DrainEnds`,
`TicketsComplete`, `Delivered`, `ClosedLetsGo`, `CancelledLetsGo`) and the two
violations: liveness under fairness and `ENABLED` are outside the prover's
reach. So is induction in general, since its theorems take an operator as a
parameter; where a proof needs one (the order of a restore, the newest update of
a batch) it argues by a least counterexample, from the well-foundedness of `<`
on the naturals. The types of `AuthUpdates` and `CredentialCooldown` are proved
and still checked, for the seeded faults of `TypeOK`; the other runs leave types
to the proofs.

## 6. Findings

Where the code does something else than a comment, a document or a test of the
repository says. Two have a run that shows TLC the statement and lets it find
the steps:

1. **A nil credential after a refused preparation** (`RetryPrepared`,
   `conductor_execution.go:1542`). If a credential is removed and registered
   again while an executor prepares it, `UpdatePreparedAuth` refuses the update,
   `prepareRequestAuth` returns a nil credential with the error, and all three
   execution paths read `auth.ID` next. A preparation that fails otherwise
   returns the selected credential, and the request goes on.
2. **A credential without a file** (`AuthGhost`, `internal/watcher/events.go:174`).
   A file that appears during the first scan and vanishes before its event is
   handled leaves its credential in the service: the scan publishes it without a
   hash, and the removal is ignored as one of an unknown file.

The following were shown by runs of earlier versions of these modules, and are
kept as notes; the models contain them, and the properties allow for them.

- **A transient failure clears a live deadline** when `transient-error-cooldown`
  is -1: the zero time that stands for "no transient cooldown" is read as the
  deliberate clearing that only `disable-cooling` was meant to do
  (`conductor_cooldown.go:941`, whose comment says a later failure never
  shortens). `TransientDisabled = TRUE` shows it as a violation of
  `FailureNeverFrees`; with it `RestartKeepsBlocks` fails as well, as the file
  keeps the quota that memory has lost.
- **A projection of a removed credential can mark its successor**
  (`conductor_cooldown.go:991`; `conductor_oauth_alias_nofork_test.go:3393` says
  otherwise), because the registration epoch is read after the unlock; the
  successor's own projections are then refused as older. The scheduler does not
  have this problem, since its clones carry the manager's epoch.
  `RegistryAgreement` is stated for credentials that were never re-registered.
- **A 401 does not reach every shard** while the credential has states for fewer
  models than it supports (`scheduler.go:726`, `:739`).
- **An update or a quota reset can be dropped** when a newer result overtakes it
  (`scheduler.go:697`): the result writes its own shard, and the others keep what
  they had. A block that was lifted stays until its deadline; an entry that was
  demoted because its access token had expired (`scheduler.go:1089`) stays
  blocked although the update renewed the token, with no time to try it again,
  until the next publication that reaches its shard. `QuiescentAgreement`
  allows for the second (`overtaken`).
- **An edit may put back an exchanged refresh token.** `PatchAuthFileStatus` and
  `PatchAuthFileFields` take a clone of the credential, change a field and pass
  it to `Update` (`auth_files_fields.go:115`, `:375`), which in replace mode stores
  what it is given (`conductor_lifecycle.go:159`). A refresh that finishes in
  between has its token overwritten, and the next refresh presents the spent one.
  A file that is read again may do the same. `RefreshTokenUsedOnce` allows for it
  (`restored`).
- **A rebuild can lose a credential** when a result lands between its snapshot
  and its commit (`scheduler.go:193`, `conductor_selection.go:108`). It heals
  with the next result, update or failed selection.
- **A servable model can be hidden** (`model_registry.go:1144`): one client's
  quota mark and suspension are both subtracted; so does `GetModelCount`
  (`model_registry.go:1389`), and `scheduler_test.go:1965` expects the 0.
- **A credential marked 401 is lost to the refresh loop** if it is popped while
  marked and a request that was in flight succeeds with it later: the success
  clears the mark and does not reschedule (`shouldRefresh`,
  `conductor_refresh.go:118`, is not asked again). `Recoveries = TRUE` shows it as a violation of
  `NeverForgotten`.
- **A removal by the management API may unschedule a new registration**
  (`auth_files_fields.go:795`): the late `queueRefreshUnschedule` is by id.
  `Overlap = TRUE` of `AutoRefresh` shows it.
- **A saved credential may overwrite a newer file in the service**: the hook
  publishes what was saved, without looking at the file again. `Overlap = TRUE`
  of `AuthUpdates` violates `NothingMissed`.
- **A relay that closes may lose a chunk and still deliver the end**
  (`session.go:321`): after `close(s.closed)` the read loop's select may drop a
  chunk and then find room for the terminal frame. `NoFrameLost` is stated for
  an open session. (`session_test.go:163` has the open case.)
- **A plugin's refusal** ends a call at once, but a stream goes on to the next
  credential unless its status counts as a fault of the request
  (`conductor_stream.go:227` with `conductor_execution.go:1144` on).

Behaviour the models contain and the properties allow for, noted for a reader of
the code: a 401's block is forgotten when a later failure has another cause; the
first outcome that names a model supersedes the block of a model-less failure,
and a restart can put it back; with cooling disabled, a 401 under a forced quota
still blocks, and a failure other than a quota clears the deadline of its model
but not its quota window, which a forced Cloudflare challenge then replaces by a
shorter one; a reload aggregates the credential again, which brings back a 401
that disabled cooling had kept from blocking; a quota window that has outlived
its deadline is in no record of the file, and ends with a crash; a restore
merges by the later deadline, so a success between its reading of the file and
its merge is undone; a write that fails, or a crash between the unlock and the
write, loses the cooldown; a Cloudflare challenge climbs the ladder inside an
open window; a suspension in the registry is not projected again when its
deadline passes; a second removal of a file within the debounce window of a
second is dropped, and made up for by the next event or scan; a failed
preparation is reported for the route's own name, which blocks a pooled
credential as a whole; a credential registered in the middle of a round is not
among its exclusions; of a stream the validator refuses, nothing is reported; a
slow consumer of one relayed answer holds up the others of its session until it
reads, gives up or the session closes.

## 7. Not modelled, and why

*Left out of modelled components.*

- `CredentialCooldown`: quota signals parsed from response headers, alias and
  compatibility pools that map routes onto one key, disabled credentials,
  counters, the layout of the files and `SwapCooldownStateStore`; what a refresh
  writes (a renewed token that clears a 401, a failed one that marks the
  credential unavailable, `conductor_refresh.go:552`). The expiry of the access
  token and `NextRefreshAfter` are inputs of the selector's query: `NoWedge` is
  about each of them, the other properties about a token that lasts and no
  refresh set for later.
- `SchedulerPublication`: which ready credential is picked, the `UpdatedAt`
  tie-break between copies of one version, provider changes, disabled
  credentials, a single model's quota window apart from its deadline, the
  failure path of a refresh, the merge that `UpdateRefreshedAuth` and
  `UpdatePreparedAuth` make of the renewed credential and the current one (an
  `Update` stores a new token on the manager's own state), two rebuilds at once,
  overlapping registrations.
- `RegistryProjection`: reference counts and the listing, disabled credentials,
  the model-less state of a credential.
- `ExecutionRetry`: the expiry of access tokens (`selector.go:833`), which takes a
  credential out of the selection as a 401 does, and on which no property
  depends; Home mode; the fallback to Antigravity credits; session
  affinity, pinning, eligibility, priorities and weights (any free credential
  may be picked); an interceptor that refuses only a later model of a pool;
  request-scoped error actions (a stop behaves like a fault of the request, a
  continue like another failure); executors that fail before any upstream
  attempt; the jitter of waits; a quota of the whole credential is taken to be
  worth another round; the published state of the scheduler may be stale, which
  is `SchedulerPublication`'s matter. Errors are kept by class of status.
- `AutoRefresh`: API keys, disabled credentials, `RefreshEvaluator` and preferred intervals, missing
  executors, publication of the renewed credential.
- `ExecutionRegistry`: the content of the frames, the timing of the in-flight
  publisher, the Redis transport and the reconnect of the Home client,
  `WaitPending`, and what a dispatched selection does with its credential.
- `AuthUpdates`: hashing and parsing (a file is read whole or, while it is being
  written, torn: empty), several credentials in a file, plugins' credentials, a
  changed auth directory, two scans at a time, a file rewritten with the same
  content around a scan, one deleted between the manager's `Load` and the
  watcher's start, the overflow of the event channel.
- `WsRelay`: the manager's table of sessions and the replacement of a session by
  a new connection, ping and pong, `onConnected`/`onDisconnected`, an upgrade
  after `Stop`, the conversion of frames; frames of a request after its terminal
  one, which find it no longer pending, as the same goroutine has removed it, and
  change nothing.

*Whole components.* Executors and translators turn one wire format into another;
handlers and service start are routing and wiring; the gateway, the adapter, the
dashboard and the scripts hold no protocol between concurrent parties. These are
most of the repository's lines. Not modelled although they have state: the
usage queue (one mutex, lines for display), the upstream websocket sessions of
Codex and xAI, the selectors' cursors and session cache, the media proxy's task
table, and the lock under which credential files are written (`Remove` does not
take it: a save that waits may recreate the file of a removed credential).

## 8. What could come next

| Module | Abstract specification | To check | To prove |
|---|---|---|---|
| `AuthPersist` | a file that follows the newest version | save against removal, versions under the persist lock, restart | the file never goes back |
| `AuthUpdates` | `AuthFeed` ✓ | two scans at a time, a changed directory | – |
| `CredentialCooldown` | a set of blocked instants per model that outcomes extend or clear | the refinement | the refinement |
| `SchedulerPublication`, `RegistryProjection` | a register that only takes newer versions | delivery under weak fairness | the register, of which `VersionsNeverRegress` is a part |
| `AutoRefresh` | the set of credentials that need a refresh | liveness | – |
| `SessionAffinity`, `UsageQueue` | partition of sessions; bag of subscribers | eviction of alias groups; a subscriber dropped in the middle of a publication | – |
