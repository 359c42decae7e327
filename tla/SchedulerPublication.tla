------------------------ MODULE SchedulerPublication ------------------------
(***************************************************************************)
(* How the availability that Manager keeps reaches authScheduler.  Every   *)
(* operation of the manager changes the credential under Manager.mu, takes *)
(* a clone, unlocks, and only then hands the clone to the scheduler, which *)
(* has a mutex of its own: the clones of concurrent operations arrive in   *)
(* any order.  A snapshot carries the version (RegistrationEpoch,          *)
(* Generation) the scheduler compares; the data it carries is reduced to   *)
(* what decides whether a model is offered (CredentialCooldown has the     *)
(* rest).  UpdatedAt only breaks ties between equal versions, which are    *)
(* copies of one state, and is left out; so are disabled credentials and a *)
(* change of provider.                                                     *)
(***************************************************************************)
EXTENDS Integers, FiniteSets

CONSTANTS Auths, Models,
          AnyModel,        \* the shard of requests that name no model
          None,
          Loaded,          \* the credentials known since startup
          Ops,             \* the operations that occur
          CoolFor,         \* how long a failure blocks
          Expiries,        \* when access tokens expire: a token is known by it
          MaxTime, MaxOps  \* bounds on the run

Outcomes == {"success", "failure", "unauthorized", "credentialQuota"}
AllOps == Outcomes \cup {"neutral", "update", "reset", "register", "remove",
                         "models", "rebuild"}
ASSUME ModelAssumption == AnyModel \notin Models
ASSUME OpsAssumption == Ops \subseteq AllOps /\ Loaded \subseteq Auths
ASSUME ExpiryAssumption == Expiries \subseteq Nat \ {0}
ASSUME BoundAssumption == CoolFor \in Nat \ {0} /\ MaxTime \in Nat \ {0} /\ MaxOps \in Nat

VARIABLES now, ops,
          manager,      \* Manager.auths
          authEpochs,   \* Manager.authEpochs
          registered,   \* the registry's models of each credential ...
          regEpoch,     \* ... and the epoch of that registration
          refreshDue,   \* what the service still has to do after a registration
          inflight,     \* clones and tombstones on their way to the scheduler
          snapshot,     \* the clones a rebuild in progress has taken
          authGenerations,  \* the scheduler: versions applied, tombstones
          meta,             \* providerScheduler.auths
          shards,           \* the shards built so far
          entries,          \* modelScheduler.entries
          overtaken         \* history: whose last update came too late

mgrVars == <<manager, authEpochs>>
registryVars == <<registered, regEpoch, refreshDue>>
schedVars == <<authGenerations, meta, shards, entries, overtaken>>
vars == <<now, ops, manager, authEpochs, registered, regEpoch, refreshDue,
          inflight, snapshot, authGenerations, meta, shards, entries, overtaken>>

Shards == Models \cup {AnyModel}

VersionSet == [epoch : Nat, gen : Nat]      \* generation 0: a tombstone
AuthSet == [epoch : Nat, gen : Nat \ {0}, until : [Models -> Nat \cup {None}],
            quotaUntil : Nat, unavailable : BOOLEAN, retry : Nat, unauthorized : BOOLEAN,
            refused : SUBSET Models, expires : Nat]
MetaSet == [auth : AuthSet, models : SUBSET Models, regEpoch : Nat]
EntrySet == [auth : AuthSet, until : Nat]
ASSUME NoneAssumption ==
  /\ None \notin Nat \cup VersionSet
  /\ None \notin AuthSet /\ None \notin MetaSet /\ None \notin EntrySet
  /\ None \notin [Auths -> AuthSet \cup {None}]

Never == 0                       \* the zero time.Time
Forever == MaxTime + CoolFor + 1 \* blocked with no time of return
Later(s, t) == IF s > t THEN s ELSE t

-----------------------------------------------------------------------------
\* The credential as the manager sees it.

\* until[m]: None without a ModelState, Never when clean, else its deadline;
\* refused: the models whose last error is a 401; expires: the access token.
Fresh(epoch, expires) ==
  [epoch |-> epoch, gen |-> 1, until |-> [m \in Models |-> None],
   quotaUntil |-> Never, unavailable |-> FALSE, retry |-> Never,
   unauthorized |-> FALSE, refused |-> {}, expires |-> expires]
Tracked(a) == {m \in Models : a.until[m] # None}

updateAggregatedAvailability(a) ==
  LET deadlines == {a.until[m] : m \in Tracked(a)}
      allUnavailable == deadlines # {} /\ \A d \in deadlines : d > now
  IN  IF a.quotaUntil > now THEN [a EXCEPT !.unavailable = TRUE]
      ELSE [a EXCEPT !.unavailable = allUnavailable,
                     !.retry = IF allUnavailable
                               THEN CHOOSE d \in deadlines : \A e \in deadlines : d <= e
                               ELSE Never]

Bumped(a) == [a EXCEPT !.gen = @ + 1]

Succeeded(a, m) ==
  LET b == updateAggregatedAvailability([a EXCEPT !.until[m] = Never, !.refused = @ \ {m}])
  IN  IF a.quotaUntil > now THEN a
      ELSE [b EXCEPT !.unauthorized = @ /\ \E o \in Tracked(b) : b.until[o] # Never]

\* The error of the last failure is the credential's error.
Failed(a, m, unauthorized) ==
  LET previous == IF a.until[m] = None THEN Never ELSE a.until[m]
  IN  updateAggregatedAvailability(
        [a EXCEPT !.until[m] = Later(previous, now + CoolFor),
                  !.unauthorized = unauthorized,
                  !.refused = IF unauthorized THEN @ \cup {m} ELSE @ \ {m}])

QuotaExhausted(a, m) ==
  LET until == Later(a.quotaUntil, now + CoolFor)
  IN  [a EXCEPT !.until = [o \in Models |->
                   IF o = m \/ o \in Tracked(a)
                   THEN Later(IF a.until[o] = None THEN Never ELSE a.until[o], now + CoolFor)
                   ELSE None],
                !.quotaUntil = until, !.retry = until, !.unavailable = TRUE,
                !.unauthorized = FALSE, !.refused = @ \ {m}]

\* isAuthBlockedForModel: until when a is blocked in shard s, seen at time t,
\* by its cooldowns and by its access token.
CooldownUntil(a, s, t) ==
  IF a.quotaUntil > t THEN a.quotaUntil
  ELSE IF s = AnyModel THEN IF a.unavailable /\ a.retry > t THEN a.retry ELSE Never
  ELSE IF s \in Tracked(a) /\ a.until[s] > t THEN a.until[s] ELSE Never
BlockedUntil(a, s, t) ==
  IF (a.unavailable /\ a.unauthorized) \/ a.expires <= t THEN Forever
  ELSE CooldownUntil(a, s, t)

-----------------------------------------------------------------------------
\* The scheduler's bookkeeping.

Version(a) == [epoch |-> a.epoch, gen |-> a.gen]
Older(v, w) == v.epoch < w.epoch \/ (v.epoch = w.epoch /\ v.gen < w.gen)

\* Seeded fault: generations of one incarnation are not compared.
isStaleByEpoch(id, v) ==
  authGenerations[id] # None /\ v.epoch < authGenerations[id].epoch

isStaleScheduledAuth(id, v) ==
  authGenerations[id] # None /\ Older(v, authGenerations[id])

NewMeta(a, models, epoch) == [auth |-> a, models |-> models, regEpoch |-> epoch]
Supports(mt, s) == s = AnyModel \/ s \in mt.models
Entry(mt, s) ==
  IF mt # None /\ Supports(mt, s)
  THEN [auth |-> mt.auth, until |-> BlockedUntil(mt.auth, s, now)] ELSE None

\* A blocked entry is looked at again once its time has come, a ready one
\* once its token has expired.
Promoted(e, s) ==
  IF e # None /\ (IF e.until = Never THEN e.auth.expires ELSE e.until) <= now
  THEN [e EXCEPT !.until = BlockedUntil(e.auth, s, now)] ELSE e
Offered(s, id) == entries[s][id] # None /\ Promoted(entries[s][id], s).until = Never

\* The entries of credential id in the shards of `targets' follow mt.
upsertAuthForModels(id, mt, targets) ==
  /\ meta' = [meta EXCEPT ![id] = mt]
  /\ entries' = [s \in Shards |-> IF s \in shards \cap targets
                                  THEN [entries[s] EXCEPT ![id] = Entry(mt, s)]
                                  ELSE entries[s]]
  /\ UNCHANGED shards

isCredentialBlocked(a, modelCount) ==
  \/ a.quotaUntil > now
  \/ Tracked(a) = {} /\ (a.unavailable \/ a.retry > now)
  \/ /\ Tracked(a) # {}
     /\ ~(modelCount > 0 /\ Cardinality(Tracked(a)) < modelCount)
     /\ a.unavailable

-----------------------------------------------------------------------------
\* After startup: Load has published the credentials, and the service has
\* registered their models and published them again.
InitWith(token) ==
  /\ now = 1 /\ ops = 0
  /\ manager = [id \in Auths |-> IF id \in Loaded THEN Fresh(1, token[id]) ELSE None]
  /\ authEpochs = [id \in Auths |-> IF id \in Loaded THEN 1 ELSE 0]
  /\ registered = [id \in Auths |-> IF id \in Loaded THEN Models ELSE {}]
  /\ regEpoch = [id \in Auths |-> IF id \in Loaded THEN 1 ELSE 0]
  /\ refreshDue = [id \in Auths |-> "idle"]
  /\ inflight = {} /\ snapshot = None
  /\ authGenerations = [id \in Auths |-> IF id \in Loaded THEN [epoch |-> 1, gen |-> 1] ELSE None]
  /\ meta = [id \in Auths |-> IF id \in Loaded THEN NewMeta(Fresh(1, token[id]), Models, 1)
                              ELSE None]
  /\ shards = {}
  /\ entries = [s \in Shards |-> [id \in Auths |-> None]]
  /\ overtaken = {}
Init == \E token \in [Auths -> Expiries] : InitWith(token)

-----------------------------------------------------------------------------
\* The operations of the manager: what they leave under Manager.mu, and what
\* they then hand to the scheduler.

Lifecycle(id, a) == [kind |-> "lifecycle", id |-> id, auth |-> a]
Registration(id, a) == [kind |-> "registration", id |-> id, auth |-> a]
ResultOf(id, a, targets, scoped) ==
  [kind |-> "result", id |-> id, auth |-> a, targets |-> targets, scoped |-> scoped]
Tombstone(id, epoch) == [kind |-> "tombstone", id |-> id, epoch |-> epoch]

Operation(op) == op \in Ops /\ ops < MaxOps /\ ops' = ops + 1

After(a, m, outcome) ==
  CASE outcome = "success" -> Succeeded(a, m)
    [] outcome = "failure" -> Failed(a, m, FALSE)
    [] outcome = "unauthorized" -> Failed(a, m, TRUE)
    [] outcome = "credentialQuota" -> QuotaExhausted(a, m)

MarkResult(id, m, outcome) ==
  /\ Operation(outcome) /\ manager[id] # None
  /\ LET a == Bumped(After(manager[id], m, outcome))
         scoped == outcome = "credentialQuota"
     IN  /\ manager' = [manager EXCEPT ![id] = a]
         /\ inflight' = inflight \cup {ResultOf(id, a, IF scoped THEN {} ELSE {m}, scoped)}
  /\ UNCHANGED <<now, authEpochs, snapshot>> /\ UNCHANGED registryVars /\ UNCHANGED schedVars

\* An outcome that says nothing about availability is counted, not published.
recordAvailabilityNeutralResult(id) ==
  /\ Operation("neutral") /\ manager[id] # None
  /\ manager' = [manager EXCEPT ![id] = Bumped(@)]
  /\ UNCHANGED <<now, authEpochs, inflight, snapshot>>
  /\ UNCHANGED registryVars /\ UNCHANGED schedVars

\* Manager.Update with a credential built anew from its file: the model
\* states and an open credential quota are kept, the rest starts clean.  With
\* another token the models refused with a 401 are free again.
Updated(a, expires) ==
  LET resumed == IF expires = a.expires THEN {} ELSE a.refused
      b == [a EXCEPT !.until = [m \in Models |-> IF m \in resumed THEN Never ELSE a.until[m]],
                     !.refused = @ \ resumed, !.expires = expires, !.unauthorized = FALSE,
                     !.quotaUntil = Never, !.unavailable = FALSE, !.retry = Never]
      c == IF resumed = {} THEN b ELSE updateAggregatedAvailability(b)
  IN  IF a.quotaUntil > now
      THEN [c EXCEPT !.quotaUntil = a.quotaUntil, !.unavailable = a.unavailable,
                     !.retry = a.retry]
      ELSE c
Update(id, expires) ==
  /\ Operation("update") /\ manager[id] # None
  /\ LET a == Bumped(Updated(manager[id], expires))
     IN  /\ manager' = [manager EXCEPT ![id] = a]
         /\ inflight' = inflight \cup {Lifecycle(id, a)}
  /\ UNCHANGED <<now, authEpochs, snapshot>> /\ UNCHANGED registryVars /\ UNCHANGED schedVars

\* clearCooldownStateForAuth counts a generation of its own when it clears.
ResetTo(a) ==
  [a EXCEPT !.gen = @ + (IF a.unavailable \/ a.retry # Never \/ a.quotaUntil # Never
                         THEN 2 ELSE 1),
            !.until = [m \in Models |-> IF m \in Tracked(a) THEN Never ELSE None],
            !.quotaUntil = Never, !.unavailable = FALSE, !.retry = Never,
            !.unauthorized = FALSE, !.refused = {}]
ResetQuota(id) ==
  /\ Operation("reset") /\ manager[id] # None
  /\ LET a == ResetTo(manager[id])
     IN  /\ manager' = [manager EXCEPT ![id] = a]
         /\ inflight' = inflight \cup {Lifecycle(id, a)}
  /\ UNCHANGED <<now, authEpochs, snapshot>> /\ UNCHANGED registryVars /\ UNCHANGED schedVars

Register(id, expires) ==
  /\ Operation("register")
  /\ LET a == Fresh(authEpochs[id] + 1, expires)
     IN  /\ manager' = [manager EXCEPT ![id] = a]
         /\ authEpochs' = [authEpochs EXCEPT ![id] = a.epoch]
         /\ inflight' = inflight \cup {Lifecycle(id, a)}
  /\ UNCHANGED <<now, snapshot>> /\ UNCHANGED registryVars /\ UNCHANGED schedVars

\* Seeded fault: a removal reuses the epoch of the incarnation it removes.
RemoveKeepsEpoch(id) ==
  /\ Operation("remove") /\ manager[id] # None
  /\ manager' = [manager EXCEPT ![id] = None]
  /\ inflight' = inflight \cup {Tombstone(id, authEpochs[id])}
  /\ UNCHANGED <<now, authEpochs, snapshot>> /\ UNCHANGED registryVars
  /\ UNCHANGED schedVars

Remove(id) ==
  /\ Operation("remove") /\ manager[id] # None
  /\ manager' = [manager EXCEPT ![id] = None]
  /\ authEpochs' = [authEpochs EXCEPT ![id] = @ + 1]
  /\ inflight' = inflight \cup {Tombstone(id, authEpochs[id] + 1)}
  /\ UNCHANGED <<now, snapshot>> /\ UNCHANGED registryVars /\ UNCHANGED schedVars

-----------------------------------------------------------------------------
\* The model registry, and the service that registers models with it and
\* then has the manager publish the credential again.  The service handles one
\* registration of a credential after the other.

Registering(id) == \E msg \in inflight : msg.kind = "registration" /\ msg.id = id

RegisterClient(id, models) ==
  /\ Operation("models") /\ refreshDue[id] = "idle" /\ ~Registering(id)
  /\ registered' = [registered EXCEPT ![id] = models]
  /\ regEpoch' = [regEpoch EXCEPT ![id] = @ + 1]
  /\ refreshDue' = [refreshDue EXCEPT ![id] = "reconcile"]
  /\ UNCHANGED <<now, inflight, snapshot>> /\ UNCHANGED mgrVars /\ UNCHANGED schedVars

\* States of models no longer registered go, expired ones are reset.
Reconciled(a, models) ==
  LET until == [m \in Models |-> IF a.until[m] = None \/ m \notin models THEN None
                                ELSE IF a.until[m] > now THEN a.until[m] ELSE Never]
      b == updateAggregatedAvailability(
             [a EXCEPT !.until = until, !.refused = {m \in @ : until[m] \notin {None, Never}}])
  IN  IF until = a.until THEN a
      ELSE Bumped([b EXCEPT !.unauthorized = @ /\ \E m \in Tracked(b) : b.until[m] # Never])
ReconcileRegistryModelStates(id) ==
  /\ refreshDue[id] = "reconcile"
  /\ refreshDue' = [refreshDue EXCEPT ![id] = "refresh"]
  /\ IF manager[id] = None THEN UNCHANGED <<manager, inflight>>
     ELSE LET a == Reconciled(manager[id], registered[id])
          IN  /\ manager' = [manager EXCEPT ![id] = a]
              /\ inflight' = inflight \cup {Registration(id, a)}
  /\ UNCHANGED <<now, ops, authEpochs, registered, regEpoch, snapshot>> /\ UNCHANGED schedVars

RefreshSchedulerEntry(id) ==
  /\ refreshDue[id] = "refresh" /\ ~Registering(id)
  /\ refreshDue' = [refreshDue EXCEPT ![id] = "idle"]
  /\ inflight' = inflight \cup (IF manager[id] = None THEN {}
                              ELSE {Registration(id, manager[id])})
  /\ UNCHANGED <<now, ops, registered, regEpoch, snapshot>>
  /\ UNCHANGED mgrVars /\ UNCHANGED schedVars

-----------------------------------------------------------------------------
\* The scheduler, one critical section of its mutex per action.

recorded(id, v) == authGenerations' = [authGenerations EXCEPT ![id] = v]

upsertAuthLifecycleLocked(msg) ==
  IF isStaleScheduledAuth(msg.id, Version(msg.auth))
  THEN /\ UNCHANGED <<authGenerations, meta, shards, entries>>
       /\ overtaken' = IF msg.kind = "lifecycle" THEN overtaken \cup {msg.id} ELSE overtaken
  ELSE /\ recorded(msg.id, Version(msg.auth))
       /\ overtaken' = overtaken \ {msg.id}
       /\ upsertAuthForModels(msg.id, NewMeta(msg.auth, registered[msg.id], regEpoch[msg.id]),
                              Shards)

Targets(msg) == IF msg.scoped \/ msg.targets = {} THEN Shards
                ELSE msg.targets \cup {AnyModel}

\* Seeded fault: a stale result is dropped like a stale lifecycle snapshot.
StaleResultDropped(msg) ==
  IF isStaleScheduledAuth(msg.id, Version(msg.auth)) THEN UNCHANGED schedVars
  ELSE /\ recorded(msg.id, Version(msg.auth)) /\ UNCHANGED overtaken
       /\ upsertAuthForModels(msg.id, NewMeta(msg.auth, registered[msg.id], regEpoch[msg.id]),
                              Targets(msg))

\* A result that arrives late still brings the newest credential known to
\* its own shards.
upsertAuthResultLocked(msg) ==
  LET id == msg.id
      existing == meta[id]
      modelSetChanged == existing = None \/ existing.regEpoch # regEpoch[id]
      models == IF modelSetChanged THEN registered[id] ELSE existing.models
      count == Cardinality(models)
      wasBlocked == existing # None /\ isCredentialBlocked(existing.auth, count)
      everywhere == \/ modelSetChanged
                    \/ wasBlocked # isCredentialBlocked(msg.auth, count)
  IN  /\ UNCHANGED overtaken
      /\ IF isStaleScheduledAuth(id, Version(msg.auth))
         THEN /\ UNCHANGED authGenerations
              /\ IF existing = None THEN UNCHANGED <<meta, shards, entries>>
                 ELSE upsertAuthForModels(id, existing, Targets(msg))
         ELSE /\ recorded(id, Version(msg.auth))
              /\ upsertAuthForModels(id, NewMeta(msg.auth, models, regEpoch[id]),
                                     IF everywhere THEN Shards ELSE Targets(msg))

\* Seeded fault: the removal forgets the version instead of recording it.
RemovalForgets(msg) ==
  /\ recorded(msg.id, None)
  /\ meta' = [meta EXCEPT ![msg.id] = None]
  /\ entries' = [s \in Shards |-> [entries[s] EXCEPT ![msg.id] = None]]
  /\ UNCHANGED <<shards, overtaken>>

RecordRemovalTombstone(msg) ==
  LET id == msg.id
  IN  IF authGenerations[id] # None /\ msg.epoch < authGenerations[id].epoch
      THEN UNCHANGED schedVars
      ELSE /\ recorded(id, [epoch |-> msg.epoch, gen |-> 0])
           /\ meta' = [meta EXCEPT ![id] = None]
           /\ entries' = [s \in Shards |-> [entries[s] EXCEPT ![id] = None]]
           /\ UNCHANGED <<shards, overtaken>>

Deliver(msg) ==
  /\ inflight' = inflight \ {msg}
  /\ \/ msg.kind \in {"lifecycle", "registration"} /\ upsertAuthLifecycleLocked(msg)
     \/ msg.kind = "result" /\ upsertAuthResultLocked(msg)
     \/ msg.kind = "tombstone" /\ RecordRemovalTombstone(msg)
  /\ UNCHANGED <<now, ops, snapshot>> /\ UNCHANGED mgrVars /\ UNCHANGED registryVars

\* syncScheduler: a selection that found nothing rebuilds the scheduler from
\* clones it takes first.
snapshotAuths ==
  /\ Operation("rebuild") /\ snapshot = None
  /\ snapshot' = manager
  /\ UNCHANGED <<now, inflight>>
  /\ UNCHANGED mgrVars /\ UNCHANGED registryVars /\ UNCHANGED schedVars

Rebuilt(id) == snapshot[id] # None /\ ~isStaleScheduledAuth(id, Version(snapshot[id]))
rebuild ==
  /\ snapshot # None
  /\ authGenerations' = [id \in Auths |-> IF Rebuilt(id) THEN Version(snapshot[id])
                                           ELSE authGenerations[id]]
  /\ meta' = [id \in Auths |-> IF Rebuilt(id)
                               THEN NewMeta(snapshot[id], registered[id], regEpoch[id])
                               ELSE None]
  /\ shards' = {} /\ entries' = [s \in Shards |-> [id \in Auths |-> None]]
  /\ snapshot' = None
  /\ UNCHANGED <<now, ops, inflight, overtaken>>
  /\ UNCHANGED mgrVars /\ UNCHANGED registryVars

\* A selection builds the shard it needs, or looks again at the entries
\* whose time has come.
ensureModelLocked(s) ==
  /\ shards' = shards \cup {s}
  /\ entries' = [entries EXCEPT ![s] =
        [id \in Auths |-> IF s \in shards THEN Promoted(entries[s][id], s)
                          ELSE Entry(meta[id], s)]]
  /\ UNCHANGED <<now, ops, inflight, snapshot, authGenerations, meta, overtaken>>
  /\ UNCHANGED mgrVars /\ UNCHANGED registryVars

Tick ==
  /\ now < MaxTime
  /\ now' = now + 1
  /\ UNCHANGED <<ops, inflight, snapshot>>
  /\ UNCHANGED mgrVars /\ UNCHANGED registryVars /\ UNCHANGED schedVars

Next ==
  \/ \E id \in Auths, m \in Models, outcome \in Outcomes : MarkResult(id, m, outcome)
  \/ \E id \in Auths : \/ recordAvailabilityNeutralResult(id)
                       \/ ResetQuota(id) \/ Remove(id)
                       \/ ReconcileRegistryModelStates(id) \/ RefreshSchedulerEntry(id)
  \/ \E id \in Auths, expires \in Expiries : Update(id, expires) \/ Register(id, expires)
  \/ \E id \in Auths, models \in SUBSET Models : RegisterClient(id, models)
  \/ \E msg \in inflight : Deliver(msg)
  \/ snapshotAuths \/ rebuild
  \/ \E s \in Shards : ensureModelLocked(s)
  \/ Tick

Spec == Init /\ [][Next]_vars

-----------------------------------------------------------------------------
MessageSet ==
  [kind : {"lifecycle", "registration"}, id : Auths, auth : AuthSet]
  \cup [kind : {"result"}, id : Auths, auth : AuthSet, targets : SUBSET Models, scoped : BOOLEAN]
  \cup [kind : {"tombstone"}, id : Auths, epoch : Nat]

\* Every variable has its type.
TypeOK ==
  /\ now \in Nat /\ ops \in 0..MaxOps
  /\ manager \in [Auths -> AuthSet \cup {None}]
  /\ authEpochs \in [Auths -> Nat]
  /\ registered \in [Auths -> SUBSET Models] /\ regEpoch \in [Auths -> Nat]
  /\ refreshDue \in [Auths -> {"idle", "reconcile", "refresh"}]
  /\ inflight \subseteq MessageSet
  /\ snapshot \in [Auths -> AuthSet \cup {None}] \cup {None}
  /\ authGenerations \in [Auths -> VersionSet \cup {None}]
  /\ meta \in [Auths -> MetaSet \cup {None}]
  /\ shards \in SUBSET Shards
  /\ entries \in [Shards -> [Auths -> EntrySet \cup {None}]]
  /\ overtaken \subseteq Auths

\* However the clones are reordered, the scheduler never goes back to an
\* earlier version of a credential: not to an earlier incarnation, and not
\* to an earlier generation of the same one (isStaleScheduledAuth and the
\* tombstone rule together).
VersionsNeverRegress ==
  [][\A id \in Auths : authGenerations[id] # None =>
        /\ authGenerations'[id] # None
        /\ ~Older(authGenerations'[id], authGenerations[id])]_vars

Removing(id) == \E msg \in inflight : msg.kind = "tombstone" /\ msg.id = id
Unscheduled(id) == meta[id] = None /\ \A s \in Shards : entries[s][id] = None

\* Once the tombstone of a removed credential has arrived, no result, update
\* or rebuild still on its way can bring the credential back: the scheduler
\* does not know it until the manager registers it again.
RemovedStaysOut ==
  \A id \in Auths : manager[id] = None /\ ~Removing(id) => Unscheduled(id)

-----------------------------------------------------------------------------
\* Why: the epochs on their way, the ones the scheduler has recorded and the
\* manager's own are never mixed up.

\* The epochs of the incarnations the manager, a clone or the scheduler holds.
LiveEpochs(id) ==
  {msg.auth.epoch : msg \in {n \in inflight : n.id = id /\ n.kind # "tombstone"}}
    \cup (IF manager[id] = None THEN {} ELSE {manager[id].epoch})
    \cup (IF snapshot = None THEN {} ELSE
          IF snapshot[id] = None THEN {} ELSE {snapshot[id].epoch})
    \cup (IF authGenerations[id] = None THEN {} ELSE
          IF authGenerations[id].gen = 0 THEN {} ELSE {authGenerations[id].epoch})

\* Incarnations and removals take their epochs from one counter.
EpochsDistinct ==
  \A id \in Auths :
    /\ \A e \in LiveEpochs(id) :
         e <= authEpochs[id] /\ (manager[id] = None => e < authEpochs[id])
    /\ \A msg \in inflight : msg.kind = "tombstone" /\ msg.id = id =>
         /\ msg.epoch \in 1..authEpochs[id] /\ msg.epoch \notin LiveEpochs(id)
         /\ manager[id] # None => msg.epoch < authEpochs[id]
    /\ authGenerations[id] # None /\ authGenerations[id].gen = 0 =>
         /\ authGenerations[id].epoch <= authEpochs[id]
         /\ manager[id] # None => authGenerations[id].epoch < authEpochs[id]

ManagerCurrent == \A id \in Auths : manager[id] # None => manager[id].epoch = authEpochs[id]

TombstoneClears ==
  \A id \in Auths : (authGenerations[id] = None \/ authGenerations[id].gen = 0)
                     => Unscheduled(id)

RemovalRecorded ==
  \A id \in Auths :
    manager[id] = None /\ Tombstone(id, authEpochs[id]) \notin inflight =>
      IF authEpochs[id] = 0 THEN authGenerations[id] = None
      ELSE authGenerations[id] = [epoch |-> authEpochs[id], gen |-> 0]

PublicationInv == EpochsDistinct /\ ManagerCurrent /\ TombstoneClears /\ RemovalRecorded

-----------------------------------------------------------------------------
\* The scheduler and the manager agree on whom a request for s may use.
Settled(id) == refreshDue[id] = "idle" /\ \A msg \in inflight : msg.id # id
Usable(s, id, expires) ==
  /\ manager[id] # None
  /\ s = AnyModel \/ s \in registered[id]
  /\ BlockedUntil([manager[id] EXCEPT !.expires = expires], s, now) = Never

\* A result carries the newest credential, but only to its own shards; when
\* the update that brought a token comes behind such a result, it is dropped,
\* and the other shards keep the token they had.
TokenMissed(s, id) ==
  /\ id \in overtaken /\ manager[id] # None /\ entries[s][id] # None
  /\ entries[s][id].auth.expires # manager[id].expires
TokenIn(s, id) == IF TokenMissed(s, id) THEN entries[s][id].auth.expires
                                        ELSE manager[id].expires

\* When nothing about a credential is on its way to the scheduler any more,
\* every shard offers it exactly when the manager's own state allows it: no
\* order of arrival loses a cooldown or leaves the credential blocked, and
\* the token a shard goes by is the manager's, unless a result overtook the
\* update that brought it.
QuiescentAgreement ==
  \A id \in Auths : Settled(id) /\ snapshot = None =>
     \A s \in shards : Offered(s, id) <=> Usable(s, id, TokenIn(s, id))

=============================================================================
