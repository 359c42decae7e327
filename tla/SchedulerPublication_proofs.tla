--------------------- MODULE SchedulerPublication_proofs ---------------------
(***************************************************************************)
(* Proofs about SchedulerPublication, for any credentials, models and      *)
(* bounds: the type invariant, that the scheduler's versions never         *)
(* regress, that a removed credential stays out of the scheduler, and that *)
(* scheduler and manager come to agree.                                    *)
(***************************************************************************)
EXTENDS SchedulerPublication, TLAPS, WellFoundedInduction

-----------------------------------------------------------------------------
\* What the operations of the manager make of a credential.

\* The earliest of some deadlines is one of them.
LEMMA EarliestType ==
  ASSUME NEW D \in SUBSET Nat, D # {}
  PROVE  (CHOOSE d \in D : \A e \in D : d <= e) \in D
<1>1. \E d \in D : \A e \in D : ~(<<e, d>> \in OpToRel(<, Nat))
  BY NatLessThanWellFounded, WFMin
<1>2. PICK d \in D : \A e \in D : ~(<<e, d>> \in OpToRel(<, Nat))
  BY <1>1
<1>3. \A e \in D : d <= e
  <2>1. SUFFICES ASSUME NEW e \in D, e < d PROVE FALSE
    BY SMT
  <2>2. <<e, d>> \in OpToRel(<, Nat)
    BY <2>1 DEF OpToRel
  <2> QED BY <1>2, <2>2
<1> QED BY <1>3

\* Recomputing the aggregate changes no version.
LEMMA AggregatedType ==
  ASSUME now \in Nat, NEW a \in AuthSet
  PROVE  /\ updateAggregatedAvailability(a) \in AuthSet
         /\ updateAggregatedAvailability(a).epoch = a.epoch
         /\ updateAggregatedAvailability(a).gen = a.gen
<1> DEFINE deadlines == {a.until[m] : m \in Tracked(a)}
           all == deadlines # {} /\ \A d \in deadlines : d > now
           earliest == IF all THEN CHOOSE d \in deadlines : \A e \in deadlines : d <= e
                       ELSE Never
<1>1. deadlines \in SUBSET Nat
  BY NoneAssumption DEF AuthSet, Tracked
<1>2. earliest \in Nat
  <2>1. CASE all
    BY <1>1, <2>1, EarliestType
  <2>2. CASE ~all
    BY <2>2 DEF Never
  <2> QED BY <2>1, <2>2
<1>3. all \in BOOLEAN
  OBVIOUS
<1>4. updateAggregatedAvailability(a) =
        IF a.quotaUntil > now THEN [a EXCEPT !.unavailable = TRUE]
        ELSE [a EXCEPT !.unavailable = all, !.retry = earliest]
  BY DEF updateAggregatedAvailability
<1> HIDE DEF all, earliest
<1> QED BY <1>2, <1>3, <1>4 DEF AuthSet

\* An outcome keeps the version; the manager then counts one generation.
LEMMA OutcomeType ==
  ASSUME now \in Nat, NEW a \in AuthSet, NEW m \in Models, NEW outcome \in Outcomes
  PROVE  /\ Bumped(After(a, m, outcome)) \in AuthSet
         /\ Bumped(After(a, m, outcome)).epoch = a.epoch
<1> USE BoundAssumption
<1> DEFINE Good(b) == b \in AuthSet /\ b.epoch = a.epoch
<1>1. ASSUME NEW b, Good(b) PROVE Good(Bumped(b))
  BY <1>1 DEF Bumped, AuthSet
<1>2. ASSUME NEW b \in AuthSet, NEW u \in BOOLEAN, Good(b)
      PROVE  Good([b EXCEPT !.unauthorized = u])
  BY <1>2 DEF AuthSet
<1>3. Good(Succeeded(a, m))
  <2> DEFINE b == [a EXCEPT !.until[m] = Never, !.refused = @ \ {m}]
             c == updateAggregatedAvailability(b)
  <2>1. b \in AuthSet /\ b.epoch = a.epoch
    BY DEF AuthSet, Never
  <2>2. Good(c)
    BY <2>1, AggregatedType
  <2> DEFINE u == c.unauthorized /\ \E o \in Tracked(c) : c.until[o] # Never
  <2>3. Good([c EXCEPT !.unauthorized = u])
    <3>1. u \in BOOLEAN
      BY <2>2 DEF AuthSet
    <3> QED BY <1>2, <2>2, <3>1
  <2>4. Succeeded(a, m) = IF a.quotaUntil > now THEN a ELSE [c EXCEPT !.unauthorized = u]
    BY <2>2 DEF Succeeded, AuthSet
  <2> QED BY <2>3, <2>4
<1>4. ASSUME NEW u \in BOOLEAN PROVE Good(Failed(a, m, u))
  <2> DEFINE previous == IF a.until[m] = None THEN Never ELSE a.until[m]
             refused == IF u THEN a.refused \cup {m} ELSE a.refused \ {m}
             b == [a EXCEPT !.until[m] = Later(previous, now + CoolFor), !.unauthorized = u,
                            !.refused = refused]
  <2>1. previous \in Nat
    BY DEF AuthSet, Never
  <2>2. Later(previous, now + CoolFor) \in Nat
    BY <2>1 DEF Later
  <2>3. refused \in SUBSET Models
    BY DEF AuthSet
  <2> HIDE DEF refused
  <2>4. b \in AuthSet /\ b.epoch = a.epoch
    BY <1>4, <2>2, <2>3 DEF AuthSet
  <2>5. Failed(a, m, u) = updateAggregatedAvailability(b)
    BY DEF Failed, refused
  <2> QED BY <2>4, <2>5, AggregatedType
<1>5. Good(QuotaExhausted(a, m))
  <2> DEFINE before(o) == IF a.until[o] = None THEN Never ELSE a.until[o]
             until == [o \in Models |-> IF o = m \/ o \in Tracked(a)
                                       THEN Later(before(o), now + CoolFor) ELSE None]
             all == Later(a.quotaUntil, now + CoolFor)
  <2>1. until \in [Models -> Nat \cup {None}]
    <3>1. \A o \in Models : before(o) \in Nat
      BY DEF AuthSet, Never
    <3> QED BY <3>1 DEF Later
  <2>2. all \in Nat
    BY DEF AuthSet, Later
  <2>3. QuotaExhausted(a, m) =
          [a EXCEPT !.until = until, !.quotaUntil = all, !.retry = all,
                    !.unavailable = TRUE, !.unauthorized = FALSE, !.refused = @ \ {m}]
    BY DEF QuotaExhausted
  <2> HIDE DEF until, all
  <2> QED BY <2>1, <2>2, <2>3 DEF AuthSet
<1>6. Good(After(a, m, outcome))
  BY <1>3, <1>4, <1>5 DEF After, Outcomes
<1> QED BY <1>1, <1>6

\* So do the other operations, which may count more than one generation.
LEMMA UpdateType ==
  ASSUME now \in Nat, NEW a \in AuthSet
  PROVE  /\ Bumped(a) \in AuthSet /\ Bumped(a).epoch = a.epoch
         /\ \A expires \in Nat : /\ Bumped(Updated(a, expires)) \in AuthSet
                                 /\ Bumped(Updated(a, expires)).epoch = a.epoch
<1>1. ASSUME NEW expires \in Nat
      PROVE  Updated(a, expires) \in AuthSet /\ Updated(a, expires).epoch = a.epoch
  <2> DEFINE resumed == IF expires = a.expires THEN {} ELSE a.refused
             until == [m \in Models |-> IF m \in resumed THEN Never ELSE a.until[m]]
             b == [a EXCEPT !.until = until, !.refused = a.refused \ resumed,
                            !.expires = expires, !.unauthorized = FALSE,
                            !.quotaUntil = Never, !.unavailable = FALSE, !.retry = Never]
             c == IF resumed = {} THEN b ELSE updateAggregatedAvailability(b)
  <2>1. until \in [Models -> Nat \cup {None}] /\ a.refused \ resumed \in SUBSET Models
    BY DEF AuthSet, Never
  <2>2. Updated(a, expires) = IF a.quotaUntil > now
                              THEN [c EXCEPT !.quotaUntil = a.quotaUntil,
                                             !.unavailable = a.unavailable, !.retry = a.retry]
                              ELSE c
    BY DEF Updated, AuthSet
  <2> HIDE DEF until, resumed
  <2>3. b \in AuthSet /\ b.epoch = a.epoch
    BY <2>1 DEF AuthSet, Never
  <2> HIDE DEF b
  <2>4. c \in AuthSet /\ c.epoch = a.epoch
    BY <2>3, AggregatedType
  <2> HIDE DEF c
  <2> QED BY <2>2, <2>4 DEF AuthSet
<1> QED BY <1>1 DEF Bumped, AuthSet

\* A reset keeps the incarnation and counts at least one generation.
LEMMA ResetType ==
  ASSUME NEW a \in AuthSet
  PROVE  ResetTo(a) \in AuthSet /\ ResetTo(a).epoch = a.epoch
<1> DEFINE until == [m \in Models |-> IF m \in Tracked(a) THEN Never ELSE None]
           dirty == a.unavailable \/ a.retry # Never \/ a.quotaUntil # Never
           gen == a.gen + (IF dirty THEN 2 ELSE 1)
<1>1. until \in [Models -> Nat \cup {None}]
  BY DEF Never
<1>2. gen \in Nat \ {0}
  BY DEF AuthSet
<1>3. ResetTo(a) = [a EXCEPT !.gen = gen, !.until = until, !.quotaUntil = 0,
                             !.unavailable = FALSE, !.retry = 0, !.unauthorized = FALSE,
                             !.refused = {}]
  BY DEF ResetTo, AuthSet, Never
<1> HIDE DEF until, gen
<1> DEFINE b == [a EXCEPT !.until = until, !.quotaUntil = 0, !.unavailable = FALSE,
                          !.retry = 0, !.unauthorized = FALSE, !.refused = {}]
<1>4. b \in AuthSet /\ b.epoch = a.epoch
  BY <1>1 DEF AuthSet
<1>5. ResetTo(a) = [b EXCEPT !.gen = gen]
  BY <1>3 DEF AuthSet
<1> HIDE DEF b
<1> QED BY <1>2, <1>4, <1>5 DEF AuthSet

\* Reconciling with the registered models keeps the incarnation.
LEMMA ReconcileType ==
  ASSUME now \in Nat, NEW a \in AuthSet, NEW models \in SUBSET Models
  PROVE  Reconciled(a, models) \in AuthSet /\ Reconciled(a, models).epoch = a.epoch
<1> DEFINE until == [m \in Models |-> IF a.until[m] = None \/ m \notin models THEN None
                                     ELSE IF a.until[m] > now THEN a.until[m] ELSE Never]
           refused == {m \in a.refused : until[m] \notin {None, Never}}
           b == updateAggregatedAvailability([a EXCEPT !.until = until, !.refused = refused])
           u == b.unauthorized /\ \E m \in Tracked(b) : b.until[m] # Never
           c == [b EXCEPT !.unauthorized = u]
<1>1. until \in [Models -> Nat \cup {None}] /\ refused \in SUBSET Models
  BY DEF AuthSet, Never
<1>2. b \in AuthSet /\ b.epoch = a.epoch
  <2> HIDE DEF until, refused
  <2>1. /\ [a EXCEPT !.until = until, !.refused = refused] \in AuthSet
        /\ [a EXCEPT !.until = until, !.refused = refused].epoch = a.epoch
    BY <1>1 DEF AuthSet
  <2> QED BY <2>1, AggregatedType
<1>3. c \in AuthSet /\ c.epoch = a.epoch
  <2>1. u \in BOOLEAN
    BY <1>2 DEF AuthSet
  <2> QED BY <1>2, <2>1 DEF AuthSet
<1>4. Reconciled(a, models) = IF until = a.until THEN a ELSE Bumped(c)
  BY <1>2 DEF Reconciled, AuthSet
<1> QED BY <1>3, <1>4, UpdateType

\* A newly registered credential is of the first generation.
LEMMA FreshType ==
  ASSUME NEW epoch \in Nat, NEW expires \in Expiries
  PROVE  Fresh(epoch, expires) \in AuthSet /\ Fresh(epoch, expires).epoch = epoch
BY ExpiryAssumption DEF Fresh, AuthSet, Never
-----------------------------------------------------------------------------
\* What the scheduler makes of a credential.

\* The time a credential is blocked until is a time.
LEMMA BlockedUntilType ==
  ASSUME NEW a \in AuthSet, NEW s \in Shards, NEW t \in Nat
  PROVE  BlockedUntil(a, s, t) \in Nat /\ CooldownUntil(a, s, t) \in Nat
<1>1. Forever \in Nat
  BY BoundAssumption DEF Forever
<1>2. ASSUME s \in Tracked(a) PROVE a.until[s] \in Nat
  BY <1>2 DEF Tracked, AuthSet
<1> QED BY <1>1, <1>2 DEF BlockedUntil, CooldownUntil, AuthSet, Never

\* What a shard keeps of a credential is an entry, or nothing.
LEMMA EntryType ==
  ASSUME now \in Nat, NEW mt \in MetaSet \cup {None}, NEW s \in Shards
  PROVE  Entry(mt, s) \in EntrySet \cup {None}
<1>1. CASE mt # None /\ Supports(mt, s)
  <2>1. mt.auth \in AuthSet
    BY <1>1 DEF MetaSet
  <2>2. BlockedUntil(mt.auth, s, now) \in Nat
    BY <2>1, BlockedUntilType
  <2> QED BY <1>1, <2>1, <2>2 DEF Entry, EntrySet
<1>2. CASE ~(mt # None /\ Supports(mt, s))
  BY <1>2 DEF Entry
<1> QED BY <1>1, <1>2

\* Looking again at an entry gives an entry.
LEMMA PromotedType ==
  ASSUME now \in Nat, NEW e \in EntrySet \cup {None}, NEW s \in Shards
  PROVE  Promoted(e, s) \in EntrySet \cup {None}
<1>1. ASSUME e # None PROVE BlockedUntil(e.auth, s, now) \in Nat
  BY <1>1, BlockedUntilType DEF EntrySet
<1>2. ASSUME e # None, NEW t \in Nat PROVE [e EXCEPT !.until = t] \in EntrySet
  BY <1>2 DEF EntrySet
<1> QED BY <1>1, <1>2 DEF Promoted

\* What the scheduler keeps of a credential has its type.
LEMMA NewMetaType ==
  ASSUME NEW a \in AuthSet, NEW models \in SUBSET Models, NEW epoch \in Nat
  PROVE  NewMeta(a, models, epoch) \in MetaSet
BY DEF NewMeta, MetaSet

\* The version of a credential has a generation, unlike a tombstone's.
LEMMA VersionType ==
  ASSUME NEW a \in AuthSet
  PROVE  /\ Version(a) \in VersionSet
         /\ Version(a).epoch = a.epoch /\ Version(a).gen = a.gen /\ Version(a).gen > 0
BY DEF Version, VersionSet, AuthSet

SchedTypeOK ==
  /\ authGenerations \in [Auths -> VersionSet \cup {None}]
  /\ meta \in [Auths -> MetaSet \cup {None}]
  /\ shards \in SUBSET Shards
  /\ entries \in [Shards -> [Auths -> EntrySet \cup {None}]]
  /\ overtaken \subseteq Auths

\* Replacing a credential's entries keeps the types of the scheduler.
LEMMA UpsertType ==
  ASSUME TypeOK, NEW id \in Auths, NEW mt \in MetaSet, NEW targets \in SUBSET Shards,
         upsertAuthForModels(id, mt, targets)
  PROVE  /\ meta' \in [Auths -> MetaSet \cup {None}]
         /\ shards' \in SUBSET Shards
         /\ entries' \in [Shards -> [Auths -> EntrySet \cup {None}]]
<1>1. ASSUME NEW s \in Shards PROVE Entry(mt, s) \in EntrySet \cup {None}
  BY EntryType DEF TypeOK
<1>2. entries' \in [Shards -> [Auths -> EntrySet \cup {None}]]
  <2>1. ASSUME NEW s \in Shards
        PROVE  [entries[s] EXCEPT ![id] = Entry(mt, s)] \in [Auths -> EntrySet \cup {None}]
    BY <1>1 DEF TypeOK
  <2>2. ASSUME NEW s \in Shards PROVE entries[s] \in [Auths -> EntrySet \cup {None}]
    BY DEF TypeOK
  <2> QED BY <2>1, <2>2 DEF upsertAuthForModels
<1> QED BY <1>2 DEF upsertAuthForModels, TypeOK

-----------------------------------------------------------------------------
\* Type correctness.

\* The messages of each kind are messages.
LEMMA MessageTypes ==
  /\ \A id \in Auths, a \in AuthSet : /\ Lifecycle(id, a) \in MessageSet
                                     /\ Registration(id, a) \in MessageSet
  /\ \A id \in Auths, a \in AuthSet, targets \in SUBSET Models, scoped \in BOOLEAN :
        ResultOf(id, a, targets, scoped) \in MessageSet
  /\ \A id \in Auths, epoch \in Nat : Tombstone(id, epoch) \in MessageSet
BY DEF Lifecycle, Registration, ResultOf, Tombstone, MessageSet

\* The scheduler and the manager start with their types.
LEMMA InitTypeOK == Init => TypeOK
<1> SUFFICES ASSUME NEW token \in [Auths -> Expiries], InitWith(token) PROVE TypeOK
  BY DEF Init
<1>1. \A id \in Auths : Fresh(1, token[id]) \in AuthSet
  BY FreshType
<1>2. \A id \in Auths : NewMeta(Fresh(1, token[id]), Models, 1) \in MetaSet
  BY <1>1, NewMetaType
<1>3. [epoch |-> 1, gen |-> 1] \in VersionSet
  BY DEF VersionSet
<1> QED BY <1>1, <1>2, <1>3, BoundAssumption DEF InitWith, TypeOK

\* An operation of the manager: it changes one credential and sends one
\* message about it.
LEMMA PublishType ==
  ASSUME TypeOK, NEW op, Operation(op), NEW id \in Auths, NEW a \in AuthSet,
         NEW msg \in MessageSet,
         manager' = [manager EXCEPT ![id] = a], inflight' = inflight \cup {msg},
         UNCHANGED <<now, authEpochs, snapshot>>, UNCHANGED registryVars, UNCHANGED schedVars
  PROVE  TypeOK'
BY BoundAssumption DEF TypeOK, Operation, registryVars, schedVars

\* A delivery keeps the types, whatever arrives.
LEMMA DeliverType ==
  ASSUME TypeOK, NEW msg \in inflight, Deliver(msg)
  PROVE  SchedTypeOK'
<1> USE DEF SchedTypeOK
<1>0. msg \in MessageSet
  BY DEF TypeOK
<1>1. CASE msg.kind \in {"lifecycle", "registration"} /\ upsertAuthLifecycleLocked(msg)
  <2>1. msg.id \in Auths /\ msg.auth \in AuthSet
    BY <1>0, <1>1 DEF MessageSet
  <2>2. CASE /\ UNCHANGED <<authGenerations, meta, shards, entries>>
             /\ overtaken' \in {overtaken, overtaken \cup {msg.id}}
    BY <2>1, <2>2 DEF TypeOK
  <2>3. CASE /\ recorded(msg.id, Version(msg.auth))
             /\ overtaken' = overtaken \ {msg.id}
             /\ upsertAuthForModels(msg.id, NewMeta(msg.auth, registered[msg.id], regEpoch[msg.id]),
                                    Shards)
    <3>1. NewMeta(msg.auth, registered[msg.id], regEpoch[msg.id]) \in MetaSet
      BY <2>1, NewMetaType DEF TypeOK
    <3>2. authGenerations' \in [Auths -> VersionSet \cup {None}]
      BY <2>1, <2>3, VersionType DEF recorded, TypeOK
    <3>3. overtaken' \subseteq Auths
      BY <2>3 DEF TypeOK
    <3> QED BY <2>1, <2>3, <3>1, <3>2, <3>3, UpsertType
  <2> QED BY <1>1, <2>2, <2>3 DEF upsertAuthLifecycleLocked
<1>2. CASE msg.kind = "result" /\ upsertAuthResultLocked(msg)
  <2> DEFINE id == msg.id
             models == IF meta[id] = None \/ meta[id].regEpoch # regEpoch[id]
                       THEN registered[id] ELSE meta[id].models
  <2>1. id \in Auths /\ msg.auth \in AuthSet /\ msg.targets \subseteq Models
    BY <1>0, <1>2 DEF MessageSet
  <2>2. Targets(msg) \subseteq Shards
    BY <2>1 DEF Targets, Shards
  <2>3. CASE UNCHANGED schedVars
    BY <2>3 DEF TypeOK, schedVars
  <2>4. CASE /\ UNCHANGED <<authGenerations, overtaken>> /\ meta[id] # None
             /\ upsertAuthForModels(id, meta[id], Targets(msg))
    <3>1. meta[id] \in MetaSet
      BY <2>1, <2>4 DEF TypeOK
    <3> QED BY <2>1, <2>2, <2>4, <3>1, UpsertType DEF TypeOK
  <2>5. CASE /\ recorded(id, Version(msg.auth)) /\ UNCHANGED overtaken
             /\ \E targets \in SUBSET Shards :
                   upsertAuthForModels(id, NewMeta(msg.auth, models, regEpoch[id]), targets)
    <3>1. models \in SUBSET Models
      BY <2>1 DEF TypeOK, MetaSet
    <3>2. NewMeta(msg.auth, models, regEpoch[id]) \in MetaSet
      BY <2>1, <3>1, NewMetaType DEF TypeOK
    <3>3. authGenerations' \in [Auths -> VersionSet \cup {None}]
      BY <2>1, <2>5, VersionType DEF recorded, TypeOK
    <3> QED BY <2>1, <2>5, <3>2, <3>3, UpsertType DEF TypeOK
  <2> QED BY <1>2, <2>2, <2>3, <2>4, <2>5 DEF upsertAuthResultLocked, schedVars
<1>3. CASE msg.kind = "tombstone" /\ RecordRemovalTombstone(msg)
  <2>1. msg.id \in Auths /\ msg.epoch \in Nat
    BY <1>0, <1>3 DEF MessageSet
  <2>2. [epoch |-> msg.epoch, gen |-> 0] \in VersionSet
    BY <2>1 DEF VersionSet
  <2>3. CASE UNCHANGED schedVars
    BY <2>3 DEF TypeOK, schedVars
  <2>4. CASE ~UNCHANGED schedVars
    <3>1. recorded(msg.id, [epoch |-> msg.epoch, gen |-> 0])
      BY <1>3, <2>4 DEF RecordRemovalTombstone
    <3>2. /\ meta' = [meta EXCEPT ![msg.id] = None]
          /\ entries' = [s \in Shards |-> [entries[s] EXCEPT ![msg.id] = None]]
          /\ shards' = shards /\ overtaken' = overtaken
      BY <1>3, <2>4 DEF RecordRemovalTombstone
    <3>3. authGenerations' \in [Auths -> VersionSet \cup {None}]
      BY <2>1, <2>2, <3>1 DEF recorded, TypeOK
    <3>4. entries' \in [Shards -> [Auths -> EntrySet \cup {None}]]
      <4>1. ASSUME NEW s \in Shards
            PROVE  [entries[s] EXCEPT ![msg.id] = None] \in [Auths -> EntrySet \cup {None}]
        BY DEF TypeOK
      <4> QED BY <3>2, <4>1
    <3> QED BY <3>2, <3>3, <3>4 DEF TypeOK
  <2> QED BY <2>3, <2>4
<1> QED BY <1>1, <1>2, <1>3 DEF Deliver

\* A rebuild keeps the types of the scheduler.
LEMMA RebuildType ==
  ASSUME TypeOK, rebuild
  PROVE  SchedTypeOK'
<1>1. ASSUME NEW id \in Auths, Rebuilt(id)
      PROVE  /\ snapshot[id] \in AuthSet
             /\ Version(snapshot[id]) \in VersionSet
             /\ NewMeta(snapshot[id], registered[id], regEpoch[id]) \in MetaSet
  <2>1. snapshot[id] \in AuthSet
    BY <1>1 DEF Rebuilt, rebuild, TypeOK
  <2> QED BY <2>1, NewMetaType, VersionType DEF TypeOK
<1>2. authGenerations' \in [Auths -> VersionSet \cup {None}]
  BY <1>1 DEF rebuild, TypeOK
<1>3. meta' \in [Auths -> MetaSet \cup {None}]
  BY <1>1 DEF rebuild
<1> QED BY <1>2, <1>3 DEF rebuild, SchedTypeOK, TypeOK

\* Building or revisiting a shard keeps the types of the scheduler.
LEMMA ShardType ==
  ASSUME TypeOK, NEW s \in Shards, ensureModelLocked(s)
  PROVE  SchedTypeOK'
<1> DEFINE new == [id \in Auths |-> IF s \in shards THEN Promoted(entries[s][id], s)
                                   ELSE Entry(meta[id], s)]
<1>1. new \in [Auths -> EntrySet \cup {None}]
  BY EntryType, PromotedType DEF TypeOK
<1>2. entries' = [entries EXCEPT ![s] = new]
  BY DEF ensureModelLocked
<1> HIDE DEF new
<1> QED BY <1>1, <1>2 DEF ensureModelLocked, SchedTypeOK, TypeOK

\* Every step keeps the types.
LEMMA NextTypeOK == TypeOK /\ [Next]_vars => TypeOK'
<1> SUFFICES ASSUME TypeOK, [Next]_vars PROVE TypeOK'
  OBVIOUS
<1>1. ASSUME NEW id \in Auths, NEW m \in Models, NEW outcome \in Outcomes,
             MarkResult(id, m, outcome)
      PROVE  TypeOK'
  <2> DEFINE a == Bumped(After(manager[id], m, outcome))
             scoped == outcome = "credentialQuota"
             msg == ResultOf(id, a, IF scoped THEN {} ELSE {m}, scoped)
  <2>1. manager[id] \in AuthSet
    BY <1>1 DEF MarkResult, TypeOK
  <2>2. a \in AuthSet
    BY <2>1, OutcomeType DEF TypeOK
  <2>3. msg \in MessageSet
    BY <2>2, MessageTypes
  <2>4. /\ Operation(outcome) /\ manager' = [manager EXCEPT ![id] = a]
        /\ inflight' = inflight \cup {msg}
        /\ UNCHANGED <<now, authEpochs, snapshot>> /\ UNCHANGED registryVars
        /\ UNCHANGED schedVars
    BY <1>1 DEF MarkResult
  <2> HIDE DEF a, msg
  <2> QED BY <2>2, <2>3, <2>4, PublishType
<1>2. ASSUME NEW id \in Auths, recordAvailabilityNeutralResult(id) PROVE TypeOK'
  <2>1. manager[id] \in AuthSet
    BY <1>2 DEF recordAvailabilityNeutralResult, TypeOK
  <2>2. Bumped(manager[id]) \in AuthSet
    BY <2>1, UpdateType DEF TypeOK
  <2> QED BY <1>2, <2>2, BoundAssumption
      DEF recordAvailabilityNeutralResult, TypeOK, Operation, registryVars, schedVars
<1>3. ASSUME NEW id \in Auths, NEW expires \in Expiries, Update(id, expires) PROVE TypeOK'
  <2> DEFINE a == Bumped(Updated(manager[id], expires))
  <2>1. a \in AuthSet
    <3>1. manager[id] \in AuthSet /\ expires \in Nat
      BY <1>3, ExpiryAssumption DEF Update, TypeOK
    <3> QED BY <3>1, UpdateType DEF TypeOK
  <2>2. Lifecycle(id, a) \in MessageSet
    BY <2>1, MessageTypes
  <2> QED BY <1>3, <2>1, <2>2, PublishType DEF Update
<1>4. ASSUME NEW id \in Auths, ResetQuota(id) PROVE TypeOK'
  <2> DEFINE a == ResetTo(manager[id])
  <2>1. a \in AuthSet
    <3>1. manager[id] \in AuthSet
      BY <1>4 DEF ResetQuota, TypeOK
    <3> QED BY <3>1, ResetType
  <2>2. Lifecycle(id, a) \in MessageSet
    BY <2>1, MessageTypes
  <2> QED BY <1>4, <2>1, <2>2, PublishType DEF ResetQuota
<1>5. ASSUME NEW id \in Auths, NEW expires \in Expiries, Register(id, expires) PROVE TypeOK'
  <2> DEFINE a == Fresh(authEpochs[id] + 1, expires)
  <2>1. a \in AuthSet /\ a.epoch \in Nat
    BY FreshType DEF TypeOK
  <2>2. Lifecycle(id, a) \in MessageSet
    BY <2>1, MessageTypes
  <2> QED BY <1>5, <2>1, <2>2, BoundAssumption
      DEF Register, TypeOK, Operation, registryVars, schedVars
<1>6. ASSUME NEW id \in Auths, Remove(id) PROVE TypeOK'
  <2>1. Tombstone(id, authEpochs[id] + 1) \in MessageSet
    BY MessageTypes DEF TypeOK
  <2> QED BY <1>6, <2>1, BoundAssumption
      DEF Remove, TypeOK, Operation, registryVars, schedVars
<1>7. ASSUME NEW id \in Auths, ReconcileRegistryModelStates(id) PROVE TypeOK'
  <2> DEFINE a == Reconciled(manager[id], registered[id])
  <2>1. CASE manager[id] = None
    BY <1>7, <2>1 DEF ReconcileRegistryModelStates, TypeOK, schedVars
  <2>2. CASE manager[id] # None
    <3>1. manager[id] \in AuthSet
      BY <2>2 DEF TypeOK
    <3>2. a \in AuthSet
      BY <3>1, ReconcileType DEF TypeOK
    <3>3. Registration(id, a) \in MessageSet
      BY <3>2, MessageTypes
    <3> QED BY <1>7, <2>2, <3>2, <3>3 DEF ReconcileRegistryModelStates, TypeOK, schedVars
  <2> QED BY <2>1, <2>2
<1>8. ASSUME NEW id \in Auths, RefreshSchedulerEntry(id) PROVE TypeOK'
  <2>1. manager[id] # None => Registration(id, manager[id]) \in MessageSet
    BY MessageTypes DEF TypeOK
  <2> QED BY <1>8, <2>1 DEF RefreshSchedulerEntry, TypeOK, mgrVars, schedVars
<1>9. ASSUME NEW id \in Auths, NEW models \in SUBSET Models, RegisterClient(id, models)
      PROVE  TypeOK'
  BY <1>9, BoundAssumption DEF RegisterClient, TypeOK, Operation, mgrVars, schedVars
<1>10. ASSUME NEW msg \in inflight, Deliver(msg) PROVE TypeOK'
  BY <1>10, DeliverType DEF Deliver, SchedTypeOK, TypeOK, mgrVars, registryVars
<1>11. ASSUME snapshotAuths PROVE TypeOK'
  BY <1>11, BoundAssumption
     DEF snapshotAuths, TypeOK, Operation, mgrVars, registryVars, schedVars
<1>12. ASSUME rebuild PROVE TypeOK'
  BY <1>12, RebuildType DEF rebuild, SchedTypeOK, TypeOK, mgrVars, registryVars
<1>13. ASSUME NEW s \in Shards, ensureModelLocked(s) PROVE TypeOK'
  BY <1>13, ShardType DEF ensureModelLocked, SchedTypeOK, TypeOK, mgrVars, registryVars
<1>14. ASSUME Tick PROVE TypeOK'
  BY <1>14 DEF Tick, TypeOK, mgrVars, registryVars, schedVars
<1>15. ASSUME UNCHANGED vars PROVE TypeOK'
  BY <1>15 DEF vars, TypeOK
<1> QED BY <1>1, <1>2, <1>3, <1>4, <1>5, <1>6, <1>7, <1>8, <1>9, <1>10, <1>11, <1>12,
           <1>13, <1>14, <1>15 DEF Next

\* Every variable always has its type, whatever order the clones arrive in.
THEOREM TypeCorrect == Spec => []TypeOK
<1> QED BY InitTypeOK, NextTypeOK, PTL DEF Spec

-----------------------------------------------------------------------------
\* The invariant behind the safety properties.

\* Nothing is on its way at startup.
LEMMA InitPublicationInv == Init => PublicationInv
<1> SUFFICES ASSUME NEW token \in [Auths -> Expiries], InitWith(token) PROVE PublicationInv
  BY DEF Init
<1>1. ASSUME NEW id \in Auths
      PROVE  Fresh(1, token[id]).epoch = 1 /\ Fresh(1, token[id]) # None
  BY FreshType, NoneAssumption
<1>2. [epoch |-> 1, gen |-> 1] # None
  BY NoneAssumption DEF VersionSet
<1>3. EpochsDistinct
  <2>1. ASSUME NEW id \in Auths, id \in Loaded PROVE LiveEpochs(id) = {1} /\ authEpochs[id] = 1
    BY <1>1, <1>2, <2>1 DEF InitWith, LiveEpochs
  <2>2. ASSUME NEW id \in Auths, id \notin Loaded
        PROVE  LiveEpochs(id) = {} /\ authEpochs[id] = 0
    BY <2>2 DEF InitWith, LiveEpochs
  <2> QED BY <1>1, <1>2, <2>1, <2>2 DEF InitWith, EpochsDistinct
<1>4. ManagerCurrent
  BY <1>1 DEF InitWith, ManagerCurrent
<1>5. TombstoneClears
  BY <1>2 DEF InitWith, TombstoneClears, Unscheduled
<1>6. RemovalRecorded
  BY <1>1 DEF InitWith, RemovalRecorded
<1> QED BY <1>3, <1>4, <1>5, <1>6 DEF PublicationInv

\* The scheduler records a version it does not hold for stale.
Advanced(id) ==
  /\ authGenerations'[id] # None /\ authGenerations'[id].gen > 0
  /\ authGenerations'[id].epoch \in LiveEpochs(id)
  /\ authGenerations[id] # None => ~Older(authGenerations'[id], authGenerations[id])

\* A step that registers and removes nothing, and delivers no tombstone.
SameIncarnations ==
  /\ authEpochs' = authEpochs
  /\ \A id \in Auths : /\ manager'[id] = None <=> manager[id] = None
                       /\ manager[id] # None => manager'[id].epoch = manager[id].epoch
                       /\ LiveEpochs(id)' \subseteq LiveEpochs(id)
  /\ \A msg : msg.kind = "tombstone" => (msg \in inflight' <=> msg \in inflight)
  /\ \A id \in Auths : \/ Advanced(id)
                       \/ /\ authGenerations'[id] = authGenerations[id]
                          /\ Unscheduled(id) => Unscheduled(id)'

\* Such a step keeps the invariant.
LEMMA SameIncarnationsKeepInv ==
  ASSUME TypeOK, TypeOK', PublicationInv, SameIncarnations
  PROVE  PublicationInv'
<1> USE DEF PublicationInv, SameIncarnations
<1>1. EpochsDistinct'
  <2> SUFFICES ASSUME NEW id \in Auths
      PROVE  /\ \A e \in LiveEpochs(id)' :
                  e <= authEpochs'[id] /\ (manager'[id] = None => e < authEpochs'[id])
             /\ \A msg \in inflight' : msg.kind = "tombstone" /\ msg.id = id =>
                  /\ msg.epoch \in 1..authEpochs'[id] /\ msg.epoch \notin LiveEpochs(id)'
                  /\ manager'[id] # None => msg.epoch < authEpochs'[id]
             /\ authGenerations'[id] # None /\ authGenerations'[id].gen = 0 =>
                  /\ authGenerations'[id].epoch <= authEpochs'[id]
                  /\ manager'[id] # None => authGenerations'[id].epoch < authEpochs'[id]
    BY DEF EpochsDistinct
  <2>1. \A e \in LiveEpochs(id)' :
          e <= authEpochs'[id] /\ (manager'[id] = None => e < authEpochs'[id])
    BY DEF EpochsDistinct
  <2>2. \A msg \in inflight' : msg.kind = "tombstone" /\ msg.id = id =>
          /\ msg.epoch \in 1..authEpochs'[id] /\ msg.epoch \notin LiveEpochs(id)'
          /\ manager'[id] # None => msg.epoch < authEpochs'[id]
    BY DEF EpochsDistinct
  <2>3. authGenerations'[id] # None /\ authGenerations'[id].gen = 0 =>
          /\ authGenerations'[id].epoch <= authEpochs'[id]
          /\ manager'[id] # None => authGenerations'[id].epoch < authEpochs'[id]
    BY DEF EpochsDistinct, Advanced
  <2> QED BY <2>1, <2>2, <2>3
<1>2. ManagerCurrent'
  BY DEF ManagerCurrent
<1>3. TombstoneClears'
  <2> SUFFICES ASSUME NEW id \in Auths,
                      authGenerations'[id] = None \/ authGenerations'[id].gen = 0
               PROVE  Unscheduled(id)'
    BY DEF TombstoneClears
  <2> QED BY DEF TombstoneClears, Advanced
<1>4. RemovalRecorded'
  <2> SUFFICES ASSUME NEW id \in Auths, manager'[id] = None,
                      Tombstone(id, authEpochs'[id]) \notin inflight'
               PROVE  IF authEpochs'[id] = 0 THEN authGenerations'[id] = None
                      ELSE authGenerations'[id] = [epoch |-> authEpochs'[id], gen |-> 0]
    BY DEF RemovalRecorded
  <2>1. manager[id] = None /\ Tombstone(id, authEpochs[id]) \notin inflight
    BY DEF Tombstone
  <2>2. \A e \in LiveEpochs(id) : e < authEpochs[id]
    BY <2>1 DEF EpochsDistinct
  <2>3. IF authEpochs[id] = 0 THEN authGenerations[id] = None
        ELSE authGenerations[id] = [epoch |-> authEpochs[id], gen |-> 0]
    BY <2>1 DEF RemovalRecorded
  <2>4. authEpochs[id] \in Nat
    BY DEF TypeOK
  <2>5. ASSUME Advanced(id) PROVE FALSE
    <3>1. /\ authGenerations'[id] \in VersionSet
          /\ authGenerations'[id].epoch < authEpochs[id]
      BY <2>2, <2>5 DEF Advanced, TypeOK
    <3>2. authGenerations'[id].epoch \in Nat
      BY <3>1 DEF VersionSet
    <3>3. CASE authEpochs[id] = 0
      BY <3>1, <3>2, <3>3
    <3>4. CASE authEpochs[id] # 0
      <4>1. /\ authGenerations[id] # None /\ authGenerations[id].epoch = authEpochs[id]
        BY <2>3, <2>4, <3>4, NoneAssumption DEF VersionSet
      <4> QED BY <2>4, <2>5, <3>1, <3>2, <4>1 DEF Advanced, Older
    <3> QED BY <3>3, <3>4
  <2> QED BY <2>3, <2>5
<1> QED BY <1>1, <1>2, <1>3, <1>4

\* An operation that publishes the credential it has changed.
LEMMA PublishKeepsInv ==
  ASSUME TypeOK, TypeOK', PublicationInv, NEW id \in Auths, manager[id] # None,
         NEW a \in AuthSet, a.epoch = manager[id].epoch,
         NEW msg, msg.kind # "tombstone", msg.id = id, msg.auth = a,
         manager' = [manager EXCEPT ![id] = a],
         inflight' = inflight \cup {msg} \/ inflight' = inflight,
         UNCHANGED <<authEpochs, snapshot>>, UNCHANGED schedVars
  PROVE  PublicationInv'
<1>1. a # None
  BY NoneAssumption
<1>2. /\ manager'[id] = a
      /\ \A other \in Auths : other # id => manager'[other] = manager[other]
  BY DEF TypeOK
<1>3. ASSUME NEW o \in Auths PROVE LiveEpochs(o)' \subseteq LiveEpochs(o)
  <2>1. CASE o = id
    BY <1>1, <1>2, <2>1 DEF LiveEpochs, schedVars
  <2>2. CASE o # id
    BY <1>2, <2>2 DEF LiveEpochs, schedVars
  <2> QED BY <2>1, <2>2
<1>4. SameIncarnations
  BY <1>1, <1>2, <1>3 DEF SameIncarnations, schedVars, Unscheduled
<1> QED BY <1>4, SameIncarnationsKeepInv

\* The deliveries of clones.

\* An upsert leaves the other credentials as they are.
LEMMA UpsertShape ==
  ASSUME TypeOK, NEW id \in Auths, NEW mt \in MetaSet, NEW targets \in SUBSET Shards,
         upsertAuthForModels(id, mt, targets)
  PROVE  \A o \in Auths : o # id /\ Unscheduled(o) => Unscheduled(o)'
BY DEF upsertAuthForModels, TypeOK, Unscheduled

\* A delivered clone changes one credential, and only when it is not stale.
LEMMA CloneDelivery ==
  ASSUME TypeOK, NEW msg \in inflight, Deliver(msg), msg.kind # "tombstone"
  PROVE  /\ msg.id \in Auths /\ msg.auth \in AuthSet
         /\ \A o \in Auths : o # msg.id =>
              /\ authGenerations'[o] = authGenerations[o]
              /\ Unscheduled(o) => Unscheduled(o)'
         /\ \/ /\ authGenerations'[msg.id] = authGenerations[msg.id]
               /\ Unscheduled(msg.id) => Unscheduled(msg.id)'
            \/ /\ authGenerations'[msg.id] = Version(msg.auth)
               /\ ~isStaleScheduledAuth(msg.id, Version(msg.auth))
<1> DEFINE id == msg.id
<1>0. id \in Auths /\ msg.auth \in AuthSet
  BY DEF TypeOK, MessageSet
<1>1. CASE msg.kind \in {"lifecycle", "registration"} /\ upsertAuthLifecycleLocked(msg)
  <2>1. CASE isStaleScheduledAuth(id, Version(msg.auth))
    BY <1>0, <1>1, <2>1 DEF upsertAuthLifecycleLocked, schedVars, Unscheduled
  <2>2. CASE ~isStaleScheduledAuth(id, Version(msg.auth))
    <3>1. NewMeta(msg.auth, registered[id], regEpoch[id]) \in MetaSet
      BY <1>0, NewMetaType DEF TypeOK
    <3>2. /\ recorded(id, Version(msg.auth))
          /\ upsertAuthForModels(id, NewMeta(msg.auth, registered[id], regEpoch[id]), Shards)
      BY <1>1, <2>2 DEF upsertAuthLifecycleLocked
    <3>3. \A o \in Auths : o # id /\ Unscheduled(o) => Unscheduled(o)'
      BY <1>0, <3>1, <3>2, UpsertShape
    <3> QED BY <1>0, <2>2, <3>2, <3>3 DEF recorded, TypeOK
  <2> QED BY <2>1, <2>2
<1>2. CASE msg.kind = "result" /\ upsertAuthResultLocked(msg)
  <2> DEFINE models == IF meta[id] = None \/ meta[id].regEpoch # regEpoch[id]
                       THEN registered[id] ELSE meta[id].models
  <2>0. Targets(msg) \in SUBSET Shards
    BY <1>0, <1>2 DEF Targets, Shards, TypeOK, MessageSet
  <2>1. CASE isStaleScheduledAuth(id, Version(msg.auth)) /\ meta[id] = None
    BY <1>0, <1>2, <2>1 DEF upsertAuthResultLocked, Unscheduled
  <2>2. CASE isStaleScheduledAuth(id, Version(msg.auth)) /\ meta[id] # None
    <3>1. /\ UNCHANGED authGenerations
          /\ upsertAuthForModels(id, meta[id], Targets(msg))
      BY <1>2, <2>2 DEF upsertAuthResultLocked
    <3>2. meta[id] \in MetaSet
      BY <1>0, <2>2 DEF TypeOK
    <3>3. \A o \in Auths : o # id /\ Unscheduled(o) => Unscheduled(o)'
      BY <1>0, <2>0, <3>1, <3>2, UpsertShape
    <3>4. ~Unscheduled(id)
      BY <2>2 DEF Unscheduled
    <3> QED BY <1>0, <3>1, <3>3, <3>4
  <2>3. CASE ~isStaleScheduledAuth(id, Version(msg.auth))
    <3>1. models \in SUBSET Models
      BY <1>0 DEF TypeOK, MetaSet
    <3>2. NewMeta(msg.auth, models, regEpoch[id]) \in MetaSet
      BY <1>0, <3>1, NewMetaType DEF TypeOK
    <3>3. PICK targets \in SUBSET Shards :
            upsertAuthForModels(id, NewMeta(msg.auth, models, regEpoch[id]), targets)
      BY <1>2, <2>0, <2>3 DEF upsertAuthResultLocked
    <3>4. recorded(id, Version(msg.auth))
      BY <1>2, <2>3 DEF upsertAuthResultLocked
    <3>5. \A o \in Auths : o # id /\ Unscheduled(o) => Unscheduled(o)'
      BY <1>0, <3>2, <3>3, UpsertShape
    <3> QED BY <1>0, <2>3, <3>4, <3>5 DEF recorded, TypeOK
  <2> QED BY <2>1, <2>2, <2>3
<1> QED BY <1>1, <1>2 DEF Deliver

\* The delivery of a clone keeps the invariant.
LEMMA CloneDeliveryKeepsInv ==
  ASSUME TypeOK, TypeOK', PublicationInv, NEW msg \in inflight, Deliver(msg),
         msg.kind # "tombstone"
  PROVE  PublicationInv'
<1> DEFINE id == msg.id
<1>1. /\ inflight' = inflight \ {msg}
      /\ manager' = manager /\ authEpochs' = authEpochs /\ snapshot' = snapshot
  BY DEF Deliver, mgrVars
<1>2. id \in Auths /\ msg.auth \in AuthSet
  BY CloneDelivery
<1>3. \A o \in Auths : o # id =>
        /\ authGenerations'[o] = authGenerations[o]
        /\ Unscheduled(o) => Unscheduled(o)'
  BY CloneDelivery
<1>4. CASE /\ authGenerations'[id] = authGenerations[id]
           /\ Unscheduled(id) => Unscheduled(id)'
  <2>1. \A o \in Auths : LiveEpochs(o)' \subseteq LiveEpochs(o)
    BY <1>1, <1>3, <1>4 DEF LiveEpochs
  <2> QED BY <1>1, <1>3, <1>4, <2>1, SameIncarnationsKeepInv DEF SameIncarnations
<1>5. CASE /\ authGenerations'[id] = Version(msg.auth)
           /\ ~isStaleScheduledAuth(id, Version(msg.auth))
  <2>1. msg.auth.epoch \in LiveEpochs(id)
    BY DEF LiveEpochs
  <2>2. /\ Version(msg.auth) # None /\ Version(msg.auth).gen > 0
        /\ Version(msg.auth).epoch = msg.auth.epoch
    BY <1>2, VersionType, NoneAssumption
  <2>3. Advanced(id)
    BY <1>5, <2>1, <2>2 DEF Advanced, isStaleScheduledAuth
  <2>4. \A o \in Auths : LiveEpochs(o)' \subseteq LiveEpochs(o)
    BY <1>1, <1>3, <1>5, <2>1, <2>2 DEF LiveEpochs
  <2> QED BY <1>1, <1>3, <2>3, <2>4, SameIncarnationsKeepInv DEF SameIncarnations
<1> QED BY <1>4, <1>5, CloneDelivery

\* A tombstone that arrives late, after its credential was registered again
\* and removed again, changes nothing; any other wipes the credential.
LEMMA TombstoneKeepsInv ==
  ASSUME TypeOK, TypeOK', PublicationInv, NEW msg \in inflight, Deliver(msg),
         msg.kind = "tombstone"
  PROVE  /\ PublicationInv'
         /\ \A o \in Auths : authGenerations[o] # None =>
              /\ authGenerations'[o] # None
              /\ ~Older(authGenerations'[o], authGenerations[o])
<1> DEFINE id == msg.id
           stone == [epoch |-> msg.epoch, gen |-> 0]
<1>1. /\ inflight' = inflight \ {msg}
      /\ manager' = manager /\ authEpochs' = authEpochs /\ snapshot' = snapshot
      /\ RecordRemovalTombstone(msg)
  BY DEF Deliver, mgrVars
<1>2. /\ id \in Auths /\ msg.epoch \in Nat /\ msg = Tombstone(id, msg.epoch)
  BY DEF TypeOK, MessageSet, Tombstone
<1>3. /\ msg.epoch \in 1..authEpochs[id] /\ msg.epoch \notin LiveEpochs(id)
      /\ manager[id] # None => msg.epoch < authEpochs[id]
  BY <1>2 DEF PublicationInv, EpochsDistinct
<1>4. authEpochs[id] \in Nat /\ (authGenerations[id] # None => authGenerations[id] \in VersionSet)
  BY <1>2 DEF TypeOK
<1>5. stone \in VersionSet /\ stone # None
  BY <1>2, NoneAssumption DEF VersionSet
<1>6. CASE authGenerations[id] # None /\ msg.epoch < authGenerations[id].epoch
  <2>1. UNCHANGED schedVars
    BY <1>1, <1>6 DEF RecordRemovalTombstone
  <2>2. \A o \in Auths : LiveEpochs(o)' \subseteq LiveEpochs(o)
    BY <1>1, <2>1 DEF LiveEpochs, schedVars
  <2>3. msg.epoch < authEpochs[id]
    <3>1. authGenerations[id].epoch <= authEpochs[id]
      <4>1. CASE authGenerations[id].gen = 0
        BY <1>2, <1>6, <4>1 DEF PublicationInv, EpochsDistinct
      <4>2. CASE authGenerations[id].gen # 0
        BY <1>2, <1>6, <4>2 DEF PublicationInv, EpochsDistinct, LiveEpochs
      <4> QED BY <4>1, <4>2
    <3> QED BY <1>2, <1>4, <1>6, <3>1 DEF VersionSet
  <2>4. EpochsDistinct'
    BY <1>1, <2>1, <2>2 DEF PublicationInv, EpochsDistinct, schedVars
  <2>5. ManagerCurrent' /\ TombstoneClears'
    BY <1>1, <2>1 DEF PublicationInv, ManagerCurrent, TombstoneClears, schedVars, Unscheduled
  <2>6. RemovalRecorded'
    <3>1. ASSUME NEW o \in Auths, Tombstone(o, authEpochs[o]) \notin inflight'
          PROVE  Tombstone(o, authEpochs[o]) \notin inflight
      BY <1>1, <1>2, <1>4, <2>3, <3>1 DEF Tombstone
    <3> QED BY <1>1, <2>1, <3>1 DEF PublicationInv, RemovalRecorded, schedVars, Tombstone
  <2>7. ASSUME NEW o \in Auths, authGenerations[o] # None
        PROVE  ~Older(authGenerations[o], authGenerations[o])
    BY <2>7 DEF TypeOK, VersionSet, Older
  <2> QED BY <2>1, <2>4, <2>5, <2>6, <2>7 DEF PublicationInv, schedVars
<1>7. CASE ~(authGenerations[id] # None /\ msg.epoch < authGenerations[id].epoch)
  <2>1. /\ recorded(id, stone)
        /\ meta' = [meta EXCEPT ![id] = None]
        /\ entries' = [s \in Shards |-> [entries[s] EXCEPT ![id] = None]]
    BY <1>1, <1>7 DEF RecordRemovalTombstone
  <2>2. /\ authGenerations'[id] = stone
        /\ \A o \in Auths : o # id => authGenerations'[o] = authGenerations[o]
    BY <1>2, <2>1 DEF recorded, TypeOK
  <2>3. Unscheduled(id)' /\ \A o \in Auths : Unscheduled(o) => Unscheduled(o)'
    BY <1>2, <2>1 DEF TypeOK, Unscheduled
  <2>4. \A o \in Auths : LiveEpochs(o)' \subseteq LiveEpochs(o)
    BY <1>1, <2>2 DEF LiveEpochs
  <2>5. EpochsDistinct'
    <3>1. ASSUME NEW o \in Auths
          PROVE  authGenerations'[o] # None /\ authGenerations'[o].gen = 0 =>
                   /\ authGenerations'[o].epoch <= authEpochs[o]
                   /\ manager[o] # None => authGenerations'[o].epoch < authEpochs[o]
      BY <1>3, <2>2 DEF PublicationInv, EpochsDistinct
    <3> QED BY <1>1, <2>4, <3>1 DEF PublicationInv, EpochsDistinct
  <2>6. ManagerCurrent'
    BY <1>1 DEF PublicationInv, ManagerCurrent
  <2>7. TombstoneClears'
    BY <2>2, <2>3 DEF PublicationInv, TombstoneClears
  <2>8. RemovalRecorded'
    <3> SUFFICES ASSUME NEW o \in Auths, manager[o] = None,
                        Tombstone(o, authEpochs[o]) \notin inflight'
                 PROVE  IF authEpochs[o] = 0 THEN authGenerations'[o] = None
                        ELSE authGenerations'[o] = [epoch |-> authEpochs[o], gen |-> 0]
      BY <1>1 DEF RemovalRecorded, Tombstone
    <3>1. CASE o # id
      <4>1. Tombstone(o, authEpochs[o]) \notin inflight
        BY <1>1, <1>2, <3>1 DEF Tombstone
      <4> QED BY <2>2, <3>1, <4>1 DEF PublicationInv, RemovalRecorded
    <3>2. CASE o = id /\ msg.epoch = authEpochs[id]
      <4>1. authEpochs[id] # 0
        BY <1>3, <3>2
      <4> QED BY <2>2, <3>2, <4>1
    <3>3. CASE o = id /\ msg.epoch # authEpochs[id]
      <4>1. Tombstone(id, authEpochs[id]) \notin inflight /\ authEpochs[id] # 0
        BY <1>1, <1>2, <1>3, <1>4, <3>3 DEF Tombstone
      <4>2. authGenerations[id] = [epoch |-> authEpochs[id], gen |-> 0]
        BY <1>2, <3>3, <4>1 DEF PublicationInv, RemovalRecorded
      <4>3. authGenerations[id] # None /\ msg.epoch < authGenerations[id].epoch
        BY <1>2, <1>3, <1>4, <3>3, <4>2, NoneAssumption DEF VersionSet
      <4> QED BY <1>7, <4>3
    <3> QED BY <3>1, <3>2, <3>3
  <2>9. ASSUME NEW o \in Auths, authGenerations[o] # None
        PROVE  /\ authGenerations'[o] # None
               /\ ~Older(authGenerations'[o], authGenerations[o])
    <3>1. authGenerations[o] \in VersionSet
      BY <2>9 DEF TypeOK
    <3>2. CASE o # id
      BY <2>2, <2>9, <3>1, <3>2 DEF VersionSet, Older
    <3>3. CASE o = id
      <4>1. msg.epoch >= authGenerations[id].epoch
        BY <1>2, <1>7, <2>9, <3>1, <3>3 DEF VersionSet
      <4>2. msg.epoch = authGenerations[id].epoch => authGenerations[id].gen = 0
        BY <1>2, <1>3, <2>9, <3>3 DEF LiveEpochs
      <4> QED BY <1>2, <1>5, <2>2, <3>1, <3>3, <4>1, <4>2 DEF VersionSet, Older
    <3> QED BY <3>2, <3>3
  <2> QED BY <2>5, <2>6, <2>7, <2>8, <2>9 DEF PublicationInv
<1> QED BY <1>6, <1>7

\* The two operations that begin and end an incarnation take a new epoch.

\* Register takes a new epoch, larger than all on their way.
LEMMA RegisterKeepsInv ==
  ASSUME TypeOK, TypeOK', PublicationInv, NEW id \in Auths, NEW expires \in Expiries,
         Register(id, expires)
  PROVE  PublicationInv'
<1> DEFINE a == Fresh(authEpochs[id] + 1, expires)
           msg == Lifecycle(id, a)
<1>1. /\ authEpochs[id] \in Nat /\ a \in AuthSet /\ a.epoch = authEpochs[id] + 1 /\ a # None
  BY FreshType, NoneAssumption DEF TypeOK
<1>2. msg.kind = "lifecycle" /\ msg.id = id /\ msg.auth = a
  BY DEF Lifecycle
<1>3. /\ manager' = [manager EXCEPT ![id] = a]
      /\ authEpochs' = [authEpochs EXCEPT ![id] = authEpochs[id] + 1]
      /\ inflight' = inflight \cup {msg} /\ snapshot' = snapshot
      /\ UNCHANGED schedVars
  BY <1>1 DEF Register
<1> HIDE DEF a, msg
<1>4. /\ manager'[id] = a /\ authEpochs'[id] = authEpochs[id] + 1
      /\ \A o \in Auths : o # id => manager'[o] = manager[o] /\ authEpochs'[o] = authEpochs[o]
  BY <1>3 DEF TypeOK
<1>5. \A o \in Auths : o # id => LiveEpochs(o)' \subseteq LiveEpochs(o)
  BY <1>2, <1>3, <1>4 DEF LiveEpochs, schedVars
<1>6. LiveEpochs(id)' \subseteq LiveEpochs(id) \cup {authEpochs[id] + 1}
  BY <1>1, <1>2, <1>3, <1>4 DEF LiveEpochs, schedVars
<1>7. \A e \in LiveEpochs(id) : e \in Nat
  BY DEF LiveEpochs, TypeOK, MessageSet, AuthSet, VersionSet
<1>8. EpochsDistinct'
  <2> SUFFICES ASSUME NEW o \in Auths
      PROVE  /\ \A e \in LiveEpochs(o)' :
                  e <= authEpochs'[o] /\ (manager'[o] = None => e < authEpochs'[o])
             /\ \A n \in inflight' : n.kind = "tombstone" /\ n.id = o =>
                  /\ n.epoch \in 1..authEpochs'[o] /\ n.epoch \notin LiveEpochs(o)'
                  /\ manager'[o] # None => n.epoch < authEpochs'[o]
             /\ authGenerations'[o] # None /\ authGenerations'[o].gen = 0 =>
                  /\ authGenerations'[o].epoch <= authEpochs'[o]
                  /\ manager'[o] # None => authGenerations'[o].epoch < authEpochs'[o]
    BY DEF EpochsDistinct
  <2>1. CASE o # id
    BY <1>2, <1>3, <1>4, <1>5, <2>1 DEF PublicationInv, EpochsDistinct, schedVars
  <2>2. CASE o = id
    <3>1. \A e \in LiveEpochs(id)' :
            e <= authEpochs'[id] /\ (manager'[id] = None => e < authEpochs'[id])
      BY <1>1, <1>4, <1>6, <1>7 DEF PublicationInv, EpochsDistinct
    <3>2. \A n \in inflight' : n.kind = "tombstone" /\ n.id = id =>
            /\ n.epoch \in 1..authEpochs'[id] /\ n.epoch \notin LiveEpochs(id)'
            /\ manager'[id] # None => n.epoch < authEpochs'[id]
      BY <1>1, <1>2, <1>3, <1>4, <1>6 DEF PublicationInv, EpochsDistinct
    <3>3. authGenerations'[id] # None /\ authGenerations'[id].gen = 0 =>
            /\ authGenerations'[id].epoch <= authEpochs'[id]
            /\ manager'[id] # None => authGenerations'[id].epoch < authEpochs'[id]
      BY <1>1, <1>3, <1>4 DEF PublicationInv, EpochsDistinct, schedVars, TypeOK, VersionSet
    <3> QED BY <2>2, <3>1, <3>2, <3>3
  <2> QED BY <2>1, <2>2
<1>9. ManagerCurrent'
  BY <1>1, <1>4 DEF PublicationInv, ManagerCurrent
<1>10. TombstoneClears'
  BY <1>3 DEF PublicationInv, TombstoneClears, schedVars, Unscheduled
<1>11. RemovalRecorded'
  BY <1>1, <1>3, <1>4 DEF PublicationInv, RemovalRecorded, schedVars, Tombstone
<1> QED BY <1>8, <1>9, <1>10, <1>11 DEF PublicationInv

\* Remove takes a new epoch for its tombstone.
LEMMA RemoveKeepsInv ==
  ASSUME TypeOK, TypeOK', PublicationInv, NEW id \in Auths, Remove(id)
  PROVE  PublicationInv'
<1> DEFINE msg == Tombstone(id, authEpochs[id] + 1)
<1>1. /\ authEpochs[id] \in Nat
      /\ msg.kind = "tombstone" /\ msg.id = id /\ msg.epoch = authEpochs[id] + 1
  BY DEF TypeOK, Tombstone
<1>2. /\ manager[id] # None
      /\ manager' = [manager EXCEPT ![id] = None]
      /\ authEpochs' = [authEpochs EXCEPT ![id] = authEpochs[id] + 1]
      /\ inflight' = inflight \cup {msg} /\ snapshot' = snapshot
      /\ UNCHANGED schedVars
  BY DEF Remove
<1>3. Tombstone(id, authEpochs[id] + 1) = msg
  OBVIOUS
<1> HIDE DEF msg
<1>4. /\ manager'[id] = None /\ authEpochs'[id] = authEpochs[id] + 1
      /\ \A o \in Auths : o # id => manager'[o] = manager[o] /\ authEpochs'[o] = authEpochs[o]
  BY <1>2 DEF TypeOK
<1>5. \A o \in Auths : LiveEpochs(o)' \subseteq LiveEpochs(o)
  BY <1>1, <1>2, <1>4 DEF LiveEpochs, schedVars
<1>6. \A e \in LiveEpochs(id) : e \in Nat
  BY DEF LiveEpochs, TypeOK, MessageSet, AuthSet, VersionSet
<1>7. EpochsDistinct'
  <2> SUFFICES ASSUME NEW o \in Auths
      PROVE  /\ \A e \in LiveEpochs(o)' :
                  e <= authEpochs'[o] /\ (manager'[o] = None => e < authEpochs'[o])
             /\ \A n \in inflight' : n.kind = "tombstone" /\ n.id = o =>
                  /\ n.epoch \in 1..authEpochs'[o] /\ n.epoch \notin LiveEpochs(o)'
                  /\ manager'[o] # None => n.epoch < authEpochs'[o]
             /\ authGenerations'[o] # None /\ authGenerations'[o].gen = 0 =>
                  /\ authGenerations'[o].epoch <= authEpochs'[o]
                  /\ manager'[o] # None => authGenerations'[o].epoch < authEpochs'[o]
    BY DEF EpochsDistinct
  <2>1. CASE o # id
    BY <1>1, <1>2, <1>4, <1>5, <2>1 DEF PublicationInv, EpochsDistinct, schedVars
  <2>2. CASE o = id
    <3>1. \A e \in LiveEpochs(id) : e < authEpochs[id] + 1
      BY <1>1, <1>6 DEF PublicationInv, EpochsDistinct
    <3>2. \A n \in inflight' : n.kind = "tombstone" /\ n.id = id =>
            n.epoch \in 1..(authEpochs[id] + 1) /\ n.epoch \notin LiveEpochs(id)'
      <4>1. \A n \in inflight : n.kind = "tombstone" /\ n.id = id =>
              n.epoch \in 1..authEpochs[id] /\ n.epoch \notin LiveEpochs(id)'
        BY <1>5 DEF PublicationInv, EpochsDistinct
      <4>2. msg.epoch \in 1..(authEpochs[id] + 1) /\ msg.epoch \notin LiveEpochs(id)'
        BY <1>1, <1>5, <1>6, <3>1
      <4> QED BY <1>1, <1>2, <4>1, <4>2
    <3>3. authGenerations'[id] # None /\ authGenerations'[id].gen = 0 =>
            authGenerations'[id].epoch <= authEpochs'[id]
      BY <1>1, <1>2, <1>4 DEF PublicationInv, EpochsDistinct, schedVars, TypeOK, VersionSet
    <3> QED BY <1>1, <1>4, <1>5, <1>6, <2>2, <3>1, <3>2, <3>3
  <2> QED BY <2>1, <2>2
<1>8. ManagerCurrent'
  BY <1>4 DEF PublicationInv, ManagerCurrent
<1>9. TombstoneClears'
  BY <1>2 DEF PublicationInv, TombstoneClears, schedVars, Unscheduled
<1>10. RemovalRecorded'
  BY <1>1, <1>2, <1>3, <1>4 DEF PublicationInv, RemovalRecorded, schedVars, Tombstone
<1> QED BY <1>7, <1>8, <1>9, <1>10 DEF PublicationInv

\* A rebuild cannot bring back what a tombstone has removed.
LEMMA RebuildKeepsInv ==
  ASSUME TypeOK, TypeOK', PublicationInv, rebuild
  PROVE  PublicationInv'
<1>1. /\ manager' = manager /\ authEpochs' = authEpochs /\ inflight' = inflight
      /\ snapshot' = None /\ snapshot # None
  BY DEF rebuild, mgrVars
<1>2. ASSUME NEW id \in Auths, Rebuilt(id) PROVE Advanced(id)
  <2>1. snapshot[id] \in AuthSet /\ snapshot[id] # None
    BY <1>1, <1>2 DEF Rebuilt, TypeOK
  <2>2. /\ Version(snapshot[id]) # None /\ Version(snapshot[id]).gen > 0
        /\ Version(snapshot[id]).epoch = snapshot[id].epoch
    BY <2>1, VersionType, NoneAssumption
  <2>3. snapshot[id].epoch \in LiveEpochs(id)
    BY <1>1, <2>1 DEF LiveEpochs
  <2>4. authGenerations'[id] = Version(snapshot[id])
    BY <1>2 DEF rebuild
  <2> QED BY <1>2, <2>2, <2>3, <2>4 DEF Advanced, Rebuilt, isStaleScheduledAuth
<1>3. ASSUME NEW id \in Auths, ~Rebuilt(id)
      PROVE  authGenerations'[id] = authGenerations[id] /\ Unscheduled(id)'
  BY <1>3 DEF rebuild, Unscheduled
<1>4. \A id \in Auths : LiveEpochs(id)' \subseteq LiveEpochs(id)
  <2> SUFFICES ASSUME NEW id \in Auths PROVE LiveEpochs(id)' \subseteq LiveEpochs(id)
    OBVIOUS
  <2>1. CASE Rebuilt(id)
    BY <1>1, <1>2, <2>1 DEF LiveEpochs, Advanced
  <2>2. CASE ~Rebuilt(id)
    BY <1>1, <1>3, <2>2 DEF LiveEpochs
  <2> QED BY <2>1, <2>2
<1>5. SameIncarnations
  BY <1>1, <1>2, <1>3, <1>4 DEF SameIncarnations
<1> QED BY <1>5, SameIncarnationsKeepInv

\* Steps that leave the scheduler and every incarnation alone.
LEMMA QuietKeepsInv ==
  ASSUME TypeOK, TypeOK', PublicationInv,
         UNCHANGED mgrVars, UNCHANGED authGenerations, inflight' = inflight,
         snapshot' \in {snapshot, manager},
         \A id \in Auths : Unscheduled(id) => Unscheduled(id)'
  PROVE  PublicationInv'
<1>1. \A id \in Auths : LiveEpochs(id)' \subseteq LiveEpochs(id)
  <2>1. CASE snapshot' = snapshot
    BY <2>1 DEF LiveEpochs, mgrVars
  <2>2. CASE snapshot' = manager
    BY <2>2 DEF LiveEpochs, mgrVars
  <2> QED BY <2>1, <2>2
<1>2. SameIncarnations
  BY <1>1 DEF SameIncarnations, mgrVars
<1> QED BY <1>2, SameIncarnationsKeepInv

\* Every step keeps the invariant.
LEMMA NextPublicationInv == TypeOK /\ TypeOK' /\ PublicationInv /\ [Next]_vars => PublicationInv'
<1> SUFFICES ASSUME TypeOK, TypeOK', PublicationInv, [Next]_vars PROVE PublicationInv'
  OBVIOUS
<1>1. ASSUME NEW id \in Auths, NEW m \in Models, NEW outcome \in Outcomes,
             MarkResult(id, m, outcome)
      PROVE  PublicationInv'
  <2> DEFINE a == Bumped(After(manager[id], m, outcome))
             scoped == outcome = "credentialQuota"
             msg == ResultOf(id, a, IF scoped THEN {} ELSE {m}, scoped)
  <2>1. manager[id] # None /\ manager[id] \in AuthSet
    BY <1>1 DEF MarkResult, TypeOK
  <2>2. a \in AuthSet /\ a.epoch = manager[id].epoch
    BY <2>1, OutcomeType DEF TypeOK
  <2>3. msg.kind # "tombstone" /\ msg.id = id /\ msg.auth = a
    BY DEF ResultOf
  <2>4. /\ manager' = [manager EXCEPT ![id] = a] /\ inflight' = inflight \cup {msg}
        /\ UNCHANGED <<authEpochs, snapshot>> /\ UNCHANGED schedVars
    BY <1>1 DEF MarkResult
  <2> HIDE DEF a, msg
  <2> QED BY <2>1, <2>2, <2>3, <2>4, PublishKeepsInv
<1>2. ASSUME NEW id \in Auths, recordAvailabilityNeutralResult(id) PROVE PublicationInv'
  <2> DEFINE a == Bumped(manager[id])
  <2>1. manager[id] # None /\ manager[id] \in AuthSet
    BY <1>2 DEF recordAvailabilityNeutralResult, TypeOK
  <2>2. a \in AuthSet /\ a.epoch = manager[id].epoch
    BY <2>1, UpdateType DEF TypeOK
  <2>3. /\ Lifecycle(id, a).kind # "tombstone" /\ Lifecycle(id, a).id = id
        /\ Lifecycle(id, a).auth = a
    BY DEF Lifecycle
  <2>4. /\ manager' = [manager EXCEPT ![id] = a] /\ inflight' = inflight
        /\ UNCHANGED <<authEpochs, snapshot>> /\ UNCHANGED schedVars
    BY <1>2 DEF recordAvailabilityNeutralResult
  <2> HIDE DEF a
  <2> QED BY <2>1, <2>2, <2>3, <2>4, PublishKeepsInv
<1>3. ASSUME NEW id \in Auths, NEW expires \in Expiries, Update(id, expires)
      PROVE  PublicationInv'
  <2> DEFINE a == Bumped(Updated(manager[id], expires))
  <2>1. manager[id] # None /\ manager[id] \in AuthSet /\ expires \in Nat
    BY <1>3, ExpiryAssumption DEF Update, TypeOK
  <2>2. a \in AuthSet /\ a.epoch = manager[id].epoch
    BY <2>1, UpdateType DEF TypeOK
  <2>3. /\ Lifecycle(id, a).kind # "tombstone" /\ Lifecycle(id, a).id = id
        /\ Lifecycle(id, a).auth = a
    BY DEF Lifecycle
  <2>4. /\ manager' = [manager EXCEPT ![id] = a]
        /\ inflight' = inflight \cup {Lifecycle(id, a)}
        /\ UNCHANGED <<authEpochs, snapshot>> /\ UNCHANGED schedVars
    BY <1>3 DEF Update
  <2> HIDE DEF a
  <2> QED BY <2>1, <2>2, <2>3, <2>4, PublishKeepsInv
<1>4. ASSUME NEW id \in Auths, ResetQuota(id) PROVE PublicationInv'
  <2> DEFINE a == ResetTo(manager[id])
  <2>1. manager[id] # None /\ manager[id] \in AuthSet
    BY <1>4 DEF ResetQuota, TypeOK
  <2>2. a \in AuthSet /\ a.epoch = manager[id].epoch
    BY <2>1, ResetType
  <2>3. /\ Lifecycle(id, a).kind # "tombstone" /\ Lifecycle(id, a).id = id
        /\ Lifecycle(id, a).auth = a
    BY DEF Lifecycle
  <2>4. /\ manager' = [manager EXCEPT ![id] = a]
        /\ inflight' = inflight \cup {Lifecycle(id, a)}
        /\ UNCHANGED <<authEpochs, snapshot>> /\ UNCHANGED schedVars
    BY <1>4 DEF ResetQuota
  <2> HIDE DEF a
  <2> QED BY <2>1, <2>2, <2>3, <2>4, PublishKeepsInv
<1>5. ASSUME NEW id \in Auths, NEW expires \in Expiries, Register(id, expires)
      PROVE  PublicationInv'
  BY <1>5, RegisterKeepsInv
<1>6. ASSUME NEW id \in Auths, Remove(id) PROVE PublicationInv'
  BY <1>6, RemoveKeepsInv
<1>7. ASSUME NEW id \in Auths, ReconcileRegistryModelStates(id) PROVE PublicationInv'
  <2> DEFINE a == Reconciled(manager[id], registered[id])
  <2>1. CASE manager[id] = None
    BY <1>7, <2>1, QuietKeepsInv
    DEF ReconcileRegistryModelStates, mgrVars, schedVars, Unscheduled
  <2>2. CASE manager[id] # None
    <3>1. manager[id] \in AuthSet
      BY <2>2 DEF TypeOK
    <3>2. a \in AuthSet /\ a.epoch = manager[id].epoch
      BY <3>1, ReconcileType DEF TypeOK
    <3>3. /\ Registration(id, a).kind # "tombstone" /\ Registration(id, a).id = id
          /\ Registration(id, a).auth = a
      BY DEF Registration
    <3>4. /\ manager' = [manager EXCEPT ![id] = a]
          /\ inflight' = inflight \cup {Registration(id, a)}
          /\ UNCHANGED <<authEpochs, snapshot>> /\ UNCHANGED schedVars
      BY <1>7, <2>2 DEF ReconcileRegistryModelStates
    <3> HIDE DEF a
    <3> QED BY <2>2, <3>2, <3>3, <3>4, PublishKeepsInv
  <2> QED BY <2>1, <2>2
<1>8. ASSUME NEW id \in Auths, RefreshSchedulerEntry(id) PROVE PublicationInv'
  <2>1. CASE manager[id] = None
    BY <1>8, <2>1, QuietKeepsInv DEF RefreshSchedulerEntry, mgrVars, schedVars, Unscheduled
  <2>2. CASE manager[id] # None
    <3>1. manager[id] \in AuthSet /\ manager' = [manager EXCEPT ![id] = manager[id]]
      BY <1>8, <2>2 DEF TypeOK, RefreshSchedulerEntry, mgrVars
    <3>2. LET msg == Registration(id, manager[id])
          IN  msg.kind # "tombstone" /\ msg.id = id /\ msg.auth = manager[id]
      BY DEF Registration
    <3>3. /\ inflight' = inflight \cup {Registration(id, manager[id])}
          /\ UNCHANGED <<authEpochs, snapshot>> /\ UNCHANGED schedVars
      BY <1>8, <2>2 DEF RefreshSchedulerEntry, mgrVars
    <3> QED BY <2>2, <3>1, <3>2, <3>3, PublishKeepsInv
  <2> QED BY <2>1, <2>2
<1>9. ASSUME NEW id \in Auths, NEW models \in SUBSET Models, RegisterClient(id, models)
      PROVE  PublicationInv'
  BY <1>9, QuietKeepsInv DEF RegisterClient, schedVars, Unscheduled
<1>10. ASSUME NEW msg \in inflight, Deliver(msg) PROVE PublicationInv'
  BY <1>10, CloneDeliveryKeepsInv, TombstoneKeepsInv
<1>11. ASSUME snapshotAuths PROVE PublicationInv'
  BY <1>11, QuietKeepsInv DEF snapshotAuths, schedVars, Unscheduled
<1>12. ASSUME rebuild PROVE PublicationInv'
  BY <1>12, RebuildKeepsInv
<1>13. ASSUME NEW s \in Shards, ensureModelLocked(s) PROVE PublicationInv'
  <2>1. ASSUME NEW id \in Auths, Unscheduled(id) PROVE Unscheduled(id)'
    BY <1>13, <2>1 DEF ensureModelLocked, Unscheduled, TypeOK, Entry, Promoted
  <2> QED BY <1>13, <2>1, QuietKeepsInv DEF ensureModelLocked
<1>14. ASSUME Tick PROVE PublicationInv'
  BY <1>14, QuietKeepsInv DEF Tick, schedVars, Unscheduled
<1>15. ASSUME UNCHANGED vars PROVE PublicationInv'
  BY <1>15, QuietKeepsInv DEF vars, mgrVars, Unscheduled
<1> QED BY <1>1, <1>2, <1>3, <1>4, <1>5, <1>6, <1>7, <1>8, <1>9, <1>10, <1>11, <1>12,
           <1>13, <1>14, <1>15 DEF Next

\* The invariant behind the two theorems below: epochs of incarnations and of
\* removals are never mixed up, and a removal, once delivered, stays recorded.
THEOREM PublicationInvariant == Spec => [](TypeOK /\ PublicationInv)
<1>1. TypeOK /\ PublicationInv /\ [Next]_vars => (TypeOK /\ PublicationInv)'
  BY NextTypeOK, NextPublicationInv
<1> QED BY <1>1, InitTypeOK, InitPublicationInv, PTL DEF Spec

-----------------------------------------------------------------------------
\* A removed credential whose tombstone has arrived is unknown to the
\* scheduler until it is registered again.
THEOREM RemovedCredentialsStayOut == Spec => []RemovedStaysOut
<1>1. ASSUME TypeOK, PublicationInv PROVE RemovedStaysOut
  <2> SUFFICES ASSUME NEW id \in Auths, manager[id] = None, ~Removing(id)
               PROVE  Unscheduled(id)
    BY DEF RemovedStaysOut
  <2>1. Tombstone(id, authEpochs[id]) \notin inflight
    BY DEF Removing, Tombstone
  <2>2. authGenerations[id] = None \/ authGenerations[id].gen = 0
    <3>1. IF authEpochs[id] = 0 THEN authGenerations[id] = None
          ELSE authGenerations[id] = [epoch |-> authEpochs[id], gen |-> 0]
      BY <1>1, <2>1 DEF PublicationInv, RemovalRecorded
    <3>2. [epoch |-> authEpochs[id], gen |-> 0].gen = 0
      OBVIOUS
    <3> QED BY <3>1, <3>2
  <2> QED BY <1>1, <2>2 DEF PublicationInv, TombstoneClears
<1> QED BY <1>1, PublicationInvariant, PTL

\* No order of arrival takes the scheduler back to an earlier version.
THEOREM VersionsAdvance == Spec => VersionsNeverRegress
<1> DEFINE Kept(id) == authGenerations[id] # None =>
             /\ authGenerations'[id] # None
             /\ ~Older(authGenerations'[id], authGenerations[id])
<1>1. ASSUME TypeOK, TypeOK', PublicationInv, [Next]_vars PROVE \A id \in Auths : Kept(id)
  <2>1. CASE UNCHANGED authGenerations
    BY <1>1, <2>1 DEF TypeOK, VersionSet, Older
  <2>2. ASSUME NEW msg \in inflight, Deliver(msg) PROVE \A id \in Auths : Kept(id)
    <3>1. CASE msg.kind = "tombstone"
      BY <1>1, <2>2, <3>1, TombstoneKeepsInv
    <3>2. CASE msg.kind # "tombstone"
      <4> SUFFICES ASSUME NEW id \in Auths PROVE Kept(id)
        OBVIOUS
      <4>1. CASE authGenerations'[id] = authGenerations[id]
        BY <1>1, <4>1 DEF TypeOK, VersionSet, Older
      <4>2. CASE authGenerations'[id] # authGenerations[id]
        <5>1. /\ id = msg.id /\ msg.auth \in AuthSet
              /\ authGenerations'[id] = Version(msg.auth)
              /\ ~isStaleScheduledAuth(id, Version(msg.auth))
          BY <1>1, <2>2, <3>2, <4>2, CloneDelivery
        <5>2. Version(msg.auth) # None
          BY <5>1, VersionType, NoneAssumption
        <5> QED BY <5>1, <5>2 DEF isStaleScheduledAuth
      <4> QED BY <4>1, <4>2
    <3> QED BY <3>1, <3>2
  <2>3. ASSUME rebuild PROVE \A id \in Auths : Kept(id)
    <3> SUFFICES ASSUME NEW id \in Auths PROVE Kept(id)
      OBVIOUS
    <3>1. CASE Rebuilt(id)
      <4>1. snapshot[id] \in AuthSet
        BY <1>1, <2>3, <3>1 DEF rebuild, Rebuilt, TypeOK
      <4>2. Version(snapshot[id]) # None /\ authGenerations'[id] = Version(snapshot[id])
        BY <2>3, <3>1, <4>1, VersionType, NoneAssumption DEF rebuild
      <4> QED BY <3>1, <4>2 DEF Rebuilt, isStaleScheduledAuth
    <3>2. CASE ~Rebuilt(id)
      BY <1>1, <2>3, <3>2 DEF rebuild, TypeOK, VersionSet, Older
    <3> QED BY <3>1, <3>2
  <2> QED BY <1>1, <2>1, <2>2, <2>3
      DEF Next, vars, schedVars, MarkResult, recordAvailabilityNeutralResult, Update,
          ResetQuota, Register, Remove, RegisterClient, ReconcileRegistryModelStates,
          RefreshSchedulerEntry, snapshotAuths, ensureModelLocked, Tick
<1>2. TypeOK /\ TypeOK' /\ PublicationInv /\ [Next]_vars
        => [\A id \in Auths : Kept(id)]_vars
  BY <1>1
<1> QED BY <1>2, PublicationInvariant, PTL DEF Spec, VersionsNeverRegress

-----------------------------------------------------------------------------
\* Why the scheduler comes to agree, with the operations of a credential that stays
\* registered and is not reset, rebuilt or refused with a 401: the others hand the
\* scheduler changes of all shards in a clone that it drops when it comes late.
Publishing == {"success", "failure", "credentialQuota", "neutral", "update", "models"}

\* The cooldowns of two clones leave the same free from now on.
Free(a, s, t) == CooldownUntil(a, s, t) = Never
AgreeFrom(a, b, s) == \A t \in now..Forever : Free(a, s, t) <=> Free(b, s, t)

Clones(id) == {msg \in inflight : msg.id = id}
Reaches(msg, s) == msg.kind = "result" /\ s \in Targets(msg)

\* A clone on its way that accounts for a difference between two others: it came
\* after the first, and brings shard s up to date or belongs to a registration
\* without the model.
Accounts(msg, id, s) ==
  \/ Reaches(msg, s) \/ s = AnyModel
  \/ msg.kind = "registration" /\ s \notin registered[id]
Between(x, msg, y) == x.gen < msg.auth.gen /\ msg.auth.gen <= y.gen
Accounted(id, x, y, s) ==
  AgreeFrom(x, y, s) \/ \E msg \in Clones(id) : Between(x, msg, y) /\ Accounts(msg, id, s)

\* The clones that still count: the scheduler's, the manager's and those between.
Live(id) == {meta[id].auth, manager[id]} \cup
            {msg.auth : msg \in {m \in Clones(id) : m.auth.gen >= authGenerations[id].gen}}

\* Without a 401 every cooldown has an end.
Ending(a) ==
  /\ ~a.unauthorized /\ a.refused = {} /\ a.quotaUntil < Forever /\ a.retry < Forever
  /\ \A m \in Tracked(a) : a.until[m] < Forever

\* The entry of a shard is blocked with no end once its token has expired; until
\* then it offers what the scheduler's clone does, or a result that will write the
\* shard, early or late, is on its way.
OfferedAt(e, s, t) == e.until = Never \/ (e.until <= t /\ Free(e.auth, s, t))
Stands(e) == Ending(e.auth) /\ (e.until < Forever \/ e.auth.expires <= now)
Follows(e, a, s) == \/ e.until = Forever
                    \/ \A t \in now..Forever : OfferedAt(e, s, t) <=> Free(a, s, t)
EntryAgrees(s, id) ==
  /\ entries[s][id] # None <=> Supports(meta[id], s)
  /\ entries[s][id] # None =>
       /\ Stands(entries[s][id])
       /\ \/ Follows(entries[s][id], meta[id].auth, s)
          \/ s # AnyModel /\ \E msg \in Clones(id) : Reaches(msg, s)

\* A token that is not the manager's comes with an update on its way that is newer;
\* in a shard it stays only where that update came too late.
Renewing(id) == {msg \in Clones(id) : msg.kind = "lifecycle"}
TokensKnown(id) ==
  \A x \in Live(id) : \/ x.expires = manager[id].expires
                      \/ \E msg \in Renewing(id) : x.gen < msg.auth.gen
EntryToken(s, id) ==
  entries[s][id] # None =>
    \/ entries[s][id].auth.expires = manager[id].expires
    \/ id \in overtaken \/ Renewing(id) # {}

Ordered(id) ==
  /\ manager[id].epoch = 1 /\ Ending(manager[id])
  /\ \A msg \in Clones(id) : /\ msg.kind # "tombstone" /\ msg.auth.epoch = 1
                             /\ msg.auth.gen <= manager[id].gen /\ Ending(msg.auth)
  /\ meta[id] # None /\ meta[id].auth.epoch = 1 /\ Ending(meta[id].auth)
  /\ authGenerations[id] = Version(meta[id].auth) /\ meta[id].auth.gen <= manager[id].gen
ModelsKnown(id) ==
  /\ meta[id].regEpoch <= regEpoch[id]
  /\ meta[id].regEpoch = regEpoch[id] => meta[id].models = registered[id]
  /\ \/ meta[id].regEpoch = regEpoch[id] \/ refreshDue[id] # "idle"
     \/ \E msg \in Clones(id) : /\ msg.kind = "registration"
                                /\ msg.auth.gen >= authGenerations[id].gen
LiveAccounted(id) ==
  \A x, y \in Live(id) : x.gen <= y.gen => \A s \in Shards : Accounted(id, x, y, s)
Published(id) == /\ Ordered(id) /\ ModelsKnown(id) /\ LiveAccounted(id) /\ TokensKnown(id)
                 /\ \A s \in shards : EntryAgrees(s, id) /\ EntryToken(s, id)
SchedulerInv ==
  /\ snapshot = None /\ now <= Forever /\ now <= MaxTime
  /\ \A id \in Auths : manager[id] # None => Published(id)

-----------------------------------------------------------------------------
\* Until when the clones that occur without a 401 are blocked.

\* Recomputing the aggregate keeps what decides about a model, and every end.
LEMMA AggregatedKeeps ==
  ASSUME now \in Nat, NEW a \in AuthSet
  PROVE  LET b == updateAggregatedAvailability(a)
         IN  /\ b \in AuthSet /\ b.gen = a.gen /\ b.epoch = a.epoch
             /\ b.until = a.until /\ b.quotaUntil = a.quotaUntil
             /\ b.unauthorized = a.unauthorized /\ b.refused = a.refused
             /\ b.expires = a.expires
             /\ Ending(a) => Ending(b)
<1> DEFINE b == updateAggregatedAvailability(a)
           deadlines == {a.until[m] : m \in Tracked(a)}
           all == deadlines # {} /\ \A d \in deadlines : d > now
           earliest == IF all THEN CHOOSE d \in deadlines : \A e \in deadlines : d <= e
                       ELSE Never
<1>1. deadlines \in SUBSET Nat
  BY NoneAssumption DEF AuthSet, Tracked
<1>2. Ending(a) => earliest < Forever
  <2>1. CASE all
    <3>1. earliest \in deadlines
      BY <1>1, <2>1, EarliestType
    <3> QED BY <3>1 DEF Ending
  <2>2. CASE ~all
    BY <2>2, BoundAssumption DEF Never, Forever
  <2> QED BY <2>1, <2>2
<1>3. b = IF a.quotaUntil > now THEN [a EXCEPT !.unavailable = TRUE]
          ELSE [a EXCEPT !.unavailable = all, !.retry = earliest]
  BY DEF updateAggregatedAvailability
<1>4. b \in AuthSet /\ b.gen = a.gen /\ b.epoch = a.epoch
  BY AggregatedType
<1> HIDE DEF all, earliest
<1>5. /\ b.until = a.until /\ b.quotaUntil = a.quotaUntil
      /\ b.unauthorized = a.unauthorized /\ b.refused = a.refused /\ b.expires = a.expires
      /\ b.retry \in {a.retry, earliest}
  BY <1>3 DEF AuthSet
<1>6. Ending(a) => Ending(b)
  BY <1>2, <1>5 DEF Ending, Tracked
<1> QED BY <1>4, <1>5, <1>6

\* When the cooldowns of a clone leave a shard free.
LEMMA FreeWhen ==
  ASSUME NEW a \in AuthSet, NEW s \in Shards, NEW t \in Nat
  PROVE  Free(a, s, t) <=> /\ a.quotaUntil <= t
                           /\ s = AnyModel => ~a.unavailable \/ a.retry <= t
                           /\ s # AnyModel => a.until[s] = None \/ a.until[s] <= t
<1>1. a.quotaUntil \in Nat /\ a.retry \in Nat /\ a.unavailable \in BOOLEAN
  BY DEF AuthSet
<1>2. CASE s = AnyModel
  BY <1>1, <1>2 DEF Free, CooldownUntil, Never
<1>3. CASE s # AnyModel
  <2>1. s \in Models
    BY <1>3 DEF Shards
  <2>2. a.until[s] \in Nat \cup {None}
    BY <2>1 DEF AuthSet
  <2>3. s \in Tracked(a) <=> a.until[s] # None
    BY <2>1 DEF Tracked
  <2> QED BY <1>1, <1>3, <2>2, <2>3, NoneAssumption DEF Free, CooldownUntil, Never
<1> QED BY <1>2, <1>3

\* They end, and it stays blocked until then and free after it.
LEMMA CooldownEnds ==
  ASSUME NEW a \in AuthSet, Ending(a), NEW s \in Shards, NEW t \in Nat
  PROVE  /\ CooldownUntil(a, s, t) \in Nat /\ CooldownUntil(a, s, t) < Forever
         /\ CooldownUntil(a, s, t) # Never => CooldownUntil(a, s, t) > t
         /\ \A u \in Nat : u >= t /\ Free(a, s, t) => Free(a, s, u)
         /\ \A u \in Nat : u >= t /\ u < CooldownUntil(a, s, t) => ~Free(a, s, u)
<1>1. /\ a.quotaUntil \in Nat /\ a.retry \in Nat /\ a.unavailable \in BOOLEAN
      /\ Forever \in Nat /\ Forever > 0
      /\ ~a.unauthorized /\ a.quotaUntil < Forever /\ a.retry < Forever
  BY BoundAssumption DEF AuthSet, Forever, Ending
<1>2. /\ s \in Tracked(a) => s \in Models /\ a.until[s] \in Nat /\ a.until[s] < Forever
      /\ s \in Tracked(a) => s # AnyModel /\ a.until[s] # None
  BY ModelAssumption DEF Tracked, AuthSet, Ending
<1>3. /\ CooldownUntil(a, s, t) \in Nat /\ CooldownUntil(a, s, t) < Forever
      /\ CooldownUntil(a, s, t) # Never => CooldownUntil(a, s, t) > t
  BY <1>1, <1>2 DEF CooldownUntil, Never
<1>4. ASSUME NEW u \in Nat, u >= t, Free(a, s, t) PROVE Free(a, s, u)
  <2>1. s # AnyModel => s \in Models /\ a.until[s] \in Nat \cup {None}
    BY DEF Shards, AuthSet
  <2> QED BY <1>1, <1>4, <2>1, FreeWhen, NoneAssumption
<1>5. ASSUME NEW u \in Nat, u >= t, u < CooldownUntil(a, s, t) PROVE ~Free(a, s, u)
  BY <1>1, <1>2, <1>5, FreeWhen, NoneAssumption DEF CooldownUntil, Never
<1> QED BY <1>3, <1>4, <1>5

\* Two clones with the same quota offer a model alike if they agree about it.
LEMMA SameModel ==
  ASSUME now \in Nat, NEW a \in AuthSet, NEW b \in AuthSet,
         a.quotaUntil = b.quotaUntil \/ (a.quotaUntil <= now /\ b.quotaUntil <= now),
         NEW s \in Models,
         \/ a.until[s] = b.until[s]
         \/ a.until[s] \in Nat /\ b.until[s] \in Nat /\ a.until[s] <= now /\ b.until[s] <= now
  PROVE  AgreeFrom(a, b, s)
<1>1. s \in Shards /\ s # AnyModel
  BY ModelAssumption DEF Shards
<1>2. a.quotaUntil \in Nat /\ b.quotaUntil \in Nat /\ Forever \in Nat
  BY BoundAssumption DEF AuthSet, Forever
<1>3. ASSUME NEW t \in now..Forever PROVE Free(a, s, t) <=> Free(b, s, t)
  <2>1. t \in Nat /\ t >= now
    BY <1>2
  <2>2. /\ Free(a, s, t) <=> a.quotaUntil <= t /\ (a.until[s] = None \/ a.until[s] <= t)
        /\ Free(b, s, t) <=> b.quotaUntil <= t /\ (b.until[s] = None \/ b.until[s] <= t)
    BY <1>1, <2>1, FreeWhen
  <2> QED BY <1>2, <2>1, <2>2
<1> QED BY <1>3 DEF AgreeFrom

\* Agreement is an equivalence, and counts of generations do not matter to it.
LEMMA AgreeEquivalence ==
  /\ \A a, s : AgreeFrom(a, a, s)
  /\ \A a, b, c, s : AgreeFrom(a, b, s) /\ AgreeFrom(b, c, s) => AgreeFrom(a, c, s)
BY DEF AgreeFrom

LEMMA BumpedKeeps ==
  ASSUME NEW a \in AuthSet
  PROVE  /\ Bumped(a) \in AuthSet /\ Bumped(a).gen = a.gen + 1 /\ Bumped(a).epoch = a.epoch
         /\ Bumped(a).expires = a.expires
         /\ Ending(a) => Ending(Bumped(a))
         /\ \A s : AgreeFrom(a, Bumped(a), s)
<1>1. /\ Bumped(a) \in AuthSet /\ Bumped(a).gen = a.gen + 1 /\ Bumped(a).epoch = a.epoch
      /\ Bumped(a).until = a.until /\ Bumped(a).quotaUntil = a.quotaUntil
      /\ Bumped(a).unauthorized = a.unauthorized /\ Bumped(a).retry = a.retry
      /\ Bumped(a).unavailable = a.unavailable /\ Bumped(a).refused = a.refused
      /\ Bumped(a).expires = a.expires
  BY DEF Bumped, AuthSet
<1>2. ASSUME NEW s, NEW t PROVE Free(a, s, t) <=> Free(Bumped(a), s, t)
  BY <1>1 DEF Free, CooldownUntil, Tracked
<1> QED BY <1>1, <1>2 DEF AgreeFrom, Ending, Tracked

\* What the operations of the manager make of a credential without a 401: one more
\* generation, an end to every block, and the models they are not about as before.
LEMMA OutcomeEffect ==
  ASSUME now \in Nat, now <= MaxTime, NEW a \in AuthSet, Ending(a), NEW m \in Models,
         NEW outcome \in {"success", "failure", "credentialQuota"}
  PROVE  LET b == Bumped(After(a, m, outcome))
         IN  /\ b.gen = a.gen + 1 /\ Ending(b) /\ b.expires = a.expires
             /\ outcome # "credentialQuota" => \A s \in Models \ {m} : AgreeFrom(a, b, s)
<1> USE BoundAssumption
<1> DEFINE Others(c) == \A s \in Models \ {m} : AgreeFrom(a, c, s)
           Kept(c) == c \in AuthSet /\ c.gen = a.gen /\ Ending(c) /\ c.expires = a.expires
<1>1. ASSUME NEW c, Kept(c)
      PROVE  /\ Bumped(c).gen = a.gen + 1 /\ Ending(Bumped(c)) /\ Bumped(c).expires = a.expires
             /\ Others(c) => Others(Bumped(c))
  BY <1>1, BumpedKeeps, AgreeEquivalence
<1>2. /\ Forever \in Nat /\ now + CoolFor < Forever
      /\ ~a.unauthorized /\ a.refused = {} /\ a.quotaUntil \in Nat /\ a.quotaUntil < Forever
      /\ a.retry \in Nat /\ a.retry < Forever
      /\ \A o \in Models : /\ a.until[o] \in Nat \cup {None}
                           /\ a.until[o] # None => a.until[o] < Forever
  BY DEF Forever, AuthSet, Ending, Tracked
<1>3. CASE outcome = "success"
  <2> DEFINE b == [a EXCEPT !.until[m] = Never, !.refused = @ \ {m}]
             c == updateAggregatedAvailability(b)
             u == c.unauthorized /\ \E o \in Tracked(c) : c.until[o] # Never
             d == [c EXCEPT !.unauthorized = u]
  <2>1. b \in AuthSet /\ b.gen = a.gen /\ Ending(b) /\ b.quotaUntil = a.quotaUntil
        /\ ~b.unauthorized /\ b.expires = a.expires
        /\ \A s \in Models \ {m} : b.until[s] = a.until[s]
    <3>1. /\ b \in AuthSet /\ b.gen = a.gen /\ b.quotaUntil = a.quotaUntil
          /\ b.unauthorized = a.unauthorized /\ b.retry = a.retry /\ b.expires = a.expires
          /\ b.refused = a.refused \ {m}
          /\ b.until = [a.until EXCEPT ![m] = Never]
      BY DEF AuthSet, Never
    <3>2. \A s \in Models : b.until[s] = IF s = m THEN Never ELSE a.until[s]
      BY <3>1 DEF AuthSet
    <3> HIDE DEF b
    <3>3. Forever > Never
      BY <1>2 DEF Never
    <3> QED BY <1>2, <3>1, <3>2, <3>3 DEF Ending, Tracked
  <2> HIDE DEF b
  <2>2. /\ c \in AuthSet /\ c.gen = a.gen /\ c.until = b.until /\ ~c.unauthorized
        /\ c.quotaUntil = a.quotaUntil /\ Ending(c) /\ c.expires = a.expires
    <3> HIDE DEF Kept, Others
    <3> QED BY <2>1, AggregatedKeeps
  <2>3. After(a, m, outcome) = IF a.quotaUntil > now THEN a ELSE d
    BY <1>3, <2>2 DEF After, Succeeded, AuthSet, b
  <2>4. u = FALSE
    BY <2>2
  <2>5. /\ d \in AuthSet /\ d.gen = a.gen /\ d.until = b.until /\ ~d.unauthorized
        /\ d.quotaUntil = a.quotaUntil /\ d.retry = c.retry /\ d.refused = c.refused
        /\ d.expires = a.expires
    <3> HIDE DEF c, u
    <3> QED BY <2>2, <2>4 DEF AuthSet
  <2>6. Ending(d)
    BY <2>2, <2>5 DEF Ending, Tracked
  <2> HIDE DEF d
  <2>7. Others(d)
    BY <1>2, <2>1, <2>5, SameModel
  <2>8. Kept(a) /\ Others(a)
    BY AgreeEquivalence
  <2>9. Kept(After(a, m, outcome)) /\ Others(After(a, m, outcome))
    BY <2>3, <2>5, <2>6, <2>7, <2>8
  <2> HIDE DEF Kept, Others
  <2> QED BY <1>1, <2>9 DEF Others
<1>4. CASE outcome = "failure"
  <2> DEFINE previous == IF a.until[m] = None THEN Never ELSE a.until[m]
             deadline == Later(previous, now + CoolFor)
             b == [a EXCEPT !.until[m] = deadline, !.unauthorized = FALSE,
                            !.refused = @ \ {m}]
             c == updateAggregatedAvailability(b)
  <2>1. deadline \in Nat /\ deadline < Forever
    BY <1>2 DEF Later, Never
  <2> HIDE DEF deadline
  <2>2. b \in AuthSet /\ b.gen = a.gen /\ Ending(b) /\ b.quotaUntil = a.quotaUntil
        /\ ~b.unauthorized /\ b.expires = a.expires
        /\ \A s \in Models \ {m} : b.until[s] = a.until[s]
    BY <1>2, <2>1 DEF AuthSet, Ending, Tracked
  <2>3. After(a, m, outcome) = c
    BY <1>4 DEF After, Failed, deadline
  <2> HIDE DEF b
  <2>4. /\ c \in AuthSet /\ c.gen = a.gen /\ c.until = b.until /\ ~c.unauthorized
        /\ c.quotaUntil = a.quotaUntil /\ Ending(c) /\ c.expires = a.expires
    <3> HIDE DEF Kept, Others
    <3> QED BY <2>2, AggregatedKeeps
  <2> HIDE DEF c
  <2>5. Others(c)
    BY <1>2, <2>2, <2>4, SameModel
  <2> HIDE DEF Others
  <2> QED BY <1>1, <2>3, <2>4, <2>5 DEF Others
<1>5. CASE outcome = "credentialQuota"
  <2> DEFINE before(o) == IF a.until[o] = None THEN Never ELSE a.until[o]
             until == [o \in Models |-> IF o = m \/ o \in Tracked(a)
                                       THEN Later(before(o), now + CoolFor) ELSE None]
             all == Later(a.quotaUntil, now + CoolFor)
             c == [a EXCEPT !.until = until, !.quotaUntil = all, !.retry = all,
                            !.unavailable = TRUE, !.unauthorized = FALSE,
                            !.refused = @ \ {m}]
  <2>1. /\ until \in [Models -> Nat \cup {None}]
        /\ \A o \in Models : until[o] # None => until[o] < Forever
    BY <1>2 DEF Later, Never
  <2>2. all \in Nat /\ all < Forever
    BY <1>2 DEF Later
  <2>3. After(a, m, outcome) = c
    BY <1>5 DEF After, QuotaExhausted
  <2> HIDE DEF until, all
  <2>4. Kept(c)
    BY <1>2, <2>1, <2>2 DEF AuthSet, Ending, Tracked
  <2> HIDE DEF c, Kept
  <2> QED BY <1>1, <1>5, <2>3, <2>4
<1> QED BY <1>3, <1>4, <1>5

LEMMA UpdateEffect ==
  ASSUME now \in Nat, NEW a \in AuthSet, Ending(a), NEW expires \in Nat
  PROVE  LET b == Bumped(Updated(a, expires))
         IN  /\ b.gen = a.gen + 1 /\ Ending(b) /\ b.expires = expires
             /\ \A s \in Models : AgreeFrom(a, b, s)
<1> DEFINE b == [a EXCEPT !.until = [m \in Models |-> a.until[m]],
                          !.refused = {}, !.expires = expires, !.unauthorized = FALSE,
                          !.quotaUntil = Never, !.unavailable = FALSE, !.retry = Never]
           c == Updated(a, expires)
<1>1. /\ a.quotaUntil \in Nat /\ a.retry \in Nat /\ a.unavailable \in BOOLEAN
      /\ a.refused = {} /\ a.until \in [Models -> Nat \cup {None}]
  BY DEF AuthSet, Ending
<1>2. c = IF a.quotaUntil > now
          THEN [b EXCEPT !.quotaUntil = a.quotaUntil, !.unavailable = a.unavailable,
                         !.retry = a.retry]
          ELSE b
  BY <1>1 DEF Updated
<1>3. /\ b \in AuthSet /\ b.gen = a.gen /\ b.until = a.until /\ ~b.unauthorized
      /\ b.refused = {} /\ b.expires = expires /\ b.quotaUntil = Never /\ b.retry = Never
  BY <1>1 DEF AuthSet, Never
<1> HIDE DEF b, c
<1>4. /\ c \in AuthSet /\ c.gen = a.gen /\ c.until = a.until /\ ~c.unauthorized
      /\ c.refused = {} /\ c.expires = expires
      /\ c.quotaUntil \in {a.quotaUntil, Never} /\ c.retry \in {a.retry, Never}
      /\ c.quotaUntil = a.quotaUntil \/ (a.quotaUntil <= now /\ c.quotaUntil <= now)
  <2>1. CASE a.quotaUntil > now
    BY <1>1, <1>2, <1>3, <2>1 DEF AuthSet
  <2>2. CASE ~(a.quotaUntil > now)
    BY <1>1, <1>2, <1>3, <2>2 DEF Never
  <2> QED BY <2>1, <2>2
<1>5. Ending(c)
  BY <1>4, BoundAssumption DEF Ending, Tracked, Never, Forever
<1>6. \A s \in Models : AgreeFrom(a, c, s)
  BY <1>4, SameModel
<1> QED BY <1>4, <1>5, <1>6, BumpedKeeps, AgreeEquivalence DEF c

LEMMA ReconcileEffect ==
  ASSUME now \in Nat, NEW a \in AuthSet, Ending(a), NEW models \in SUBSET Models
  PROVE  LET b == Reconciled(a, models)
         IN  /\ Ending(b) /\ \A s \in models : AgreeFrom(a, b, s)
             /\ b = a \/ b.gen = a.gen + 1
             /\ b.expires = a.expires
<1> DEFINE until == [m \in Models |-> IF a.until[m] = None \/ m \notin models THEN None
                                     ELSE IF a.until[m] > now THEN a.until[m] ELSE Never]
           b == [a EXCEPT !.until = until,
                          !.refused = {m \in @ : until[m] \notin {None, Never}}]
           c == updateAggregatedAvailability(b)
           u == c.unauthorized /\ \E m \in Tracked(c) : c.until[m] # Never
           d == [c EXCEPT !.unauthorized = u]
<1>1. /\ Forever \in Nat /\ Forever > 0
      /\ \A o \in Models : /\ a.until[o] \in Nat \cup {None}
                           /\ a.until[o] # None => a.until[o] < Forever
  BY BoundAssumption DEF Forever, AuthSet, Ending, Tracked
<1>2. /\ until \in [Models -> Nat \cup {None}]
      /\ \A o \in Models : until[o] # None => until[o] < Forever
      /\ \A o \in models : \/ until[o] = a.until[o]
                           \/ /\ until[o] \in Nat /\ a.until[o] \in Nat
                              /\ until[o] <= now /\ a.until[o] <= now
  BY <1>1 DEF Never
<1> HIDE DEF until
<1>3. /\ b \in AuthSet /\ b.gen = a.gen /\ b.until = until /\ b.quotaUntil = a.quotaUntil
      /\ ~b.unauthorized /\ Ending(b) /\ b.expires = a.expires
  <2>1. a.refused = {}
    BY DEF Ending
  <2>2. b = [a EXCEPT !.until = until, !.refused = {}]
    BY <2>1 DEF AuthSet
  <2> HIDE DEF b
  <2> QED BY <1>2, <2>2 DEF AuthSet, Ending, Tracked
<1> HIDE DEF b
<1>4. /\ c \in AuthSet /\ c.gen = a.gen /\ c.until = until /\ ~c.unauthorized
      /\ c.quotaUntil = a.quotaUntil /\ Ending(c) /\ c.expires = a.expires
  BY <1>3, AggregatedKeeps
<1>5. Reconciled(a, models) = IF until = a.until THEN a ELSE Bumped(d)
  BY <1>4 DEF Reconciled, AuthSet, until, b
<1>6. u = FALSE
  BY <1>4
<1> HIDE DEF c, u
<1>7. /\ d \in AuthSet /\ d.gen = a.gen /\ d.until = until /\ ~d.unauthorized
      /\ d.quotaUntil = a.quotaUntil /\ d.retry = c.retry /\ d.refused = c.refused
      /\ d.expires = a.expires
  BY <1>4, <1>6 DEF AuthSet
<1>8. Ending(d)
  BY <1>4, <1>7 DEF Ending, Tracked
<1> HIDE DEF d
<1>9. \A s \in models : AgreeFrom(a, d, s)
  BY <1>2, <1>7, SameModel DEF Ending
<1>10. /\ Ending(Bumped(d)) /\ Bumped(d).gen = a.gen + 1 /\ Bumped(d).expires = a.expires
       /\ \A s \in models : AgreeFrom(a, Bumped(d), s)
  BY <1>7, <1>8, <1>9, BumpedKeeps, AgreeEquivalence
<1> QED BY <1>5, <1>10, AgreeEquivalence

-----------------------------------------------------------------------------
\* What a shard offers.

\* Until when a clone without a 401 is blocked: by its token, or by a cooldown.
LEMMA BlockedBy ==
  ASSUME NEW a \in AuthSet, Ending(a), NEW s \in Shards, NEW t \in Nat
  PROVE  /\ BlockedUntil(a, s, t) \in Nat
         /\ BlockedUntil(a, s, t) = IF a.expires <= t THEN Forever ELSE CooldownUntil(a, s, t)
BY BlockedUntilType DEF BlockedUntil, Ending

\* A new entry offers what its clone does, from now on.
LEMMA EntryOffers ==
  ASSUME now \in Nat, NEW a \in AuthSet, Ending(a), NEW s \in Shards, NEW e,
         e.auth = a, e.until = BlockedUntil(a, s, now)
  PROVE  Stands(e) /\ Follows(e, a, s)
<1>1. Forever \in Nat
  BY BoundAssumption DEF Forever
<1>2. CASE a.expires <= now
  BY <1>2, BlockedBy DEF Stands, Follows
<1>3. CASE ~(a.expires <= now)
  <2>1. e.until = CooldownUntil(a, s, now)
    BY <1>3, BlockedBy
  <2>2. ASSUME NEW t \in now..Forever PROVE OfferedAt(e, s, t) <=> Free(a, s, t)
    <3>1. t \in Nat /\ t >= now
      BY <1>1
    <3>2. CooldownUntil(a, s, now) = Never <=> Free(a, s, now)
      BY DEF Free
    <3> QED BY <2>1, <3>1, <3>2, CooldownEnds DEF OfferedAt, Never
  <2>3. e.until < Forever
    BY <2>1, CooldownEnds
  <2> QED BY <2>2, <2>3 DEF Stands, Follows
<1> QED BY <1>2, <1>3

\* The entry written for a clone has its token and offers what it does.
LEMMA WrittenEntry ==
  ASSUME now \in Nat, NEW mt \in MetaSet, mt # None, Ending(mt.auth), NEW s \in Shards
  PROVE  LET e == Entry(mt, s)
         IN  /\ e # None <=> Supports(mt, s)
             /\ e # None => e.auth = mt.auth /\ Stands(e) /\ Follows(e, mt.auth, s)
<1> DEFINE w == [auth |-> mt.auth, until |-> BlockedUntil(mt.auth, s, now)]
<1>1. mt.auth \in AuthSet /\ w.auth = mt.auth /\ w.until = BlockedUntil(mt.auth, s, now)
  BY DEF MetaSet
<1>2. w # None
  <2>1. w \in EntrySet
    BY <1>1, BlockedBy DEF EntrySet
  <2> QED BY <2>1, NoneAssumption
<1>3. Entry(mt, s) = IF Supports(mt, s) THEN w ELSE None
  BY DEF Entry
<1> HIDE DEF w
<1>4. Stands(w) /\ Follows(w, mt.auth, s)
  BY <1>1, EntryOffers
<1> QED BY <1>1, <1>2, <1>3, <1>4

\* An entry offers at this moment what a selection sees: nothing once its token has
\* expired.
LEMMA OfferedNow ==
  ASSUME now \in Nat, now < Forever, NEW s \in Shards, NEW id \in Auths,
         entries[s][id] \in EntrySet, entries[s][id] # None, Stands(entries[s][id])
  PROVE  LET e == entries[s][id]
         IN  Offered(s, id) <=> ~(e.auth.expires <= now) /\ OfferedAt(e, s, now)
<1> DEFINE e == entries[s][id]
<1>1. /\ e.until \in Nat /\ e.auth \in AuthSet /\ e.auth.expires \in Nat
      /\ Forever \in Nat /\ Forever # 0
  BY BoundAssumption DEF EntrySet, AuthSet, Forever
<1>2. [e EXCEPT !.until = BlockedUntil(e.auth, s, now)].until = BlockedUntil(e.auth, s, now)
  BY DEF EntrySet
<1>3. Ending(e.auth) /\ (e.until < Forever \/ e.auth.expires <= now)
  BY DEF Stands
<1>4. BlockedUntil(e.auth, s, now)
        = IF e.auth.expires <= now THEN Forever ELSE CooldownUntil(e.auth, s, now)
  BY <1>1, <1>3, BlockedBy
<1>5. Offered(s, id) <=> IF (IF e.until = Never THEN e.auth.expires ELSE e.until) <= now
                         THEN BlockedUntil(e.auth, s, now) = Never ELSE e.until = Never
  BY <1>2 DEF Offered, Promoted
<1> HIDE DEF e
<1> QED BY <1>1, <1>3, <1>4, <1>5 DEF OfferedAt, Free, Never, e

\* Looking at it again changes nothing of it.
LEMMA PromotedOffers ==
  ASSUME now \in Nat, now < Forever, NEW s \in Shards, NEW e \in EntrySet, e # None,
         Stands(e)
  PROVE  LET p == Promoted(e, s)
         IN  /\ p # None /\ p.auth = e.auth /\ Stands(p)
             /\ \A a : Follows(e, a, s) => Follows(p, a, s)
<1> DEFINE p == [e EXCEPT !.until = BlockedUntil(e.auth, s, now)]
<1>1. e.until \in Nat /\ e.auth \in AuthSet /\ Forever \in Nat /\ Ending(e.auth)
  BY BoundAssumption DEF EntrySet, Forever, Stands
<1>2. p \in EntrySet /\ p.auth = e.auth /\ p.until = BlockedUntil(e.auth, s, now)
  BY <1>1, BlockedBy DEF EntrySet
<1>3. Stands(p) /\ Follows(p, e.auth, s) /\ p # None
  <2> HIDE DEF p
  <2> QED BY <1>1, <1>2, EntryOffers, NoneAssumption
<1>4. Promoted(e, s) = IF (IF e.until = Never THEN e.auth.expires ELSE e.until) <= now
                       THEN p ELSE e
  BY DEF Promoted
<1> HIDE DEF p
<1>5. CASE e.until = Never /\ e.auth.expires <= now
  <2>1. p.until = Forever
    BY <1>1, <1>2, <1>5, BlockedBy
  <2> QED BY <1>2, <1>3, <1>4, <1>5, <2>1 DEF Follows
<1>6. CASE e.until # Never /\ e.until <= now
  <2>1. \A t \in now..Forever : OfferedAt(e, s, t) <=> Free(e.auth, s, t)
    BY <1>1, <1>6 DEF OfferedAt
  <2>2. e.until # Forever
    BY <1>1, <1>6
  <2>3. ASSUME NEW a, Follows(e, a, s) PROVE Follows(p, a, s)
    BY <1>3, <2>1, <2>2, <2>3 DEF Follows
  <2> QED BY <1>2, <1>3, <1>4, <1>6, <2>3
<1>7. CASE ~((IF e.until = Never THEN e.auth.expires ELSE e.until) <= now)
  BY <1>4, <1>7
<1> QED BY <1>5, <1>6, <1>7

-----------------------------------------------------------------------------
\* How the steps keep the agreement.

\* What the invariant compares are credentials with a generation.
LEMMA LiveTypes ==
  ASSUME TypeOK, NEW id \in Auths, manager[id] # None, Published(id)
  PROVE  /\ \A msg \in Clones(id) : msg.auth \in AuthSet /\ msg.auth.gen \in Nat
         /\ \A msg \in Clones(id) : /\ msg \in inflight /\ msg.id = id
                                    /\ msg.kind \in {"lifecycle", "registration", "result"}
         /\ \A x \in Live(id) : /\ x \in AuthSet /\ x.gen \in Nat
                                /\ meta[id].auth.gen <= x.gen /\ x.gen <= manager[id].gen
         /\ manager[id] \in AuthSet /\ manager[id].gen \in Nat
         /\ meta[id] \in MetaSet /\ meta[id] # None
         /\ meta[id].auth \in AuthSet /\ meta[id].auth.gen \in Nat
         /\ authGenerations[id] # None /\ authGenerations[id].epoch = 1
         /\ authGenerations[id].gen = meta[id].auth.gen
<1>1. manager[id] \in AuthSet /\ manager[id].gen \in Nat
  BY DEF TypeOK, AuthSet
<1>2. /\ meta[id] \in MetaSet /\ meta[id] # None
      /\ meta[id].auth \in AuthSet /\ meta[id].auth.gen \in Nat
  BY DEF Published, Ordered, TypeOK, MetaSet, AuthSet
<1>3. /\ authGenerations[id] # None /\ authGenerations[id].epoch = 1
      /\ authGenerations[id].gen = meta[id].auth.gen
  BY <1>2, VersionType, NoneAssumption DEF Published, Ordered
<1>4. ASSUME NEW msg \in Clones(id)
      PROVE  /\ msg.auth \in AuthSet /\ msg.auth.gen \in Nat /\ msg \in inflight /\ msg.id = id
             /\ msg.kind \in {"lifecycle", "registration", "result"}
             /\ msg.auth.gen <= manager[id].gen
  <2>1. msg \in inflight /\ msg.id = id /\ msg.kind # "tombstone"
        /\ msg.auth.gen <= manager[id].gen
    BY <1>4 DEF Clones, Published, Ordered
  <2>2. msg \in MessageSet
    BY <2>1 DEF TypeOK
  <2>3. msg.auth \in AuthSet /\ msg.kind \in {"lifecycle", "registration", "result"}
    BY <2>1, <2>2 DEF MessageSet
  <2> QED BY <2>1, <2>3 DEF AuthSet
<1>5. meta[id].auth.gen <= manager[id].gen
  BY DEF Published, Ordered
<1>6. ASSUME NEW x \in Live(id)
      PROVE  /\ x \in AuthSet /\ x.gen \in Nat
             /\ meta[id].auth.gen <= x.gen /\ x.gen <= manager[id].gen
  BY <1>1, <1>2, <1>3, <1>4, <1>5, <1>6 DEF Live
<1> QED BY <1>1, <1>2, <1>3, <1>4, <1>6

\* A step that is about other credentials.
LEMMA ElsewhereKeeps ==
  ASSUME NEW id \in Auths, Published(id), now' = now, shards' = shards,
         manager'[id] = manager[id], authGenerations'[id] = authGenerations[id],
         meta'[id] = meta[id], registered'[id] = registered[id],
         regEpoch'[id] = regEpoch[id], refreshDue'[id] = refreshDue[id],
         Clones(id)' = Clones(id), id \in overtaken <=> id \in overtaken',
         \A s \in shards : entries'[s][id] = entries[s][id]
  PROVE  Published(id)'
<1>1. Ordered(id)' /\ ModelsKnown(id)'
  BY DEF Published, Ordered, ModelsKnown, Ending, Tracked, Version
<1>2. Live(id)' = Live(id)
  BY DEF Live
<1>3. LiveAccounted(id)'
  BY <1>2 DEF Published, LiveAccounted, Accounted, AgreeFrom, Accounts, Between, Reaches,
              Targets, Free
<1>4. ASSUME NEW s \in shards PROVE EntryAgrees(s, id)'
  <2>1. Supports(meta'[id], s) <=> Supports(meta[id], s)
    BY DEF Supports
  <2>2. \A n \in Clones(id) : Reaches(n, s)' <=> Reaches(n, s)
    BY DEF Reaches, Targets
  <2>3. Stands(entries[s][id])' <=> Stands(entries[s][id])
    BY DEF Stands, Ending, Tracked
  <2>4. Follows(entries[s][id], meta[id].auth, s)' <=> Follows(entries[s][id], meta[id].auth, s)
    BY DEF Follows, OfferedAt, Free
  <2> QED BY <2>1, <2>2, <2>3, <2>4 DEF Published, EntryAgrees
<1>5. TokensKnown(id)' /\ \A s \in shards' : EntryToken(s, id)'
  BY <1>2 DEF Published, TokensKnown, EntryToken, Renewing
<1> QED BY <1>1, <1>3, <1>4, <1>5 DEF Published

\* The manager's credential moves on, and its clone is on its way or changes
\* nothing of a shard.
LEMMA NewClone ==
  ASSUME TypeOK, NEW id \in Auths, manager[id] # None, Published(id),
         NEW a \in AuthSet, manager'[id] = a, a.epoch = 1, Ending(a),
         a = manager[id] \/ a.gen = manager[id].gen + 1,
         now' = now, registered' = registered, regEpoch' = regEpoch, UNCHANGED schedVars,
         Clones(id) \subseteq Clones(id)',
         \A msg \in Clones(id)' : msg \in Clones(id) \/ (msg.kind # "tombstone" /\ msg.auth = a),
         \A s \in Shards : \/ AgreeFrom(manager[id], a, s)
                           \/ \E msg \in Clones(id)' : msg.auth = a /\ Accounts(msg, id, s),
         \/ refreshDue'[id] = refreshDue[id] \/ refreshDue'[id] # "idle"
         \/ \E msg \in Clones(id)' : msg.kind = "registration" /\ msg.auth = a,
         \/ a.expires = manager[id].expires
         \/ \E msg \in Clones(id)' : msg.kind = "lifecycle" /\ msg.auth = a
  PROVE  Published(id)'
<1>1. /\ authGenerations' = authGenerations /\ meta' = meta /\ shards' = shards
      /\ entries' = entries /\ overtaken' = overtaken
  BY DEF schedVars
<1>2. a.gen \in Nat /\ manager[id].gen <= a.gen
  BY LiveTypes DEF AuthSet
<1>3. Ordered(id)'
  <2>1. \A msg \in Clones(id)' : /\ msg.kind # "tombstone" /\ msg.auth.epoch = 1
                                 /\ msg.auth.gen <= a.gen /\ Ending(msg.auth)
    BY <1>2, LiveTypes DEF Published, Ordered
  <2>2. meta[id].auth.gen <= a.gen
    BY <1>2, LiveTypes DEF Published, Ordered
  <2> QED BY <1>1, <2>1, <2>2 DEF Published, Ordered, Ending, Tracked
<1>4. ModelsKnown(id)'
  <2>1. ASSUME NEW msg \in Clones(id)', msg.auth = a
        PROVE  msg.auth.gen >= authGenerations[id].gen
    BY <1>2, <2>1, LiveTypes DEF Published, Ordered
  <2> QED BY <1>1, <2>1 DEF Published, ModelsKnown
<1>5. Live(id)' \subseteq Live(id) \cup {a}
  BY <1>1 DEF Live
<1>6. LiveAccounted(id)'
  <2> SUFFICES ASSUME NEW x \in Live(id)', NEW y \in Live(id)', x.gen <= y.gen, NEW s \in Shards
               PROVE  \/ AgreeFrom(x, y, s)
                      \/ \E msg \in Clones(id)' : Between(x, msg, y) /\ Accounts(msg, id, s)
    BY DEF LiveAccounted, Accounted, AgreeFrom, Between, Accounts, Reaches, Targets, Free
  <2>1. x \in Live(id) \cup {a} /\ y \in Live(id) \cup {a} /\ manager[id] \in Live(id)
    BY <1>5 DEF Live
  <2>2. CASE x = y
    BY <2>2, AgreeEquivalence
  <2>3. CASE x \in Live(id) /\ y \in Live(id)
    BY <2>3 DEF Published, LiveAccounted, Accounted
  <2>4. CASE a # manager[id] /\ x = a /\ y \in Live(id)
    BY <2>4, LiveTypes
  <2>5. CASE a # manager[id] /\ x \in Live(id) /\ y = a
    <3>1. x.gen <= manager[id].gen /\ x.gen \in Nat /\ manager[id].gen \in Nat
      BY <2>5, LiveTypes
    <3>2. CASE AgreeFrom(manager[id], a, s)
      <4>1. CASE AgreeFrom(x, manager[id], s)
        BY <2>5, <3>2, <4>1, AgreeEquivalence
      <4>2. CASE ~AgreeFrom(x, manager[id], s)
        <5>1. PICK msg \in Clones(id) : Between(x, msg, manager[id]) /\ Accounts(msg, id, s)
          BY <2>1, <2>5, <3>1, <4>2 DEF Published, LiveAccounted, Accounted
        <5>2. Between(x, msg, a)
          BY <1>2, <3>1, <5>1, LiveTypes DEF Between
        <5> QED BY <2>5, <5>1, <5>2
      <4> QED BY <4>1, <4>2
    <3>3. CASE \E msg \in Clones(id)' : msg.auth = a /\ Accounts(msg, id, s)
      <4>1. x.gen < a.gen
        BY <2>5, <3>1
      <4> QED BY <1>2, <2>5, <3>3, <4>1 DEF Between
    <3> QED BY <3>2, <3>3
  <2> QED BY <2>1, <2>2, <2>3, <2>4, <2>5
<1>7. \A s \in shards' : EntryAgrees(s, id)'
  <2>1. ASSUME NEW s \in shards, NEW msg \in Clones(id), Reaches(msg, s)
        PROVE  \E n \in Clones(id)' : Reaches(n, s)'
    BY <2>1 DEF Reaches, Targets
  <2> QED BY <1>1, <2>1
      DEF Published, EntryAgrees, Supports, OfferedAt, Free, Ending, Tracked, Stands, Follows
<1>8. \A msg \in Renewing(id) : msg \in Renewing(id)'
  BY DEF Renewing
<1>9. CASE a.expires = manager[id].expires
  <2>1. \A x \in Live(id)' : \/ x.expires = a.expires
                             \/ \E msg \in Renewing(id) : x.gen < msg.auth.gen
    BY <1>5, <1>9 DEF Published, TokensKnown
  <2>2. TokensKnown(id)'
    BY <1>8, <2>1 DEF TokensKnown
  <2>3. \A s \in shards' : EntryToken(s, id)'
    BY <1>1, <1>8, <1>9 DEF Published, EntryToken
  <2> QED BY <1>3, <1>4, <1>6, <1>7, <2>2, <2>3 DEF Published
<1>10. CASE a.expires # manager[id].expires
  <2>1. PICK n \in Renewing(id)' : n.auth = a
    BY <1>10 DEF Renewing
  <2>2. a.gen = manager[id].gen + 1
    BY <1>10
  <2>3. ASSUME NEW x \in Live(id)' PROVE x.expires = a.expires \/ x.gen < n.auth.gen
    <3>1. CASE x = a
      BY <3>1
    <3>2. CASE x \in Live(id)
      BY <2>1, <2>2, <3>2, LiveTypes
    <3> QED BY <1>5, <3>1, <3>2
  <2>4. TokensKnown(id)'
    BY <2>1, <2>3 DEF TokensKnown
  <2>5. \A s \in shards' : EntryToken(s, id)'
    BY <2>1 DEF EntryToken
  <2> QED BY <1>3, <1>4, <1>6, <1>7, <2>4, <2>5 DEF Published
<1> QED BY <1>9, <1>10

\* A delivery leaves every remaining difference accounted for: the clone it takes
\* away came after none of those that still count.
LEMMA DeliveredAccounted ==
  ASSUME NEW id \in Auths, Published(id), NEW msg \in Clones(id),
         Clones(id)' = Clones(id) \ {msg}, Live(id)' \subseteq Live(id),
         \A x \in Live(id)' : ~(x.gen < msg.auth.gen) \/ msg.auth.gen < meta[id].auth.gen,
         \A x \in Live(id) : x.gen \in Nat /\ meta[id].auth.gen <= x.gen,
         msg.auth.gen \in Nat, meta[id].auth.gen \in Nat,
         now' = now, registered'[id] = registered[id]
  PROVE  LiveAccounted(id)'
<1> SUFFICES ASSUME NEW x \in Live(id)', NEW y \in Live(id)', x.gen <= y.gen, NEW s \in Shards
             PROVE  \/ AgreeFrom(x, y, s)
                    \/ \E n \in Clones(id)' : Between(x, n, y) /\ Accounts(n, id, s)
  BY DEF LiveAccounted, Accounted, AgreeFrom, Between, Accounts, Reaches, Targets, Free
<1>1. x \in Live(id) /\ y \in Live(id)
  OBVIOUS
<1>2. CASE AgreeFrom(x, y, s)
  BY <1>2
<1>3. CASE ~AgreeFrom(x, y, s)
  <2>1. PICK n \in Clones(id) : Between(x, n, y) /\ Accounts(n, id, s)
    BY <1>1, <1>3 DEF Published, LiveAccounted, Accounted
  <2>2. n # msg
    <3>1. x.gen < n.auth.gen
      BY <2>1 DEF Between
    <3>2. meta[id].auth.gen <= x.gen /\ x.gen \in Nat
      BY <1>1
    <3> QED BY <3>1, <3>2
  <2> QED BY <2>1, <2>2
<1> QED BY <1>2, <1>3

\* So does it for the tokens.
LEMMA DeliveredTokens ==
  ASSUME NEW id \in Auths, Published(id), NEW msg \in Clones(id),
         Clones(id)' = Clones(id) \ {msg}, Live(id)' \subseteq Live(id),
         \A x \in Live(id)' : ~(x.gen < msg.auth.gen) \/ msg.auth.gen < meta[id].auth.gen,
         \A x \in Live(id) : x.gen \in Nat /\ meta[id].auth.gen <= x.gen,
         msg.auth.gen \in Nat, meta[id].auth.gen \in Nat, manager'[id] = manager[id]
  PROVE  TokensKnown(id)'
<1> SUFFICES ASSUME NEW x \in Live(id)', x.expires # manager[id].expires
             PROVE  \E n \in Renewing(id)' : x.gen < n.auth.gen
  BY DEF TokensKnown
<1>1. PICK n \in Renewing(id) : x.gen < n.auth.gen
  BY DEF Published, TokensKnown
<1>2. n # msg
  <2>1. meta[id].auth.gen <= x.gen /\ x.gen \in Nat
    OBVIOUS
  <2> QED BY <1>1, <2>1
<1> QED BY <1>1, <1>2 DEF Renewing

\* The clone of a stale delivery changes nothing but the entries of the shards a
\* result was for.
LEMMA StaleDelivery ==
  ASSUME TypeOK, NEW id \in Auths, manager[id] # None, Published(id), NEW msg \in Clones(id),
         Clones(id)' = Clones(id) \ {msg}, msg.auth.gen < meta[id].auth.gen,
         UNCHANGED <<now, authGenerations, meta, shards>>,
         UNCHANGED mgrVars, UNCHANGED registryVars,
         id \in overtaken \/ msg.kind = "lifecycle" => id \in overtaken',
         \A s \in shards : IF Reaches(msg, s) THEN entries'[s][id] = Entry(meta[id], s)
                                              ELSE entries'[s][id] = entries[s][id]
  PROVE  Published(id)'
<1>1. Ordered(id)'
  BY DEF Published, Ordered, mgrVars, Ending, Tracked, Version
<1>2. ModelsKnown(id)'
  <2>1. ~(msg.auth.gen >= authGenerations[id].gen)
    BY LiveTypes
  <2> QED BY <2>1 DEF Published, ModelsKnown, registryVars
<1>3. Live(id)' \subseteq Live(id)
  BY DEF Live, mgrVars
<1>4. LiveAccounted(id)'
  BY <1>3, LiveTypes, DeliveredAccounted DEF registryVars
<1>5. TokensKnown(id)'
  BY <1>3, LiveTypes, DeliveredTokens DEF mgrVars
<1>6. ASSUME NEW s \in shards PROVE EntryAgrees(s, id)' /\ EntryToken(s, id)'
  <2>1. /\ s \in Shards /\ meta[id] \in MetaSet /\ meta[id] # None /\ Ending(meta[id].auth)
        /\ now \in Nat
    BY LiveTypes DEF TypeOK, Published, Ordered
  <2>2. CASE Reaches(msg, s)
    <3> DEFINE e == Entry(meta[id], s)
    <3>1. entries'[s][id] = e
      BY <2>2
    <3>2. /\ e # None <=> Supports(meta[id], s)
          /\ e # None => e.auth = meta[id].auth /\ Stands(e) /\ Follows(e, meta[id].auth, s)
      BY <2>1, WrittenEntry
    <3> HIDE DEF e
    <3>3. EntryAgrees(s, id)'
      BY <3>1, <3>2 DEF EntryAgrees, Supports, OfferedAt, Free, Ending, Tracked, Stands, Follows
    <3>4. EntryToken(s, id)'
      <4>1. meta'[id].auth \in Live(id)'
        BY DEF Live
      <4> QED BY <1>5, <3>1, <3>2, <4>1 DEF EntryToken, TokensKnown
    <3> QED BY <3>3, <3>4
  <2>3. CASE ~Reaches(msg, s)
    <3>1. EntryAgrees(s, id)'
      BY <2>3 DEF Published, EntryAgrees, Reaches, Targets, Supports, OfferedAt, Free, Ending,
                  Tracked, Stands, Follows
    <3>2. EntryToken(s, id)'
      BY <2>3 DEF Published, EntryToken, Renewing, mgrVars
    <3> QED BY <3>1, <3>2
  <2> QED BY <2>2, <2>3
<1> QED BY <1>1, <1>2, <1>4, <1>5, <1>6 DEF Published

\* An accepted clone becomes the scheduler's, with the registered models. A shard it
\* is not written to offers the same, or a result that will write it is on its way.
LEMMA AcceptedDelivery ==
  ASSUME TypeOK, NEW id \in Auths, manager[id] # None, Published(id), NEW msg \in Clones(id),
         Clones(id)' = Clones(id) \ {msg}, msg.auth.gen >= meta[id].auth.gen,
         UNCHANGED <<now, shards>>, UNCHANGED mgrVars, UNCHANGED registryVars,
         authGenerations'[id] = Version(msg.auth),
         meta'[id] = NewMeta(msg.auth, registered[id], regEpoch[id]),
         NEW targets \in SUBSET Shards,
         targets = Shards \/ meta[id].regEpoch = regEpoch[id],
         \/ targets = Shards
         \/ msg.kind # "lifecycle" /\ (id \in overtaken => id \in overtaken'),
         \A s \in Shards : Reaches(msg, s) => s \in targets,
         AnyModel \in targets,
         \A s \in shards : IF s \in targets THEN entries'[s][id] = Entry(meta'[id], s)
                                            ELSE entries'[s][id] = entries[s][id]
  PROVE  Published(id)'
<1> DEFINE a == msg.auth
<1>1. /\ a \in AuthSet /\ a.gen \in Nat /\ a.epoch = 1 /\ Ending(a) /\ a.gen <= manager[id].gen
  BY LiveTypes DEF Published, Ordered
<1>2. /\ meta'[id] \in MetaSet /\ meta'[id] # None /\ meta'[id].auth = a
      /\ meta'[id].models = registered[id] /\ meta'[id].regEpoch = regEpoch[id]
  <2>1. NewMeta(a, registered[id], regEpoch[id]) \in MetaSet
    BY <1>1, NewMetaType DEF TypeOK
  <2> QED BY <2>1, NoneAssumption DEF NewMeta
<1>3. authGenerations'[id].gen = a.gen
  BY <1>1, VersionType
<1>4. Ordered(id)'
  BY <1>1, <1>2 DEF Published, Ordered, mgrVars, Ending, Tracked, Version
<1>5. ModelsKnown(id)'
  BY <1>2 DEF Published, ModelsKnown, registryVars, TypeOK
<1>6. \A x \in Live(id)' : x \in Live(id) /\ ~(x.gen < a.gen)
  <2>1. a \in Live(id)
    BY <1>1, LiveTypes DEF Live
  <2>2. ASSUME NEW n \in Clones(id)', n.auth.gen >= a.gen PROVE n.auth \in Live(id)
    BY <1>1, <2>2, LiveTypes DEF Live
  <2> QED BY <1>1, <1>2, <1>3, <2>1, <2>2, LiveTypes DEF Live, mgrVars
<1>7. LiveAccounted(id)'
  BY <1>6, LiveTypes, DeliveredAccounted DEF registryVars
<1>8. TokensKnown(id)'
  BY <1>6, LiveTypes, DeliveredTokens DEF mgrVars
<1>9. ASSUME NEW s \in shards PROVE EntryAgrees(s, id)' /\ EntryToken(s, id)'
  <2>1. s \in Shards /\ now \in Nat
    BY DEF TypeOK
  <2>2. CASE s \in targets
    <3> DEFINE e == Entry(meta'[id], s)
    <3>1. entries'[s][id] = e
      BY <2>2
    <3>2. /\ e # None <=> Supports(meta'[id], s)
          /\ e # None => e.auth = a /\ Stands(e) /\ Follows(e, a, s)
      <4> HIDE DEF a
      <4> QED BY <1>1, <1>2, <2>1, WrittenEntry
    <3> HIDE DEF e
    <3>3. EntryAgrees(s, id)'
      BY <1>2, <3>1, <3>2
      DEF EntryAgrees, Supports, OfferedAt, Free, Ending, Tracked, Stands, Follows
    <3>4. EntryToken(s, id)'
      <4>1. meta'[id].auth \in Live(id)'
        BY DEF Live
      <4> QED BY <1>2, <1>8, <3>1, <3>2, <4>1 DEF EntryToken, TokensKnown
    <3> QED BY <3>3, <3>4
  <2>3. CASE s \notin targets
    <3>1. /\ entries'[s][id] = entries[s][id] /\ meta[id].regEpoch = regEpoch[id]
          /\ s # AnyModel /\ ~Reaches(msg, s)
      BY <2>1, <2>3
    <3>2. meta[id].models = registered[id]
      BY <3>1 DEF Published, ModelsKnown
    <3>3. /\ EntryAgrees(s, id)
          /\ Supports(meta'[id], s) <=> Supports(meta[id], s)
          /\ Supports(meta[id], s) <=> s \in registered[id]
      BY <1>2, <3>1, <3>2 DEF Published, Supports
    <3>4. CASE entries[s][id] = None
      BY <3>1, <3>3, <3>4 DEF EntryAgrees, Supports, EntryToken
    <3>5. CASE entries[s][id] # None
      <4> DEFINE e == entries[s][id]
                 Agrees == Follows(e, a, s)
                 Coming == \E n \in Clones(id) \ {msg} : Reaches(n, s)
      <4>1. Agrees \/ Coming
        <5>1. CASE \E n \in Clones(id) : Reaches(n, s)
          BY <3>1, <5>1
        <5>2. CASE ~\E n \in Clones(id) : Reaches(n, s)
          <6>1. Follows(e, meta[id].auth, s)
            BY <3>3, <3>5, <5>2 DEF EntryAgrees
          <6>2. Accounted(id, meta[id].auth, a, s)
            <7>1. meta[id].auth \in Live(id) /\ a \in Live(id)
              BY <1>1, LiveTypes DEF Live
            <7>2. meta[id].auth.gen <= a.gen
              BY <1>1, LiveTypes
            <7> HIDE DEF a
            <7> QED BY <2>1, <7>1, <7>2 DEF Published, LiveAccounted
          <6>3. ~\E n \in Clones(id) : Accounts(n, id, s)
            BY <3>1, <3>3, <3>5, <5>2 DEF Accounts, EntryAgrees
          <6>4. AgreeFrom(meta[id].auth, a, s)
            BY <6>2, <6>3 DEF Accounted
          <6> QED BY <6>1, <6>4 DEF AgreeFrom, Follows
        <5> QED BY <5>1, <5>2
      <4>2. Stands(e)
        BY <3>3, <3>5 DEF EntryAgrees
      <4>3. Supports(meta'[id], s)
        BY <3>3, <3>5 DEF EntryAgrees
      <4>4. EntryAgrees(s, id)'
        BY <1>2, <3>1, <3>5, <4>1, <4>2, <4>3
        DEF EntryAgrees, Supports, OfferedAt, Free, Ending, Tracked, Reaches, Targets, Stands,
            Follows
      <4>5. EntryToken(s, id)'
        <5>1. msg.kind # "lifecycle" /\ (id \in overtaken => id \in overtaken')
          BY <2>1, <2>3
        <5>2. Renewing(id)' = Renewing(id)
          BY <5>1 DEF Renewing
        <5> QED BY <3>1, <5>1, <5>2 DEF Published, EntryToken, mgrVars
      <4> QED BY <4>4, <4>5
    <3> QED BY <3>4, <3>5
  <2> QED BY <2>2, <2>3
<1> QED BY <1>4, <1>5, <1>7, <1>8, <1>9 DEF Published

\* A delivery writes the shards of its targets and nothing of other credentials.
LEMMA UpsertWrites ==
  ASSUME TypeOK, NEW id \in Auths, NEW mt, NEW targets,
         upsertAuthForModels(id, mt, targets)
  PROVE  /\ shards' = shards /\ meta'[id] = mt
         /\ \A o \in Auths : o # id => meta'[o] = meta[o]
         /\ \A s \in shards : /\ IF s \in targets THEN entries'[s][id] = Entry(mt, s)
                                                 ELSE entries'[s][id] = entries[s][id]
                              /\ \A o \in Auths : o # id => entries'[s][o] = entries[s][o]
BY DEF upsertAuthForModels, TypeOK

LEMMA DeliveryKeeps ==
  ASSUME TypeOK, SchedulerInv, NEW msg \in inflight, Deliver(msg), NEW id \in Auths,
         manager[id] # None
  PROVE  Published(id)'
<1>1. Published(id) /\ msg \in MessageSet /\ msg.id \in Auths
  BY DEF SchedulerInv, TypeOK, MessageSet
<1>2. /\ now' = now /\ UNCHANGED mgrVars /\ UNCHANGED registryVars
      /\ inflight' = inflight \ {msg}
  BY DEF Deliver
<1>3. CASE msg.id # id
  <2>1. Clones(id)' = Clones(id)
    BY <1>2, <1>3 DEF Clones
  <2>2. /\ authGenerations'[id] = authGenerations[id] /\ meta'[id] = meta[id]
        /\ shards' = shards /\ \A s \in shards : entries'[s][id] = entries[s][id]
        /\ id \in overtaken <=> id \in overtaken'
    <3>1. CASE UNCHANGED schedVars
      BY <3>1 DEF schedVars
    <3>2. ASSUME NEW v, recorded(msg.id, v)
          PROVE  authGenerations'[id] = authGenerations[id]
      BY <1>1, <1>3, <3>2 DEF recorded, TypeOK
    <3>3. CASE upsertAuthLifecycleLocked(msg)
      BY <1>1, <1>3, <3>1, <3>2, <3>3, UpsertWrites DEF upsertAuthLifecycleLocked
    <3>4. CASE upsertAuthResultLocked(msg)
      BY <1>1, <1>3, <3>2, <3>4, UpsertWrites DEF upsertAuthResultLocked
    <3>5. CASE RecordRemovalTombstone(msg)
      BY <1>1, <1>3, <3>1, <3>2, <3>5 DEF RecordRemovalTombstone, TypeOK
    <3> QED BY <3>3, <3>4, <3>5 DEF Deliver
  <2> QED BY <1>1, <1>2, <2>1, <2>2, ElsewhereKeeps DEF mgrVars, registryVars
<1>4. CASE msg.id = id
  <2>1. msg \in Clones(id) /\ Clones(id)' = Clones(id) \ {msg}
    BY <1>2, <1>4 DEF Clones
  <2>2. /\ msg.auth \in AuthSet /\ msg.auth.gen \in Nat
        /\ msg.kind \in {"lifecycle", "registration", "result"}
        /\ meta[id] \in MetaSet /\ meta[id] # None /\ meta[id].auth.gen \in Nat
        /\ authGenerations[id] # None /\ authGenerations[id].epoch = 1
        /\ authGenerations[id].gen = meta[id].auth.gen
    BY <1>1, <2>1, LiveTypes
  <2>3. isStaleScheduledAuth(id, Version(msg.auth)) <=> msg.auth.gen < meta[id].auth.gen
    <3>1. Version(msg.auth).epoch = 1 /\ Version(msg.auth).gen = msg.auth.gen
      BY <1>1, <2>1, <2>2, VersionType DEF Published, Ordered
    <3> QED BY <2>2, <3>1 DEF isStaleScheduledAuth, Older
  <2>4. (Targets(msg) \subseteq Shards /\ AnyModel \in Targets(msg)) \/ msg.kind # "result"
    <3>1. ASSUME msg.kind = "result" PROVE msg.targets \in SUBSET Models
      BY <1>1, <3>1 DEF MessageSet
    <3> QED BY <3>1 DEF Targets, Shards
  <2>5. CASE msg.kind \in {"lifecycle", "registration"}
    <3>1. upsertAuthLifecycleLocked(msg)
      BY <2>5 DEF Deliver
    <3>2. CASE msg.auth.gen < meta[id].auth.gen
      <4>1. /\ UNCHANGED <<authGenerations, meta, shards, entries>>
            /\ id \in overtaken \/ msg.kind = "lifecycle" => id \in overtaken'
        BY <1>4, <2>3, <3>1, <3>2 DEF upsertAuthLifecycleLocked
      <4>2. \A s : ~Reaches(msg, s)
        BY <2>5 DEF Reaches
      <4> QED BY <1>1, <1>2, <2>1, <3>2, <4>1, <4>2, StaleDelivery
    <3>3. CASE ~(msg.auth.gen < meta[id].auth.gen)
      <4>1. /\ recorded(id, Version(msg.auth))
            /\ upsertAuthForModels(id, NewMeta(msg.auth, registered[id], regEpoch[id]), Shards)
        BY <1>4, <2>3, <3>1, <3>3 DEF upsertAuthLifecycleLocked
      <4>2. authGenerations'[id] = Version(msg.auth)
        BY <4>1 DEF recorded, TypeOK
      <4>3. msg.auth.gen >= meta[id].auth.gen
        BY <2>2, <3>3
      <4>4. AnyModel \in Shards /\ \A s \in shards : s \in Shards
        BY DEF Shards, TypeOK
      <4> QED BY <1>1, <1>2, <2>1, <4>1, <4>2, <4>3, <4>4, UpsertWrites, AcceptedDelivery
    <3> QED BY <3>2, <3>3
  <2>6. CASE msg.kind = "result"
    <3>1. upsertAuthResultLocked(msg)
      BY <2>6 DEF Deliver
    <3>2. \A s : Reaches(msg, s) <=> s \in Targets(msg)
      BY <2>6 DEF Reaches
    <3>3. CASE msg.auth.gen < meta[id].auth.gen
      <4>1. /\ authGenerations' = authGenerations /\ overtaken' = overtaken
            /\ upsertAuthForModels(id, meta[id], Targets(msg))
        BY <1>4, <2>2, <2>3, <3>1, <3>3 DEF upsertAuthResultLocked
      <4>2. meta' = meta
        BY <4>1 DEF upsertAuthForModels, TypeOK
      <4>3. /\ shards' = shards
            /\ \A s \in shards : IF Reaches(msg, s) THEN entries'[s][id] = Entry(meta[id], s)
                                                    ELSE entries'[s][id] = entries[s][id]
        BY <3>2, <4>1, UpsertWrites
      <4> QED BY <1>1, <1>2, <2>1, <2>6, <3>3, <4>1, <4>2, <4>3, StaleDelivery
    <3>4. CASE ~(msg.auth.gen < meta[id].auth.gen)
      <4> DEFINE existing == meta[id]
                 modelSetChanged == existing = None \/ existing.regEpoch # regEpoch[id]
                 models == IF modelSetChanged THEN registered[id] ELSE existing.models
                 count == Cardinality(models)
                 wasBlocked == existing # None /\ isCredentialBlocked(existing.auth, count)
                 everywhere == \/ modelSetChanged
                               \/ wasBlocked # isCredentialBlocked(msg.auth, count)
                 targets == IF everywhere THEN Shards ELSE Targets(msg)
      <4>1. /\ recorded(id, Version(msg.auth)) /\ overtaken' = overtaken
            /\ upsertAuthForModels(id, NewMeta(msg.auth, models, regEpoch[id]), targets)
        BY <1>4, <2>3, <3>1, <3>4 DEF upsertAuthResultLocked
      <4>2. models = registered[id]
        BY <1>1, <2>2 DEF Published, ModelsKnown
      <4>3. targets \subseteq Shards /\ AnyModel \in targets
        BY <2>4, <2>6 DEF Shards
      <4>4. targets = Shards \/ existing.regEpoch = regEpoch[id]
        OBVIOUS
      <4>5. \A s \in Shards : Reaches(msg, s) => s \in targets
        BY <3>2
      <4> HIDE DEF targets, models
      <4>6. authGenerations'[id] = Version(msg.auth)
        BY <4>1 DEF recorded, TypeOK
      <4>7. msg.auth.gen >= meta[id].auth.gen
        BY <2>2, <3>4
      <4>8. /\ shards' = shards
            /\ meta'[id] = NewMeta(msg.auth, registered[id], regEpoch[id])
            /\ \A s \in shards : IF s \in targets THEN entries'[s][id] = Entry(meta'[id], s)
                                                  ELSE entries'[s][id] = entries[s][id]
        BY <4>1, <4>2, UpsertWrites
      <4> QED BY <1>1, <1>2, <2>1, <2>6, <4>1, <4>3, <4>4, <4>5, <4>6, <4>7, <4>8,
                 AcceptedDelivery
    <3> QED BY <3>3, <3>4
  <2> QED BY <2>2, <2>5, <2>6
<1> QED BY <1>3, <1>4

\* A selection builds a shard from the scheduler's clones, or looks at it again.
LEMMA SelectionKeeps ==
  ASSUME TypeOK, SchedulerInv, NEW s \in Shards, ensureModelLocked(s), NEW id \in Auths,
         manager[id] # None
  PROVE  Published(id)'
<1>1. Published(id) /\ now \in Nat /\ now < Forever
  BY BoundAssumption DEF SchedulerInv, TypeOK, Forever
<1>2. /\ now' = now /\ overtaken' = overtaken /\ manager' = manager /\ registered' = registered /\ regEpoch' = regEpoch
      /\ refreshDue' = refreshDue /\ inflight' = inflight /\ meta' = meta
      /\ authGenerations' = authGenerations /\ shards' = shards \cup {s}
  BY DEF ensureModelLocked, mgrVars, registryVars
<1>3. Ordered(id)' /\ ModelsKnown(id)'
  BY <1>1, <1>2 DEF Published, Ordered, ModelsKnown, Clones, Ending, Tracked, Version
<1>4. Live(id)' = Live(id) /\ Clones(id)' = Clones(id)
  BY <1>2 DEF Live, Clones
<1>5. LiveAccounted(id)'
  BY <1>1, <1>2, <1>4 DEF Published, LiveAccounted, Accounted, AgreeFrom, Accounts, Between,
                          Reaches, Targets, Free
<1>6. TokensKnown(id)' /\ Renewing(id)' = Renewing(id)
  BY <1>1, <1>2, <1>4 DEF Published, TokensKnown, Renewing
<1>7. ASSUME NEW o \in shards', o # s PROVE EntryAgrees(o, id)' /\ EntryToken(o, id)'
  <2>1. o \in shards /\ entries'[o] = entries[o]
    BY <1>2, <1>7 DEF ensureModelLocked, TypeOK
  <2>2. EntryAgrees(o, id)'
    BY <1>1, <1>2, <1>4, <2>1
    DEF Published, EntryAgrees, Reaches, Targets, Supports, OfferedAt, Free, Ending, Tracked,
        Stands, Follows
  <2>3. EntryToken(o, id)'
    BY <1>1, <1>2, <1>6, <2>1 DEF Published, EntryToken
  <2> QED BY <2>2, <2>3
<1>8. EntryAgrees(s, id)' /\ EntryToken(s, id)'
  <2>1. entries'[s][id] = IF s \in shards THEN Promoted(entries[s][id], s)
                          ELSE Entry(meta[id], s)
    BY DEF ensureModelLocked, TypeOK
  <2>2. /\ meta[id] \in MetaSet /\ meta[id] # None /\ Ending(meta[id].auth)
        /\ meta[id].auth \in Live(id)
    BY <1>1, LiveTypes DEF Published, Ordered, Live
  <2>3. CASE s \notin shards
    <3> DEFINE e == Entry(meta[id], s)
    <3>1. entries'[s][id] = e
      BY <2>1, <2>3
    <3>2. /\ e # None <=> Supports(meta[id], s)
          /\ e # None => e.auth = meta[id].auth /\ Stands(e) /\ Follows(e, meta[id].auth, s)
      BY <1>1, <2>2, WrittenEntry
    <3> HIDE DEF e
    <3>3. EntryAgrees(s, id)'
      BY <1>2, <3>1, <3>2
      DEF EntryAgrees, Supports, OfferedAt, Free, Ending, Tracked, Stands, Follows
    <3>4. EntryToken(s, id)'
      BY <1>1, <1>2, <1>6, <2>2, <3>1, <3>2 DEF Published, EntryToken, TokensKnown
    <3> QED BY <3>3, <3>4
  <2>4. CASE s \in shards /\ entries[s][id] = None
    <3>1. entries'[s][id] = None
      BY <2>1, <2>4 DEF Promoted
    <3> QED BY <1>1, <1>2, <2>4, <3>1 DEF Published, EntryAgrees, Supports, EntryToken
  <2>5. CASE s \in shards /\ entries[s][id] # None
    <3> DEFINE e == entries[s][id]
               p == Promoted(e, s)
    <3>1. e \in EntrySet /\ EntryAgrees(s, id) /\ EntryToken(s, id)
      BY <1>1, <2>5 DEF TypeOK, Published
    <3>2. Stands(e)
      BY <2>5, <3>1 DEF EntryAgrees
    <3>3. /\ p # None /\ p.auth = e.auth /\ Stands(p)
          /\ Follows(e, meta[id].auth, s) => Follows(p, meta[id].auth, s)
      <4> HIDE DEF e
      <4> QED BY <1>1, <2>5, <3>1, <3>2, PromotedOffers DEF e
    <3>4. entries'[s][id] = p
      BY <2>1, <2>5
    <3> HIDE DEF p
    <3>5. /\ Supports(meta[id], s)
          /\ \/ Follows(p, meta[id].auth, s)
             \/ s # AnyModel /\ \E n \in Clones(id) : Reaches(n, s)
      BY <2>5, <3>1, <3>3 DEF EntryAgrees
    <3>6. EntryAgrees(s, id)'
      BY <1>2, <1>4, <3>3, <3>4, <3>5
      DEF EntryAgrees, Supports, OfferedAt, Free, Ending, Tracked, Reaches, Targets, Stands,
          Follows
    <3>7. EntryToken(s, id)'
      BY <1>2, <1>6, <2>5, <3>1, <3>3, <3>4 DEF EntryToken
    <3> QED BY <3>6, <3>7
  <2> QED BY <2>3, <2>4, <2>5
<1> QED BY <1>3, <1>5, <1>6, <1>7, <1>8 DEF Published

\* An operation of the manager on one credential.
LEMMA PublishKeeps ==
  ASSUME TypeOK, SchedulerInv, NEW id \in Auths, NEW o \in Auths, manager[o] # None,
         manager[id] # None, NEW a \in AuthSet, manager' = [manager EXCEPT ![id] = a],
         a.epoch = manager[id].epoch, Ending(a),
         a = manager[id] \/ a.gen = manager[id].gen + 1,
         now' = now, registered' = registered, regEpoch' = regEpoch, UNCHANGED schedVars,
         NEW news, inflight' = inflight \cup news,
         news = {} \/ \E msg : /\ news = {msg} /\ msg.kind # "tombstone"
                              /\ msg.id = id /\ msg.auth = a,
         \A s \in Shards : \/ AgreeFrom(manager[id], a, s)
                           \/ \E msg \in news : Accounts(msg, id, s),
         \A c \in Auths : c # id => refreshDue'[c] = refreshDue[c],
         \/ refreshDue'[id] = refreshDue[id] \/ refreshDue'[id] # "idle"
         \/ \E msg \in news : msg.kind = "registration",
         a.expires = manager[id].expires \/ \E msg \in news : msg.kind = "lifecycle"
  PROVE  Published(o)'
<1>1. Published(o) /\ Published(id)
  BY DEF SchedulerInv
<1>2. CASE o # id
  <2>1. Clones(o)' = Clones(o)
    BY <1>2 DEF Clones
  <2> QED BY <1>1, <1>2, <2>1, ElsewhereKeeps DEF TypeOK, schedVars
<1>3. CASE o = id
  <2>1. Clones(id)' = Clones(id) \cup news
    BY DEF Clones
  <2>2. manager'[id] = a /\ a.epoch = 1
    BY <1>1 DEF TypeOK, Published, Ordered
  <2>3. \A msg \in news : msg.kind # "tombstone" /\ msg.auth = a
    OBVIOUS
  <2> QED BY <1>1, <1>3, <2>1, <2>2, <2>3, NewClone
<1> QED BY <1>2, <1>3

\* Every step keeps the invariant.
LEMMA NextSchedulerInv ==
  ASSUME Ops \subseteq Publishing, TypeOK, SchedulerInv, [Next]_vars
  PROVE  SchedulerInv'
<1> USE DEF Publishing
<1>1. ASSUME \A id \in Auths : manager'[id] # None => Published(id)',
             snapshot' = snapshot, now' = now
      PROVE  SchedulerInv'
  BY <1>1 DEF SchedulerInv, Forever
<1>2. ASSUME NEW id \in Auths, manager[id] # None
      PROVE  /\ manager[id] \in AuthSet /\ Ending(manager[id])
             /\ now \in Nat /\ now <= MaxTime
  BY <1>2 DEF SchedulerInv, Published, Ordered, TypeOK
<1>3. ASSUME NEW id \in Auths, NEW a, manager' = [manager EXCEPT ![id] = a],
             manager[id] # None, NEW o \in Auths, manager'[o] # None
      PROVE  manager[o] # None
  BY <1>3 DEF TypeOK
<1>4. ASSUME NEW id \in Auths, NEW m \in Models, NEW outcome \in Outcomes,
             MarkResult(id, m, outcome)
      PROVE  SchedulerInv'
  <2> DEFINE a == Bumped(After(manager[id], m, outcome))
             scoped == outcome = "credentialQuota"
             msg == ResultOf(id, a, IF scoped THEN {} ELSE {m}, scoped)
  <2>1. outcome \in {"success", "failure", "credentialQuota"} /\ manager[id] # None
    BY <1>4 DEF MarkResult, Operation, Outcomes
  <2>2. a \in AuthSet /\ a.epoch = manager[id].epoch
    BY <1>2, <2>1, OutcomeType
  <2>3. /\ a.gen = manager[id].gen + 1 /\ Ending(a) /\ a.expires = manager[id].expires
        /\ outcome # "credentialQuota" => \A s \in Models \ {m} : AgreeFrom(manager[id], a, s)
    BY <1>2, <2>1, OutcomeEffect
  <2>4. /\ manager' = [manager EXCEPT ![id] = a] /\ inflight' = inflight \cup {msg}
        /\ UNCHANGED <<now, snapshot>> /\ UNCHANGED registryVars /\ UNCHANGED schedVars
    BY <1>4 DEF MarkResult
  <2> HIDE DEF a
  <2>5. /\ msg.kind = "result" /\ msg.id = id /\ msg.auth = a
        /\ Targets(msg) = IF scoped THEN Shards ELSE {m, AnyModel}
    BY DEF ResultOf, Targets
  <2> HIDE DEF msg
  <2>6. \A s \in Shards : AgreeFrom(manager[id], a, s) \/ \E n \in {msg} : Accounts(n, id, s)
    BY <2>3, <2>5 DEF Accounts, Reaches, Shards
  <2>7. \A o \in Auths : manager[o] # None => Published(o)'
    BY <2>1, <2>2, <2>3, <2>4, <2>5, <2>6, PublishKeeps DEF registryVars
  <2> QED BY <1>1, <1>3, <2>1, <2>4, <2>7
<1>5. ASSUME NEW id \in Auths, recordAvailabilityNeutralResult(id) PROVE SchedulerInv'
  <2> DEFINE a == Bumped(manager[id])
  <2>1. manager[id] # None
    BY <1>5 DEF recordAvailabilityNeutralResult
  <2>2. /\ a \in AuthSet /\ a.epoch = manager[id].epoch /\ a.gen = manager[id].gen + 1
        /\ Ending(a) /\ a.expires = manager[id].expires
        /\ \A s \in Shards : AgreeFrom(manager[id], a, s)
    BY <1>2, <2>1, BumpedKeeps
  <2>3. /\ manager' = [manager EXCEPT ![id] = a] /\ inflight' = inflight \cup {}
        /\ UNCHANGED <<now, snapshot>> /\ UNCHANGED registryVars /\ UNCHANGED schedVars
    BY <1>5 DEF recordAvailabilityNeutralResult
  <2> HIDE DEF a
  <2>4. \A o \in Auths : manager[o] # None => Published(o)'
    BY <2>1, <2>2, <2>3, PublishKeeps DEF registryVars
  <2> QED BY <1>1, <1>3, <2>1, <2>3, <2>4
<1>6. ASSUME NEW id \in Auths, NEW expires \in Expiries, Update(id, expires)
      PROVE  SchedulerInv'
  <2> DEFINE a == Bumped(Updated(manager[id], expires))
             msg == Lifecycle(id, a)
  <2>1. manager[id] # None /\ expires \in Nat
    BY <1>6, ExpiryAssumption DEF Update
  <2>2. /\ a \in AuthSet /\ a.epoch = manager[id].epoch /\ a.gen = manager[id].gen + 1
        /\ Ending(a) /\ \A s \in Models : AgreeFrom(manager[id], a, s)
    BY <1>2, <2>1, UpdateType, UpdateEffect
  <2>3. /\ manager' = [manager EXCEPT ![id] = a] /\ inflight' = inflight \cup {msg}
        /\ UNCHANGED <<now, snapshot>> /\ UNCHANGED registryVars /\ UNCHANGED schedVars
    BY <1>6 DEF Update
  <2> HIDE DEF a
  <2>4. msg.kind = "lifecycle" /\ msg.id = id /\ msg.auth = a
    BY DEF Lifecycle
  <2> HIDE DEF msg
  <2>5. /\ \A s \in Shards : \/ AgreeFrom(manager[id], a, s)
                            \/ \E n \in {msg} : Accounts(n, id, s)
        /\ \E n \in {msg} : n.kind = "lifecycle"
    BY <2>2, <2>4 DEF Accounts, Shards
  <2>6. \A o \in Auths : manager[o] # None => Published(o)'
    BY <2>1, <2>2, <2>3, <2>4, <2>5, PublishKeeps DEF registryVars
  <2> QED BY <1>1, <1>3, <2>1, <2>3, <2>6
<1>7. ASSUME NEW id \in Auths, ReconcileRegistryModelStates(id) PROVE SchedulerInv'
  <2>1. /\ refreshDue' = [refreshDue EXCEPT ![id] = "refresh"]
        /\ UNCHANGED <<now, registered, regEpoch, snapshot>> /\ UNCHANGED schedVars
    BY <1>7 DEF ReconcileRegistryModelStates
  <2>2. CASE manager[id] = None
    <3>1. manager' = manager /\ inflight' = inflight
      BY <1>7, <2>2 DEF ReconcileRegistryModelStates
    <3>2. ASSUME NEW o \in Auths, manager[o] # None PROVE Published(o)'
      <4>1. o # id /\ Clones(o)' = Clones(o) /\ Published(o)
        BY <2>2, <3>1, <3>2 DEF Clones, SchedulerInv
      <4> QED BY <2>1, <3>1, <4>1, ElsewhereKeeps DEF TypeOK, schedVars
    <3> QED BY <1>1, <2>1, <3>1, <3>2
  <2>3. CASE manager[id] # None
    <3> DEFINE a == Reconciled(manager[id], registered[id])
               msg == Registration(id, a)
    <3>1. registered[id] \in SUBSET Models
      BY DEF TypeOK
    <3>2. /\ a \in AuthSet /\ a.epoch = manager[id].epoch /\ Ending(a)
          /\ a = manager[id] \/ a.gen = manager[id].gen + 1
          /\ a.expires = manager[id].expires
          /\ \A s \in registered[id] : AgreeFrom(manager[id], a, s)
      BY <1>2, <2>3, <3>1, ReconcileType, ReconcileEffect
    <3>3. manager' = [manager EXCEPT ![id] = a] /\ inflight' = inflight \cup {msg}
      BY <1>7, <2>3 DEF ReconcileRegistryModelStates
    <3> HIDE DEF a
    <3>4. msg.kind = "registration" /\ msg.id = id /\ msg.auth = a
      BY DEF Registration
    <3> HIDE DEF msg
    <3>5. \A s \in Shards : AgreeFrom(manager[id], a, s) \/ \E n \in {msg} : Accounts(n, id, s)
      BY <3>2, <3>4 DEF Accounts, Shards
    <3>6. /\ \A c \in Auths : c # id => refreshDue'[c] = refreshDue[c]
          /\ refreshDue'[id] # "idle"
      BY <2>1 DEF TypeOK
    <3>7. \A o \in Auths : manager[o] # None => Published(o)'
      BY <2>1, <2>3, <3>2, <3>3, <3>4, <3>5, <3>6, PublishKeeps, ZenonT(30)
    <3> QED BY <1>1, <1>3, <2>1, <2>3, <3>3, <3>7
  <2> QED BY <2>2, <2>3
<1>8. ASSUME NEW id \in Auths, RefreshSchedulerEntry(id) PROVE SchedulerInv'
  <2>1. /\ refreshDue' = [refreshDue EXCEPT ![id] = "idle"]
        /\ UNCHANGED <<now, registered, regEpoch, snapshot>> /\ manager' = manager
        /\ UNCHANGED schedVars
    BY <1>8 DEF RefreshSchedulerEntry, mgrVars
  <2>2. CASE manager[id] = None
    <3>1. inflight' = inflight
      BY <1>8, <2>2 DEF RefreshSchedulerEntry
    <3>2. ASSUME NEW o \in Auths, manager[o] # None PROVE Published(o)'
      <4>1. o # id /\ Clones(o)' = Clones(o) /\ Published(o)
        BY <2>2, <3>1, <3>2 DEF Clones, SchedulerInv
      <4> QED BY <2>1, <3>1, <4>1, ElsewhereKeeps DEF TypeOK, schedVars
    <3> QED BY <1>1, <2>1, <3>1, <3>2
  <2>3. CASE manager[id] # None
    <3> DEFINE a == manager[id]
               msg == Registration(id, a)
    <3>1. inflight' = inflight \cup {msg}
      BY <1>8, <2>3 DEF RefreshSchedulerEntry
    <3>2. msg.kind = "registration" /\ msg.id = id /\ msg.auth = a
      BY DEF Registration
    <3> HIDE DEF msg
    <3>3. /\ manager' = [manager EXCEPT ![id] = a] /\ a \in AuthSet /\ Ending(a)
          /\ a = manager[id] /\ a.expires = manager[id].expires
      BY <1>2, <2>1, <2>3 DEF TypeOK
    <3>4. \A s \in Shards : AgreeFrom(manager[id], a, s)
      BY AgreeEquivalence
    <3> HIDE DEF a
    <3>5. \A c \in Auths : c # id => refreshDue'[c] = refreshDue[c]
      BY <2>1 DEF TypeOK
    <3>6. msg.kind # "tombstone" /\ \E n \in {msg} : n.kind = "registration"
      BY <3>2
    <3>7. \A o \in Auths : manager[o] # None => Published(o)'
      BY <2>1, <2>3, <3>1, <3>2, <3>3, <3>4, <3>5, <3>6, PublishKeeps, ZenonT(30)
    <3> QED BY <1>1, <2>1, <3>7
  <2> QED BY <2>2, <2>3
<1>9. ASSUME NEW id \in Auths, NEW models \in SUBSET Models, RegisterClient(id, models)
      PROVE  SchedulerInv'
  <2>1. /\ registered' = [registered EXCEPT ![id] = models]
        /\ regEpoch' = [regEpoch EXCEPT ![id] = @ + 1]
        /\ refreshDue' = [refreshDue EXCEPT ![id] = "reconcile"]
        /\ UNCHANGED <<now, inflight, snapshot, manager>> /\ UNCHANGED schedVars
        /\ ~Registering(id)
    BY <1>9 DEF RegisterClient, mgrVars
  <2>2. ASSUME NEW o \in Auths, manager[o] # None PROVE Published(o)'
    <3>1. Published(o) /\ Clones(o)' = Clones(o)
      BY <2>1, <2>2 DEF SchedulerInv, Clones
    <3>2. CASE o # id
      BY <2>1, <3>1, <3>2, ElsewhereKeeps DEF TypeOK, schedVars
    <3>3. CASE o = id
      <4>1. Ordered(id)'
        BY <2>1, <3>1, <3>3 DEF Published, Ordered, schedVars, Ending, Tracked, Version
      <4>2. ModelsKnown(id)'
        <5>1. /\ regEpoch'[id] = regEpoch[id] + 1 /\ regEpoch[id] \in Nat
              /\ refreshDue'[id] = "reconcile" /\ meta' = meta
          BY <2>1 DEF TypeOK, schedVars
        <5>2. meta[id].regEpoch \in Nat /\ meta[id].regEpoch <= regEpoch[id]
          BY <2>2, <3>1, <3>3, LiveTypes DEF MetaSet, Published, ModelsKnown
        <5> QED BY <5>1, <5>2 DEF ModelsKnown
      <4>3. Live(id)' = Live(id)
        BY <2>1, <3>1, <3>3 DEF Live, schedVars
      <4>4. \A msg \in Clones(id), s \in Shards : Accounts(msg, id, s)' <=> Accounts(msg, id, s)
        BY <2>1 DEF Registering, Clones, Accounts, Reaches, Targets
      <4>5. LiveAccounted(id)'
        BY <2>1, <3>1, <3>3, <4>3, <4>4
        DEF Published, LiveAccounted, Accounted, AgreeFrom, Between, Free
      <4>6. \A s \in shards' : EntryAgrees(s, id)'
        BY <2>1, <3>1, <3>3, ZenonT(30)
        DEF Published, EntryAgrees, Reaches, Targets, Supports, OfferedAt, Free, Ending,
            Tracked, Stands, Follows, schedVars
      <4>7. TokensKnown(id)' /\ \A s \in shards' : EntryToken(s, id)'
        BY <2>1, <3>1, <3>3, <4>3 DEF Published, TokensKnown, EntryToken, Renewing, schedVars
      <4> QED BY <3>3, <4>1, <4>2, <4>5, <4>6, <4>7 DEF Published
    <3> QED BY <3>2, <3>3
  <2> QED BY <1>1, <2>1, <2>2
<1>10. ASSUME NEW msg \in inflight, Deliver(msg) PROVE SchedulerInv'
  <2>1. manager' = manager /\ now' = now /\ snapshot' = snapshot
    BY <1>10 DEF Deliver, mgrVars
  <2> QED BY <1>1, <1>10, <2>1, DeliveryKeeps
<1>11. ASSUME NEW s \in Shards, ensureModelLocked(s) PROVE SchedulerInv'
  <2>1. manager' = manager /\ now' = now /\ snapshot' = snapshot
    BY <1>11 DEF ensureModelLocked, mgrVars
  <2> QED BY <1>1, <1>11, <2>1, SelectionKeeps
<1>12. ASSUME Tick PROVE SchedulerInv'
  <2>1. /\ now' = now + 1 /\ now \in Nat /\ now' <= MaxTime /\ MaxTime \in Nat /\ Forever \in Nat
        /\ Forever > MaxTime
        /\ UNCHANGED <<inflight, snapshot, manager>> /\ UNCHANGED registryVars
        /\ UNCHANGED schedVars
    BY <1>12, BoundAssumption DEF Tick, TypeOK, mgrVars, Forever
  <2>2. \A t \in now'..Forever : t \in now..Forever
    BY <2>1
  <2>3. ASSUME NEW id \in Auths, manager[id] # None PROVE Published(id)'
    <3>1. Published(id) /\ Clones(id)' = Clones(id) /\ Live(id)' = Live(id)
      BY <2>1, <2>3 DEF SchedulerInv, Clones, Live, schedVars
    <3>2. Ordered(id)' /\ ModelsKnown(id)'
      BY <2>1, <3>1 DEF Published, Ordered, ModelsKnown, schedVars, registryVars, Ending,
                        Tracked, Version
    <3>3. ASSUME NEW a, NEW b, NEW s, AgreeFrom(a, b, s) PROVE AgreeFrom(a, b, s)'
      BY <2>2, <3>3 DEF AgreeFrom, Free
    <3>4. LiveAccounted(id)'
      BY <2>1, <3>1, <3>3 DEF Published, LiveAccounted, Accounted, Between, Accounts, Reaches,
                              Targets, registryVars
    <3>5. ASSUME NEW s \in shards' PROVE EntryAgrees(s, id)'
      <4>1. s \in shards /\ entries' = entries /\ meta' = meta /\ EntryAgrees(s, id)
        BY <2>1, <3>1 DEF schedVars, Published
      <4>2. entries[s][id] # None /\ Stands(entries[s][id]) => Stands(entries[s][id])'
        <5> SUFFICES ASSUME entries[s][id] # None, Stands(entries[s][id])
                     PROVE  Stands(entries[s][id])'
          OBVIOUS
        <5>1. entries[s][id].auth.expires \in Nat
          BY <4>1 DEF TypeOK, EntrySet, AuthSet
        <5> QED BY <2>1, <4>1, <5>1 DEF Stands, Ending, Tracked
      <4>3. Follows(entries[s][id], meta[id].auth, s) => Follows(entries[s][id], meta[id].auth, s)'
        BY <2>1, <2>2, <4>1 DEF Follows, OfferedAt, Free
      <4> QED BY <3>1, <4>1, <4>2, <4>3 DEF EntryAgrees, Reaches, Targets, Supports
    <3>6. TokensKnown(id)' /\ \A s \in shards' : EntryToken(s, id)'
      BY <2>1, <3>1 DEF Published, TokensKnown, EntryToken, Renewing, schedVars
    <3> QED BY <3>2, <3>4, <3>5, <3>6 DEF Published
  <2> QED BY <2>1, <2>3 DEF SchedulerInv
<1>13. ASSUME UNCHANGED vars PROVE SchedulerInv'
  <2>1. ASSUME NEW id \in Auths, manager[id] # None PROVE Published(id)'
    <3>1. Published(id) /\ Clones(id)' = Clones(id)
      BY <1>13, <2>1 DEF SchedulerInv, Clones, vars
    <3> QED BY <1>13, <3>1, ElsewhereKeeps DEF vars
  <2> QED BY <1>1, <1>13, <2>1 DEF vars
<1>14. /\ ~\E id \in Auths : ResetQuota(id) \/ Remove(id)
       /\ ~\E id \in Auths, expires \in Expiries : Register(id, expires)
       /\ ~snapshotAuths /\ ~rebuild
  BY DEF ResetQuota, Register, Remove, Operation, snapshotAuths, rebuild, SchedulerInv
<1> QED BY <1>4, <1>5, <1>6, <1>7, <1>8, <1>9, <1>10, <1>11, <1>12, <1>13, <1>14 DEF Next

LEMMA InitSchedulerInv == Init => SchedulerInv
<1> SUFFICES ASSUME NEW token \in [Auths -> Expiries], InitWith(token) PROVE SchedulerInv
  BY DEF Init
<1>1. snapshot = None /\ now <= Forever /\ now <= MaxTime
  BY BoundAssumption DEF InitWith, Forever
<1>2. ASSUME NEW id \in Auths, manager[id] # None PROVE Published(id)
  <2> DEFINE a == Fresh(1, token[id])
  <2>1. a \in AuthSet /\ a.gen = 1 /\ a.epoch = 1 /\ Ending(a)
    <3>1. a.epoch = 1 /\ a.gen = 1 /\ a \in AuthSet
      BY FreshType, ExpiryAssumption DEF Fresh
    <3>2. Ending(a)
      BY BoundAssumption DEF Fresh, Ending, Tracked, Never, Forever
    <3> QED BY <3>1, <3>2
  <2>2. /\ manager[id] = a /\ registered[id] = Models /\ regEpoch[id] = 1
        /\ authGenerations[id] = Version(a) /\ meta[id] = NewMeta(a, Models, 1)
        /\ shards = {} /\ inflight = {}
    BY <1>2 DEF InitWith, Version, Fresh
  <2> HIDE DEF a
  <2>3. /\ meta[id] # None /\ meta[id].auth = a /\ meta[id].models = Models
        /\ meta[id].regEpoch = 1
    <3>1. NewMeta(a, Models, 1) \in MetaSet
      BY <2>1, NewMetaType
    <3> QED BY <2>2, <3>1, NoneAssumption DEF NewMeta
  <2>4. Clones(id) = {} /\ Live(id) = {a}
    BY <2>2, <2>3 DEF Clones, Live
  <2>5. Ordered(id) /\ ModelsKnown(id)
    BY <2>1, <2>2, <2>3, <2>4 DEF Ordered, ModelsKnown
  <2>6. LiveAccounted(id)
    BY <2>4, AgreeEquivalence DEF LiveAccounted, Accounted
  <2>7. TokensKnown(id)
    BY <2>2, <2>4 DEF TokensKnown
  <2> QED BY <2>2, <2>5, <2>6, <2>7 DEF Published
<1> QED BY <1>1, <1>2 DEF SchedulerInv

\* The scheduler and the manager agree once nothing about a credential is on its
\* way, whatever the order of arrival, where the operations are results, updates
\* and registrations of models (upsertAuthResultLocked, upsertAuthLifecycleLocked).
THEOREM SchedulerFollowsManager ==
  ASSUME Ops \subseteq Publishing
  PROVE  Spec => []QuiescentAgreement
<1>1. TypeOK /\ SchedulerInv /\ [Next]_vars => SchedulerInv'
  BY NextSchedulerInv
<1>2. ASSUME TypeOK, SchedulerInv, RemovedStaysOut PROVE QuiescentAgreement
  <2> SUFFICES ASSUME NEW id \in Auths, Settled(id), NEW s \in shards
               PROVE  Offered(s, id) <=> Usable(s, id, TokenIn(s, id))
    BY DEF QuiescentAgreement
  <2>1. s \in Shards /\ now \in Nat
    BY <1>2 DEF TypeOK
  <2>2. CASE manager[id] = None
    <3>1. Unscheduled(id)
      BY <1>2, <2>2 DEF RemovedStaysOut, Removing, Settled
    <3> QED BY <2>1, <2>2, <3>1 DEF Unscheduled, Offered, Usable
  <2>3. CASE manager[id] # None
    <3>1. Published(id) /\ Clones(id) = {} /\ refreshDue[id] = "idle"
      BY <1>2, <2>3 DEF SchedulerInv, Settled, Clones
    <3>2. meta[id].models = registered[id]
      BY <3>1 DEF Published, ModelsKnown
    <3>3. EntryAgrees(s, id) /\ (entries[s][id] # None <=> s = AnyModel \/ s \in registered[id])
      BY <3>1, <3>2 DEF Published, EntryAgrees, Supports
    <3>4. CASE entries[s][id] = None
      BY <3>3, <3>4 DEF Offered, Usable
    <3>5. CASE entries[s][id] # None
      <4> DEFINE e == entries[s][id]
      <4>1. e \in EntrySet /\ Stands(e)
        BY <1>2, <2>1, <3>3, <3>5 DEF TypeOK, EntryAgrees
      <4>2. now \in now..Forever /\ now < Forever /\ Forever \in Nat
        BY <1>2, <2>1, BoundAssumption DEF SchedulerInv, Forever
      <4>3. Follows(e, meta[id].auth, s)
        BY <3>1, <3>3, <3>5 DEF EntryAgrees
      <4>4. AgreeFrom(meta[id].auth, manager[id], s)
        <5>1. /\ meta[id].auth \in Live(id) /\ manager[id] \in Live(id)
              /\ meta[id].auth.gen <= manager[id].gen
          BY <3>1 DEF Live, Published, Ordered
        <5> QED BY <2>1, <3>1, <5>1 DEF Published, LiveAccounted, Accounted
      <4>5. e.until = Forever \/ (OfferedAt(e, s, now) <=> Free(manager[id], s, now))
        BY <4>2, <4>3, <4>4 DEF Follows, AgreeFrom
      <4>6. ASSUME NEW expires \in Nat
            PROVE  Usable(s, id, expires) <=> ~(expires <= now) /\ Free(manager[id], s, now)
        <5> DEFINE w == [manager[id] EXCEPT !.expires = expires]
        <5>1. manager[id] \in AuthSet /\ Ending(manager[id])
          BY <1>2, <2>3, <3>1 DEF TypeOK, Published, Ordered
        <5>2. /\ w \in AuthSet /\ w.until = manager[id].until /\ w.expires = expires
              /\ w.quotaUntil = manager[id].quotaUntil /\ w.retry = manager[id].retry
              /\ w.unavailable = manager[id].unavailable /\ w.refused = manager[id].refused
              /\ w.unauthorized = manager[id].unauthorized
          BY <5>1 DEF AuthSet
        <5>3. Usable(s, id, expires) <=> BlockedUntil(w, s, now) = Never
          BY <2>3, <3>3, <3>5 DEF Usable
        <5> HIDE DEF w
        <5>4. Ending(w) /\ (Free(w, s, now) <=> Free(manager[id], s, now))
          BY <5>1, <5>2 DEF Ending, Tracked, Free, CooldownUntil
        <5>5. BlockedUntil(w, s, now) = IF expires <= now THEN Forever
                                        ELSE CooldownUntil(w, s, now)
          BY <2>1, <5>2, <5>4, BlockedBy
        <5>6. Forever # Never
          BY <2>1, <4>2 DEF Never
        <5> QED BY <5>3, <5>4, <5>5, <5>6 DEF Free
      <4>7. Offered(s, id) <=> ~(e.auth.expires <= now) /\ OfferedAt(e, s, now)
        BY <2>1, <3>5, <4>1, <4>2, OfferedNow
      <4>8. TokenIn(s, id) = e.auth.expires
        BY <2>3, <3>1, <3>5 DEF Published, EntryToken, Renewing, TokenIn, TokenMissed
      <4>9. e.auth.expires \in Nat /\ (~(e.auth.expires <= now) => e.until # Forever)
        BY <4>1, <4>2 DEF Stands, EntrySet, AuthSet
      <4> QED BY <4>5, <4>6, <4>7, <4>8, <4>9
    <3> QED BY <3>4, <3>5
  <2> QED BY <2>2, <2>3
<1>3. TypeOK /\ SchedulerInv /\ RemovedStaysOut => QuiescentAgreement
  BY <1>2
<1>4. Spec => []TypeOK /\ []RemovedStaysOut
  BY TypeCorrect, RemovedCredentialsStayOut, PTL
<1> QED BY <1>1, <1>3, <1>4, InitSchedulerInv, PTL DEF Spec
=============================================================================
