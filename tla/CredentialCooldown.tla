------------------------- MODULE CredentialCooldown -------------------------
(***************************************************************************)
(* The cooldown state of one credential: how the outcomes reported to      *)
(* Manager.MarkResult block and free its models, how a credential-scoped   *)
(* quota reaches all of them, and how that state is saved to the cooldown  *)
(* store and restored after a crash or at a configuration reload.          *)
(* Every action that changes `auth' runs under Manager.mu in the code and  *)
(* is one step here; the write of the store file happens after the unlock  *)
(* and is a step of its own.                                               *)
(***************************************************************************)
EXTENDS Integers, FiniteSets, FiniteSetsExt

CONSTANTS Models, Absent,      \* model keys; "no entry" in a map or a file
          QuotaBase, QuotaMax, QuotaFloor,   \* backoff ladder and its floor
          AuthCooldown, SupportCooldown,     \* 30 minutes and 12 hours
          TransientCooldown,                 \* transient-error-cooldown
          TransientDisabled,                 \* it is set to -1
          Hints,                             \* Retry-After values upstream sends
          Longest,                           \* the longest of all these durations
          KindsSeen,                         \* failure kinds upstream produces
          ModelLess,                         \* outcomes that name no model happen
          MaxTime, MaxResults, MaxReloads, MaxCrashes    \* bounds on the run

ASSUME DurationAssumption ==
  /\ {QuotaBase, QuotaMax, QuotaFloor, AuthCooldown, SupportCooldown,
      TransientCooldown} \subseteq Nat \ {0}
  /\ Hints \subseteq Nat \ {0}
  /\ QuotaBase <= QuotaMax
  /\ Longest \in Nat
  /\ \A d \in Hints \cup {QuotaMax, QuotaFloor, AuthCooldown, SupportCooldown,
                         TransientCooldown} : d <= Longest
ASSUME ModelsAssumption == Absent \notin Models /\ IsFiniteSet(Models)
ASSUME BoundAssumption ==
  /\ MaxTime \in Nat \ {0} /\ {MaxResults, MaxReloads, MaxCrashes} \subseteq Nat
  /\ TransientDisabled \in BOOLEAN /\ ModelLess \in BOOLEAN

VARIABLES now,          \* the clock; 0 is the zero time.Time
          auth,         \* the credential's availability fields
          coolingOff,   \* disable-cooling applies to this credential
          pending,      \* an outcome has still to write the store file
          file,         \* the live records the store file holds
          reload,       \* where a configuration reload stands
          loaded,       \* the records a reload has read from the file
          up,           \* the process runs
          atCrash,      \* what a crash interrupted (history)
          results, reloads, crashes          \* counters of the bounds

vars == <<now, auth, coolingOff, pending, file, reload, loaded, up, atCrash,
          results, reloads, crashes>>

Kinds == {"unauthorized", "payment", "notFound", "quota", "cloudflare",
          "transient"}
ASSUME KindsAssumption == KindsSeen \subseteq Kinds

Zero == 0
\* What a failure report tells MarkResult. Only 429 is credential-scoped, and
\* only 429 and transient errors carry a Retry-After.
Failures ==
  {f \in [kind : KindsSeen, hint : Hints \cup {Zero}, credentialScope : BOOLEAN,
          force : BOOLEAN] :
     /\ f.credentialScope => f.kind = "quota"
     /\ f.hint # Zero => f.kind \in {"quota", "transient"}}
Horizon == MaxTime + Longest   \* no deadline is later
Forever == Horizon + 1         \* blocked with no time of return

-----------------------------------------------------------------------------
\* QuotaState, ModelState and the availability fields of Auth.

CleanQuota == [exceeded |-> FALSE, reason |-> "", recover |-> Zero, level |-> 0]
CleanCell == [unavailable |-> FALSE, failed |-> FALSE, err |-> "none",
              retry |-> Zero, quota |-> CleanQuota]
FreshAuth == [cell |-> CleanCell, states |-> [m \in Models |-> Absent]]
Tracked(a) == {m \in Models : a.states[m] # Absent}
State(a, m) == IF a.states[m] = Absent THEN CleanCell ELSE a.states[m]

MaxOf(S) == Max(S \cup {Zero})
EarliestOf(S) == IF S \ {Zero} = {} THEN Zero ELSE Min(S \ {Zero})

ErrorClass(kind) == IF kind = "unauthorized" THEN "unauthorized" ELSE "other"

-----------------------------------------------------------------------------
\* The cooldown a failure earns.

\* Seeded fault: the ladder keeps climbing at its last rung.
nextQuotaCooldownUncapped(level) ==
  [wait |-> Min({QuotaBase * 2^level, QuotaMax}), level |-> level + 1]

nextQuotaCooldown(level) ==
  LET cooldown == QuotaBase * 2^level
  IN  IF cooldown >= QuotaMax THEN [wait |-> QuotaMax, level |-> level]
                              ELSE [wait |-> cooldown, level |-> level + 1]

\* Seeded fault: an open window is not reused.
quotaCooldownEscalates(q) ==
  LET next == nextQuotaCooldown(q.level)
  IN  [until |-> now + next.wait, level |-> next.level]

\* A quota failure inside an open window reuses the window.
quotaCooldownAfterFailure(q) ==
  IF q.recover > now
  THEN [until |-> q.recover, level |-> q.level]
  ELSE LET next == nextQuotaCooldown(q.level)
       IN  [until |-> now + next.wait, level |-> next.level]

nextCloudflareCooldown(q, off) ==
  IF off THEN [until |-> Zero, level |-> q.level]
  ELSE LET next == nextQuotaCooldown(q.level)
       IN  [until |-> now + MaxOf({next.wait, QuotaFloor}), level |-> next.level]

\* A deadline already held by the quota window (held) is kept if it is later.
quotaFailure(q, hint, off, held) ==
  IF off THEN [until |-> Zero, level |-> q.level]
  ELSE LET next == IF hint # Zero
                   THEN [until |-> now + MaxOf({hint, QuotaFloor}), level |-> q.level]
                   ELSE quotaCooldownAfterFailure(q)
       IN  [next EXCEPT !.until = IF held THEN MaxOf({@, q.recover}) ELSE @]

recoverableFailureRetryAfter(hint, off) ==
  IF off \/ TransientDisabled THEN Zero
  ELSE now + (IF hint # Zero THEN hint ELSE TransientCooldown)

\* The availability of a cell (a model's state, or the credential's own) after
\* the branch of the status switch, before the closing adjustments.
Penalised(c, kind, hint, off, held) ==
  LET base == [c EXCEPT !.unavailable = TRUE, !.failed = TRUE,
                        !.err = ErrorClass(kind)]
      Fixed(d) == [base EXCEPT !.retry = IF off THEN Zero ELSE now + d]
      Counted(next, reason) ==
        [base EXCEPT !.retry = next.until,
                     !.quota = [exceeded |-> TRUE, reason |-> reason,
                                recover |-> next.until, level |-> next.level]]
      transient == recoverableFailureRetryAfter(hint, off)
  IN  CASE kind \in {"unauthorized", "payment"} -> Fixed(AuthCooldown)
        [] kind = "notFound"   -> Fixed(SupportCooldown)
        [] kind = "quota"      -> Counted(quotaFailure(c.quota, hint, off, held), "quota")
        [] kind = "cloudflare" -> Counted(nextCloudflareCooldown(c.quota, off), "cloudflare")
        [] kind = "transient"  -> [base EXCEPT !.retry = transient,
                                               !.unavailable = transient # Zero]

\* Seeded fault: nothing is relaxed.
NotRelaxed(c, off) == c

\* With cooling disabled a failure leaves nothing blocked.
Relaxed(c, off) ==
  IF off /\ c.retry = Zero /\ c.quota.recover = Zero
  THEN [c EXCEPT !.unavailable = FALSE, !.quota.exceeded = FALSE] ELSE c

\* ErrorCodeForceCooldown always earns a cooldown.
Forced(c, force) ==
  IF force /\ c.retry = Zero
  THEN [c EXCEPT !.retry = now + TransientCooldown, !.unavailable = TRUE] ELSE c

\* Seeded fault: the earlier deadline is forgotten.
NotExtended(c, previous) == c

\* A later failure only extends a live deadline; a zero write clears it.
Extended(c, previous) ==
  IF c.retry # Zero /\ previous > now
  THEN [c EXCEPT !.retry = MaxOf({@, previous})] ELSE c

-----------------------------------------------------------------------------
\* From the states of the models to the availability of the credential.

CredentialQuotaOpen(a, t) ==
  /\ a.cell.quota.reason = "credential_quota"
  /\ a.cell.quota.recover > t

\* Seeded fault: the flag outlives its deadline.
ExpireDeadlineOnly(c) ==
  IF c.unavailable /\ c.retry # Zero /\ c.retry <= now
  THEN [c EXCEPT !.retry = Zero] ELSE c

\* An expired deadline is dropped when it is met.
Expire(c) ==
  IF c.unavailable /\ c.retry # Zero /\ c.retry <= now
  THEN [c EXCEPT !.unavailable = FALSE, !.retry = Zero] ELSE c
ExpireState(a, m) == IF a.states[m] = Absent THEN Absent ELSE Expire(a.states[m])

updateAggregatedAvailability(a) ==
  LET tracked == {a.states[m] : m \in Tracked(a)}
      Live(c) == c.unavailable /\ c.retry > now
      everyModel == \A c \in tracked : Live(c)
      exceeded == {c.quota : c \in {t \in tracked : t.quota.exceeded}}
      stillOpen == a.cell.quota.exceeded /\ a.cell.quota.recover > now
      quota == IF exceeded # {}
               THEN [exceeded |-> TRUE, reason |-> "quota",
                     recover |-> MaxOf({a.cell.quota.recover,
                                        EarliestOf({q.recover : q \in exceeded})}),
                     level |-> MaxOf({q.level : q \in exceeded})]
               ELSE IF stillOpen THEN a.cell.quota ELSE CleanQuota
  IN  IF a.cell.quota.exceeded /\ CredentialQuotaOpen(a, now)
      THEN [a EXCEPT !.cell.unavailable = TRUE]
      ELSE IF tracked = {}
      THEN [a EXCEPT !.cell.unavailable = FALSE, !.cell.retry = Zero,
                     !.cell.quota = CleanQuota]
      ELSE [a EXCEPT !.cell.unavailable = everyModel,
                       !.cell.retry = IF everyModel
                                      THEN EarliestOf({c.retry : c \in tracked})
                                      ELSE Zero,
                       !.cell.quota = quota,
                       !.states = [m \in Models |-> ExpireState(a, m)]]

hasModelError(a) ==
  \E m \in Tracked(a) :
     LET c == a.states[m]
     IN  \/ c.err # "none"
         \/ c.failed /\ c.unavailable /\ (c.retry = Zero \/ c.retry > now)

\* A credential-scoped quota reaches every model that has a state. It extends
\* a model's own deadlines, never shortens them.
Spread(a, source) ==
  LET c == a.states[source]
      Reached(other) ==
        LET recover == IF other.quota.exceeded
                       THEN MaxOf({c.quota.recover, other.quota.recover})
                       ELSE c.quota.recover
        IN  [other EXCEPT !.unavailable = TRUE, !.failed = TRUE,
                          !.retry = MaxOf({@, recover}),
                          !.quota = [exceeded |-> TRUE, reason |-> "credential_quota",
                                     recover |-> recover, level |-> c.quota.level]]
      until == MaxOf({c.quota.recover, a.cell.quota.recover})
  IN  [cell |-> [a.cell EXCEPT !.unavailable = TRUE, !.retry = until,
                               !.quota.exceeded = TRUE,
                               !.quota.reason = "credential_quota",
                               !.quota.recover = until],
       states |-> [m \in Models |-> IF m = source \/ m \notin Tracked(a)
                                    THEN a.states[m] ELSE Reached(a.states[m])]]

-----------------------------------------------------------------------------
\* What the selector reads: until when a model of the credential is blocked,
\* as seen at time t.

availabilityBlock(c, exceeded, t) ==
  LET deadlines == {c.retry, c.quota.recover} \ {Zero}
  IN  IF ~c.unavailable /\ ~exceeded THEN Zero
      ELSE IF deadlines = {} THEN Forever ELSE MaxOf({d \in deadlines : d > t})

\* What the query reads besides, kept by the refresh of tokens (AutoRefresh):
\* when the access token runs out, Forever for one that does not, and whether
\* NextRefreshAfter is set. Nothing in this module writes either.
Tokens == [expires : 1..Forever, refreshLater : BOOLEAN]
LastingToken == [expires |-> Forever, refreshLater |-> FALSE]

Refused(a) == a.cell.unavailable /\ a.cell.failed /\ a.cell.err = "unauthorized"
hasUnauthorizedAuthFailure(a, token) == Refused(a) /\ ~token.refreshLater

\* Seeded fault: a model without a state falls back on the aggregated fields.
blockedByAggregate(a, token, m, t) ==
  IF hasUnauthorizedAuthFailure(a, token) \/ token.expires <= t THEN Forever
  ELSE IF m \in Tracked(a)
       THEN availabilityBlock(a.states[m], a.states[m].quota.exceeded, t)
       ELSE availabilityBlock(a.cell, a.cell.quota.exceeded, t)

isAuthBlockedForModel(a, token, m, t) ==
  IF hasUnauthorizedAuthFailure(a, token) \/ token.expires <= t THEN Forever
  ELSE IF a.cell.quota.exceeded /\ CredentialQuotaOpen(a, t) THEN a.cell.quota.recover
  ELSE IF Tracked(a) = {} THEN availabilityBlock(a.cell, a.cell.quota.exceeded, t)
  ELSE IF m \in Tracked(a)
       THEN availabilityBlock(a.states[m], a.states[m].quota.exceeded, t)
       ELSE Zero

\* The future instants at which m is not selectable if nothing more happens,
\* as long as its token is good.
BlockedTimes(m) ==
  {t \in now..Horizon : isAuthBlockedForModel(auth, LastingToken, m, t) # Zero}

-----------------------------------------------------------------------------
\* Records of the cooldown store.

\* Seeded fault: a record without the quota.
RecordWithoutQuota(c) ==
  IF c.unavailable /\ c.retry > now /\ ~coolingOff
  THEN [retry |-> c.retry, quota |-> CleanQuota, err |-> c.err] ELSE Absent

Record(c) ==
  IF c.unavailable /\ c.retry > now /\ ~coolingOff
  THEN [retry |-> c.retry, quota |-> c.quota, err |-> c.err] ELSE Absent
cooldownStateRecords(a) ==
  [cell |-> Record(a.cell), states |-> [m \in Models |-> Record(State(a, m))]]
\* An open quota window ends with its cell's deadline or before. Where cooling
\* is disabled an outcome may clear the deadline and keep the window, and no
\* record is written of the cell.
WindowInside(c) == c.quota.recover > now => c.retry >= c.quota.recover
NoRecords == [cell |-> Absent, states |-> [m \in Models |-> Absent]]

\* A record merged into a model's state: the later deadlines win, the cause is
\* the existing state's when there is one.
mergeModelState(c, existed, r) ==
  LET preferred == IF existed THEN c ELSE [c EXCEPT !.err = r.err, !.quota = r.quota]
  IN  [unavailable |-> TRUE, failed |-> TRUE,
       err |-> IF preferred.err # "none" THEN preferred.err ELSE r.err,
       retry |-> MaxOf({c.retry, r.retry}),
       quota |-> [exceeded |-> c.quota.exceeded \/ r.quota.exceeded,
                  reason |-> IF preferred.quota.reason # "" THEN preferred.quota.reason
                             ELSE r.quota.reason,
                  recover |-> MaxOf({c.quota.recover, r.quota.recover}),
                  level |-> MaxOf({c.quota.level, r.quota.level})]]

Restorable(r) == r # Absent /\ r.retry > now /\ ~coolingOff
Completed(r) == IF r.quota.exceeded /\ r.quota.recover = Zero
                THEN [r EXCEPT !.quota.recover = r.retry] ELSE r

restoreModel(a, m, r) ==
  updateAggregatedAvailability(
    [a EXCEPT !.states[m] = mergeModelState(State(a, m), m \in Tracked(a), r)])
\* Seeded fault: the credential's record loses its quota.
restoreCredentialDeadline(a, r) ==
  [a EXCEPT !.cell = [unavailable |-> TRUE, failed |-> TRUE, err |-> r.err,
                      retry |-> r.retry, quota |-> a.cell.quota]]
restoreCredential(a, r) ==
  [a EXCEPT !.cell = [unavailable |-> TRUE, failed |-> TRUE, err |-> r.err,
                      retry |-> r.retry, quota |-> r.quota]]

\* Model records first, the credential's own record last.
RestoreCooldownStates(a, records) ==
  LET OfModel(m, b) == IF Restorable(records.states[m])
                       THEN restoreModel(b, m, Completed(records.states[m])) ELSE b
      withModels == FoldSet(OfModel, a, Models)
  IN  IF Restorable(records.cell)
      THEN restoreCredential(withModels, Completed(records.cell)) ELSE withModels

clearCooldownStateForAuth(a) ==
  LET Dirty(c) == \/ c.unavailable \/ c.retry # Zero
                  \/ c.quota.exceeded \/ c.quota.recover # Zero
      Cleared(c) == IF Dirty(c) THEN [c EXCEPT !.unavailable = FALSE, !.retry = Zero,
                                               !.quota = CleanQuota] ELSE c
      b == [cell |-> Cleared(a.cell),
            states |-> [m \in Models |-> IF a.states[m] = Absent THEN Absent
                                         ELSE Cleared(a.states[m])]]
  IN  IF Tracked(a) = {} THEN b ELSE updateAggregatedAvailability(b)

-----------------------------------------------------------------------------
Init ==
  /\ now = 1 /\ auth = FreshAuth /\ coolingOff = FALSE
  /\ pending = FALSE /\ file = NoRecords
  /\ reload = "idle" /\ loaded = NoRecords
  /\ up = TRUE /\ atCrash = Absent
  /\ results = 0 /\ reloads = 0 /\ crashes = 0

\* The records changed: MarkResult and ResetQuota write the store afterwards.
Record2File(a) == pending' = (pending \/ cooldownStateRecords(a) # cooldownStateRecords(auth))

Outcome(a) ==
  /\ up /\ results < MaxResults
  /\ auth' = a /\ Record2File(a)
  /\ results' = results + 1 /\ atCrash' = Absent
  /\ UNCHANGED <<now, coolingOff, file, reload, loaded, up, reloads, crashes>>

\* Seeded fault: a success keeps the quota window of its model.
SuccessKeepsQuota(m) ==
  Outcome(updateAggregatedAvailability(
            [auth EXCEPT !.states[m] = [CleanCell EXCEPT !.quota = State(auth, m).quota]]))

\* An open credential quota outlives the success of a request that was
\* already in flight.
Success(m) ==
  LET b == updateAggregatedAvailability([auth EXCEPT !.states[m] = CleanCell])
  IN  Outcome(IF CredentialQuotaOpen(auth, now) THEN auth
              ELSE IF hasModelError(b) THEN b
              ELSE [b EXCEPT !.cell.err = "none", !.cell.failed = FALSE])

SuccessWithoutModel ==
  /\ ModelLess
  /\ Outcome(IF CredentialQuotaOpen(auth, now) THEN auth ELSE [auth EXCEPT !.cell = CleanCell])

Failure(m, f) ==
  LET off == coolingOff /\ ~f.force
      c == State(auth, m)
      penalised == Penalised(c, f.kind, f.hint, off, c.quota.exceeded)
      b == [auth EXCEPT !.states[m] = penalised, !.cell.err = ErrorClass(f.kind)]
      spread == IF f.credentialScope /\ ~off THEN Spread(b, m) ELSE b
      final == Extended(Forced(Relaxed(penalised, off), f.force), c.retry)
  IN  Outcome(updateAggregatedAvailability(
                [spread EXCEPT !.states[m] = final, !.cell.failed = TRUE]))

\* applyAuthFailureState: the credential's own cell.
FailureWithoutModel(f) ==
  LET off == coolingOff /\ ~f.force
      c == auth.cell
      penalised == Penalised(c, f.kind, f.hint, off, TRUE)
  IN  /\ ModelLess
      /\ Outcome([auth EXCEPT !.cell =
                   Relaxed(Forced(Extended(penalised, c.retry), f.force), off)])

ResetQuota ==
  LET reset == [auth EXCEPT !.states =
                  [m \in Models |-> IF auth.states[m] = Absent THEN Absent ELSE CleanCell]]
      b == clearCooldownStateForAuth(reset)
      c == IF Tracked(b) = {} THEN b ELSE updateAggregatedAvailability(b)
  IN  Outcome(IF hasModelError(c) THEN c
              ELSE [c EXCEPT !.cell.err = "none", !.cell.failed = FALSE])

-----------------------------------------------------------------------------
\* The store file and configuration reloads.

persistCooldownStates ==
  /\ up /\ pending /\ reload # "write"
  /\ pending' = FALSE
  /\ file' \in {cooldownStateRecords(auth), file}   \* a failed write is only logged
  /\ UNCHANGED <<now, auth, coolingOff, reload, loaded, up, atCrash, results, reloads, crashes>>

\* setConfigSnapshotLocked publishes the configuration, then clears.
StoreConfig(off) ==
  /\ up /\ reload = "idle" /\ reloads < MaxReloads
  /\ coolingOff' = off /\ reload' = "clear" /\ reloads' = reloads + 1
  /\ atCrash' = Absent
  /\ UNCHANGED <<now, auth, pending, file, loaded, up, results, crashes>>

clearDisabledCooldownStates ==
  /\ up /\ reload = "clear"
  /\ auth' = IF coolingOff THEN clearCooldownStateForAuth(auth) ELSE auth
  /\ reload' = "write"
  /\ UNCHANGED <<now, coolingOff, pending, file, loaded, up, atCrash, results, reloads, crashes>>

\* A failed write ends the reload before anything is restored.
ApplyConfigWithCooldownStateStore ==
  /\ up /\ reload = "write"
  /\ \/ file' = cooldownStateRecords(auth) /\ reload' = "load"
     \/ file' = file /\ reload' = "idle"
  /\ UNCHANGED <<now, auth, coolingOff, pending, loaded, up, atCrash, results, reloads, crashes>>

LoadRecords ==
  /\ up /\ reload = "load"
  /\ loaded' = file
  /\ reload' = IF file = NoRecords THEN "idle" ELSE "merge"
  /\ UNCHANGED <<now, auth, coolingOff, pending, file, up, atCrash, results, reloads, crashes>>

MergeRecords ==
  /\ up /\ reload = "merge"
  /\ auth' = RestoreCooldownStates(auth, loaded)
  /\ loaded' = NoRecords /\ reload' = "idle" /\ pending' = TRUE
  /\ UNCHANGED <<now, coolingOff, file, up, atCrash, results, reloads, crashes>>

Crash ==
  /\ up /\ crashes < MaxCrashes
  /\ up' = FALSE /\ crashes' = crashes + 1
  /\ atCrash' = [blocked |-> [m \in Models |-> BlockedTimes(m)],
                 unauthorized |-> Refused(auth),
                 saved |-> /\ ~coolingOff /\ file = cooldownStateRecords(auth)
                           /\ \A m \in Tracked(auth) : WindowInside(auth.states[m])
                           /\ WindowInside(auth.cell)]
  /\ auth' = FreshAuth /\ pending' = FALSE
  /\ reload' = "idle" /\ loaded' = NoRecords
  /\ UNCHANGED <<now, coolingOff, file, results, reloads>>

\* Load registers the credential without runtime state, then the records
\* are restored before the first request.
Restart ==
  /\ ~up
  /\ up' = TRUE
  /\ auth' = RestoreCooldownStates(FreshAuth, file)
  /\ pending' = (file # NoRecords)
  /\ UNCHANGED <<now, coolingOff, file, reload, loaded, atCrash, results, reloads, crashes>>

Tick ==
  /\ now < MaxTime
  /\ now' = now + 1
  /\ UNCHANGED <<auth, coolingOff, pending, file, reload, loaded, up, atCrash,
                 results, reloads, crashes>>

Next ==
  \/ \E m \in Models : Success(m)
  \/ \E m \in Models, f \in Failures : Failure(m, f)
  \/ SuccessWithoutModel
  \/ \E f \in Failures : FailureWithoutModel(f)
  \/ ResetQuota
  \/ persistCooldownStates
  \/ \E off \in BOOLEAN : StoreConfig(off)
  \/ clearDisabledCooldownStates \/ ApplyConfigWithCooldownStateStore
  \/ LoadRecords \/ MergeRecords
  \/ Crash \/ Restart \/ Tick

Spec == Init /\ [][Next]_vars

-----------------------------------------------------------------------------
\* The ladder has a rung for every cooldown below QuotaMax and one above.
Rungs == {n \in 0..QuotaMax : n = 0 \/ QuotaBase * 2^(n - 1) < QuotaMax}
Quota == [exceeded : BOOLEAN, recover : 0..Horizon, level : Rungs,
          reason : {"", "quota", "cloudflare", "credential_quota"}]
Errors == {"none", "unauthorized", "other"}
Cell == [unavailable : BOOLEAN, failed : BOOLEAN, err : Errors,
         retry : 0..Horizon, quota : Quota]
RecordSet == [retry : 0..Horizon, quota : Quota, err : Errors]
Records == RecordSet \cup {Absent}
RecordFile == [cell : Records, states : [Models -> Records]]
AuthSet == [cell : Cell, states : [Models -> Cell \cup {Absent}]]
CrashSet == [blocked : [Models -> SUBSET (1..Horizon)], unauthorized : BOOLEAN, saved : BOOLEAN]
ASSUME AbsentAssumption == Absent \notin Cell \cup RecordSet \cup CrashSet

\* Type invariant; among it, the backoff level never climbs past the last rung
\* of the ladder (nextQuotaCooldown shifts by it).
TypeOK ==
  /\ now \in 1..MaxTime
  /\ auth \in AuthSet
  /\ coolingOff \in BOOLEAN /\ pending \in BOOLEAN /\ up \in BOOLEAN
  /\ file \in RecordFile /\ loaded \in RecordFile
  /\ reload \in {"idle", "clear", "write", "load", "merge"}
  /\ atCrash \in CrashSet \cup {Absent}
  /\ results \in 0..MaxResults /\ reloads \in 0..MaxReloads /\ crashes \in 0..MaxCrashes

\* Cooling applies to the failure f.
Cooled(f) == ~coolingOff \/ f.force

\* Whatever mix of deadlines, quota windows and credential-wide quotas is in
\* force, a further failure of one model never makes any model selectable at
\* an instant at which it was blocked. (A credential blocked as unauthorized
\* is left out: MarkResult forgets that error at the next failure; and with
\* transient-error-cooldown set to -1 a transient failure clears a deadline.)
FailureNeverFrees ==
  [][(/\ results' > results /\ ~Refused(auth)
      /\ \E o \in Models : ~(BlockedTimes(o) \subseteq BlockedTimes(o)'))
       => ~\E m \in Models, f \in Failures : Cooled(f) /\ Failure(m, f)]_vars

\* A failure that is neither credential-scoped nor unauthorized blocks its own
\* model only, although it rewrites the credential's aggregated fields.
FailureIsolated ==
  [][results' > results =>
       \A o \in Models : ~(BlockedTimes(o)' \subseteq BlockedTimes(o)) =>
         ~\E m \in Models \ {o}, f \in Failures :
            ~f.credentialScope /\ f.kind # "unauthorized" /\ Failure(m, f)]_vars

\* A success makes its model selectable at once and leaves the other models
\* as they were; under an open credential quota it frees nothing.
SuccessFreesItsModelOnly ==
  [][\A m \in Models : results' > results /\ Success(m) =>
       /\ CredentialQuotaOpen(auth, now) \/ BlockedTimes(m)' = {}
       /\ \A o \in Models \ {m} :
            Refused(auth) \/ BlockedTimes(o)' = BlockedTimes(o)]_vars

\* Whatever token the credential holds, a model is blocked without a time at
\* which it comes back only if the token has run out, or if the credential was
\* refused as unauthorized and no refresh is set for later: a renewed token
\* leaves nothing blocked for good.
NoWedge ==
  \A m \in Models, token \in Tokens :
     isAuthBlockedForModel(auth, token, m, Horizon) # Zero =>
       hasUnauthorizedAuthFailure(auth, token) \/ token.expires <= Horizon

\* A burst of quota failures climbs the backoff ladder once per open window;
\* only a Cloudflare challenge, or a sibling's level spread by a credential
\* quota, moves it while the window is open.
LadderRisesOncePerWindow ==
  [][\A m \in Models :
       (/\ results' > results /\ State(auth, m).quota.recover > now
        /\ State(auth', m).quota.level > State(auth, m).quota.level)
       => \E f \in Failures : \/ f.kind = "cloudflare" /\ Failure(m, f)
                              \/ f.credentialScope
                                   /\ \E o \in Models \ {m} : Failure(o, f)]_vars

\* From the moment a configuration that disables cooling is published, no
\* failure of a model blocks anything unless it is forced or an unauthorized
\* one, whatever deadlines earlier or forced failures have left.
DisabledCoolingBlocksNothing ==
  [][(/\ coolingOff /\ results' > results
      /\ \E o \in Models : ~(BlockedTimes(o)' \subseteq BlockedTimes(o)))
       => ~\E f \in Failures, m \in Models :
            ~f.force /\ f.kind # "unauthorized" /\ Failure(m, f)]_vars

\* A crash after the file was written loses no block: after the restart every
\* model is blocked exactly when it would have been, and at least so when the
\* credential may also have failed without a model. (A quota window that has
\* outlived its deadline is in no record and ends with the crash.)
RestartKeepsBlocks ==
  up /\ atCrash # Absent /\ atCrash.saved /\ ~atCrash.unauthorized =>
    \A m \in Models :
      LET held == atCrash.blocked[m] \cap now..Horizon
      IN  held \subseteq BlockedTimes(m) /\ (~ModelLess => BlockedTimes(m) = held)

\* A configuration reload that restores records nothing has overtaken leaves
\* every model exactly as selectable as it was. (It aggregates the credential
\* again, which brings back an unauthorized failure that disabled cooling had
\* kept from blocking.)
ReloadChangesNothing ==
  [][(/\ reload = "merge" /\ MergeRecords
      /\ loaded = cooldownStateRecords(auth) /\ ~Refused(auth)
      /\ ModelLess => auth.cell.err # "unauthorized")
       => \A m \in Models : BlockedTimes(m)' = BlockedTimes(m)]_vars

=============================================================================
